------------------------ MODULE SharedCounterProofs -------------------------
(* Theorems about SharedCounter for any number of threads and iterations.    *)
EXTENDS SharedCounter, FiniteSetTheorems, TLAPS

\* Both loops take the lock, around each iteration or around all of them.
Locked == Parameters /\ "none" \notin {IncLock, DecLock}

-----------------------------------------------------------------------------
\* A thread in its loop has iterations left, and one main has not created yet
\* has not moved.
Heads ==
    /\ \A t \in Threads :
          pc[t] \in {"new", "lock", "load", "store"} => count[t] < Rounds
    /\ \A t \in Threads : t >= created => pc[t] = "new"

Typed == TypeOK /\ Heads

LEMMA TypedInit == Parameters /\ Init => Typed
BY DEF Parameters, Init, Typed, TypeOK, Heads, Threads, Nobody

LEMMA TypedWork ==
  ASSUME Parameters, Typed, NEW t \in Threads, Work(t)
  PROVE  Typed'
<1> USE DEF Parameters, Typed, TypeOK, Heads, main
<1>1. CASE Lock(t)
  BY <1>1 DEF Lock
<1>2. CASE Load(t)
  BY <1>2 DEF Load
<1>3. CASE Store(t)
  <2>1. AfterStore(t) \in {"load", "unlock", "done"}
    BY DEF AfterStore
  <2>2. AfterStore(t) = "load" => count[t] + 1 < Rounds
    BY DEF AfterStore, Again
  <2>3. Delta(t) \in Int
    BY DEF Delta
  <2> QED
    BY <1>3, <2>1, <2>2, <2>3, SMTT(30) DEF Store, Threads
<1>4. CASE Unlock(t)
  BY <1>4 DEF Unlock
<1> QED
  BY <1>1, <1>2, <1>3, <1>4 DEF Work

LEMMA TypedMain ==
  ASSUME Parameters
  PROVE  Typed /\ (Create \/ Join \/ UNCHANGED vars) => Typed'
<1> USE DEF Parameters, Typed, TypeOK, Heads, thread, main
<1>1. ASSUME Typed, Create PROVE Typed'
  <2>1. created \in Threads /\ pc[created] = "new"
    BY <1>1 DEF Create, Threads
  <2> QED
    BY <1>1, <2>1 DEF Create, Threads
<1>2. ASSUME Typed, Join PROVE Typed'
  BY <1>2 DEF Join
<1>3. ASSUME Typed, UNCHANGED vars PROVE Typed'
  BY <1>3 DEF vars
<1> QED
  BY <1>1, <1>2, <1>3

LEMMA TypedAlways == ASSUME Parameters PROVE Spec => []Typed
<1>1. Typed /\ [Next]_vars => Typed'
  BY TypedWork, TypedMain DEF Next, Printed
<1> QED
  BY <1>1, TypedInit, PTL DEF Spec

\* Types are respected with and without the lock: no loop runs beyond Rounds.
THEOREM TypeCorrect == ASSUME Parameters PROVE Spec => []TypeOK
<1>1. Typed => TypeOK
  BY DEF Typed
<1> QED
  BY <1>1, TypedAlways, PTL

-----------------------------------------------------------------------------
\* What a thread has loaded is still the value of num when it stores.
Fresh == \A t \in Threads : pc[t] = "store" => reg[t] = num

IInv == Exclusive /\ Fresh

LEMMA IInvInit == Init => IInv
BY DEF Init, IInv, Exclusive, Fresh

LEMMA IInvWork ==
  ASSUME Locked, Typed, IInv, NEW t \in Threads, Work(t)
  PROVE  IInv'
<1> USE DEF Typed, TypeOK, IInv, Exclusive, Fresh, main
<1>0. Nobody \notin Threads
  BY DEF Nobody, Threads
<1>1. CASE Lock(t)
  BY <1>0, <1>1 DEF Lock
<1>2. CASE Load(t)
  BY <1>2 DEF Load
<1>3. CASE Store(t)
  <2>1. AfterStore(t) \in {"load", "unlock"}
    BY DEF AfterStore, Mode, Locked, Parameters
  <2>2. \A u \in Threads \ {t} : pc[u] \notin {"load", "store", "unlock"}
    BY <1>3 DEF Store
  <2> QED
    BY <1>3, <2>1, <2>2 DEF Store
<1>4. CASE Unlock(t)
  <2>1. \A u \in Threads \ {t} : pc[u] \notin {"load", "store", "unlock"}
    BY <1>4 DEF Unlock
  <2> QED
    BY <1>4, <2>1 DEF Unlock
<1> QED
  BY <1>1, <1>2, <1>3, <1>4 DEF Work

LEMMA IInvMain ==
  ASSUME Locked, Typed, IInv, Create \/ Join \/ UNCHANGED vars
  PROVE  IInv'
<1> USE DEF Typed, TypeOK, IInv, Exclusive, Fresh, thread, main
<1>1. CASE Create
  <2>1. created \in Threads /\ Mode(created) # "none"
    BY <1>1 DEF Create, Threads, Mode, Locked, Parameters
  <2> QED
    BY <1>1, <2>1 DEF Create
<1>2. CASE Join
  BY <1>2 DEF Join
<1>3. CASE UNCHANGED vars
  BY <1>3 DEF vars
<1> QED
  BY <1>1, <1>2, <1>3

LEMMA IInvAlways == ASSUME Locked PROVE Spec => []IInv
<1>0. Parameters
  BY DEF Locked
<1>1. Typed /\ IInv /\ [Next]_vars => IInv'
  BY IInvWork, IInvMain, Locked DEF Next, Printed
<1>2. Spec => []Typed
  BY <1>0, TypedAlways
<1> QED
  BY <1>1, IInvInit, <1>2, PTL DEF Spec

\* With the lock, in either place, no two threads are inside the update of num
\* together.
THEOREM ExclusiveHolds == ASSUME Locked PROVE Spec => []Exclusive
<1>1. IInv => Exclusive
  BY DEF IInv
<1> QED
  BY <1>1, IInvAlways, PTL

\* With the lock the program implements a counter with atomic += and -=: no
\* update is lost, however many threads there are.
THEOREM ImplementsAtomic == ASSUME Locked PROVE Spec => AtomicSpec
<1>1. Init => Atomic!Init
  BY DEF Init, Atomic!Init
<1>2. Typed /\ IInv /\ [Next]_vars => [Atomic!Next]_<<num, count>>
  <2>1. ASSUME Typed, IInv, NEW t \in Threads, Store(t)
        PROVE  Atomic!Next
    <3>1. count[t] < Rounds /\ reg[t] = num
      BY <2>1 DEF Typed, Heads, IInv, Fresh, Store
    <3>2. Atomic!Change(t)
      BY <2>1, <3>1 DEF Store, Atomic!Change
    <3> QED
      BY <3>2 DEF Atomic!Next
  <2>2. ASSUME NEW t \in Threads, Lock(t) \/ Load(t) \/ Unlock(t)
        PROVE  UNCHANGED <<num, count>>
    BY <2>2 DEF Lock, Load, Unlock
  <2>3. Create \/ Join \/ UNCHANGED vars => UNCHANGED <<num, count>>
    BY DEF Create, Join, vars, thread, main
  <2> QED
    BY <2>1, <2>2, <2>3 DEF Next, Work, Printed
<1>3. Spec => []Typed
  BY TypedAlways DEF Locked
<1>4. Spec => []IInv
  BY IInvAlways
<1> QED
  BY <1>1, <1>2, <1>3, <1>4, PTL DEF Spec, AtomicSpec, Atomic!Spec
-----------------------------------------------------------------------------
(* The result.  A sum over all threads is beyond these provers, the number   *)
(* of pairs of a thread and an iteration it has done is not.                 *)

Iterations == Threads \X (1 .. Rounds)
Ups == {p \in Iterations : IsInc(p[1]) /\ p[2] <= count[p[1]]}
Downs == {p \in Iterations : ~IsInc(p[1]) /\ p[2] <= count[p[1]]}

\* num is what the iterations done so far make of it.
Balance == num = Cardinality(Ups) - Cardinality(Downs)

\* Whoever is done has done all iterations; main has waited for the threads
\* before joined.
Complete ==
    /\ \A t \in Threads : pc[t] = "done" => count[t] = Rounds
    /\ \A t \in Threads : t < joined => pc[t] = "done"

LEMMA CompleteInit == Parameters /\ Init => Complete
BY DEF Parameters, Init, Complete, Threads

LEMMA CompleteStep ==
  ASSUME Parameters, Typed, Complete, [Next]_vars
  PROVE  Complete'
<1> USE DEF Typed, TypeOK, Complete, Parameters
<1>1. ASSUME NEW t \in Threads, Work(t) PROVE Complete'
  <2> USE DEF main
  <2>1. CASE Lock(t)
    BY <2>1 DEF Lock
  <2>2. CASE Load(t)
    BY <2>2 DEF Load
  <2>3. CASE Store(t)
    <3>1. AfterStore(t) = "done" => count[t] + 1 >= Rounds
      BY DEF AfterStore, Again
    <3>2. count[t] < Rounds
      BY <2>3 DEF Store, Heads
    <3> QED
      BY <2>3, <3>1, <3>2 DEF Store
  <2>4. CASE Unlock(t)
    BY <2>4 DEF Unlock
  <2> QED
    BY <1>1, <2>1, <2>2, <2>3, <2>4 DEF Work
<1>2. CASE Create
  <2>1. created \in Threads /\ pc[created] = "new"
    BY <1>2 DEF Create, Threads, Heads
  <2> QED
    BY <1>2, <2>1 DEF Create
<1>3. CASE Join
  BY <1>3 DEF Join, thread, Threads
<1>4. CASE UNCHANGED vars
  BY <1>4 DEF vars, thread, main
<1> QED
  BY <1>1, <1>2, <1>3, <1>4 DEF Next, Printed

LEMMA Finite == ASSUME Parameters PROVE IsFiniteSet(Ups) /\ IsFiniteSet(Downs)
<1>1. IsFiniteSet(Threads) /\ IsFiniteSet(1 .. Rounds)
  BY FS_Interval DEF Parameters, Threads
<1>2. IsFiniteSet(Iterations)
  BY <1>1, FS_Product DEF Iterations
<1> QED
  BY <1>2, FS_Subset DEF Ups, Downs

LEMMA BalanceInit == ASSUME Parameters, Init PROVE Balance
<1>1. Ups = {} /\ Downs = {}
  BY DEF Init, Parameters, Ups, Downs, Iterations
<1> QED
  BY <1>1, FS_EmptySet DEF Balance, Init

LEMMA BalanceStore ==
  ASSUME Parameters, Typed, IInv, Balance, NEW t \in Threads, Store(t)
  PROVE  Balance'
<1> DEFINE p == <<t, count[t] + 1>>
<1>0. /\ count \in [Threads -> 0 .. Rounds] /\ count[t] < Rounds
      /\ num' = num + Delta(t) /\ Rounds \in Nat
      /\ count' = [count EXCEPT ![t] = @ + 1]
  BY DEF Typed, TypeOK, Heads, Store, IInv, Fresh, Parameters
<1>1. p \in Iterations /\ p \notin Ups /\ p \notin Downs
  BY <1>0 DEF Iterations, Ups, Downs
<1>2. IsFiniteSet(Ups) /\ IsFiniteSet(Downs)
  BY Finite
<1>3. Cardinality(Ups) \in Nat /\ Cardinality(Downs) \in Nat
  BY <1>2, FS_CardinalityType
<1>4. CASE IsInc(t)
  <2>1. Ups' = Ups \cup {p}
    BY <1>0, <1>1, <1>4 DEF Ups, Iterations
  <2>2. Downs' = Downs
    BY <1>0, <1>4 DEF Downs, Iterations
  <2>3. Cardinality(Ups \cup {p}) = Cardinality(Ups) + 1
    BY <1>1, <1>2, FS_AddElement
  <2> QED
    BY <1>0, <1>3, <1>4, <2>1, <2>2, <2>3 DEF Balance, Delta
<1>5. CASE ~IsInc(t)
  <2>1. Downs' = Downs \cup {p}
    BY <1>0, <1>1, <1>5 DEF Downs, Iterations
  <2>2. Ups' = Ups
    BY <1>0, <1>5 DEF Ups, Iterations
  <2>3. Cardinality(Downs \cup {p}) = Cardinality(Downs) + 1
    BY <1>1, <1>2, FS_AddElement
  <2> QED
    BY <1>0, <1>3, <1>5, <2>1, <2>2, <2>3 DEF Balance, Delta
<1> QED
  BY <1>4, <1>5

LEMMA BalanceStep ==
  ASSUME Parameters, Typed, IInv, Balance, [Next]_vars
  PROVE  Balance'
<1>1. ASSUME NEW t \in Threads, Lock(t) \/ Load(t) \/ Unlock(t)
      PROVE  UNCHANGED <<num, count>>
  BY <1>1 DEF Lock, Load, Unlock
<1>2. Create \/ Join \/ UNCHANGED vars => UNCHANGED <<num, count>>
  BY DEF Create, Join, vars, thread, main
<1>3. UNCHANGED <<num, count>> => Balance'
  BY DEF Balance, Ups, Downs
<1> QED
  BY <1>1, <1>2, <1>3, BalanceStore DEF Next, Work, Printed

\* There are as many iterations of thread_inc as of thread_dec.
LEMMA Even ==
  ASSUME Parameters, Typed, \A t \in Threads : count[t] = Rounds
  PROVE  Cardinality(Ups) = Cardinality(Downs)
<1> DEFINE f == [p \in Ups |-> <<p[1] - 1, p[2]>>]
<1>0. NumThread \in Nat /\ NumThread % 2 = 0 /\ Rounds \in Nat
  BY DEF Parameters
<1>1. /\ Ups = {p \in Threads \X (1 .. Rounds) : p[1] % 2 = 1}
      /\ Downs = {p \in Threads \X (1 .. Rounds) : ~(p[1] % 2 = 1)}
  BY DEF Ups, Downs, Iterations, IsInc
<1>2. f \in [Ups -> Downs]
  <2> SUFFICES ASSUME NEW p \in Ups PROVE <<p[1] - 1, p[2]>> \in Downs
    OBVIOUS
  <2> QED
    BY <1>0, <1>1 DEF Threads
<1>3. ASSUME NEW p \in Ups, NEW q \in Ups, f[p] = f[q]
      PROVE  p = q
  <2>1. p[1] \in Int /\ q[1] \in Int /\ p = <<p[1], p[2]>> /\ q = <<q[1], q[2]>>
    BY <1>1 DEF Threads
  <2> QED
    BY <1>3, <2>1
<1>4. ASSUME NEW q \in Downs
      PROVE  \E p \in Ups : f[p] = q
  <2> DEFINE p == <<q[1] + 1, q[2]>>
  <2>1. /\ q[1] \in 0 .. NumThread - 1 /\ ~(q[1] % 2 = 1)
        /\ q[2] \in 1 .. Rounds /\ q = <<q[1], q[2]>>
    BY <1>1 DEF Threads
  <2>2. p[1] \in 0 .. NumThread - 1 /\ p[1] % 2 = 1
    BY <1>0, <2>1
  <2>3. p \in Ups
    BY <1>1, <2>1, <2>2 DEF Threads
  <2>4. f[p] = q
    BY <2>1, <2>3
  <2> QED
    BY <2>3, <2>4
<1>5. f \in Bijection(Ups, Downs)
  <2> HIDE DEF f
  <2> QED
    BY <1>2, <1>3, <1>4 DEF Bijection, Injection, Surjection, IsInjective
<1>6. ExistsBijection(Ups, Downs)
  BY <1>5 DEF ExistsBijection
<1> QED
  BY <1>6, Finite, FS_Bijection

\* With the lock num is 0 when main prints it, for any even number of threads
\* and any number of iterations, as the comments in main say.
THEOREM ResultZeroHolds == ASSUME Locked PROVE Spec => []ResultZero
<1>0. Parameters
  BY DEF Locked
<1>1. Typed /\ IInv /\ Balance /\ Complete /\ [Next]_vars => Balance' /\ Complete'
  BY <1>0, BalanceStep, CompleteStep
<1>2. Init => Balance /\ Complete
  BY <1>0, BalanceInit, CompleteInit
<1>3. ASSUME Typed, Balance, Complete, joined = NumThread PROVE num = 0
  <2>1. \A t \in Threads : count[t] = Rounds
    BY <1>0, <1>3 DEF Complete, Threads, Parameters
  <2>2. Cardinality(Ups) = Cardinality(Downs) /\ Cardinality(Downs) \in Nat
    BY <1>0, <1>3, <2>1, Even, Finite, FS_CardinalityType
  <2> QED
    BY <1>3, <2>2 DEF Balance
<1>4. Typed /\ Balance /\ Complete => ResultZero
  BY <1>3 DEF ResultZero
<1>5. Spec => []Typed
  BY <1>0, TypedAlways
<1>6. Spec => []IInv
  BY IInvAlways
<1> QED
  BY <1>1, <1>2, <1>4, <1>5, <1>6, PTL DEF Spec
=============================================================================
