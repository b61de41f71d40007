------------------------ MODULE SmallProgramsProofs ------------------------
(* Theorems about the programs MCSmallPrograms puts together, for any lines  *)
(* the user types and any number of messages.                                *)
EXTENDS MCSmallPrograms, FiniteSetTheorems, SequenceTheorems, TLAPS

-----------------------------------------------------------------------------
(* SemaphoreHandoff, for any number of iterations and any numbers typed.     *)

\* The permit accounts for the loop counters: Read is one ahead of Accu
\* exactly while a number is pending or being taken over.
Ahead == ri = ai + semOne + (IF apc \in {"add", "post"} THEN 1 ELSE 0)

\* The sum lags behind by the pending number.
Sums == total = sum + (IF Pending THEN num ELSE 0)

Heads ==
    /\ rpc \in {"scan", "wait", "fill", "post"} => ri < N
    /\ apc \in {"wait", "add", "post"} => ai < N
    /\ rpc = "done" => ri = N
    /\ apc = "done" => ai = N

IInv == TypeOK /\ OnePermit /\ Ahead /\ Sums /\ Heads

LEMMA Initially == Init => IInv
BY NAssumption, ValuesAssumption, ScanAssumption
DEF Init, IInv, TypeOK, OnePermit, Ahead, Sums, Heads, Pending, ReadHead,
    AccuHead

LEMMA ReadStep == IInv /\ Read => IInv'
<1> SUFFICES ASSUME IInv, Read PROVE IInv'
  OBVIOUS
<1> USE NAssumption, ValuesAssumption, ScanAssumption
    DEF IInv, TypeOK, OnePermit, Ahead, Sums, Heads, Pending, accu
<1>1. CASE ScanTemp
  BY <1>1 DEF ScanTemp, Typed
<1>2. CASE ReadWait
  BY <1>2 DEF ReadWait
<1>3. CASE Fill
  <2>1. PICK v \in Values : num' = v /\ total' = total + v
    BY <1>3 DEF Fill, Typed
  <2>2. semOne = 0 /\ apc \notin {"add", "post"} /\ v \in Int
    BY <1>3 DEF Fill
  <2> QED
    BY <1>3, <2>1, <2>2 DEF Fill
<1>4. CASE ReadPost
  BY <1>4 DEF ReadPost, ReadHead
<1> QED
  BY <1>1, <1>2, <1>3, <1>4 DEF Read

LEMMA AccuStep == IInv /\ Accu => IInv'
<1> SUFFICES ASSUME IInv, Accu PROVE IInv'
  OBVIOUS
<1> USE NAssumption, ValuesAssumption
    DEF IInv, TypeOK, OnePermit, Ahead, Sums, Heads, Pending, read
<1>1. CASE AccuWait
  BY <1>1 DEF AccuWait
<1>2. CASE Add
  <2>1. semOne = 0 /\ rpc \notin {"fill", "post"} /\ num \in Int
    BY <1>2 DEF Add
  <2> QED
    BY <1>2, <2>1 DEF Add
<1>3. CASE AccuPost
  BY <1>3 DEF AccuPost, AccuHead
<1> QED
  BY <1>1, <1>2, <1>3 DEF Accu

LEMMA Inductive == Spec => []IInv
<1>1. IInv /\ [Next]_vars => IInv'
  <2>1. IInv /\ UNCHANGED vars => IInv'
    BY DEF IInv, TypeOK, OnePermit, Ahead, Sums, Heads, Pending, vars, read,
           accu
  <2> QED
    BY <2>1, ReadStep, AccuStep DEF Next, Finished
<1> QED
  BY <1>1, Initially, PTL DEF Spec

\* Types are respected: no semaphore count goes below zero and no loop
\* counter beyond N.
THEOREM HandoffTypeCorrect == Spec => []TypeOK
<1>1. IInv => TypeOK
  BY DEF IInv
<1> QED
  BY <1>1, Inductive, PTL

\* The two threads exclude each other from num, and both semaphores are
\* binary, in semaphore.c too where nothing limits them.
THEOREM OnePermitHolds == Spec => []OnePermit
<1>1. IInv => OnePermit
  BY DEF IInv
<1> QED
  BY <1>1, Inductive, PTL

\* When both threads have ended, the result Accu prints is the sum of all N
\* numbers, whatever was typed and however the threads were scheduled.
THEOREM ResultExactHolds == Spec => []ResultExact
<1>1. IInv => ResultExact
  BY NAssumption DEF IInv, TypeOK, OnePermit, Ahead, Sums, Heads, Pending,
                     ResultExact
<1> QED
  BY <1>1, Inductive, PTL

\* The program implements a one-place buffer.
THEOREM ImplementsOneSlot == Spec => SlotSpec
<1>1. Init => Slot!Init
  BY DEF Init, Slot!Init, Pending, ReadHead, AccuHead
<1>2. IInv /\ [Next]_vars => [Slot!Next]_<<IF Pending THEN num ELSE Empty, sum>>
  <2> SUFFICES ASSUME IInv, [Next]_vars
               PROVE  [Slot!Next]_<<IF Pending THEN num ELSE Empty, sum>>
    OBVIOUS
  <2>0. num \in Values /\ num # Empty
    BY EmptyAssumption DEF IInv, TypeOK
  <2>1. CASE Fill
    <3>1. PICK v \in Values : num' = v
      BY <2>0, <2>1, ScanAssumption DEF Fill, Typed, IInv, TypeOK
    <3>2. ~Pending /\ Pending' /\ sum' = sum
      BY <2>1 DEF Fill, Pending, IInv, TypeOK, OnePermit, accu
    <3>3. Slot!Put(v)
      BY <3>1, <3>2 DEF Slot!Put
    <3> QED
      BY <3>3 DEF Slot!Next
  <2>2. CASE Add
    <3>1. Pending /\ ~Pending' /\ sum' = sum + num
      BY <2>2 DEF Add, Pending, IInv, TypeOK, OnePermit, read
    <3>2. Slot!Get
      BY <2>0, <3>1 DEF Slot!Get
    <3> QED
      BY <3>2 DEF Slot!Next
  <2>3. CASE ScanTemp \/ ReadWait \/ ReadPost \/ AccuWait \/ AccuPost
             \/ UNCHANGED vars
    <3>1. (Pending' <=> Pending) /\ num' = num /\ sum' = sum
      BY <2>3 DEF ScanTemp, ReadWait, ReadPost, AccuWait, AccuPost, ReadHead,
                  AccuHead, vars, read, accu, Pending, IInv, TypeOK, OnePermit
    <3> QED
      BY <3>1
  <2> QED
    BY <2>1, <2>2, <2>3 DEF Next, Read, Accu, Finished
<1> QED
  BY <1>1, <1>2, Inductive, PTL DEF Spec, SlotSpec, Slot!Spec
-----------------------------------------------------------------------------
(* EventSync: two threads count in one line.                                 *)

NumberOfA == Event!NumberOfA
NumberOfOthers == Event!NumberOfOthers
Counters == Event!Threads

EventTyped ==
    /\ variant \in {"event", "sema"}
    /\ main \in {"create", "fgets", "set", "wait", "reset", "ended"}
    /\ str \in {<<>>} \cup {Event!Stored(typed) : typed \in Event!Inputs}
    /\ signaled \in BOOLEAN
    /\ thread \in [Counters -> {"none", "wait", "count", "release", "ended"}]
    /\ i \in [Counters -> Nat] /\ cnt \in [Counters -> Nat]
    /\ shown \in [Counters -> Int]

Before(t) == thread[t] \in {"none", "wait"}

\* The threads count in nothing before main has read the line: the event is
\* not signaled, or the threads are created after it.
LineFirst ==
    /\ variant = "event" /\ main \in {"create", "fgets", "set"} =>
          ~signaled /\ \A t \in Counters : Before(t)
    /\ variant = "sema" /\ main = "fgets" => \A t \in Counters : thread[t] = "none"
    /\ \A t \in Counters : Before(t) => i[t] = 0

\* Main waits for both.
BothEnded == main \in {"reset", "ended"} => \A t \in Counters : thread[t] = "ended"

\* What t counts among the first n characters.
Positions(t, n) == {k \in 1 .. n : Event!Counts(t, str[k])}

\* A thread has counted what it has seen, and shows the count of all.
Tallied ==
    \A t \in Counters :
       /\ i[t] <= Len(str)
       /\ cnt[t] = Cardinality(Positions(t, i[t]))
       /\ thread[t] \in {"release", "ended"} =>
             /\ i[t] = Len(str)
             /\ shown[t] = IF t = NumberOfA THEN cnt[t] ELSE cnt[t] - 1

\* The permits the threads have taken and those that are left make two; the
\* event is not given back.
TakenBy(t) ==
    IF variant = "sema" /\ thread[t] \in {"count", "release"} THEN 1 ELSE 0

Permits ==
    /\ permits = 2 - TakenBy(NumberOfA) - TakenBy(NumberOfOthers)
    /\ variant = "event" => \A t \in Counters : thread[t] # "release"

EventInv == EventTyped /\ LineFirst /\ BothEnded /\ Tallied /\ Permits

Character == STRING \cup {"newline"}

\* What fgets stores is a string, and a newline can only be its last character.
LEMMA StoredLine ==
    ASSUME NEW typed \in Event!Inputs, NEW line, line = Event!Stored(typed)
    PROVE  /\ line \in Seq(Character) /\ Len(line) \in Nat
           /\ \A k \in 1 .. Len(line) : line[k] = "newline" => k = Len(line)
<1>1. /\ typed \in Seq(Character) /\ Len(typed) \in Nat
      /\ \A k \in 1 .. Len(typed) : typed[k] = "newline" => k = Len(typed)
  <2>1. CASE typed \in Texts
    <3>1. typed \in Seq(STRING) /\ \A k \in 1 .. Len(typed) : typed[k] # "newline"
      BY <2>1, EventParameters DEF Event!LineParameters
    <3> QED
      BY <3>1 DEF Character
  <2>2. ASSUME NEW l \in Texts, typed = Append(l, "newline")
        PROVE  /\ typed \in Seq(Character) /\ Len(typed) \in Nat
               /\ \A k \in 1 .. Len(typed) : typed[k] = "newline" => k = Len(typed)
    <3>1. l \in Seq(STRING) /\ \A k \in 1 .. Len(l) : l[k] # "newline"
      BY EventParameters DEF Event!LineParameters
    <3>2. l \in Seq(Character) /\ "newline" \in Character
      BY <3>1 DEF Character
    <3>3. /\ typed \in Seq(Character) /\ Len(typed) = Len(l) + 1
          /\ \A k \in 1 .. Len(l) : typed[k] = l[k]
      BY <2>2, <3>2, AppendProperties
    <3> QED
      BY <3>1, <3>2, <3>3
  <2> QED
    BY <2>1, <2>2 DEF Event!Inputs
<1> DEFINE n == IF Len(typed) < STR_LEN THEN Len(typed) ELSE STR_LEN - 1
<1>2. n \in Nat /\ n <= Len(typed)
  BY <1>1, EventParameters DEF Event!LineParameters
<1>3. line = SubSeq(typed, 1, n)
  BY DEF Event!Stored
<1> HIDE DEF n
<1>4. /\ line \in Seq(Character) /\ Len(line) = n
      /\ \A k \in 1 .. n : line[k] = typed[k]
  <2>1. \A k \in 1 .. n : typed[k] \in Character
    BY <1>1, <1>2
  <2> QED
    BY <1>2, <1>3, <2>1, SubSeqProperties
<1> QED
  BY <1>1, <1>2, <1>4

LEMMA LineIsSequence ==
    ASSUME EventTyped
    PROVE  /\ str \in Seq(Character) /\ Len(str) \in Nat
           /\ \A k \in 1 .. Len(str) : str[k] = "newline" => k = Len(str)
<1>1. CASE str = <<>>
  BY <1>1
<1>2. CASE \E typed \in Event!Inputs : str = Event!Stored(typed)
  BY <1>2, StoredLine
<1> QED
  BY <1>1, <1>2 DEF EventTyped

LEMMA PositionsFinite ==
    ASSUME NEW t, NEW n \in Nat
    PROVE  /\ IsFiniteSet(Positions(t, n)) /\ Cardinality(Positions(t, n)) \in Nat
           /\ Cardinality(Positions(t, n)) <= n
<1>1. IsFiniteSet(1 .. n) /\ Cardinality(1 .. n) = n
  BY FS_Interval
<1>2. Positions(t, n) \in SUBSET (1 .. n)
  BY DEF Positions
<1> QED
  BY <1>1, <1>2, FS_Subset, FS_CardinalityType

LEMMA PositionsNext ==
    ASSUME NEW t, NEW n \in Nat
    PROVE  Cardinality(Positions(t, n + 1)) =
              IF Event!Counts(t, str[n + 1]) THEN Cardinality(Positions(t, n)) + 1
              ELSE Cardinality(Positions(t, n))
<1>1. CASE Event!Counts(t, str[n + 1])
  <2>1. Positions(t, n + 1) = Positions(t, n) \cup {n + 1}
    BY <1>1 DEF Positions
  <2>2. n + 1 \notin Positions(t, n)
    BY DEF Positions
  <2> QED
    BY <1>1, <2>1, <2>2, PositionsFinite, FS_AddElement
<1>2. CASE ~Event!Counts(t, str[n + 1])
  <2>1. Positions(t, n + 1) = Positions(t, n)
    BY <1>2 DEF Positions
  <2> QED
    BY <1>2, <2>1
<1> QED
  BY <1>1, <1>2

\* NumberOfOthers counts the other characters and the newline, if there is one.
LEMMA PositionsOfOthers ==
    ASSUME EventTyped
    PROVE  /\ Cardinality(Event!Others) \in Nat
           /\ Cardinality(Positions(NumberOfOthers, Len(str))) =
                 Cardinality(Event!Others) + (IF Event!NewlineStored THEN 1 ELSE 0)
<1>1. DOMAIN str = 1 .. Len(str)
  BY LineIsSequence
<1>2. Positions(NumberOfOthers, Len(str)) = {k \in 1 .. Len(str) : str[k] # "A"}
  BY DEF Positions, Event!Counts, NumberOfOthers, Event!NumberOfA, Event!NumberOfOthers
<1>3. Event!Others = {k \in 1 .. Len(str) : str[k] \notin {"A", "newline"}}
  BY <1>1 DEF Event!Others
<1>4. IsFiniteSet(Event!Others) /\ Cardinality(Event!Others) \in Nat
  <2>1. Event!Others \in SUBSET (1 .. Len(str)) /\ IsFiniteSet(1 .. Len(str))
    BY <1>3, LineIsSequence, FS_Interval
  <2> QED
    BY <2>1, FS_Subset, FS_CardinalityType
<1>5. CASE Event!NewlineStored
  <2>1. Len(str) \in 1 .. Len(str) /\ str[Len(str)] = "newline"
    <3>1. PICK k \in 1 .. Len(str) : str[k] = "newline"
      BY <1>1, <1>5 DEF Event!NewlineStored
    <3>2. k = Len(str)
      BY <3>1, LineIsSequence
    <3> QED
      BY <3>1, <3>2
  <2>2. /\ Positions(NumberOfOthers, Len(str)) = Event!Others \cup {Len(str)}
        /\ Len(str) \notin Event!Others
    BY <1>2, <1>3, <2>1, LineIsSequence
  <2> QED
    BY <1>4, <1>5, <2>2, FS_AddElement
<1>6. CASE ~Event!NewlineStored
  <2>1. Positions(NumberOfOthers, Len(str)) = Event!Others
    BY <1>1, <1>2, <1>3, <1>6 DEF Event!NewlineStored
  <2> QED
    BY <1>4, <1>6, <2>1
<1> QED
  BY <1>4, <1>5, <1>6

LEMMA EventStart == ASSUME Event!Init PROVE EventInv
<1> USE DEF Event!Init, Before
<1>1. EventTyped
  <2>1. str \in {<<>>} \cup {Event!Stored(typed) : typed \in Event!Inputs}
    BY Zenon
  <2>2. /\ variant \in {"event", "sema"} /\ signaled \in BOOLEAN
        /\ main \in {"create", "fgets", "set", "wait", "reset", "ended"}
    OBVIOUS
  <2>3. /\ thread \in [Counters -> {"none", "wait", "count", "release", "ended"}]
        /\ i \in [Counters -> Nat]
        /\ shown \in [Counters -> Int]
    BY DEF Counters
  <2>4. cnt \in [Counters -> Nat]
    BY DEF Counters
  <2> QED
    BY <2>1, <2>2, <2>3, <2>4, Zenon DEF EventTyped
<1>2. LineFirst /\ BothEnded /\ Permits
  BY DEF LineFirst, BothEnded, Permits, TakenBy, Counters, NumberOfA, NumberOfOthers, Event!Threads
<1>3. Tallied
  <2> SUFFICES ASSUME NEW t \in Counters PROVE Cardinality(Positions(t, 0)) = 0
    BY DEF Tallied, Counters
  <2> QED
    BY FS_EmptySet DEF Positions
<1> QED
  BY <1>1, <1>2, <1>3 DEF EventInv

\* Nothing is counted while neither the line nor a counter changes.
LEMMA TalliedKept ==
    ASSUME EventTyped, Tallied, UNCHANGED <<str, i, cnt, shown>>,
           \A t \in Counters : thread'[t] \in {"release", "ended"} =>
              thread[t] \in {"release", "ended"}
    PROVE  Tallied'
BY DEF Tallied, Positions

LEMMA EventMain ==
    ASSUME EventInv,
           \/ Event!Create \/ Event!Fgets \/ Event!SetEvent \/ Event!Wait
           \/ Event!ResetEvent \/ UNCHANGED signalling
    PROVE  EventInv'
<1> USE DEF EventInv, EventTyped, Before, Counters, NumberOfA, NumberOfOthers,
            Event!Threads, Event!NumberOfA, Event!NumberOfOthers
<1>1. CASE Event!Create
  <2> PICK t \in Counters :
        /\ thread[t] = "none" /\ thread' = [thread EXCEPT ![t] = "wait"]
        /\ t = NumberOfA \/ thread[NumberOfA] # "none"
        /\ main' = IF t = NumberOfA THEN "create"
                   ELSE IF variant = "event" THEN "fgets" ELSE "wait"
    BY <1>1 DEF Event!Create
  <2> USE <1>1 DEF Event!Create
  <2>1. EventTyped' /\ BothEnded' /\ Permits'
    BY DEF BothEnded, Permits, TakenBy
  <2>2. LineFirst'
    BY DEF LineFirst
  <2>3. Tallied'
    BY TalliedKept
  <2> QED
    BY <2>1, <2>2, <2>3
<1>2. CASE Event!Fgets
  <2> PICK typed \in Event!Inputs : str' = Event!Stored(typed)
    BY <1>2 DEF Event!Fgets
  <2> USE <1>2 DEF Event!Fgets
  <2>1. EventTyped' /\ BothEnded' /\ Permits'
    BY DEF BothEnded, Permits, TakenBy
  <2>2. \A t \in Counters : Before(t) /\ i[t] = 0
    BY DEF LineFirst
  <2>3. Len(str') \in Nat
    BY StoredLine
  <2>4. LineFirst'
    BY <2>2 DEF LineFirst
  <2>5. ASSUME NEW t \in Counters
        PROVE  /\ i'[t] <= Len(str') /\ thread'[t] \notin {"release", "ended"}
               /\ cnt'[t] = Cardinality(Positions(t, i[t]))'
    <3>1. Positions(t, 0) = {} /\ Positions(t, i[t])' = {}
      BY <2>2 DEF Positions
    <3>2. i'[t] <= Len(str')
      BY <2>2, <2>3
    <3>3. thread'[t] \notin {"release", "ended"}
      BY <2>2
    <3>4. cnt[t] = Cardinality({}) /\ cnt' = cnt
      BY <2>2, <3>1 DEF Tallied
    <3> QED
      BY <3>1, <3>2, <3>3, <3>4, Zenon
  <2>6. Tallied'
    BY <2>5 DEF Tallied
  <2> QED
    BY <2>1, <2>4, <2>6
<1>3. CASE Event!SetEvent \/ Event!Wait \/ Event!ResetEvent \/ UNCHANGED signalling
  <2> USE <1>3 DEF Event!SetEvent, Event!Wait, Event!ResetEvent, signalling
  <2>1. EventTyped' /\ BothEnded' /\ Permits'
    BY DEF BothEnded, Permits, TakenBy
  <2>2. LineFirst'
    BY DEF LineFirst
  <2>3. Tallied'
    BY TalliedKept
  <2> QED
    BY <2>1, <2>2, <2>3
<1> QED
  BY <1>1, <1>2, <1>3

LEMMA EventThread ==
    ASSUME EventInv, NEW t \in Counters,
           \/ Event!WaitFor(t) \/ Event!Look(t) \/ Event!Show(t)
           \/ Event!ReleaseSemaphore(t)
    PROVE  EventInv'
<1> USE DEF EventInv, EventTyped, Before
<1>0. /\ Counters = {NumberOfA, NumberOfOthers} /\ NumberOfA # NumberOfOthers
      /\ main \notin {"reset", "ended"} /\ permits \in Int
  <2>1. Counters = {NumberOfA, NumberOfOthers} /\ NumberOfA # NumberOfOthers
    BY DEF Counters, NumberOfA, NumberOfOthers, Event!Threads, Event!NumberOfA,
           Event!NumberOfOthers
  <2>2. thread[t] # "ended"
    BY DEF Event!WaitFor, Event!Look, Event!Show, Event!ReleaseSemaphore
  <2> QED
    BY <2>1, <2>2 DEF BothEnded, Permits, TakenBy
<1>1. CASE Event!WaitFor(t)
  <2> USE <1>0, <1>1 DEF Event!WaitFor
  <2>1. EventTyped' /\ BothEnded' /\ Permits'
    BY DEF BothEnded, Permits, TakenBy
  <2>2. LineFirst'
    BY DEF LineFirst
  <2>3. Tallied'
    BY TalliedKept
  <2> QED
    BY <2>1, <2>2, <2>3
<1>2. CASE Event!Look(t)
  <2> USE <1>0, <1>2 DEF Event!Look
  <2>0. EventTyped'
    <3>1. i[t] \in Nat /\ cnt[t] \in Nat
      BY DEF Counters
    <3>2. i[t] + 1 \in Nat /\ \A b : (IF b THEN cnt[t] + 1 ELSE cnt[t]) \in Nat
      BY <3>1, SMTT(30)
    <3>3. i' \in [Counters -> Nat] /\ cnt' \in [Counters -> Nat]
      BY <3>2
    <3> QED
      BY <3>3 DEF EventTyped
  <2>1. BothEnded' /\ Permits' /\ LineFirst'
    <3>1. BothEnded'
      BY DEF BothEnded
    <3>2. Permits'
      BY DEF Permits, TakenBy
    <3>3. LineFirst'
      BY DEF LineFirst
    <3> QED
      BY <3>1, <3>2, <3>3
  <2>2. Cardinality(Positions(t, i[t] + 1)) =
           IF Event!Counts(t, str[i[t] + 1]) THEN cnt[t] + 1 ELSE cnt[t]
    BY PositionsNext, SMTT(30) DEF Tallied
  <2>3. i'[t] <= Len(str) /\ cnt'[t] = Cardinality(Positions(t, i'[t]))
    BY <2>2, LineIsSequence
  <2>4. \A u \in Counters, n \in Nat : Positions(u, n)' = Positions(u, n)
    BY DEF Positions
  <2>5. Tallied'
    BY <2>0, <2>1, <2>3, <2>4, SMTT(30) DEF Tallied
  <2> QED
    BY <2>0, <2>1, <2>5
<1>3. CASE Event!Show(t)
  <2> USE <1>0, <1>3 DEF Event!Show
  <2>1. EventTyped' /\ BothEnded' /\ Permits' /\ LineFirst'
    BY DEF BothEnded, Permits, TakenBy, LineFirst, NumberOfA
  <2>2. \A u \in Counters, n \in Nat : Positions(u, n)' = Positions(u, n)
    BY DEF Positions
  <2>3. Tallied'
    BY <2>1, <2>2 DEF Tallied, NumberOfA
  <2> QED
    BY <2>1, <2>3
<1>4. CASE Event!ReleaseSemaphore(t)
  <2> USE <1>0, <1>4 DEF Event!ReleaseSemaphore
  <2>1. EventTyped' /\ BothEnded' /\ LineFirst'
    BY DEF BothEnded, LineFirst
  <2>2. Permits'
    BY DEF Permits, TakenBy
  <2>3. Tallied'
    BY TalliedKept
  <2> QED
    BY <2>1, <2>2, <2>3
<1> QED
  BY <1>1, <1>2, <1>3, <1>4

LEMMA EventAlways == SmallSpec => []EventInv
<1>1. SmallInit => EventInv
  BY EventStart DEF SmallInit
<1>2. EventInv /\ [SmallNext]_all => EventInv'
  <2> SUFFICES ASSUME EventInv, [SmallNext]_all PROVE EventInv'
    OBVIOUS
  <2>1. Event!Next \/ UNCHANGED signalling
    BY DEF SmallNext, all
  <2>2. Event!Finished => UNCHANGED signalling
    BY DEF Event!Finished, Event!vars, signalling
  <2> QED
    BY <2>1, <2>2, EventMain, EventThread DEF Event!Next, Counters
<1> QED
  BY <1>1, <1>2, PTL DEF SmallSpec

\* Both event programs print the counts of the string that fgets stored, whatever
\* it is and however the threads are scheduled: neither counts before the line is
\* there, and main waits for both. The number of others is one too small exactly
\* when fgets stored no newline.
THEOREM CountsAgreeHolds == SmallSpec => []CountsAgree
<1>1. ASSUME EventInv, main = "ended"
      PROVE  /\ shown[Event!NumberOfA] = Cardinality({k \in DOMAIN str : str[k] = "A"})
             /\ shown[Event!NumberOfOthers] =
                   Cardinality(Event!Others) - (IF Event!NewlineStored THEN 0 ELSE 1)
  <2>1. /\ Counters = {NumberOfA, NumberOfOthers} /\ NumberOfA # NumberOfOthers
        /\ NumberOfA = "NumberOfA"
    BY DEF Counters, NumberOfA, NumberOfOthers, Event!Threads, Event!NumberOfA,
           Event!NumberOfOthers
  <2>2. /\ shown[NumberOfA] = Cardinality(Positions(NumberOfA, Len(str)))
        /\ shown[NumberOfOthers] = Cardinality(Positions(NumberOfOthers, Len(str))) - 1
    BY <1>1, <2>1 DEF EventInv, BothEnded, Tallied
  <2>3. DOMAIN str = 1 .. Len(str)
    BY <1>1, LineIsSequence DEF EventInv
  <2>4. Positions(NumberOfA, Len(str)) = {k \in DOMAIN str : str[k] = "A"}
    BY <2>3 DEF Positions, Event!Counts, NumberOfA
  <2>5. /\ Cardinality(Event!Others) \in Nat
        /\ Cardinality(Positions(NumberOfOthers, Len(str))) =
              Cardinality(Event!Others) + (IF Event!NewlineStored THEN 1 ELSE 0)
    BY <1>1, PositionsOfOthers DEF EventInv
  <2>6. shown[NumberOfOthers] =
           Cardinality(Event!Others) - (IF Event!NewlineStored THEN 0 ELSE 1)
    BY <2>2, <2>5
  <2> QED
    BY <2>2, <2>4, <2>6 DEF NumberOfA, NumberOfOthers
<1>2. ASSUME NEW S PROVE Event!Cardinality(S) = Cardinality(S)
  BY DEF Event!Cardinality, Cardinality
<1>3. EventInv => CountsAgree
  BY <1>1, <1>2, Zenon DEF CountsAgree, Event!CountsAgree
<1> QED
  BY <1>3, EventAlways, PTL

-----------------------------------------------------------------------------
(* Datagrams: an answer belongs to a message of the client that gets it.     *)

UdpClients == Udp!Clients
Talking == kit \in Udp!EchoKits \cup {"uchat"}

\* What is on its way is a message of a client or the answer to one.
Addressed ==
    /\ \A d \in flight :
          /\ d.of \in UdpClients /\ d.num <= asked[d.of]
          /\ d.to = d.of \/ (d.to = 0 /\ d.from = d.of)
    /\ serv = "send" =>
          cur.of \in UdpClients /\ cur.num <= asked[cur.of] /\ cur.from = cur.of

\* A client's last message or its answer is in one place, and nowhere once the
\* client has gone on; nothing is left of the messages before.
Single(c) ==
    /\ \A d \in flight : d.of = c =>
          /\ at[c] = "recv" /\ d.num = asked[c]
          /\ \A e \in flight : e.of = c => e = d
          /\ ~(serv = "send" /\ cur.of = c)
    /\ serv = "send" /\ cur.of = c => at[c] = "recv" /\ cur.num = asked[c]

Answered(c) ==
    \A k \in 1 .. Len(seen[c]) :
       /\ seen[c][k].of = c /\ seen[c][k].num <= seen[c][k].asked
       /\ doubled \/ seen[c][k].num = seen[c][k].asked

UdpInv ==
    /\ Udp!TypeOK
    /\ Talking => /\ Addressed
                  /\ \A c \in UdpClients : Answered(c) /\ (doubled \/ Single(c))

LEMMA UdpFields ==
    ASSUME Udp!TypeOK
    PROVE  /\ \A d \in flight : /\ d.to \in 0 .. 2 /\ d.from \in 0 .. 2
                                /\ d.num \in Nat /\ d.of \in 0 .. 2
           /\ cur.to \in 0 .. 2 /\ cur.from \in 0 .. 2 /\ cur.num \in Nat /\ cur.of \in 0 .. 2
           /\ asked \in [0 .. 2 -> Nat]
           /\ at \in [UdpClients -> {"type", "recv", "ended"}]
           /\ seen \in [UdpClients -> Seq([of : 0 .. 2, num : Nat, asked : Nat])]
           /\ UdpClients = {1, 2}
BY DEF Udp!TypeOK, Udp!Datagram, UdpClients, Udp!Clients, Udp!Hosts

LEMMA UdpStart == ASSUME Udp!Init PROVE UdpInv
<1> USE DEF Udp!Init
<1>1. Udp!TypeOK
  <2>1. /\ kit \in Udp!Kits /\ flight \in SUBSET Udp!Datagram
        /\ serv \in {"recv", "send", "ended"}
        /\ lost \in BOOLEAN /\ doubled \in BOOLEAN
    BY Zenon
  <2>2. cur \in Udp!Datagram
    BY DEF Udp!Datagram, Udp!None, Udp!Hosts
  <2>3. /\ at \in [Udp!Clients -> {"type", "recv", "ended"}]
        /\ asked \in [Udp!Hosts -> Nat]
    OBVIOUS
  <2>4. seen \in [Udp!Clients -> Seq([of : Udp!Hosts, num : Nat, asked : Nat])]
    OBVIOUS
  <2> QED
    BY <2>1, <2>2, <2>3, <2>4, Zenon DEF Udp!TypeOK
<1>2. Talking => serv = "recv"
  BY DEF Talking, Udp!EchoKits, Udp!NewsKits
<1>3. Talking => Addressed /\ \A c \in UdpClients : Answered(c) /\ Single(c)
  BY <1>2 DEF Addressed, Single, Answered, UdpClients
<1> QED
  BY <1>1, <1>3 DEF UdpInv

\* The steps that send.
LEMMA UdpSendTo ==
    ASSUME UdpInv, NEW c \in UdpClients, NEW h \in 0 .. 1,
           NEW next \in {"recv", "type", "ended"}, UNCHANGED kit,
           Udp!SendTo(c, h, next), Talking => h = 0 /\ next = "recv"
    PROVE  UdpInv'
<1> DEFINE new == [to |-> h, from |-> c, num |-> asked[c] + 1, of |-> c]
<1>0. /\ at[c] = "type" /\ at' = [at EXCEPT ![c] = next]
      /\ asked' = [asked EXCEPT ![c] = @ + 1] /\ flight' = flight \cup {new}
      /\ UNCHANGED <<serv, cur, seen, lost, doubled, kit>>
      /\ Udp!TypeOK
  BY DEF Udp!SendTo, Udp!Goto, UdpInv
<1>1. /\ asked \in [0 .. 2 -> Nat] /\ at \in [UdpClients -> {"type", "recv", "ended"}]
      /\ seen \in [UdpClients -> Seq([of : 0 .. 2, num : Nat, asked : Nat])]
      /\ UdpClients = {1, 2}
  BY <1>0, UdpFields
<1>2. Udp!TypeOK'
  <2>1. new \in Udp!Datagram
    BY <1>1 DEF Udp!Datagram, Udp!Hosts
  <2> HIDE DEF new
  <2> QED
    BY <1>0, <1>1, <2>1 DEF Udp!TypeOK, Udp!Hosts, UdpClients
<1>3. ASSUME Talking PROVE Addressed'
  <2>1. Addressed
    BY <1>3 DEF UdpInv
  <2>2. \A x \in UdpClients : asked[x] <= asked'[x]
    BY <1>0, <1>1
  <2>3. ASSUME NEW d \in flight'
        PROVE  /\ d.of \in UdpClients /\ d.num <= asked'[d.of]
               /\ d.to = d.of \/ (d.to = 0 /\ d.from = d.of)
    <3>1. CASE d \in flight
      BY <1>0, <1>1, <2>1, <2>2, <3>1, UdpFields DEF Addressed
    <3>2. CASE d = new
      BY <1>0, <1>1, <1>3, <3>2
    <3> QED
      BY <1>0, <3>1, <3>2
  <2> QED
    BY <1>0, <1>1, <2>1, <2>2, <2>3, UdpFields DEF Addressed
<1>4. ASSUME Talking, NEW d \in UdpClients PROVE Answered(d)'
  BY <1>0, <1>4 DEF UdpInv, Answered
<1>5. ASSUME Talking, NEW d \in UdpClients, ~doubled PROVE Single(d)'
  <2>1. Single(d)
    BY <1>5 DEF UdpInv
  <2>2. CASE d = c
    <3>1. /\ \A e \in flight : e.of # c
          /\ ~(serv = "send" /\ cur.of = c)
      BY <1>0, <2>1, <2>2 DEF Single
    <3>2. at'[c] = "recv" /\ asked'[c] = asked[c] + 1
      BY <1>0, <1>1, <1>5
    <3> QED
      BY <1>0, <2>2, <3>1, <3>2 DEF Single
  <2>3. CASE d # c
    <3>1. at'[d] = at[d] /\ asked'[d] = asked[d]
      BY <1>0, <1>1, <2>3
    <3> QED
      BY <1>0, <2>1, <2>3, <3>1 DEF Single
  <2> QED
    BY <2>2, <2>3
<1> QED
  BY <1>0, <1>2, <1>3, <1>4, <1>5 DEF UdpInv, Talking

\* Taking a datagram, which stays only if it is delivered twice.
LEMMA UdpTaken ==
    ASSUME NEW d \in flight, Udp!Taken(d), doubled \in BOOLEAN
    PROVE  /\ flight' \subseteq flight /\ doubled' \in BOOLEAN
           /\ doubled => doubled'
           /\ ~doubled' => flight' = flight \ {d}
<1>1. CASE flight' = flight \ {d} /\ UNCHANGED doubled
  BY <1>1
<1>2. CASE ~doubled /\ doubled' = TRUE /\ UNCHANGED flight
  BY <1>2
<1> QED
  BY <1>1, <1>2, Zenon DEF Udp!Taken

\* Steps that leave the requests and answers alone, or take some away.
LEMMA UdpFewer ==
    ASSUME UdpInv, flight' \subseteq flight, UNCHANGED <<kit, asked, cur, seen, doubled>>,
           serv' = "send" => serv = "send",
           Udp!TypeOK',
           \A c \in UdpClients : at[c] = "recv" /\ at'[c] # "recv" /\ ~doubled /\ Talking =>
              serv' = "ended" /\ \A d \in flight' : d.of # c
    PROVE  UdpInv'
<1>1. Talking => Addressed'
  BY DEF UdpInv, Addressed
<1>2. ASSUME NEW c \in UdpClients, Answered(c) PROVE Answered(c)'
  BY <1>2 DEF Answered
<1>3. ASSUME NEW c \in UdpClients, ~doubled, Single(c), Talking PROVE Single(c)'
  BY <1>3 DEF Single
<1>4. ASSUME NEW c \in UdpClients, doubled \/ Single(c), Talking
      PROVE  doubled' \/ Single(c)'
  BY <1>3, <1>4
<1> QED
  BY <1>1, <1>2, <1>4 DEF UdpInv, Talking

LEMMA UdpReceiveFrom ==
    ASSUME UdpInv, NEW c \in UdpClients, NEW next \in {"recv", "type", "ended"},
           UNCHANGED kit, Udp!ReceiveFrom(c, next)
    PROVE  UdpInv'
<1> PICK d \in flight :
      /\ d.to = c /\ Udp!Taken(d)
      /\ seen' = [seen EXCEPT ![c] =
                    Append(@, [of |-> d.of, num |-> d.num, asked |-> asked[c]])]
  BY DEF Udp!ReceiveFrom
<1> DEFINE item == [of |-> d.of, num |-> d.num, asked |-> asked[c]]
<1>0. /\ at[c] = "recv" /\ at' = [at EXCEPT ![c] = next]
      /\ UNCHANGED <<serv, asked, cur, lost, kit>>
      /\ Udp!TypeOK /\ doubled \in BOOLEAN
  BY DEF Udp!ReceiveFrom, Udp!Goto, UdpInv, Udp!TypeOK
<1>1. /\ asked \in [0 .. 2 -> Nat] /\ at \in [UdpClients -> {"type", "recv", "ended"}]
      /\ seen \in [UdpClients -> Seq([of : 0 .. 2, num : Nat, asked : Nat])]
      /\ UdpClients = {1, 2} /\ item \in [of : 0 .. 2, num : Nat, asked : Nat]
  BY <1>0, UdpFields
<1>2. /\ flight' \subseteq flight /\ doubled' \in BOOLEAN
      /\ doubled => doubled'
      /\ ~doubled' => flight' = flight \ {d}
  BY <1>0, UdpTaken
<1>3. Udp!TypeOK'
  <2>1. seen' \in [UdpClients -> Seq([of : 0 .. 2, num : Nat, asked : Nat])]
    BY <1>1, AppendProperties
  <2> QED
    BY <1>0, <1>1, <1>2, <2>1 DEF Udp!TypeOK, Udp!Hosts, UdpClients
<1>4. ASSUME Talking
      PROVE  d.of = c /\ d.num <= asked[c] /\ (doubled \/ d.num = asked[c])
  <2>1. d.of = c /\ d.num <= asked[c]
    BY <1>0, <1>1, <1>4 DEF UdpInv, Addressed
  <2>2. Single(c) => d.num = asked[c]
    BY <2>1 DEF Single
  <2> QED
    BY <1>4, <2>1, <2>2 DEF UdpInv
<1>5. ASSUME Talking PROVE Addressed'
  BY <1>0, <1>2, <1>5 DEF UdpInv, Addressed
<1>6. ASSUME Talking, NEW e \in UdpClients PROVE Answered(e)'
  <2>0. Answered(e)
    BY <1>6 DEF UdpInv
  <2>1. CASE e = c
    <3>1. /\ seen'[c] = Append(seen[c], item)
          /\ seen[c] \in Seq([of : 0 .. 2, num : Nat, asked : Nat])
      BY <1>1
    <3>2. /\ Len(seen'[c]) = Len(seen[c]) + 1 /\ Len(seen[c]) \in Nat
          /\ seen'[c][Len(seen[c]) + 1] = item
          /\ \A k \in 1 .. Len(seen[c]) : seen'[c][k] = seen[c][k]
      BY <1>1, <3>1, AppendProperties
    <3>3. item.of = c /\ item.num <= item.asked /\ (doubled \/ item.num = item.asked)
      BY <1>4, <1>6
    <3> HIDE DEF item
    <3>4. ASSUME NEW k \in 1 .. Len(seen'[c])
          PROVE  /\ seen'[c][k].of = c /\ seen'[c][k].num <= seen'[c][k].asked
                 /\ doubled' \/ seen'[c][k].num = seen'[c][k].asked
      <4>1. CASE k \in 1 .. Len(seen[c])
        BY <1>2, <2>0, <2>1, <3>2, <4>1 DEF Answered
      <4>2. CASE k = Len(seen[c]) + 1
        BY <1>2, <3>2, <3>3, <4>2
      <4> QED
        BY <3>2, <4>1, <4>2
    <3> QED
      BY <2>1, <3>4 DEF Answered
  <2>2. CASE e # c
    <3>1. seen'[e] = seen[e]
      BY <1>1, <2>2
    <3> QED
      BY <1>2, <2>0, <3>1 DEF Answered
  <2> QED
    BY <2>1, <2>2
<1>7. ASSUME Talking, NEW e \in UdpClients, ~doubled' PROVE Single(e)'
  <2>1. Single(e) /\ flight' = flight \ {d} /\ d.of = c
    BY <1>2, <1>4, <1>7 DEF UdpInv
  <2>2. CASE e = c
    BY <1>0, <2>1, <2>2 DEF Single
  <2>3. CASE e # c
    <3>1. at'[e] = at[e]
      BY <1>0, <1>1, <2>3
    <3> QED
      BY <1>0, <2>1, <3>1 DEF Single
  <2> QED
    BY <2>2, <2>3
<1> QED
  BY <1>0, <1>3, <1>5, <1>6, <1>7 DEF UdpInv, Talking

\* The steps that take something away.
LEMMA UdpTakeAway ==
    ASSUME UdpInv, UNCHANGED kit,
           \/ \E c \in UdpClients : Udp!Refused(c) \/ Udp!Quit(c)
           \/ Udp!Leave \/ Udp!Finished
           \/ \E d \in flight : Udp!Lose(d)
    PROVE  UdpInv'
<1>0. Udp!TypeOK /\ UdpClients = {1, 2} /\ at \in [UdpClients -> {"type", "recv", "ended"}]
  BY UdpFields DEF UdpInv
<1>1. ASSUME NEW c \in UdpClients, Udp!Refused(c) PROVE UdpInv'
  <2> PICK d \in flight : d.to = 0 /\ d.from = c /\ flight' = flight \ {d}
    BY <1>1 DEF Udp!Refused
  <2>1. /\ at' = [at EXCEPT ![c] = "type"] /\ serv = "ended"
        /\ UNCHANGED <<serv, asked, cur, seen, lost, doubled>>
    BY <1>1 DEF Udp!Refused, Udp!Goto
  <2>2. Udp!TypeOK'
    BY <1>0, <2>1 DEF Udp!TypeOK, UdpClients
  <2>3. Talking => Addressed' /\ d.of = c
    BY <1>0, <2>1 DEF UdpInv, Addressed
  <2>4. ASSUME NEW e \in UdpClients, at[e] = "recv", at'[e] # "recv", ~doubled,
               NEW x \in flight', Talking
        PROVE  x.of # e
    <3>1. e = c
      BY <1>0, <2>1, <2>4
    <3>2. Single(c)
      BY <2>4 DEF UdpInv
    <3> QED
      BY <2>3, <2>4, <3>1, <3>2 DEF Single
  <2> QED
    BY <2>1, <2>2, <2>4, UdpFewer
<1>2. ASSUME NEW c \in UdpClients, Udp!Quit(c) PROVE UdpInv'
  <2>1. /\ at[c] = "type" /\ at' = [at EXCEPT ![c] = "ended"]
        /\ UNCHANGED <<flight, serv, asked, cur, seen, lost, doubled>>
    BY <1>2 DEF Udp!Quit, Udp!Goto
  <2>2. Udp!TypeOK'
    BY <1>0, <2>1 DEF Udp!TypeOK, UdpClients
  <2>3. \A e \in UdpClients : at[e] = "recv" => at'[e] = "recv"
    BY <1>0, <2>1
  <2> QED
    BY <2>1, <2>2, <2>3, UdpFewer
<1>3. CASE Udp!Leave
  <2>1. Udp!TypeOK'
    BY <1>0, <1>3 DEF Udp!Leave, Udp!TypeOK
  <2> QED
    BY <1>3, <2>1, UdpFewer DEF Udp!Leave
<1>4. CASE Udp!Finished
  <2>1. Udp!TypeOK'
    BY <1>0, <1>4 DEF Udp!Finished, Udp!exchange, Udp!TypeOK
  <2> QED
    BY <1>4, <2>1, UdpFewer DEF Udp!Finished, Udp!exchange
<1>5. ASSUME NEW d \in flight, Udp!Lose(d) PROVE UdpInv'
  <2>1. /\ flight' = flight \ {d} /\ lost' \in BOOLEAN
        /\ UNCHANGED <<at, serv, asked, cur, seen, doubled>>
    BY <1>0, <1>5 DEF Udp!Lose, Udp!TypeOK
  <2>2. Udp!TypeOK'
    BY <1>0, <2>1 DEF Udp!TypeOK
  <2> QED
    BY <2>1, <2>2, UdpFewer
<1> QED
  BY <1>1, <1>2, <1>3, <1>4, <1>5

LEMMA UdpServer ==
    ASSUME UdpInv, UNCHANGED kit, Talking, Udp!Request \/ Udp!Answer
    PROVE  UdpInv'
<1>0. Udp!TypeOK /\ Addressed /\ doubled \in BOOLEAN
  BY DEF UdpInv, Udp!TypeOK
<1>1. CASE Udp!Request
  <2> PICK d \in flight : d.to = 0 /\ Udp!Taken(d) /\ cur' = d
    BY <1>1 DEF Udp!Request
  <2>1. serv = "recv" /\ serv' = "send" /\ UNCHANGED <<at, asked, seen, lost>>
    BY <1>1 DEF Udp!Request
  <2>2. /\ flight' \subseteq flight /\ doubled' \in BOOLEAN
        /\ doubled => doubled'
        /\ ~doubled' => flight' = flight \ {d}
    BY <1>0, UdpTaken
  <2>3. Udp!TypeOK'
    BY <1>0, <2>1, <2>2 DEF Udp!TypeOK
  <2>4. Addressed'
    <3>1. cur'.of \in UdpClients /\ cur'.num <= asked'[cur'.of] /\ cur'.from = cur'.of
      <4>1. d.of \in UdpClients /\ d.num <= asked[d.of] /\ (d.to = d.of \/ d.from = d.of)
        BY <1>0 DEF Addressed
      <4>2. d.of # 0
        BY <1>0, <4>1, UdpFields
      <4> QED
        BY <2>1, <4>1, <4>2
    <3>2. ASSUME NEW e \in flight'
          PROVE  /\ e.of \in UdpClients /\ e.num <= asked'[e.of]
                 /\ e.to = e.of \/ (e.to = 0 /\ e.from = e.of)
      <4>1. e \in flight /\ asked' = asked
        BY <2>1, <2>2
      <4> QED
        BY <1>0, <4>1 DEF Addressed
    <3> QED
      BY <3>1, <3>2 DEF Addressed
  <2>5. ASSUME NEW e \in UdpClients PROVE Answered(e)' /\ (doubled' \/ Single(e)')
    <3>1. Answered(e)'
      BY <2>1, <2>2 DEF UdpInv, Answered
    <3>2. ASSUME ~doubled' PROVE Single(e)'
      <4>1. Single(e) /\ flight' = flight \ {d}
        BY <2>2, <3>2 DEF UdpInv
      <4> QED
        BY <2>1, <4>1 DEF Single
    <3> QED
      BY <3>1, <3>2
  <2> QED
    BY <2>3, <2>4, <2>5 DEF UdpInv, Talking
<1>2. CASE Udp!Answer
  <2> DEFINE new == [to |-> cur.from, from |-> 0, num |-> cur.num, of |-> cur.from]
  <2>1. /\ flight' = flight \cup {new} /\ serv = "send" /\ serv' = "recv"
        /\ UNCHANGED <<at, asked, cur, seen, lost, doubled>>
    BY <1>2 DEF Udp!Answer
  <2>2. new \in Udp!Datagram
    BY <1>0, UdpFields DEF Udp!Datagram, Udp!Hosts
  <2>3. /\ new.of = cur.of /\ new.num = cur.num /\ new.to = new.of
        /\ cur.of \in UdpClients /\ cur.num <= asked[cur.of]
    BY <1>0, <2>1 DEF Addressed
  <2> HIDE DEF new
  <2>4. Udp!TypeOK'
    BY <1>0, <2>1, <2>2 DEF Udp!TypeOK
  <2>5. Addressed'
    BY <1>0, <2>1, <2>3 DEF Addressed
  <2>6. ASSUME NEW e \in UdpClients PROVE Answered(e)' /\ (doubled' \/ Single(e)')
    <3>1. Answered(e)'
      BY <2>1 DEF UdpInv, Answered
    <3>2. ASSUME ~doubled PROVE Single(e)'
      BY <2>1, <2>3, <3>2 DEF UdpInv, Single
    <3> QED
      BY <2>1, <3>1, <3>2
  <2> QED
    BY <2>4, <2>5, <2>6 DEF UdpInv, Talking
<1> QED
  BY <1>1, <1>2

\* The senders of news, whose datagrams nobody answers.
LEMMA UdpTell ==
    ASSUME UdpInv, UNCHANGED kit, ~Talking, Udp!Tell
    PROVE  UdpInv'
BY DEF UdpInv, Udp!TypeOK, Talking, Udp!Tell, Udp!Clients, Udp!Hosts, Udp!Datagram

LEMMA UdpStep == ASSUME UdpInv, Udp!Next PROVE UdpInv'
<1> USE DEF Udp!EchoKits, Udp!NewsKits, Talking
<1>1. ASSUME NEW c \in UdpClients, Udp!Host(c), UNCHANGED kit PROVE UdpInv'
  <2>1. CASE Udp!Converses(c)
    BY <1>1, <2>1, UdpSendTo, UdpReceiveFrom, UdpTakeAway DEF Udp!Converses
  <2>2. CASE Udp!Refused(c)
    BY <1>1, <2>2, UdpTakeAway
  <2>3. CASE c = 1 /\ Udp!BoundHost1
    BY <1>1, <2>3, UdpReceiveFrom DEF Udp!BoundHost1
  <2>4. CASE c = 2 /\ Udp!BoundHost2
    BY <1>1, <2>4, UdpSendTo DEF Udp!BoundHost2
  <2>5. CASE Udp!ReceiveFrom(c, "recv")
    BY <1>1, <2>5, UdpReceiveFrom
  <2> QED
    BY <1>1, <2>1, <2>2, <2>3, <2>4, <2>5
    DEF Udp!Host, Udp!UechoClient, Udp!UechoConClient, Udp!UechoClientWin,
        Udp!UchatClientWin, Udp!NewsReceiver, Udp!NewsReceiverBrd, Udp!NewsReceiverWin
<1>2. ASSUME Udp!Server, UNCHANGED kit PROVE UdpInv'
  BY <1>2, UdpServer, UdpTakeAway, UdpTell
  DEF Udp!Server, Udp!UechoServer, Udp!UechoServerWin, Udp!UchatServerWin,
      Udp!NewsSender, Udp!NewsSenderBrd, Udp!NewsSenderWin
<1> QED
  BY <1>1, <1>2, UdpTakeAway DEF Udp!Next, UdpClients

LEMMA UdpAlways == SmallSpec => []UdpInv
<1>1. SmallInit => UdpInv
  BY UdpStart DEF SmallInit
<1>2. UdpInv /\ [SmallNext]_all => UdpInv'
  <2> SUFFICES ASSUME UdpInv, [SmallNext]_all PROVE UdpInv'
    OBVIOUS
  <2>1. Udp!Next \/ UNCHANGED conversing
    BY DEF SmallNext, all
  <2>2. CASE UNCHANGED conversing
    <3>1. UdpInv => Udp!TypeOK'
      BY <2>2 DEF conversing, exchange, UdpInv, Udp!TypeOK
    <3> QED
      BY <2>2, <3>1, UdpFewer DEF conversing, exchange
  <2> QED
    BY <2>1, <2>2, UdpStep
<1> QED
  BY <1>1, <1>2, PTL DEF SmallSpec

\* recvfrom does not look whom a datagram is from or what it answers; still,
\* what the UDP echo and chat clients show as the answer is one to a message of
\* their own, and to the last one unless the network has delivered something
\* twice, whatever it has lost or delayed.
THEOREM AnswersMatchHolds == SmallSpec => []AnswersMatch
<1>1. UdpInv => AnswersMatch
  BY DEF UdpInv, Talking, Answered, UdpClients, AnswersMatch, Udp!AnswersMatch
<1> QED
  BY <1>1, UdpAlways, PTL
-----------------------------------------------------------------------------
(* SharedCounter: its theorems hold of the counter among the other programs, *)
(* which leave it alone.                                                     *)

CounterProofs == INSTANCE SharedCounterProofs WITH num <- counter

\* The lock is held in both loops, as in mutex.c and SyncCS_win.c.
BothLock == "none" \notin {IncLock, DecLock}

LEMMA CounterSteps == SmallSpec => CounterProofs!Spec
<1> USE DEF CounterProofs!vars, CounterProofs!thread, CounterProofs!main
<1>1. SmallInit => CounterProofs!Init
  BY DEF SmallInit, Counter!Init, CounterProofs!Init, Counter!Threads,
         CounterProofs!Threads, Counter!Nobody, CounterProofs!Nobody
<1>2. Counter!Next => CounterProofs!Next
  BY DEF Counter!Next, CounterProofs!Next, Counter!Threads, CounterProofs!Threads,
         Counter!Work, CounterProofs!Work, Counter!Create, CounterProofs!Create,
         Counter!Join, CounterProofs!Join, Counter!Printed, CounterProofs!Printed,
         Counter!Lock, CounterProofs!Lock, Counter!Load, CounterProofs!Load,
         Counter!Store, CounterProofs!Store, Counter!Unlock, CounterProofs!Unlock,
         Counter!vars, Counter!thread, Counter!main, Counter!Mode, CounterProofs!Mode,
         Counter!IsInc, CounterProofs!IsInc, Counter!Delta, CounterProofs!Delta,
         Counter!AfterStore, CounterProofs!AfterStore, Counter!Again,
         CounterProofs!Again, Counter!Nobody, CounterProofs!Nobody
<1>3. [SmallNext]_all => [CounterProofs!Next]_(CounterProofs!vars)
  BY <1>2 DEF SmallNext, all, counting
<1> QED
  BY <1>1, <1>3, PTL DEF SmallSpec, CounterProofs!Spec

\* With the lock in both loops the counter is 0 when main prints it, for any
\* even number of threads and any number of iterations.
THEOREM ResultZeroHolds == ASSUME BothLock PROVE SmallSpec => []ResultZero
<1>1. CounterProofs!Locked
  BY CounterParameters DEF BothLock, CounterProofs!Locked, Counter!Parameters,
                           CounterProofs!Parameters
<1>2. CounterProofs!Spec => []CounterProofs!ResultZero
  BY <1>1, CounterProofs!ResultZeroHolds
<1>3. CounterProofs!ResultZero => ResultZero
  BY DEF CounterProofs!ResultZero, ResultZero, Counter!ResultZero
<1> QED
  BY <1>2, <1>3, CounterSteps, PTL

\* With the lock in both loops no update is lost: the program counts as if +=
\* and -= were atomic.
THEOREM ImplementsAtomic == ASSUME BothLock PROVE SmallSpec => AtomicSpec
<1>1. CounterProofs!Locked
  BY CounterParameters DEF BothLock, CounterProofs!Locked, Counter!Parameters,
                           CounterProofs!Parameters
<1>2. CounterProofs!Spec => CounterProofs!AtomicSpec
  BY <1>1, CounterProofs!ImplementsAtomic
<1> USE DEF CounterProofs!Threads, Counter!Threads, CounterProofs!Delta, Counter!Delta,
            CounterProofs!IsInc, Counter!IsInc
<1>3. CounterProofs!Atomic!Init => Counter!Atomic!Init
  BY DEF CounterProofs!Atomic!Init, Counter!Atomic!Init
<1>4. CounterProofs!Atomic!Next => Counter!Atomic!Next
  BY DEF CounterProofs!Atomic!Next, Counter!Atomic!Next, CounterProofs!Atomic!Change,
         Counter!Atomic!Change
<1>5. CounterProofs!AtomicSpec => AtomicSpec
  BY <1>3, <1>4, PTL DEF CounterProofs!AtomicSpec, AtomicSpec, Counter!AtomicSpec,
                         CounterProofs!Atomic!Spec, Counter!Atomic!Spec
<1> QED
  BY <1>2, <1>5, CounterSteps, PTL

-----------------------------------------------------------------------------
(* StreamScripts: the calls of every program name a channel there is.        *)

ScriptCall ==
    [op : {"listen", "accept", "connect", "begin", "close", "exit"}, chan : {0}, len : {0}]
    \cup [op : {"write", "read", "some", "peek", "fill", "drain", "follow", "echo", "shut"},
          chan : 1 .. 2, len : Nat]
Program == Seq(ScriptCall)

LEMMA CallsTyped ==
    /\ Scripts!Listen \in ScriptCall /\ Scripts!Accept \in ScriptCall
    /\ Scripts!Connect \in ScriptCall /\ Scripts!Begin \in ScriptCall
    /\ Scripts!Close \in ScriptCall /\ Scripts!Exit \in ScriptCall
    /\ Scripts!Echo \in ScriptCall
    /\ \A c \in 1 .. 2, n \in Nat : /\ Scripts!Write(c, n) \in ScriptCall
                                    /\ Scripts!Read(c, n) \in ScriptCall
                                    /\ Scripts!ReadSome(c, n) \in ScriptCall
                                    /\ Scripts!Fill(c, n) \in ScriptCall
    /\ \A c \in 1 .. 2 : /\ Scripts!Peek(c) \in ScriptCall /\ Scripts!Drain(c) \in ScriptCall
                         /\ Scripts!Follow(c) \in ScriptCall /\ Scripts!Shut(c) \in ScriptCall
BY DEF ScriptCall, Scripts!Call, Scripts!Listen, Scripts!Accept, Scripts!Connect, Scripts!Begin,
       Scripts!Close, Scripts!Exit, Scripts!Echo, Scripts!Write, Scripts!Read, Scripts!ReadSome,
       Scripts!Fill, Scripts!Peek, Scripts!Drain, Scripts!Follow, Scripts!Shut

LEMMA TimesTyped ==
    ASSUME NEW n \in Nat, NEW calls \in Program, calls # <<>>
    PROVE  Scripts!Times(n, calls) \in Program
<1>1. Len(calls) \in Nat \ {0}
  BY EmptySeq DEF Program
<1>2. n * Len(calls) \in Nat
  BY <1>1
<1>3. ASSUME NEW k \in 1 .. n * Len(calls)
      PROVE  calls[((k - 1) % Len(calls)) + 1] \in ScriptCall
  <2>1. ((k - 1) % Len(calls)) + 1 \in 1 .. Len(calls)
    BY <1>1
  <2> QED
    BY <2>1, ElementOfSeq DEF Program
<1> QED
  BY <1>2, <1>3, IsASeq DEF Program, Scripts!Times

\* The programs that are one list of calls,
LEMMA PlainTyped ==
    /\ Scripts!HelloServer \in Program /\ Scripts!HelloClient \in Program
    /\ Scripts!HelloServerWin \in Program /\ Scripts!HelloClientWin \in Program
    /\ Scripts!TcpServer \in Program /\ Scripts!TcpClient \in Program
    /\ Scripts!TcpServerWin \in Program /\ Scripts!TcpClientWin \in Program
    /\ Scripts!TcpClient2 \in Program
    /\ Scripts!FileByNameServer \in Program /\ Scripts!FileByNameClient \in Program
    /\ Scripts!FileServer \in Program /\ Scripts!FileClient \in Program
    /\ Scripts!FileServerWin \in Program /\ Scripts!FileClientWin \in Program
    /\ Scripts!SepServ \in Program /\ Scripts!SepServ2 \in Program /\ Scripts!SepClnt \in Program
    /\ Scripts!PeekSend \in Program /\ Scripts!PeekRecv \in Program
    /\ Scripts!OverlappedSend \in Program /\ Scripts!OverlappedRecv \in Program
    /\ Scripts!CmplRoutinesRecv \in Program
    /\ Scripts!Pipe1Child \in Program /\ Scripts!Pipe1Parent \in Program
    /\ Scripts!Pipe2Child \in Program /\ Scripts!Pipe2Parent \in Program
    /\ Scripts!Pipe3Child \in Program /\ Scripts!Pipe3Parent \in Program
    /\ Scripts!ReadRoutine \in Program /\ Scripts!ChatClnt \in Program
    /\ Scripts!ChatClntWin \in Program /\ Scripts!ConnectServer \in Program
    /\ Scripts!ChatClientC \in Program /\ Scripts!Answerer \in Program
<1> USE CallsTyped, ScriptParameters DEF Program, Scripts!StreamParameters
<1>1. /\ Scripts!HelloServer \in Program /\ Scripts!HelloClient \in Program
      /\ Scripts!HelloServerWin \in Program /\ Scripts!HelloClientWin \in Program
      /\ Scripts!TcpServer \in Program /\ Scripts!TcpClient \in Program
  BY DEF Scripts!HelloServer, Scripts!HelloClient, Scripts!HelloServerWin,
         Scripts!HelloClientWin, Scripts!TcpServer, Scripts!TcpClient
<1>2. /\ Scripts!TcpServerWin \in Program /\ Scripts!TcpClientWin \in Program
      /\ Scripts!TcpClient2 \in Program
      /\ Scripts!FileByNameServer \in Program /\ Scripts!FileByNameClient \in Program
  BY DEF Scripts!TcpServerWin, Scripts!TcpClientWin, Scripts!TcpClient2,
         Scripts!FileByNameServer, Scripts!FileByNameClient
<1>3. /\ Scripts!FileServer \in Program /\ Scripts!FileClient \in Program
      /\ Scripts!FileServerWin \in Program /\ Scripts!FileClientWin \in Program
      /\ Scripts!SepServ \in Program /\ Scripts!SepServ2 \in Program /\ Scripts!SepClnt \in Program
  BY DEF Scripts!FileServer, Scripts!FileClient, Scripts!FileServerWin, Scripts!FileClientWin,
         Scripts!SepServ, Scripts!SepServ2, Scripts!SepClnt
<1>4. /\ Scripts!PeekSend \in Program /\ Scripts!PeekRecv \in Program
      /\ Scripts!OverlappedSend \in Program /\ Scripts!OverlappedRecv \in Program
      /\ Scripts!CmplRoutinesRecv \in Program
  BY DEF Scripts!PeekSend, Scripts!PeekRecv, Scripts!OverlappedSend, Scripts!OverlappedRecv,
         Scripts!CmplRoutinesRecv
<1>5. /\ Scripts!Pipe1Child \in Program /\ Scripts!Pipe1Parent \in Program
      /\ Scripts!Pipe2Child \in Program /\ Scripts!Pipe2Parent \in Program
      /\ Scripts!Pipe3Child \in Program /\ Scripts!Pipe3Parent \in Program
  BY DEF Scripts!Pipe1Child, Scripts!Pipe1Parent, Scripts!Pipe2Child, Scripts!Pipe2Parent,
         Scripts!Pipe3Child, Scripts!Pipe3Parent
<1>6. /\ Scripts!ReadRoutine \in Program /\ Scripts!ChatClnt \in Program
      /\ Scripts!ChatClntWin \in Program /\ Scripts!ConnectServer \in Program
      /\ Scripts!ChatClientC \in Program /\ Scripts!Answerer \in Program
  BY DEF Scripts!ReadRoutine, Scripts!ChatClnt, Scripts!ChatClntWin, Scripts!ConnectServer,
         Scripts!ChatClientC, Scripts!Answerer
<1> QED
  BY <1>1, <1>2, <1>3, <1>4, <1>5, <1>6

\* and those with a loop in it.
LEMMA LoopsTyped ==
    /\ Scripts!TcpServer2 \in Program
    /\ Scripts!StringServer \in Program /\ Scripts!StringClient \in Program
    /\ Scripts!OpServer \in Program /\ Scripts!OpClient \in Program
    /\ Scripts!StrPipeChild \in Program /\ Scripts!StrPipeParent \in Program
    /\ Scripts!EchoClient \in Program /\ Scripts!EchoClientWin \in Program
    /\ Scripts!EchoClient2 \in Program /\ Scripts!EchoStdClient \in Program
    /\ Scripts!StableEchoClnt \in Program /\ Scripts!WriteRoutine \in Program
    /\ Scripts!SendMsg \in Program /\ Scripts!SendMsgWin \in Program
    /\ Scripts!SendMsgCpp \in Program /\ Scripts!SendMsgC \in Program
<1> USE CallsTyped, ScriptParameters DEF Scripts!StreamParameters
<1>1. \A a, b \in Program : a \o b \in Program
  BY ConcatProperties DEF Program
<1>2. /\ <<Scripts!Listen, Scripts!Accept>> \in Program /\ <<Scripts!Close>> \in Program
      /\ <<Scripts!Connect>> \in Program /\ <<Scripts!Begin>> \in Program
      /\ <<Scripts!Exit>> \in Program /\ <<Scripts!Shut(1), Scripts!Close>> \in Program
      /\ <<Scripts!Listen, Scripts!Accept, Scripts!Read(1, Num)>> \in Program
      /\ <<Scripts!Read(1, 1), Scripts!Write(2, Num), Scripts!Close>> \in Program
      /\ <<Scripts!Connect, Scripts!Write(1, Num)>> \in Program
      /\ <<Scripts!Write(1, 1), Scripts!Read(2, Num), Scripts!Close>> \in Program
  BY DEF Program
<1> DEFINE Loop(n, calls) == Scripts!Times(n, calls)
<1>3. ASSUME NEW n \in Nat
      PROVE  /\ Loop(n, <<Scripts!Write(2, 1)>>) \in Program
             /\ Loop(n, <<Scripts!Read(1, Num)>>) \in Program
             /\ Loop(n, <<Scripts!Write(1, Num)>>) \in Program
             /\ Loop(n, <<Scripts!Write(1, Str)>>) \in Program
  <2>1. ASSUME NEW c \in ScriptCall PROVE Loop(n, <<c>>) \in Program
    <3>1. <<c>> \in Program /\ <<c>> # <<>>
      BY DEF Program
    <3> QED
      BY <3>1, TimesTyped
  <2> QED
    BY <2>1
<1>4. ASSUME NEW n \in Nat
      PROVE  /\ Loop(n, <<Scripts!Write(1, Str), Scripts!Read(2, Str)>>) \in Program
             /\ Loop(n, <<Scripts!Read(1, Str), Scripts!Write(2, Str)>>) \in Program
             /\ Loop(n, <<Scripts!Write(1, Str), Scripts!ReadSome(2, Str)>>) \in Program
             /\ Loop(n, <<Scripts!Write(1, Str), Scripts!Fill(2, Str)>>) \in Program
  <2>1. ASSUME NEW c \in ScriptCall, NEW d \in ScriptCall PROVE Loop(n, <<c, d>>) \in Program
    <3>1. <<c, d>> \in Program /\ <<c, d>> # <<>>
      BY DEF Program
    <3> QED
      BY <3>1, TimesTyped
  <2> QED
    BY <2>1
<1>5. ASSUME NEW n \in Nat
      PROVE  /\ Loop(n, <<Scripts!Write(2, Num), Scripts!Write(2, Str), Scripts!Read(1, Num),
                          Scripts!Read(1, Str)>>) \in Program
             /\ Loop(n, <<Scripts!Read(2, Num), Scripts!Read(2, Str), Scripts!Write(1, Num),
                          Scripts!Write(1, Str)>>) \in Program
  <2>1. ASSUME NEW c \in ScriptCall, NEW d \in ScriptCall, NEW e \in ScriptCall, NEW f \in ScriptCall
        PROVE  Loop(n, <<c, d, e, f>>) \in Program
    <3>1. <<c, d, e, f>> \in Program /\ <<c, d, e, f>> # <<>>
      BY DEF Program
    <3> QED
      BY <3>1, TimesTyped
  <2>2. /\ Scripts!Write(2, Num) \in ScriptCall /\ Scripts!Write(2, Str) \in ScriptCall
        /\ Scripts!Read(1, Num) \in ScriptCall /\ Scripts!Read(1, Str) \in ScriptCall
        /\ Scripts!Read(2, Num) \in ScriptCall /\ Scripts!Read(2, Str) \in ScriptCall
        /\ Scripts!Write(1, Num) \in ScriptCall /\ Scripts!Write(1, Str) \in ScriptCall
    OBVIOUS
  <2> HIDE CallsTyped, ScriptParameters DEF Loop
  <2> QED
    BY <2>1, <2>2, Zenon
<1> HIDE CallsTyped, ScriptParameters DEF Scripts!StreamParameters
<1>6. Lines \in Nat /\ 2 \in Nat /\ 3 \in Nat
  BY ScriptParameters DEF Scripts!StreamParameters
<1> USE <1>1, <1>2, <1>3, <1>4, <1>5, <1>6, Zenon
<1>7. /\ Scripts!TcpServer2 \in Program
      /\ Scripts!StringServer \in Program /\ Scripts!StringClient \in Program
  BY DEF Scripts!TcpServer2, Scripts!StringServer, Scripts!StringClient
<1>8. Scripts!OpServer \in Program /\ Scripts!OpClient \in Program
  BY DEF Scripts!OpServer, Scripts!OpClient
<1>9. Scripts!StrPipeChild \in Program /\ Scripts!StrPipeParent \in Program
  BY DEF Scripts!StrPipeChild, Scripts!StrPipeParent
<1>10. /\ Scripts!EchoClient \in Program /\ Scripts!EchoClientWin \in Program
       /\ Scripts!EchoClient2 \in Program /\ Scripts!EchoStdClient \in Program
       /\ Scripts!StableEchoClnt \in Program
  BY DEF Scripts!EchoClient, Scripts!EchoClientWin, Scripts!EchoClient2, Scripts!EchoStdClient,
         Scripts!StableEchoClnt
<1>11. /\ Scripts!WriteRoutine \in Program
       /\ Scripts!SendMsg \in Program /\ Scripts!SendMsgWin \in Program
       /\ Scripts!SendMsgCpp \in Program /\ Scripts!SendMsgC \in Program
  BY DEF Scripts!WriteRoutine, Scripts!SendMsg, Scripts!SendMsgWin, Scripts!SendMsgCpp,
         Scripts!SendMsgC
<1> QED
  BY <1>7, <1>8, <1>9, <1>10, <1>11

LEMMA PairsTyped ==
    ASSUME NEW p \in DOMAIN Scripts!Pairs
    PROVE  Scripts!Pairs[p] \in Seq(Program)
<1> DEFINE InProgram(q) == Scripts!Pairs[q] \in Seq(Program)
<1>1. p \in {"hello", "hello_win", "tcp", "tcp_win", "tcp2", "string3", "op",
             "file_name", "file", "file_win", "sep", "sep2", "peek", "overlapped",
             "routine", "pipe1", "pipe2", "pipe3", "pipe_str", "once", "once_win",
             "count", "line", "stable", "split", "chat", "chat_win", "chat_cpp",
             "chat_c"}
  BY DEF Scripts!Pairs
<1>2. /\ InProgram("hello") /\ InProgram("hello_win") /\ InProgram("tcp") /\ InProgram("tcp_win")
      /\ InProgram("tcp2") /\ InProgram("string3") /\ InProgram("op") /\ InProgram("file_name")
  BY PlainTyped, LoopsTyped DEF Scripts!Pairs
<1>3. /\ InProgram("file") /\ InProgram("file_win") /\ InProgram("sep") /\ InProgram("sep2")
      /\ InProgram("peek") /\ InProgram("overlapped") /\ InProgram("routine") /\ InProgram("pipe1")
  BY PlainTyped, LoopsTyped DEF Scripts!Pairs
<1>4. /\ InProgram("pipe2") /\ InProgram("pipe3") /\ InProgram("pipe_str") /\ InProgram("once")
      /\ InProgram("once_win") /\ InProgram("count") /\ InProgram("line") /\ InProgram("stable")
  BY PlainTyped, LoopsTyped DEF Scripts!Pairs
<1>5. /\ InProgram("split") /\ InProgram("chat") /\ InProgram("chat_win") /\ InProgram("chat_cpp")
      /\ InProgram("chat_c")
  BY PlainTyped, LoopsTyped DEF Scripts!Pairs
<1> HIDE DEF InProgram
<1>6. InProgram(p)
  BY <1>1, <1>2, <1>3, <1>4, <1>5
<1> QED
  BY <1>6, Zenon DEF InProgram

ScriptTyped ==
    /\ script \in DOMAIN Scripts!Pairs
    /\ todo \in [1 .. 3 -> Program]
    /\ up \subseteq {"listening", "connected"}
    /\ bytes \in [1 .. 2 -> Nat]
    /\ shut \in SUBSET (1 .. 2) /\ gone \in SUBSET (1 .. 2)
    /\ garbled \in BOOLEAN /\ refused \in BOOLEAN

LEMMA ScriptStart == ASSUME Scripts!Init PROVE ScriptTyped
<1>1. /\ script \in DOMAIN Scripts!Pairs /\ Scripts!Pairs[script] \in Seq(Program)
      /\ todo = [s \in 1 .. 3 |-> IF s <= Len(Scripts!Pairs[script])
                                  THEN Scripts!Pairs[script][s] ELSE <<>>]
      /\ bytes = [c \in 1 .. 2 |-> 0]
  BY PairsTyped DEF Scripts!Init, Scripts!Sides, Scripts!Chans
<1> PICK pair : pair = Scripts!Pairs[script]
  OBVIOUS
<1>2. \A s \in 1 .. 3 : s <= Len(pair) => pair[s] \in Program
  <2>1. pair \in Seq(Program) /\ Len(pair) \in Nat
    BY <1>1, LenProperties
  <2>2. ASSUME NEW s \in 1 .. 3, s <= Len(pair) PROVE pair[s] \in Program
    <3>1. s \in 1 .. Len(pair)
      BY <2>1, <2>2
    <3> QED
      BY <2>1, <3>1, ElementOfSeq
  <2> QED
    BY <2>2
<1>3. <<>> \in Program
  BY DEF Program
<1>4. todo \in [1 .. 3 -> Program]
  BY <1>1, <1>2, <1>3
<1>5. bytes \in [1 .. 2 -> Nat]
  BY <1>1
<1> QED
  BY <1>1, <1>4, <1>5 DEF ScriptTyped, Scripts!Init

\* The call a side is about to make; after it, the others are left.
LEMMA ScriptNow ==
    ASSUME ScriptTyped, NEW s \in 1 .. 3, ~Scripts!Ended(s)
    PROVE  /\ Scripts!Now(s) \in ScriptCall
           /\ Scripts!Done(s) => todo' \in [1 .. 3 -> Program]
<1>1. todo[s] \in Program /\ todo[s] # <<>>
  BY DEF ScriptTyped, Scripts!Ended
<1>2. Head(todo[s]) \in ScriptCall /\ Tail(todo[s]) \in Program
  BY <1>1, HeadTailProperties DEF Program
<1> QED
  BY <1>2 DEF ScriptTyped, Scripts!Now, Scripts!Done

LEMMA ScriptStep ==
    ASSUME ScriptTyped, UNCHANGED script, NEW s \in 1 .. 3, Scripts!Runs(s)
    PROVE  ScriptTyped'
<1> PICK call : call = Scripts!Now(s)
  OBVIOUS
<1>0. /\ todo \in [1 .. 3 -> Program] /\ bytes \in [1 .. 2 -> Nat]
      /\ up \subseteq {"listening", "connected"}
      /\ shut \in SUBSET (1 .. 2) /\ gone \in SUBSET (1 .. 2)
      /\ garbled \in BOOLEAN /\ refused \in BOOLEAN
  BY DEF ScriptTyped
<1>k. ASSUME todo' \in [1 .. 3 -> Program], bytes' \in [1 .. 2 -> Nat],
             up' \subseteq {"listening", "connected"},
             shut' \in SUBSET (1 .. 2), gone' \in SUBSET (1 .. 2),
             garbled' \in BOOLEAN, refused' \in BOOLEAN
      PROVE  ScriptTyped'
  BY <1>k DEF ScriptTyped
<1>n. ASSUME NEW label, Scripts!Calls(s, label)
      PROVE  /\ call \in ScriptCall /\ call.op = label
             /\ Scripts!Done(s) => todo' \in [1 .. 3 -> Program]
  BY <1>n, ScriptNow DEF Scripts!Calls
<1>c. ASSUME call \in ScriptCall,
             call.op \in {"write", "read", "some", "peek", "fill", "drain", "follow", "echo", "shut"}
      PROVE  call.chan \in 1 .. 2 /\ call.len \in Nat
  BY <1>c DEF ScriptCall
<1>e. Scripts!End(s) \in 1 .. 2 /\ 3 - Scripts!End(s) \in 1 .. 2
  BY DEF Scripts!End
<1>1. CASE Scripts!Establish(s)
  <2>1. todo' \in [1 .. 3 -> Program]
    BY <1>1, <1>n DEF Scripts!Establish
  <2> QED
    BY <1>0, <1>1, <1>k, <2>1 DEF Scripts!Establish
<1>2. CASE Scripts!DoWrite(s)
  <2>1. todo' \in [1 .. 3 -> Program] /\ call.chan \in 1 .. 2 /\ call.len \in Nat
    BY <1>2, <1>n, <1>c DEF Scripts!DoWrite
  <2>2. bytes' = bytes \/ bytes' = [bytes EXCEPT ![call.chan] = bytes[call.chan] + call.len]
    BY <1>2 DEF Scripts!DoWrite
  <2>3. bytes' \in [1 .. 2 -> Nat]
    BY <1>0, <2>1, <2>2
  <2>4. refused' \in BOOLEAN
    BY <1>0, <1>2 DEF Scripts!DoWrite
  <2> QED
    BY <1>0, <1>2, <1>k, <2>1, <2>3, <2>4 DEF Scripts!DoWrite
\* No read takes more than there is.
<1>r. ASSUME NEW c \in 1 .. 2, NEW n \in Nat, NEW m \in Scripts!Returned(c, n)
      PROVE  m \in Nat /\ bytes[c] - m \in Nat
  <2>1. bytes[c] \in Nat
    BY <1>0
  <2> QED
    BY <2>1, <1>r DEF Scripts!Returned
<1>3. CASE Scripts!DoRead(s) \/ Scripts!DoReadSome(s)
  <2>1. todo' \in [1 .. 3 -> Program] /\ call.chan \in 1 .. 2 /\ call.len \in Nat
    <3>1. CASE Scripts!DoRead(s)
      BY <3>1, <1>n, <1>c DEF Scripts!DoRead
    <3>2. CASE Scripts!DoReadSome(s)
      BY <3>2, <1>n, <1>c DEF Scripts!DoReadSome
    <3> QED
      BY <1>3, <3>1, <3>2
  <2>2. PICK m \in Scripts!Returned(call.chan, call.len) :
           bytes' = [bytes EXCEPT ![call.chan] = bytes[call.chan] - m]
    BY <1>3 DEF Scripts!DoRead, Scripts!DoReadSome
  <2>3. bytes' \in [1 .. 2 -> Nat]
    BY <1>0, <1>r, <2>1, <2>2
  <2>4. garbled' \in BOOLEAN
    <3>1. CASE Scripts!DoRead(s)
      <4>1. PICK n : garbled' = (n < Scripts!Now(s).len)
        BY <3>1 DEF Scripts!DoRead
      <4> QED
        BY <4>1
    <3>2. CASE Scripts!DoReadSome(s)
      BY <1>0, <3>2 DEF Scripts!DoReadSome
    <3> QED
      BY <1>3, <3>1, <3>2
  <2> QED
    BY <1>0, <1>3, <1>k, <2>1, <2>3, <2>4 DEF Scripts!DoRead, Scripts!DoReadSome
<1>4. CASE Scripts!DoPeek(s) \/ Scripts!DoShut(s)
  <2>1. todo' \in [1 .. 3 -> Program] /\ call.chan \in 1 .. 2
    <3>1. CASE Scripts!DoPeek(s)
      BY <3>1, <1>n, <1>c DEF Scripts!DoPeek
    <3>2. CASE Scripts!DoShut(s)
      BY <3>2, <1>n, <1>c DEF Scripts!DoShut
    <3> QED
      BY <1>4, <3>1, <3>2
  <2>2. shut' \in SUBSET (1 .. 2)
    BY <1>0, <1>4, <2>1 DEF Scripts!DoPeek, Scripts!DoShut
  <2> QED
    BY <1>0, <1>4, <1>k, <2>1, <2>2 DEF Scripts!DoPeek, Scripts!DoShut
<1>5. CASE Scripts!DoFill(s)
  <2>1. todo' \in [1 .. 3 -> Program] /\ call.chan \in 1 .. 2 /\ call.len \in Nat
    BY <1>5, <1>n, <1>c DEF Scripts!DoFill
  <2>2. /\ bytes[call.chan] >= call.len
        /\ bytes' = [bytes EXCEPT ![call.chan] = bytes[call.chan] - call.len]
    BY <1>5 DEF Scripts!DoFill
  <2>3. bytes' \in [1 .. 2 -> Nat]
    BY <1>0, <2>1, <2>2
  <2> QED
    BY <1>0, <1>5, <1>k, <2>1, <2>3 DEF Scripts!DoFill
<1>6. CASE Scripts!DoDrain(s)
  <2>1. todo' \in [1 .. 3 -> Program]
    BY <1>0, <1>6, <1>n DEF Scripts!DoDrain
  <2>2. bytes' \in [1 .. 2 -> Nat]
    BY <1>0, <1>6 DEF Scripts!DoDrain
  <2> QED
    BY <1>0, <1>6, <1>k, <2>1, <2>2 DEF Scripts!DoDrain
<1>7. CASE Scripts!DoFollow(s)
  <2>1. call.chan \in 1 .. 2 /\ todo' = todo
    BY <1>7, <1>n, <1>c DEF Scripts!DoFollow
  <2>2. PICK n \in 1 .. bytes[call.chan] :
           bytes' = [bytes EXCEPT ![call.chan] = bytes[call.chan] - n]
    BY <1>7 DEF Scripts!DoFollow
  <2>3. bytes' \in [1 .. 2 -> Nat]
    BY <1>0, <2>1, <2>2
  <2> QED
    BY <1>0, <1>7, <1>k, <2>1, <2>3 DEF Scripts!DoFollow
<1>8. CASE Scripts!DoEcho(s)
  <2>1. todo' \in [1 .. 3 -> Program]
    BY <1>0, <1>8, <1>n DEF Scripts!DoEcho
  <2>2. bytes' \in [1 .. 2 -> Nat]
    BY <1>0, <1>8 DEF Scripts!DoEcho
  <2>3. refused' \in BOOLEAN
    BY <1>0, <1>8 DEF Scripts!DoEcho
  <2> QED
    BY <1>0, <1>8, <1>k, <2>1, <2>2, <2>3 DEF Scripts!DoEcho
<1>9. CASE Scripts!DoClose(s)
  <2>1. todo' \in [1 .. 3 -> Program]
    BY <1>9, <1>n DEF Scripts!DoClose
  <2>2. shut' \in SUBSET (1 .. 2) /\ gone' \in SUBSET (1 .. 2)
    BY <1>0, <1>9, <1>e DEF Scripts!DoClose
  <2> QED
    BY <1>0, <1>9, <1>k, <2>1, <2>2 DEF Scripts!DoClose
<1>10. CASE Scripts!DoExit(s)
  <2>1. <<>> \in Program
    BY DEF Program
  <2>2. todo' \in [1 .. 3 -> Program]
    BY <1>0, <1>10, <2>1 DEF Scripts!DoExit, Scripts!Sides
  <2>3. shut' \in SUBSET (1 .. 2) /\ gone' \in SUBSET (1 .. 2)
    BY <1>0, <1>10, <1>e DEF Scripts!DoExit
  <2> QED
    BY <1>0, <1>10, <1>k, <2>2, <2>3 DEF Scripts!DoExit
<1> QED
  BY <1>1, <1>2, <1>3, <1>4, <1>5, <1>6, <1>7, <1>8, <1>9, <1>10 DEF Scripts!Runs

LEMMA ScriptAlways == SmallSpec => []ScriptTyped
<1>1. SmallInit => ScriptTyped
  BY ScriptStart DEF SmallInit
<1>2. ScriptTyped /\ [SmallNext]_all => ScriptTyped'
  <2> SUFFICES ASSUME ScriptTyped, [SmallNext]_all PROVE ScriptTyped'
    OBVIOUS
  <2>1. Scripts!Next \/ UNCHANGED streaming
    BY DEF SmallNext, all
  <2>2. CASE UNCHANGED streaming
    BY <2>2 DEF streaming, ScriptTyped
  <2>3. ASSUME NEW s \in 1 .. 3, Scripts!Runs(s), UNCHANGED script PROVE ScriptTyped'
    BY <2>3, ScriptStep
  <2> QED
    BY <2>1, <2>2, <2>3 DEF Scripts!Next, Scripts!Finished, Scripts!stream, Scripts!Sides, streaming
<1> QED
  BY <1>1, <1>2, PTL DEF SmallSpec

-----------------------------------------------------------------------------
\* The variables of the programs beside the semaphore threads keep their types,
\* with and without a lock around the counter, whatever the user types and
\* whatever the network does: the threads of the event programs stay within the
\* line and never count more than they have looked at, SyncEventToSemaVer_win.c
\* keeps to two permits, and the scripted programs name no channel there is not
\* and never read bytes that are not there.
THEOREM OthersTypeOKHolds == SmallSpec => []OthersTypeOK
<1>1. SmallSpec => []Counter!TypeOK
  <2>1. CounterProofs!Parameters
    BY CounterParameters DEF Counter!Parameters, CounterProofs!Parameters
  <2>2. CounterProofs!Spec => []CounterProofs!TypeOK
    BY <2>1, CounterProofs!TypeCorrect
  <2>3. CounterProofs!TypeOK => Counter!TypeOK
    BY DEF CounterProofs!TypeOK, Counter!TypeOK, CounterProofs!Threads, Counter!Threads,
           CounterProofs!Nobody, Counter!Nobody
  <2> QED
    BY <2>2, <2>3, CounterSteps, PTL
<1>2. EventInv => Event!TypeOK
  <2> SUFFICES ASSUME EventInv PROVE Event!TypeOK
    OBVIOUS
  <2>1. \A t \in Counters : i[t] \in 0 .. Len(str) /\ cnt[t] \in 0 .. i[t]
    <3> SUFFICES ASSUME NEW t \in Counters PROVE i[t] \in 0 .. Len(str) /\ cnt[t] \in 0 .. i[t]
      OBVIOUS
    <3>1. i[t] \in Nat /\ cnt[t] \in Nat /\ Len(str) \in Nat
      BY LineIsSequence DEF EventInv, EventTyped
    <3>2. i[t] <= Len(str) /\ cnt[t] = Cardinality(Positions(t, i[t]))
      BY DEF EventInv, Tallied
    <3>3. Cardinality(Positions(t, i[t])) <= i[t]
      BY <3>1, PositionsFinite
    <3> QED
      BY <3>1, <3>2, <3>3
  <2>2. permits \in 0 .. 2
    BY DEF EventInv, Permits, TakenBy
  <2>3. /\ variant \in {"event", "sema"} /\ signaled \in BOOLEAN
        /\ main \in {"create", "fgets", "set", "wait", "reset", "ended"}
        /\ str \in {<<>>} \cup {Event!Stored(typed) : typed \in Event!Inputs}
        /\ thread \in [Counters -> {"none", "wait", "count", "release", "ended"}]
        /\ shown \in [Counters -> Int]
    BY DEF EventInv, EventTyped
  <2> QED
    BY <2>1, <2>2, <2>3, Zenon DEF Event!TypeOK, Counters
<1>3. ScriptTyped => Scripts!TypeOK
  <2> DEFINE Any == [op : {"listen", "accept", "connect", "begin", "write", "read", "some",
                           "peek", "fill", "drain", "follow", "echo", "shut", "close", "exit"},
                     chan : {0} \cup 1 .. 2, len : Nat]
  <2>1. ScriptCall \subseteq Any
    BY DEF ScriptCall
  <2> HIDE DEF Any
  <2>2. \A calls \in Program : calls \in Seq(Any)
    BY <2>1, SeqMonotonic DEF Program
  <2>3. ASSUME ScriptTyped PROVE todo \in [1 .. 3 -> Seq(Any)]
    BY <2>2, <2>3 DEF ScriptTyped
  <2> QED
    BY <2>3 DEF ScriptTyped, Scripts!TypeOK, Scripts!Sides, Scripts!Chans, Any
<1>4. UdpInv => Udp!TypeOK
  BY DEF UdpInv
<1> QED
  BY <1>1, <1>2, <1>3, <1>4, EventAlways, ScriptAlways, UdpAlways, PTL DEF OthersTypeOK

-----------------------------------------------------------------------------
(* Datagrams: what was sent to all, or to bound_host1.c, is not forgotten.   *)

\* Each line of the news is on its way to a receiver or has come.
NewsKept ==
    kit \in Udp!NewsKits =>
       /\ \A c \in 1 .. 2 : at[c] = "recv"
       /\ serv \in {"send", "ended"} /\ (serv = "ended" => asked[0] >= Lines)
       /\ ~lost => \A c \in 1 .. 2 : \A n \in 1 .. asked[0] :
             \/ \E k \in 1 .. Len(seen[c]) : seen[c][k].num = n
             \/ \E d \in flight : d.to = c /\ d.num = n

\* bound_host1.c takes three messages, and bound_host2.c sends three: unless
\* one comes twice, bound_host1.c has not ended while one is on its way.
HostsKept ==
    kit = "hosts" =>
       /\ serv = "recv" /\ at[1] \in {"recv", "ended"} /\ at[2] \in {"type", "ended"}
       /\ (asked[2] = 3 /\ at[2] = "ended") \/ (asked[2] <= 2 /\ at[2] = "type")
       /\ (at[1] = "recv" /\ Len(seen[1]) <= 2) \/ (at[1] = "ended" /\ Len(seen[1]) = 3)
       /\ \A d \in flight : d.to = 1 /\ d.from = 2 /\ d.of = 2 /\ d.num \in 1 .. asked[2]
       /\ \A k \in 1 .. Len(seen[1]) : seen[1][k].num \in 1 .. asked[2]
       /\ ~doubled =>
             /\ \A k \in 1 .. Len(seen[1]) : \A d \in flight : seen[1][k].num # d.num
             /\ \A j, k \in 1 .. Len(seen[1]) : seen[1][j].num = seen[1][k].num => j = k
       /\ ~doubled /\ ~lost => \A n \in 1 .. asked[2] :
             \/ \E k \in 1 .. Len(seen[1]) : seen[1][k].num = n
             \/ \E d \in flight : d.num = n

LEMMA KeptStart == ASSUME Udp!Init PROVE NewsKept /\ HostsKept
BY DEF Udp!Init, NewsKept, HostsKept, Udp!NewsKits, Udp!Clients, Udp!Hosts

LEMMA NewsStep ==
    ASSUME Udp!TypeOK, NewsKept, Udp!Next, kit \in Udp!NewsKits
    PROVE  NewsKept'
<1>0. /\ asked \in [0 .. 2 -> Nat] /\ at \in [1 .. 2 -> {"type", "recv", "ended"}]
      /\ \A c \in 1 .. 2 : seen[c] \in Seq([of : 0 .. 2, num : Nat, asked : Nat])
      /\ seen \in [1 .. 2 -> Seq([of : 0 .. 2, num : Nat, asked : Nat])]
      /\ \A d \in flight : d.to \in 0 .. 2 /\ d.num \in Nat /\ d.of \in 0 .. 2
      /\ kit' = kit /\ Lines \in Nat
  BY ScriptParameters, UdpFields DEF UdpClients, Udp!Clients, Udp!Next, Scripts!StreamParameters
<1>1. ASSUME NEW c \in 1 .. 2, Udp!ReceiveFrom(c, "recv") PROVE NewsKept'
  <2>1. PICK d \in flight :
           /\ d.to = c /\ Udp!Taken(d)
           /\ seen' = [seen EXCEPT ![c] = Append(seen[c], [of |-> d.of, num |-> d.num, asked |-> asked[c]])]
    BY <1>1 DEF Udp!ReceiveFrom
  <2> PICK s : s = [of |-> d.of, num |-> d.num, asked |-> asked[c]]
    OBVIOUS
  <2>2. s \in [of : 0 .. 2, num : Nat, asked : Nat] /\ s.num = d.num
    BY <1>0
  <2>3. /\ Len(seen'[c]) = Len(seen[c]) + 1 /\ seen'[c][Len(seen[c]) + 1] = s
        /\ Len(seen[c]) \in Nat
        /\ \A k \in 1 .. Len(seen[c]) : seen'[c][k] = seen[c][k]
        /\ \A e \in 1 .. 2 : e # c => seen'[e] = seen[e]
    BY <1>0, <2>1, <2>2, AppendProperties, LenProperties
  <2>4. \A e \in flight : e \in flight' \/ e = d
    BY <2>1 DEF Udp!Taken
  <2>5. UNCHANGED <<serv, asked, lost>> /\ \A e \in 1 .. 2 : at'[e] = "recv"
    BY <1>0, <1>1 DEF Udp!ReceiveFrom, Udp!Goto, NewsKept
  <2>6. ASSUME ~lost, NEW e \in 1 .. 2, NEW n \in 1 .. asked[0]
        PROVE  \/ \E k \in 1 .. Len(seen'[e]) : seen'[e][k].num = n
               \/ \E g \in flight' : g.to = e /\ g.num = n
    <3>1. CASE \E k \in 1 .. Len(seen[e]) : seen[e][k].num = n
      BY <2>3, <3>1, SMTT(30)
    <3>2. ASSUME NEW g \in flight, g.to = e, g.num = n
          PROVE  \/ \E k \in 1 .. Len(seen'[e]) : seen'[e][k].num = n
                 \/ \E h \in flight' : h.to = e /\ h.num = n
      <4>1. CASE g = d
        <5>1. e = c /\ s.num = n
          BY <2>1, <2>2, <3>2, <4>1
        <5>2. Len(seen[c]) + 1 \in 1 .. Len(seen'[c])
          BY <2>3
        <5> QED
          BY <2>3, <5>1, <5>2
      <4> QED
        BY <2>4, <3>2, <4>1
    <3> QED
      BY <2>6, <3>1, <3>2 DEF NewsKept
  <2> QED
    BY <1>0, <2>5, <2>6 DEF NewsKept
<1>2. CASE Udp!Tell
  <2>1. /\ asked'[0] = asked[0] + 1 /\ UNCHANGED <<at, seen, lost>>
        /\ flight' = flight \cup {[to |-> c, from |-> 0, num |-> asked[0] + 1, of |-> 0] : c \in 1 .. 2}
    BY <1>0, <1>2 DEF Udp!Tell, Udp!Clients
  <2>2. serv' \in {"send", "ended"} /\ (serv' = "ended" => asked'[0] >= Lines)
    BY <1>0, <1>2, <2>1 DEF Udp!Tell
  <2>3. ASSUME ~lost, NEW c \in 1 .. 2, NEW n \in 1 .. asked[0] + 1
        PROVE  \/ \E k \in 1 .. Len(seen[c]) : seen[c][k].num = n
               \/ \E d \in flight' : d.to = c /\ d.num = n
    <3>1. CASE n = asked[0] + 1
      <4> DEFINE d == [to |-> c, from |-> 0, num |-> asked[0] + 1, of |-> 0]
      <4>1. d \in flight' /\ d.to = c /\ d.num = n
        BY <2>1, <3>1
      <4> HIDE DEF d
      <4> QED
        BY <4>1
    <3>2. CASE n # asked[0] + 1
      <4>0. asked[0] \in Nat
        BY <1>0
      <4>1. n \in 1 .. asked[0]
        BY <3>2, <4>0
      <4> QED
        BY <2>1, <2>3, <4>1 DEF NewsKept
    <3> QED
      BY <3>1, <3>2
  <2> QED
    BY <1>0, <2>1, <2>2, <2>3 DEF NewsKept
<1>3. ASSUME NEW d \in flight, Udp!Lose(d) PROVE NewsKept'
  <2>0. d.to = 0 \/ at[d.to] # "ended"
    BY <1>0 DEF NewsKept
  <2>1. lost' /\ UNCHANGED <<at, serv, asked>>
    <3>1. lost' = (lost \/ d.to = 0 \/ at[d.to] # "ended") /\ UNCHANGED <<at, serv, asked>>
      BY <1>3 DEF Udp!Lose
    <3> QED
      BY <2>0, <3>1
  <2> QED
    BY <1>0, <2>1 DEF NewsKept
<1>4. CASE Udp!Finished
  <2>1. UNCHANGED <<flight, at, serv, asked, seen, lost>>
    BY <1>4 DEF Udp!Finished, Udp!exchange
  <2> QED
    BY <1>0, <2>1 DEF NewsKept
<1>5. /\ \A c \in 1 .. 2 : Udp!Host(c) => Udp!ReceiveFrom(c, "recv")
      /\ Udp!Server => Udp!Tell
  BY DEF Udp!NewsKits, Udp!Host, Udp!UechoClient, Udp!UechoConClient, Udp!UechoClientWin,
         Udp!UchatClientWin, Udp!BoundHost1, Udp!BoundHost2, Udp!NewsReceiver,
         Udp!NewsReceiverBrd, Udp!NewsReceiverWin, Udp!Server, Udp!UechoServer,
         Udp!UechoServerWin, Udp!UchatServerWin, Udp!NewsSender, Udp!NewsSenderBrd,
         Udp!NewsSenderWin
<1> QED
  BY <1>1, <1>2, <1>3, <1>4, <1>5 DEF Udp!Next, Udp!Clients

LEMMA HostsStep ==
    ASSUME Udp!TypeOK, HostsKept, Udp!Next, kit = "hosts"
    PROVE  HostsKept'
<1>0. /\ asked \in [0 .. 2 -> Nat] /\ at \in [1 .. 2 -> {"type", "recv", "ended"}]
      /\ seen[1] \in Seq([of : 0 .. 2, num : Nat, asked : Nat])
      /\ seen \in [1 .. 2 -> Seq([of : 0 .. 2, num : Nat, asked : Nat])]
      /\ Len(seen[1]) \in Nat
      /\ \A d \in flight : d \in Udp!Datagram
      /\ \A d \in flight : d.to \in 0 .. 2 /\ d.num \in Nat /\ d.of \in 0 .. 2
      /\ kit' = kit
  BY UdpFields, LenProperties DEF UdpClients, Udp!Clients, Udp!Next, Udp!TypeOK
<1>u. \A d, e \in flight : d.num = e.num => d = e
  <2>1. ASSUME NEW d \in flight PROVE d = [to |-> 1, from |-> 2, num |-> d.num, of |-> 2]
    <3>1. d.to = 1 /\ d.from = 2 /\ d.of = 2
      BY DEF HostsKept
    <3>2. d = [to |-> d.to, from |-> d.from, num |-> d.num, of |-> d.of]
      BY <1>0 DEF Udp!Datagram
    <3> QED
      BY <3>1, <3>2
  <2> QED
    BY <2>1
<1>v. \A n \in Nat : n <= 2 => (n # 2 /\ n + 1 <= 2) \/ (n = 2 /\ n + 1 = 3)
  OBVIOUS
<1>1. CASE Udp!ReceiveFrom(1, IF Len(seen[1]) = 2 THEN "ended" ELSE "recv")
  <2>1. PICK d \in flight :
           /\ d.to = 1 /\ Udp!Taken(d)
           /\ seen' = [seen EXCEPT ![1] = Append(seen[1], [of |-> d.of, num |-> d.num, asked |-> asked[1]])]
    BY <1>1 DEF Udp!ReceiveFrom
  <2> PICK s : s = [of |-> d.of, num |-> d.num, asked |-> asked[1]]
    OBVIOUS
  <2>2. s \in [of : 0 .. 2, num : Nat, asked : Nat] /\ s.num = d.num
    BY <1>0
  <2> PICK n : n = Len(seen[1])
    OBVIOUS
  <2>3. /\ n \in Nat /\ Len(seen'[1]) = n + 1 /\ seen'[1][n + 1] = s
        /\ \A k \in 1 .. n : seen'[1][k] = seen[1][k]
    BY <1>0, <2>1, <2>2, AppendProperties
  <2>4. /\ UNCHANGED <<serv, asked, lost>> /\ at'[2] = at[2] /\ at[1] = "recv" /\ n <= 2
        /\ (at'[1] = "recv" /\ n + 1 <= 2) \/ (at'[1] = "ended" /\ n + 1 = 3)
    <3>1. /\ UNCHANGED <<serv, asked, lost>> /\ at[1] = "recv" /\ at'[2] = at[2]
          /\ at'[1] = IF n = 2 THEN "ended" ELSE "recv"
      BY <1>0, <1>1 DEF Udp!ReceiveFrom, Udp!Goto
    <3>2. n <= 2
      BY <3>1 DEF HostsKept
    <3>0. n \in Nat
      BY <2>3
    <3>3. (n # 2 /\ n + 1 <= 2) \/ (n = 2 /\ n + 1 = 3)
      BY <1>v, <3>0, <3>2
    <3> QED
      BY <3>1, <3>2, <3>3
  <2>5. /\ flight' \subseteq flight
        /\ \A e \in flight : e \in flight' \/ e = d
        /\ ~doubled' => ~doubled /\ d \notin flight'
    <3>1. CASE flight' = flight \ {d} /\ UNCHANGED doubled
      BY <3>1
    <3>2. CASE doubled' = TRUE /\ flight' = flight
      BY <3>2
    <3> QED
      BY <2>1, <3>1, <3>2 DEF Udp!Taken
  <2>6. d.num \in 1 .. asked[2] /\ \A k \in 1 .. n : seen[1][k].num \in 1 .. asked[2]
    BY DEF HostsKept
  <2>7. \A k \in 1 .. n + 1 : k \in 1 .. n \/ k = n + 1
    BY <2>3
  <2>8. \A k \in 1 .. Len(seen'[1]) : seen'[1][k].num \in 1 .. asked'[2]
    BY <2>2, <2>3, <2>4, <2>6, <2>7
  <2>9. ASSUME ~doubled'
        PROVE  /\ \A k \in 1 .. n + 1 : \A e \in flight' : seen'[1][k].num # e.num
               /\ \A j, k \in 1 .. n + 1 : seen'[1][j].num = seen'[1][k].num => j = k
    <3>1. /\ \A k \in 1 .. n : \A e \in flight : seen[1][k].num # e.num
          /\ \A j, k \in 1 .. n : seen[1][j].num = seen[1][k].num => j = k
      BY <2>5, <2>9 DEF HostsKept
    <3>2. \A e \in flight' : s.num # e.num
      BY <1>u, <2>2, <2>5, <2>9
    <3>3. \A k \in 1 .. n : seen[1][k].num # s.num
      BY <2>2, <3>1
    <3>4. \A k \in 1 .. n + 1 : \A e \in flight' : seen'[1][k].num # e.num
      BY <2>3, <2>5, <2>7, <3>1, <3>2
    <3>5. \A j, k \in 1 .. n + 1 : seen'[1][j].num = seen'[1][k].num => j = k
      <4> SUFFICES ASSUME NEW j \in 1 .. n + 1, NEW k \in 1 .. n + 1,
                          seen'[1][j].num = seen'[1][k].num
                   PROVE  j = k
        OBVIOUS
      <4>1. CASE j \in 1 .. n /\ k \in 1 .. n
        <5>1. seen'[1][j] = seen[1][j] /\ seen'[1][k] = seen[1][k]
          BY <2>3, <4>1
        <5> QED
          BY <3>1, <4>1, <5>1
      <4>2. CASE j = n + 1 /\ k \in 1 .. n
        <5>1. seen'[1][j] = s /\ seen'[1][k] = seen[1][k]
          BY <2>3, <4>2
        <5> QED
          BY <3>3, <4>2, <5>1
      <4>3. CASE k = n + 1 /\ j \in 1 .. n
        <5>1. seen'[1][k] = s /\ seen'[1][j] = seen[1][j]
          BY <2>3, <4>3
        <5> QED
          BY <3>3, <4>3, <5>1
      <4> QED
        BY <2>7, <4>1, <4>2, <4>3
    <3> QED
      BY <3>4, <3>5
  <2>10. ASSUME ~doubled', ~lost, NEW m \in 1 .. asked[2]
         PROVE  \/ \E k \in 1 .. n + 1 : seen'[1][k].num = m
                \/ \E e \in flight' : e.num = m
    <3>1. n + 1 \in 1 .. n + 1 /\ \A k \in 1 .. n : k \in 1 .. n + 1
      BY <2>3
    <3>2. \/ \E k \in 1 .. n : seen[1][k].num = m
          \/ \E e \in flight : e.num = m
      BY <2>5, <2>10 DEF HostsKept
    <3> QED
      BY <2>2, <2>3, <2>5, <3>1, <3>2
  <2>11. \A e \in flight' : e.to = 1 /\ e.from = 2 /\ e.of = 2 /\ e.num \in 1 .. asked'[2]
    BY <2>4, <2>5 DEF HostsKept
  <2>12. /\ serv' = "recv" /\ at'[1] \in {"recv", "ended"} /\ at'[2] \in {"type", "ended"}
         /\ (asked'[2] = 3 /\ at'[2] = "ended") \/ (asked'[2] <= 2 /\ at'[2] = "type")
    BY <2>4 DEF HostsKept
  <2>13. (at'[1] = "recv" /\ Len(seen'[1]) <= 2) \/ (at'[1] = "ended" /\ Len(seen'[1]) = 3)
    BY <2>3, <2>4
  <2>14. ~doubled' /\ ~lost' => \A m \in 1 .. asked'[2] :
            \/ \E k \in 1 .. Len(seen'[1]) : seen'[1][k].num = m
            \/ \E e \in flight' : e.num = m
    BY <2>3, <2>4, <2>10
  <2>15. ~doubled' =>
            /\ \A k \in 1 .. Len(seen'[1]) : \A e \in flight' : seen'[1][k].num # e.num
            /\ \A j, k \in 1 .. Len(seen'[1]) : seen'[1][j].num = seen'[1][k].num => j = k
    BY <2>3, <2>9
  <2> QED
    BY <2>8, <2>11, <2>12, <2>13, <2>14, <2>15 DEF HostsKept
<1>2. CASE Udp!SendTo(2, 1, IF asked[2] = 2 THEN "ended" ELSE "type")
  <2> DEFINE d == [to |-> 1, from |-> 2, num |-> asked[2] + 1, of |-> 2]
  <2>1. /\ flight' = flight \cup {d} /\ asked'[2] = asked[2] + 1 /\ at[2] = "type"
        /\ at'[1] = at[1] /\ at'[2] = (IF asked[2] = 2 THEN "ended" ELSE "type")
        /\ UNCHANGED <<serv, seen, lost, doubled>>
    BY <1>0, <1>2 DEF Udp!SendTo, Udp!Goto
  <2>2. d.to = 1 /\ d.from = 2 /\ d.of = 2 /\ d.num = asked[2] + 1
    OBVIOUS
  <2> HIDE DEF d
  <2>3. asked[2] \in Nat /\ asked[2] <= 2
    BY <1>0, <2>1 DEF HostsKept
  <2>4. \A m : m \in 1 .. asked'[2] <=> m \in 1 .. asked[2] \/ m = asked[2] + 1
    BY <2>1, <2>3
  <2>5. /\ \A k \in 1 .. Len(seen[1]) : seen[1][k].num \in 1 .. asked[2]
        /\ \A e \in flight : e.to = 1 /\ e.from = 2 /\ e.of = 2 /\ e.num \in 1 .. asked[2]
        /\ asked[2] + 1 \notin 1 .. asked[2]
    BY <2>3 DEF HostsKept
  <2>6. ASSUME ~doubled, ~lost, NEW m \in 1 .. asked'[2]
        PROVE  \/ \E k \in 1 .. Len(seen[1]) : seen[1][k].num = m
               \/ \E e \in flight' : e.num = m
    BY <2>1, <2>2, <2>4, <2>6, SMTT(30) DEF HostsKept
  <2>7. ASSUME ~doubled
        PROVE  /\ \A k \in 1 .. Len(seen[1]) : \A e \in flight' : seen[1][k].num # e.num
               /\ \A j, k \in 1 .. Len(seen[1]) : seen[1][j].num = seen[1][k].num => j = k
    BY <2>1, <2>2, <2>5, <2>7 DEF HostsKept
  <2>8. \A e \in flight' : e.to = 1 /\ e.from = 2 /\ e.of = 2 /\ e.num \in 1 .. asked'[2]
    BY <2>1, <2>2, <2>4, <2>5
  <2>9. /\ serv' = "recv" /\ at'[1] \in {"recv", "ended"} /\ at'[2] \in {"type", "ended"}
        /\ (asked'[2] = 3 /\ at'[2] = "ended") \/ (asked'[2] <= 2 /\ at'[2] = "type")
        /\ (at'[1] = "recv" /\ Len(seen[1]) <= 2) \/ (at'[1] = "ended" /\ Len(seen[1]) = 3)
    BY <2>1, <2>3 DEF HostsKept
  <2>10. UNCHANGED <<seen, lost, doubled>>
    BY <2>1
  <2>11. \A k \in 1 .. Len(seen[1]) : seen[1][k].num \in 1 .. asked'[2]
    BY <2>4, <2>5
  <2> QED
    BY <2>6, <2>7, <2>8, <2>9, <2>10, <2>11 DEF HostsKept
\* One that gets lost unnoticed has come twice: three different messages of
\* three have been received.
<1>3. ASSUME NEW d \in flight, Udp!Lose(d) PROVE HostsKept'
  <2>1. /\ UNCHANGED <<at, serv, asked, seen, doubled>> /\ flight' \subseteq flight
        /\ lost' = (lost \/ d.to = 0 \/ at[d.to] # "ended")
    BY <1>3 DEF Udp!Lose
  <2>2. ASSUME ~doubled PROVE lost'
    <3>1. CASE at[1] = "recv"
      <4>1. d.to = 1
        BY DEF HostsKept
      <4> QED
        BY <2>1, <3>1, <4>1
    <3>2. CASE at[1] # "recv"
      <4>a. Len(seen[1]) = 3
        BY <3>2 DEF HostsKept
      <4>b. asked[2] <= 3 /\ asked[2] \in Nat /\ d.num \in 1 .. asked[2]
        BY <1>0 DEF HostsKept
      <4>c. /\ \A k \in 1 .. Len(seen[1]) : seen[1][k].num \in 1 .. asked[2] /\ seen[1][k].num # d.num
            /\ \A j, k \in 1 .. Len(seen[1]) : seen[1][j].num = seen[1][k].num => j = k
        BY <2>2 DEF HostsKept
      <4>1. /\ asked[2] <= 3 /\ asked[2] \in Nat /\ d.num \in 1 .. asked[2]
            /\ \A k \in 1 .. 3 : seen[1][k].num \in 1 .. asked[2] /\ seen[1][k].num # d.num
            /\ \A j, k \in 1 .. 3 : seen[1][j].num = seen[1][k].num => j = k
        BY <4>a, <4>b, <4>c
      <4>2. /\ seen[1][1].num \in 1 .. 3 /\ seen[1][2].num \in 1 .. 3 /\ seen[1][3].num \in 1 .. 3
            /\ seen[1][1].num # seen[1][2].num /\ seen[1][2].num # seen[1][3].num
            /\ seen[1][1].num # seen[1][3].num /\ d.num \in 1 .. 3
            /\ seen[1][1].num # d.num /\ seen[1][2].num # d.num /\ seen[1][3].num # d.num
        BY <4>1
      <4> QED
        BY <4>2
    <3> QED
      BY <3>1, <3>2
  <2> QED
    BY <1>0, <2>1, <2>2 DEF HostsKept
<1>4. CASE Udp!Finished
  <2>1. UNCHANGED <<flight, at, serv, asked, seen, lost, doubled>>
    BY <1>4 DEF Udp!Finished, Udp!exchange
  <2> QED
    BY <1>0, <2>1 DEF HostsKept
<1>5. /\ \A c \in 1 .. 2 : Udp!Host(c) =>
            \/ Udp!ReceiveFrom(1, IF Len(seen[1]) = 2 THEN "ended" ELSE "recv")
            \/ Udp!SendTo(2, 1, IF asked[2] = 2 THEN "ended" ELSE "type")
      /\ ~Udp!Server
  BY DEF Udp!EchoKits, Udp!Host, Udp!UechoClient, Udp!UechoConClient, Udp!UechoClientWin,
         Udp!UchatClientWin, Udp!BoundHost1, Udp!BoundHost2, Udp!NewsReceiver,
         Udp!NewsReceiverBrd, Udp!NewsReceiverWin, Udp!Server, Udp!UechoServer,
         Udp!UechoServerWin, Udp!UchatServerWin, Udp!NewsSender, Udp!NewsSenderBrd,
         Udp!NewsSenderWin
<1> QED
  BY <1>1, <1>2, <1>3, <1>4, <1>5 DEF Udp!Next, Udp!Clients

LEMMA KeptAlways == SmallSpec => [](NewsKept /\ HostsKept)
<1>1. SmallInit => NewsKept /\ HostsKept
  BY KeptStart DEF SmallInit
<1>2. UdpInv /\ NewsKept /\ HostsKept /\ [SmallNext]_all => (NewsKept /\ HostsKept)'
  <2> SUFFICES ASSUME UdpInv, NewsKept, HostsKept, [SmallNext]_all
               PROVE  NewsKept' /\ HostsKept'
    OBVIOUS
  <2>1. Udp!Next \/ UNCHANGED conversing
    BY DEF SmallNext, all
  <2>2. CASE UNCHANGED conversing
    <3>1. UNCHANGED <<kit, flight, at, serv, asked, seen, lost, doubled>>
      BY <2>2 DEF conversing, exchange
    <3> QED
      BY <3>1 DEF NewsKept, HostsKept
  <2>3. CASE Udp!Next
    <3>1. kit' = kit
      BY <2>3 DEF Udp!Next
    <3>2. NewsKept'
      BY <2>3, <3>1, NewsStep DEF UdpInv, NewsKept
    <3>3. HostsKept'
      BY <2>3, <3>1, HostsStep DEF UdpInv, HostsKept
    <3> QED
      BY <3>2, <3>3
  <2> QED
    BY <2>1, <2>2, <2>3
<1> QED
  BY <1>1, <1>2, UdpAlways, PTL DEF SmallSpec

\* Whatever the order in which the network brings what it has not lost, each
\* receiver of the news has seen every line, and bound_host1.c each of the
\* three messages of bound_host2.c, when nothing is on its way any more; one
\* that was delivered twice takes the place of another in bound_host1.c.
THEOREM AllSeenHolds == SmallSpec => []Udp!AllSeen
<1>1. UdpInv /\ NewsKept /\ HostsKept => Udp!AllSeen
  <2> SUFFICES ASSUME UdpInv, NewsKept, HostsKept, flight = {}, ~lost
               PROVE  /\ kit \in Udp!NewsKits /\ serv = "ended" =>
                            \A c \in 1 .. 2 : 1 .. Lines \subseteq {seen[c][k].num : k \in 1 .. Len(seen[c])}
                      /\ kit = "hosts" /\ at[2] = "ended" /\ ~doubled =>
                            {seen[1][k].num : k \in 1 .. Len(seen[1])} = 1 .. 3
    BY DEF Udp!AllSeen, Udp!Clients
  <2>1. asked[0] \in Nat /\ Lines \in Nat
    BY UdpFields, ScriptParameters DEF UdpInv, Scripts!StreamParameters
  <2>2. ASSUME kit \in Udp!NewsKits, serv = "ended", NEW c \in 1 .. 2, NEW n \in 1 .. Lines
        PROVE  \E k \in 1 .. Len(seen[c]) : seen[c][k].num = n
    <3>1. asked[0] >= Lines
      BY <2>2 DEF NewsKept
    <3>2. n \in 1 .. asked[0]
      BY <2>1, <3>1
    <3> QED
      BY <2>2, <3>2 DEF NewsKept
  <2>3. ASSUME kit = "hosts", at[2] = "ended", ~doubled
        PROVE  {seen[1][k].num : k \in 1 .. Len(seen[1])} = 1 .. 3
    <3>1. asked[2] = 3
      BY <2>3 DEF HostsKept
    <3> QED
      BY <2>3, <3>1 DEF HostsKept
  <2> QED
    BY <2>2, <2>3
<1> QED
  BY <1>1, UdpAlways, KeptAlways, PTL

-----------------------------------------------------------------------------
(* StreamScripts: what was written has been read in the end.  What the calls  *)
(* a program has still to make will write or read is the cardinality of the   *)
(* set of those bytes, each with the call it goes with, and not a sum over    *)
(* the calls.                                                                 *)

Longest == Num + Str + 3
Awaited(q, label) ==
    {p \in (1 .. Len(q)) \X (1 .. Longest) : q[p[1]].op = label /\ p[2] <= q[p[1]].len}
Size(q, label) == Cardinality(Awaited(q, label))
Has(q, label) == \E k \in 1 .. Len(q) : q[k].op = label

\* close is the last call of a program, and shutdown comes after its writes.
Tidy(q) ==
    \A j, k \in 1 .. Len(q) :
       j < k => q[j].op # "close" /\ (q[j].op = "shut" => q[k].op # "write")

Plain == [op : {"listen", "accept", "connect", "begin", "close"}, chan : {0}, len : {0}]
Moving(label, c) == [op : {label}, chan : {c}, len : 1 .. Longest]

\* The calls of the two sides where nothing is sent back unseen,
Front == Plain \cup Moving("write", 1) \cup Moving("read", 2) \cup {Scripts!Drain(2)}
Back == Plain \cup Moving("write", 2) \cup Moving("read", 1)
              \cup {Scripts!Peek(1), Scripts!Shut(2)}
\* those of the echo clients, of Answerer, and of the process that writes.
Asking == Plain \cup Moving("write", 1) \cup Moving("fill", 2)
Answering == Plain \cup {Scripts!Echo}
Reading == Plain \cup {Scripts!Drain(2)}
Writing == Plain \cup Moving("write", 1) \cup {Scripts!Shut(1)}

\* Pairs that read what is written call by call, and pairs whose client reads
\* to the end of the stream.
Counted == {"hello", "hello_win", "tcp2", "string3", "op", "file_name", "peek", "overlapped",
            "routine", "pipe1", "pipe3", "pipe_str"}
Drained == {"tcp", "tcp_win", "file", "file_win", "sep2"}
Echoed == {"count", "line", "stable"}

\* a and b are what the client and the server have still to call, x and y the
\* unread bytes, sh and gn the channels closed for writing and for reading.
PairOn(drains, a, b, x, y, sh, gn) ==
    /\ a \in Seq(Front) /\ b \in Seq(Back) /\ Tidy(a) /\ Tidy(b)
    /\ 1 \in gn => b = <<>>
    /\ 2 \in gn => a = <<>>
    /\ x + Size(a, "write") = Size(b, "read")
    /\ drains => /\ 2 \in sh => ~Has(b, "write")
                 /\ Has(a, "drain") \/ (2 \in sh /\ y = 0)
    /\ ~drains => ~Has(a, "drain") /\ y + Size(b, "write") = Size(a, "read")

EchoOn(a, b, x, y, sh, gn) ==
    /\ a \in Seq(Asking) /\ b \in Seq(Answering) /\ Tidy(a) /\ Tidy(b)
    /\ 1 \in gn => b = <<>>
    /\ 2 \in gn => a = <<>>
    /\ 1 \in sh => a = <<>>
    /\ Has(b, "echo") \/ 1 \in sh
    /\ x + y + Size(a, "write") = Size(a, "fill")

\* p is the client's second process.
SplitOn(a, b, p, x, y, sh, gn) ==
    /\ a \in Seq(Reading) /\ b \in Seq(Answering) /\ p \in Seq(Writing)
    /\ Tidy(a) /\ Tidy(b) /\ Tidy(p)
    /\ 1 \in gn => b = <<>>
    /\ 2 \in gn => a = <<>>
    /\ 1 \in sh => ~Has(p, "write")
    /\ 2 \in sh => b = <<>>
    /\ Has(b, "echo") \/ (1 \in sh /\ x = 0)
    /\ Has(a, "drain") \/ (2 \in sh /\ y = 0)

Flowing ==
    /\ script \in Counted \cup Drained =>
          /\ todo[3] = <<>>
          /\ PairOn(script \in Drained, todo[1], todo[2], bytes[1], bytes[2], shut, gone)
    /\ script \in Echoed =>
          todo[3] = <<>> /\ EchoOn(todo[1], todo[2], bytes[1], bytes[2], shut, gone)
    /\ script = "split" =>
          SplitOn(todo[1], todo[2], todo[3], bytes[1], bytes[2], shut, gone)
    /\ script = "chat_c" =>
          Has(todo[1], "follow") /\ \A s \in 1 .. 3 : ~Has(todo[s], "exit")

\* Scripts that Delivered does not except.
Kept == script \in Counted \cup Drained \cup Echoed \cup {"split"}
FlowInv == ~garbled => Flowing /\ (Kept => ~refused)

\* Size is a number.
LEMMA SizeTypes ==
    ASSUME NEW S, NEW q \in Seq(S), NEW label
    PROVE  IsFiniteSet(Awaited(q, label)) /\ Size(q, label) \in Nat
<1>1. Len(q) \in Nat /\ Longest \in Nat
  BY ScriptParameters, LenProperties DEF Longest, Scripts!StreamParameters
<1>2. IsFiniteSet(1 .. Len(q)) /\ IsFiniteSet(1 .. Longest)
  BY <1>1, FS_Interval
<1>3. IsFiniteSet((1 .. Len(q)) \X (1 .. Longest))
  BY <1>2, FS_Product
<1>4. IsFiniteSet(Awaited(q, label))
  BY <1>3, FS_Subset DEF Awaited
<1> QED
  BY <1>4, FS_CardinalityType DEF Size

LEMMA SizeEmpty == ASSUME NEW label PROVE Size(<<>>, label) = 0
<1>1. Awaited(<<>>, label) = {}
  BY DEF Awaited
<1> QED
  BY <1>1, FS_EmptySet DEF Size

\* Each call f of q has its call g of the same length d places further on in r.
Matches(q, f, r, g, d) ==
    /\ \A k \in 1 .. Len(q) : q[k].op = f =>
          k + d \in 1 .. Len(r) /\ r[k + d].op = g /\ r[k + d].len = q[k].len
    /\ \A k \in 1 .. Len(r) : r[k].op = g => k - d \in 1 .. Len(q) /\ q[k - d].op = f

LEMMA SizeMatched ==
    ASSUME NEW S, NEW q \in Seq(S), NEW T, NEW r \in Seq(T), NEW d \in Int, NEW f, NEW g,
           Matches(q, f, r, g, d)
    PROVE  Size(q, f) = Size(r, g)
<1> DEFINE to == [p \in Awaited(q, f) |-> <<p[1] + d, p[2]>>]
<1> USE DEF Matches
<1>0. Len(q) \in Nat /\ Len(r) \in Nat
  BY LenProperties
<1>1. to \in [Awaited(q, f) -> Awaited(r, g)]
  BY <1>0 DEF Awaited
<1>2. ASSUME NEW p1 \in Awaited(q, f), NEW p2 \in Awaited(q, f), to[p1] = to[p2]
      PROVE  p1 = p2
  <2>1. /\ p1 = <<p1[1], p1[2]>> /\ p2 = <<p2[1], p2[2]>>
        /\ p1[1] \in Int /\ p2[1] \in Int
    BY <1>0 DEF Awaited
  <2>2. p1[1] + d = p2[1] + d /\ p1[2] = p2[2]
    BY <1>2
  <2> QED
    BY <2>1, <2>2
<1>3. ASSUME NEW p \in Awaited(r, g) PROVE \E p0 \in Awaited(q, f) : to[p0] = p
  <2>1. p[1] \in 1 .. Len(r) /\ p[2] \in 1 .. Longest /\ p = <<p[1], p[2]>>
        /\ r[p[1]].op = g /\ p[2] <= r[p[1]].len
    BY <1>3 DEF Awaited
  <2>2. p[1] - d \in 1 .. Len(q) /\ q[p[1] - d].op = f
    BY <2>1
  <2>3. (p[1] - d) + d = p[1]
    BY <2>1
  <2>4. r[p[1]].len = q[p[1] - d].len
    BY <2>2, <2>3
  <2>5. <<p[1] - d, p[2]>> \in Awaited(q, f)
    BY <2>1, <2>2, <2>4 DEF Awaited
  <2> QED
    BY <2>1, <2>3, <2>5
<1>4. to \in Bijection(Awaited(q, f), Awaited(r, g))
  BY <1>1, <1>2, <1>3 DEF Bijection, Injection, Surjection, IsInjective
<1>5. ExistsBijection(Awaited(q, f), Awaited(r, g))
  BY <1>4 DEF ExistsBijection
<1> QED
  BY <1>5, FS_Bijection, SizeTypes DEF Size

\* The first call leaves the rest.
LEMMA SizeTail ==
    ASSUME NEW S, NEW q \in Seq(S), q # <<>>, NEW label,
           \A k \in 1 .. Len(q) : q[k].len \in 0 .. Longest
    PROVE  Size(q, label) = Size(Tail(q), label)
                            + (IF Head(q).op = label THEN Head(q).len ELSE 0)
<1> DEFINE now == {p \in Awaited(q, label) : p[1] = 1}
           later == {p \in Awaited(q, label) : p[1] # 1}
           to == [p \in later |-> <<p[1] - 1, p[2]>>]
           last == IF Head(q).op = label THEN Head(q).len ELSE 0
<1>1. /\ Tail(q) \in Seq(S) /\ Len(q) \in Nat \ {0} /\ Len(Tail(q)) = Len(q) - 1
      /\ Head(q) = q[1] /\ \A k \in 1 .. Len(q) - 1 : Tail(q)[k] = q[k + 1]
  BY HeadTailProperties, EmptySeq, LenProperties
<1>2. IsFiniteSet(now) /\ IsFiniteSet(later)
  BY SizeTypes, FS_Subset
<1>3. Size(q, label) = Cardinality(now) + Cardinality(later)
  <2>1. now \cap later = {} /\ now \cup later = Awaited(q, label)
    OBVIOUS
  <2>2. ASSUME NEW A, NEW B, IsFiniteSet(A), IsFiniteSet(B), A \cap B = {}
        PROVE  Cardinality(A \cup B) = Cardinality(A) + Cardinality(B)
    <3>1. Cardinality(A) \in Nat /\ Cardinality(B) \in Nat /\ Cardinality(A \cap B) = 0
      BY <2>2, FS_EmptySet, FS_CardinalityType
    <3> QED
      BY <2>2, <3>1, FS_Union
  <2>3. Cardinality(now \cup later) = Cardinality(now) + Cardinality(later)
    BY <1>2, <2>1, <2>2
  <2> QED
    BY <2>1, <2>3, Zenon DEF Size
<1>4. Cardinality(later) = Size(Tail(q), label)
  <2>1. to \in [later -> Awaited(Tail(q), label)]
    BY <1>1 DEF Awaited
  <2>2. ASSUME NEW p1 \in later, NEW p2 \in later, to[p1] = to[p2] PROVE p1 = p2
    <3>1. /\ p1 = <<p1[1], p1[2]>> /\ p2 = <<p2[1], p2[2]>>
          /\ p1[1] \in Int /\ p2[1] \in Int
      BY <1>1 DEF Awaited
    <3>2. p1[1] - 1 = p2[1] - 1 /\ p1[2] = p2[2]
      BY <2>2
    <3> QED
      BY <3>1, <3>2
  <2>3. ASSUME NEW p \in Awaited(Tail(q), label) PROVE \E p0 \in later : to[p0] = p
    <3>1. /\ p[1] \in 1 .. Len(q) - 1 /\ p[2] \in 1 .. Longest /\ p = <<p[1], p[2]>>
          /\ q[p[1] + 1].op = label /\ p[2] <= q[p[1] + 1].len
      BY <1>1, <2>3 DEF Awaited
    <3>2. (p[1] + 1) - 1 = p[1] /\ p[1] + 1 \in 1 .. Len(q) /\ p[1] + 1 # 1
      BY <1>1, <3>1
    <3>3. <<p[1] + 1, p[2]>> \in later
      BY <3>1, <3>2 DEF Awaited
    <3> QED
      BY <3>1, <3>2, <3>3
  <2>4. to \in Bijection(later, Awaited(Tail(q), label))
    BY <2>1, <2>2, <2>3 DEF Bijection, Injection, Surjection, IsInjective
  <2>5. ExistsBijection(later, Awaited(Tail(q), label))
    BY <2>4 DEF ExistsBijection
  <2> QED
    BY <1>2, <2>5, FS_Bijection DEF Size
<1>5. Cardinality(now) = last
  <2> DEFINE at1 == [n \in 1 .. last |-> <<1, n>>]
  <2>0. q[1].len \in 0 .. Longest /\ Longest \in Nat
    BY <1>1, ScriptParameters DEF Longest, Scripts!StreamParameters
  <2>1. last \in Nat /\ last <= Longest
    BY <1>1, <2>0
  <2>2. at1 \in [1 .. last -> now]
    BY <1>1, <2>0, <2>1 DEF Awaited
  <2>3. \A n1, n2 \in 1 .. last : at1[n1] = at1[n2] => n1 = n2
    OBVIOUS
  <2>4. \A p \in now : \E n \in 1 .. last : at1[n] = p
    <3> SUFFICES ASSUME NEW p \in now PROVE \E n \in 1 .. last : at1[n] = p
      OBVIOUS
    <3>1. p = <<1, p[2]>> /\ p[2] \in 1 .. Longest /\ q[1].op = label /\ p[2] <= q[1].len
      BY DEF Awaited
    <3>2. p[2] \in 1 .. last
      BY <1>1, <2>0, <3>1
    <3> QED
      BY <3>1, <3>2
  <2>5. at1 \in Bijection(1 .. last, now)
    BY <2>2, <2>3, <2>4 DEF Bijection, Injection, Surjection, IsInjective
  <2>6. ExistsBijection(1 .. last, now)
    BY <2>5 DEF ExistsBijection
  <2>7. ASSUME NEW n \in Nat PROVE IsFiniteSet(1 .. n) /\ Cardinality(1 .. n) = n
    <3>1. 1 \in Int /\ n \in Int /\ (IF 1 > n THEN 0 ELSE n - 1 + 1) = n
      OBVIOUS
    <3>2. IsFiniteSet(1 .. n) /\ Cardinality(1 .. n) = IF 1 > n THEN 0 ELSE n - 1 + 1
      BY <3>1, FS_Interval
    <3> QED
      BY <3>1, <3>2
  <2> HIDE DEF now, last
  <2> QED
    BY <2>1, <2>6, <2>7, FS_Bijection
<1> QED
  <2>1. Size(Tail(q), label) \in Nat
    BY <1>1, SizeTypes
  <2>2. last \in Nat
    BY <1>1, ScriptParameters DEF Longest, Scripts!StreamParameters
  <2>3. Size(q, label) = Size(Tail(q), label) + last
    BY <1>3, <1>4, <1>5, <2>1, <2>2
  <2> QED
    BY <2>3

\* What is still so when the first call has been made.
LEMMA TailKeeps ==
    ASSUME NEW S, NEW q \in Seq(S), q # <<>>
    PROVE  /\ Head(q) \in S /\ Tail(q) \in Seq(S)
           /\ \A label : /\ Head(q).op = label => Has(q, label)
                         /\ Has(Tail(q), label) => Has(q, label)
                         /\ Has(q, label) /\ Head(q).op # label => Has(Tail(q), label)
           /\ Tidy(q) => /\ Tidy(Tail(q))
                         /\ Head(q).op = "close" => Tail(q) = <<>>
                         /\ Head(q).op = "shut" => ~Has(Tail(q), "write")
<1>1. /\ Head(q) \in S /\ Tail(q) \in Seq(S)
      /\ Len(q) \in Nat \ {0} /\ Len(Tail(q)) = Len(q) - 1
      /\ Head(q) = q[1] /\ \A k \in 1 .. Len(q) - 1 : Tail(q)[k] = q[k + 1]
  BY HeadTailProperties, EmptySeq, LenProperties
<1>2. ASSUME NEW label
      PROVE  /\ Head(q).op = label => Has(q, label)
             /\ Has(Tail(q), label) => Has(q, label)
             /\ Has(q, label) /\ Head(q).op # label => Has(Tail(q), label)
  <2>1. Head(q).op = label => Has(q, label)
    BY <1>1 DEF Has
  <2>2. Has(Tail(q), label) => Has(q, label)
    BY <1>1 DEF Has
  <2>3. ASSUME NEW k \in 1 .. Len(q), q[k].op = label, Head(q).op # label
        PROVE  Has(Tail(q), label)
    <3>1. k - 1 \in 1 .. Len(Tail(q)) /\ Tail(q)[k - 1] = q[k]
      BY <1>1, <2>3
    <3> QED
      BY <2>3, <3>1 DEF Has
  <2> QED
    BY <2>1, <2>2, <2>3 DEF Has
<1>3. ASSUME Tidy(q)
      PROVE  /\ Tidy(Tail(q))
             /\ Head(q).op = "close" => Tail(q) = <<>>
             /\ Head(q).op = "shut" => ~Has(Tail(q), "write")
  <2>1. Tidy(Tail(q))
    BY <1>1, <1>3 DEF Tidy
  <2>2. ASSUME Head(q).op = "close" PROVE Tail(q) = <<>>
    <3>1. Len(Tail(q)) = 0
      BY <1>1, <1>3, <2>2 DEF Tidy
    <3> QED
      BY <1>1, <3>1, EmptySeq
  <2>3. ASSUME Head(q).op = "shut" PROVE ~Has(Tail(q), "write")
    BY <1>1, <1>3, <2>3 DEF Tidy, Has
  <2> QED
    BY <2>1, <2>2, <2>3
<1> QED
  BY <1>1, <1>2, <1>3

LEMMA HasEmpty == ASSUME NEW label PROVE ~Has(<<>>, label)
BY DEF Has

\* The calls of these programs, by what they do.
LEMMA CallForms ==
    /\ \A h \in Front :
          /\ h.len \in 0 .. Longest
          /\ h.op \in {"listen", "accept", "connect", "begin", "close", "write", "read", "drain"}
          /\ h.op = "write" => h.chan = 1 /\ h.len > 0
          /\ h.op \in {"read", "drain"} => h.chan = 2
    /\ \A h \in Back :
          /\ h.len \in 0 .. Longest
          /\ h.op \in {"listen", "accept", "connect", "begin", "close", "write", "read", "peek", "shut"}
          /\ h.op \in {"write", "shut"} => h.chan = 2
          /\ h.op = "write" => h.len > 0
          /\ h.op \in {"read", "peek"} => h.chan = 1
    /\ \A h \in Asking :
          /\ h.len \in 0 .. Longest
          /\ h.op \in {"listen", "accept", "connect", "begin", "close", "write", "fill"}
          /\ h.op = "write" => h.chan = 1 /\ h.len > 0
          /\ h.op = "fill" => h.chan = 2
    /\ \A h \in Answering :
          h.op \in {"listen", "accept", "connect", "begin", "close", "echo"}
    /\ \A h \in Reading :
          /\ h.op \in {"listen", "accept", "connect", "begin", "close", "drain"}
          /\ h.op = "drain" => h.chan = 2
    /\ \A h \in Writing :
          /\ h.op \in {"listen", "accept", "connect", "begin", "close", "write", "shut"}
          /\ h.op \in {"write", "shut"} => h.chan = 1
<1>0. Longest \in Nat
  BY ScriptParameters DEF Longest, Scripts!StreamParameters
<1> USE <1>0 DEF Plain, Moving, Scripts!Drain, Scripts!Peek, Scripts!Shut, Scripts!Echo, Scripts!Call
<1>1. \A h \in Front :
          /\ h.len \in 0 .. Longest
          /\ h.op \in {"listen", "accept", "connect", "begin", "close", "write", "read", "drain"}
          /\ h.op = "write" => h.chan = 1 /\ h.len > 0
          /\ h.op \in {"read", "drain"} => h.chan = 2
  BY DEF Front
<1>2. \A h \in Back :
          /\ h.len \in 0 .. Longest
          /\ h.op \in {"listen", "accept", "connect", "begin", "close", "write", "read", "peek", "shut"}
          /\ h.op \in {"write", "shut"} => h.chan = 2
          /\ h.op = "write" => h.len > 0
          /\ h.op \in {"read", "peek"} => h.chan = 1
  BY DEF Back
<1>3. \A h \in Asking :
          /\ h.len \in 0 .. Longest
          /\ h.op \in {"listen", "accept", "connect", "begin", "close", "write", "fill"}
          /\ h.op = "write" => h.chan = 1 /\ h.len > 0
          /\ h.op = "fill" => h.chan = 2
  BY DEF Asking
<1>4. \A h \in Answering :
          h.op \in {"listen", "accept", "connect", "begin", "close", "echo"}
  BY DEF Answering
<1>5. \A h \in Reading :
          /\ h.op \in {"listen", "accept", "connect", "begin", "close", "drain"}
          /\ h.op = "drain" => h.chan = 2
  BY DEF Reading
<1>6. \A h \in Writing :
          /\ h.op \in {"listen", "accept", "connect", "begin", "close", "write", "shut"}
          /\ h.op \in {"write", "shut"} => h.chan = 1
  BY DEF Writing
<1> QED
  BY <1>1, <1>2, <1>3, <1>4, <1>5, <1>6

\* What the first call takes off.
LEMMA FrontSizes ==
    ASSUME NEW q, q \in Seq(Front) \/ q \in Seq(Back) \/ q \in Seq(Asking), q # <<>>, NEW label
    PROVE  /\ Size(q, label) \in Nat /\ Size(Tail(q), label) \in Nat
           /\ Head(q).len \in Nat
           /\ Size(q, label) = Size(Tail(q), label)
                               + (IF Head(q).op = label THEN Head(q).len ELSE 0)
<1>0. Longest \in Nat
  BY ScriptParameters DEF Longest, Scripts!StreamParameters
<1> DEFINE Goal ==
           /\ Size(q, label) \in Nat /\ Size(Tail(q), label) \in Nat
           /\ Head(q).len \in Nat
           /\ Size(q, label) = Size(Tail(q), label)
                               + (IF Head(q).op = label THEN Head(q).len ELSE 0)
<1>1. ASSUME NEW S, q \in Seq(S), \A h \in S : h.len \in 0 .. Longest
      PROVE  Goal
  <2>1. Tail(q) \in Seq(S) /\ Head(q) \in S
    BY <1>1, TailKeeps
  <2>2. \A k \in 1 .. Len(q) : q[k].len \in 0 .. Longest
    BY <1>1, ElementOfSeq
  <2>3. Size(q, label) \in Nat /\ Size(Tail(q), label) \in Nat
    BY <1>1, <2>1, SizeTypes
  <2>4. Head(q).len \in Nat
    BY <1>0, <1>1, <2>1
  <2> QED
    BY <1>1, <2>2, <2>3, <2>4, SizeTail
<1> QED
  BY <1>1, CallForms

\* The client of a pair, or the process 1 of two, makes its next call.
LEMMA PairFrontCall ==
    ASSUME NEW drains \in BOOLEAN, NEW a, NEW b, NEW x \in Nat, NEW y \in Nat, NEW sh, NEW gn,
           PairOn(drains, a, b, x, y, sh, gn), a # <<>>
    PROVE  LET h == Head(a) IN
           /\ h.op \in {"listen", "accept", "connect", "begin"} =>
                 PairOn(drains, Tail(a), b, x, y, sh, gn)
           /\ h.op = "write" => 1 \notin gn /\ PairOn(drains, Tail(a), b, x + h.len, y, sh, gn)
           /\ h.op = "read" /\ h.len <= y => PairOn(drains, Tail(a), b, x, y - h.len, sh, gn)
           /\ h.op = "drain" => /\ PairOn(drains, a, b, x, 0, sh, gn)
                                /\ 2 \in sh /\ y = 0 => PairOn(drains, Tail(a), b, x, y, sh, gn)
           /\ h.op = "close" => PairOn(drains, Tail(a), b, x, y, sh \cup {1}, gn \cup {2})
<1> DEFINE h == Head(a)
           t == Tail(a)
<1>1. /\ a \in Seq(Front) /\ b \in Seq(Back) /\ Tidy(a) /\ Tidy(b)
      /\ 1 \in gn => b = <<>>
      /\ 2 \notin gn
      /\ x + Size(a, "write") = Size(b, "read")
      /\ drains => /\ 2 \in sh => ~Has(b, "write")
                   /\ Has(a, "drain") \/ (2 \in sh /\ y = 0)
      /\ ~drains => ~Has(a, "drain") /\ y + Size(b, "write") = Size(a, "read")
  BY DEF PairOn
<1>2. /\ t \in Seq(Front) /\ Tidy(t) /\ h \in Front
      /\ h.op = "drain" => Has(a, "drain")
      /\ Has(t, "drain") => Has(a, "drain")
      /\ Has(a, "drain") /\ h.op # "drain" => Has(t, "drain")
      /\ h.op = "close" => t = <<>>
  BY <1>1, TailKeeps
<1>3. /\ Size(a, "write") \in Nat /\ Size(t, "write") \in Nat
      /\ Size(a, "read") \in Nat /\ Size(t, "read") \in Nat /\ h.len \in Nat
      /\ Size(a, "write") = Size(t, "write") + (IF h.op = "write" THEN h.len ELSE 0)
      /\ Size(a, "read") = Size(t, "read") + (IF h.op = "read" THEN h.len ELSE 0)
  BY <1>1, FrontSizes
<1>4. /\ Size(b, "write") \in Nat /\ Size(b, "read") \in Nat
      /\ b = <<>> => Size(b, "read") = 0
      /\ ~Has(<<>>, "drain")
  BY <1>1, SizeTypes, SizeEmpty, HasEmpty
<1>5. h.op = "write" => h.len > 0
  BY <1>2, CallForms
<1> HIDE DEF h, t
<1>6. ASSUME h.op \in {"listen", "accept", "connect", "begin"}
      PROVE  PairOn(drains, t, b, x, y, sh, gn)
  <2>1. Size(t, "write") = Size(a, "write") /\ Size(t, "read") = Size(a, "read")
    BY <1>3, <1>6
  <2> QED
    BY <1>1, <1>2, <1>6, <2>1 DEF PairOn
<1>7. ASSUME h.op = "write" PROVE 1 \notin gn /\ PairOn(drains, t, b, x + h.len, y, sh, gn)
  <2>1. 1 \notin gn
    BY <1>1, <1>3, <1>4, <1>5, <1>7, SMTT(30)
  <2>2. x + h.len + Size(t, "write") = Size(b, "read") /\ Size(t, "read") = Size(a, "read")
    BY <1>1, <1>3, <1>4, <1>7
  <2> QED
    BY <1>1, <1>2, <1>7, <2>1, <2>2 DEF PairOn
<1>8. ASSUME h.op = "read", h.len <= y PROVE PairOn(drains, t, b, x, y - h.len, sh, gn)
  <2>0. /\ Size(t, "write") = Size(a, "write")
        /\ Size(a, "read") = Size(t, "read") + h.len /\ Size(t, "read") \in Nat
        /\ h.len \in Nat /\ h.len <= y /\ Size(b, "write") \in Nat
    BY <1>3, <1>4, <1>8
  <2>1. /\ y = 0 => y - h.len = 0
        /\ y + Size(b, "write") = Size(a, "read")
              => (y - h.len) + Size(b, "write") = Size(t, "read")
    BY <2>0
  <2> QED
    BY <1>1, <1>2, <1>8, <2>0, <2>1 DEF PairOn
<1>9. ASSUME h.op = "drain"
      PROVE  /\ PairOn(drains, a, b, x, 0, sh, gn)
             /\ 2 \in sh /\ y = 0 => PairOn(drains, t, b, x, y, sh, gn)
  <2>1. drains /\ Size(t, "write") = Size(a, "write")
    BY <1>1, <1>2, <1>3, <1>9
  <2> QED
    BY <1>1, <1>2, <1>9, <2>1 DEF PairOn
<1>10. ASSUME h.op = "close" PROVE PairOn(drains, t, b, x, y, sh \cup {1}, gn \cup {2})
  <2>1. Size(t, "write") = Size(a, "write") /\ Size(t, "read") = Size(a, "read")
    BY <1>3, <1>10
  <2>2. t = <<>> /\ ~Has(t, "drain") /\ ~Has(a, "drain")
    BY <1>2, <1>4, <1>10
  <2>3. /\ 2 \in sh \cup {1} <=> 2 \in sh
        /\ 1 \in gn \cup {2} <=> 1 \in gn
    OBVIOUS
  <2> QED
    BY <1>1, <1>2, <2>1, <2>2, <2>3 DEF PairOn
<1> QED
  BY <1>6, <1>7, <1>8, <1>9, <1>10 DEF h, t

\* The server of a pair, or the process 2 of two, makes its next call.
LEMMA PairBackCall ==
    ASSUME NEW drains \in BOOLEAN, NEW a, NEW b, NEW x \in Nat, NEW y \in Nat, NEW sh, NEW gn,
           PairOn(drains, a, b, x, y, sh, gn), b # <<>>
    PROVE  LET h == Head(b) IN
           /\ h.op \in {"listen", "accept", "connect", "begin", "peek"} =>
                 PairOn(drains, a, Tail(b), x, y, sh, gn)
           /\ h.op = "write" => 2 \notin gn /\ PairOn(drains, a, Tail(b), x, y + h.len, sh, gn)
           /\ h.op = "read" /\ h.len <= x => PairOn(drains, a, Tail(b), x - h.len, y, sh, gn)
           /\ h.op = "shut" => PairOn(drains, a, Tail(b), x, y, sh \cup {2}, gn)
           /\ h.op = "close" => PairOn(drains, a, Tail(b), x, y, sh \cup {2}, gn \cup {1})
<1> DEFINE h == Head(b)
           t == Tail(b)
<1>1. /\ a \in Seq(Front) /\ b \in Seq(Back) /\ Tidy(a) /\ Tidy(b)
      /\ 1 \notin gn
      /\ 2 \in gn => a = <<>>
      /\ x + Size(a, "write") = Size(b, "read")
      /\ drains => /\ 2 \in sh => ~Has(b, "write")
                   /\ Has(a, "drain") \/ (2 \in sh /\ y = 0)
      /\ ~drains => ~Has(a, "drain") /\ y + Size(b, "write") = Size(a, "read")
  BY DEF PairOn
<1>2. /\ t \in Seq(Back) /\ Tidy(t) /\ h \in Back
      /\ h.op = "write" => Has(b, "write")
      /\ Has(t, "write") => Has(b, "write")
      /\ h.op = "close" => t = <<>>
      /\ h.op = "shut" => ~Has(t, "write")
  BY <1>1, TailKeeps
<1>3. /\ Size(b, "write") \in Nat /\ Size(t, "write") \in Nat
      /\ Size(b, "read") \in Nat /\ Size(t, "read") \in Nat /\ h.len \in Nat
      /\ Size(b, "write") = Size(t, "write") + (IF h.op = "write" THEN h.len ELSE 0)
      /\ Size(b, "read") = Size(t, "read") + (IF h.op = "read" THEN h.len ELSE 0)
  BY <1>1, FrontSizes
<1>4. /\ Size(a, "write") \in Nat /\ Size(a, "read") \in Nat
      /\ a = <<>> => Size(a, "read") = 0
      /\ a = <<>> => ~Has(a, "drain")
      /\ ~Has(<<>>, "write")
  BY <1>1, SizeTypes, SizeEmpty, HasEmpty
<1>5. h.op = "write" => h.len > 0
  BY <1>2, CallForms
<1> HIDE DEF h, t
<1>6. ASSUME h.op \in {"listen", "accept", "connect", "begin", "peek"}
      PROVE  PairOn(drains, a, t, x, y, sh, gn)
  <2>1. Size(t, "write") = Size(b, "write") /\ Size(t, "read") = Size(b, "read")
    BY <1>3, <1>6
  <2> QED
    BY <1>1, <1>2, <1>6, <2>1 DEF PairOn
<1>7. ASSUME h.op = "write" PROVE 2 \notin gn /\ PairOn(drains, a, t, x, y + h.len, sh, gn)
  <2>0. /\ Size(b, "write") = Size(t, "write") + h.len /\ Size(t, "write") \in Nat
        /\ h.len \in Nat /\ h.len > 0
    BY <1>3, <1>5, <1>7
  <2>1. 2 \notin gn
    <3>1. CASE drains
      BY <3>1, <1>1, <1>2, <1>4, <1>7
    <3>2. CASE ~drains
      <4>1. y + Size(b, "write") # 0
        BY <2>0
      <4> QED
        BY <3>2, <4>1, <1>1, <1>4
    <3> QED
      BY <3>1, <3>2
  <2>2. /\ Size(t, "read") = Size(b, "read")
        /\ ~drains => y + h.len + Size(t, "write") = Size(a, "read")
    BY <1>1, <1>3, <1>4, <1>7, SMTT(30)
  <2> QED
    BY <1>1, <1>2, <1>7, <2>1, <2>2 DEF PairOn
<1>8. ASSUME h.op = "read", h.len <= x PROVE PairOn(drains, a, t, x - h.len, y, sh, gn)
  <2>0. /\ Size(t, "write") = Size(b, "write")
        /\ Size(b, "read") = Size(t, "read") + h.len /\ Size(t, "read") \in Nat
        /\ h.len \in Nat /\ h.len <= x /\ Size(a, "write") \in Nat
        /\ x + Size(a, "write") = Size(b, "read")
    BY <1>1, <1>3, <1>4, <1>8
  <2>1. (x - h.len) + Size(a, "write") = Size(t, "read")
    BY <2>0
  <2> QED
    BY <1>1, <1>2, <1>8, <2>0, <2>1 DEF PairOn
<1>9. ASSUME h.op = "shut" PROVE PairOn(drains, a, t, x, y, sh \cup {2}, gn)
  <2>1. Size(t, "write") = Size(b, "write") /\ Size(t, "read") = Size(b, "read")
    BY <1>3, <1>9
  <2> QED
    BY <1>1, <1>2, <1>9, <2>1 DEF PairOn
<1>10. ASSUME h.op = "close" PROVE PairOn(drains, a, t, x, y, sh \cup {2}, gn \cup {1})
  <2>1. Size(t, "write") = Size(b, "write") /\ Size(t, "read") = Size(b, "read")
    BY <1>3, <1>10
  <2>2. t = <<>> /\ ~Has(t, "write")
    BY <1>2, <1>4, <1>10
  <2> QED
    BY <1>1, <1>2, <2>1, <2>2 DEF PairOn
<1> QED
  BY <1>6, <1>7, <1>8, <1>9, <1>10 DEF h, t

\* What a step does that makes no short read.
LEMMA ScriptEffect ==
    ASSUME ScriptTyped, NEW s \in 1 .. 3, Scripts!Runs(s), ~garbled'
    PROVE  LET h == Head(todo[s])
               Passed(n) == bytes' = [bytes EXCEPT ![h.chan] = @ - n]
           IN
           /\ todo[s] # <<>> /\ ~garbled
           /\ \/ /\ h.op \in {"listen", "accept", "connect", "begin", "peek"}
                 /\ Scripts!Done(s) /\ UNCHANGED <<bytes, shut, gone, refused>>
              \/ /\ h.op = "write" /\ Scripts!Done(s) /\ UNCHANGED <<shut, gone>>
                 /\ h.chan \notin gone => /\ bytes' = [bytes EXCEPT ![h.chan] = @ + h.len]
                                          /\ UNCHANGED refused
              \/ /\ h.op \in {"read", "fill"} /\ Scripts!Done(s)
                 /\ UNCHANGED <<shut, gone, refused>>
                 /\ h.len <= bytes[h.chan] /\ Passed(h.len)
              \/ /\ h.op = "drain" /\ UNCHANGED <<shut, gone, refused>>
                 /\ \/ UNCHANGED todo /\ bytes' = [bytes EXCEPT ![h.chan] = 0]
                    \/ /\ bytes[h.chan] = 0 /\ h.chan \in shut /\ Scripts!Done(s)
                       /\ UNCHANGED bytes
              \/ /\ h.op = "shut" /\ Scripts!Done(s) /\ UNCHANGED <<bytes, gone, refused>>
                 /\ shut' = shut \cup {h.chan}
              \/ h.op = "close" /\ Scripts!DoClose(s)
              \/ h.op = "echo" /\ Scripts!DoEcho(s)
              \/ h.op = "some" /\ Scripts!Done(s)
              \/ h.op = "follow" /\ UNCHANGED todo
              \/ h.op = "exit"
<1> DEFINE h == Head(todo[s])
<1>0. bytes \in [1 .. 2 -> Nat]
  BY DEF ScriptTyped
<1>n. ASSUME NEW label, Scripts!Calls(s, label)
      PROVE  todo[s] # <<>> /\ ~garbled /\ h.op = label /\ h \in ScriptCall /\ Scripts!Now(s) = h
  BY <1>n, ScriptNow DEF Scripts!Calls, Scripts!Ended, Scripts!Now
<1> HIDE DEF h
<1>1. CASE Scripts!Establish(s)
  BY <1>1, <1>n DEF Scripts!Establish, h
<1>2. CASE Scripts!DoWrite(s)
  BY <1>2, <1>n DEF Scripts!DoWrite, h
<1>3. CASE Scripts!DoRead(s)
  <2>1. /\ todo[s] # <<>> /\ ~garbled /\ h.op = "read" /\ h \in ScriptCall /\ Scripts!Now(s) = h
        /\ Scripts!Done(s) /\ UNCHANGED <<shut, gone, refused>>
    BY <1>3, <1>n DEF Scripts!DoRead
  <2>2. PICK n \in Scripts!Returned(h.chan, h.len) :
           bytes' = [bytes EXCEPT ![h.chan] = @ - n] /\ garbled' = (n < h.len)
    BY <1>3, <2>1 DEF Scripts!DoRead
  <2>3. h.chan \in 1 .. 2 /\ h.len \in Nat
    BY <2>1 DEF ScriptCall
  <2>4. bytes[h.chan] \in Nat
    BY <1>0, <2>3
  <2>5. ~(n < h.len)
    BY <2>2
  <2>6. n = h.len /\ n <= bytes[h.chan]
    <3>1. ASSUME NEW have \in Nat, NEW len \in Nat,
                 n \in (IF have = 0 THEN (IF h.chan \in shut THEN {0} ELSE {})
                        ELSE IF Scripts!OnPipes THEN {IF have < len THEN have ELSE len}
                        ELSE 1 .. (IF have < len THEN have ELSE len))
          PROVE  n \in Nat /\ n <= len /\ n <= have
      BY <3>1
    <3>2. n \in Nat /\ n <= h.len /\ n <= bytes[h.chan]
      BY <2>2, <2>3, <2>4, <3>1 DEF Scripts!Returned
    <3> QED
      BY <2>3, <2>5, <3>2
  <2> QED
    BY <2>1, <2>2, <2>6 DEF h
<1>4. CASE Scripts!DoReadSome(s)
  BY <1>4, <1>n DEF Scripts!DoReadSome, h
<1>5. CASE Scripts!DoPeek(s)
  BY <1>5, <1>n DEF Scripts!DoPeek, h
<1>6. CASE Scripts!DoFill(s)
  BY <1>6, <1>n DEF Scripts!DoFill, h
<1>7. CASE Scripts!DoDrain(s)
  BY <1>7, <1>n DEF Scripts!DoDrain, h
<1>8. CASE Scripts!DoFollow(s)
  BY <1>8, <1>n DEF Scripts!DoFollow, h
<1>9. CASE Scripts!DoEcho(s)
  <2>1. Scripts!Calls(s, "echo")
    BY <1>9 DEF Scripts!DoEcho
  <2> QED
    BY <1>9, <1>n, <2>1 DEF h
<1>10. CASE Scripts!DoShut(s)
  BY <1>10, <1>n DEF Scripts!DoShut, h
<1>11. CASE Scripts!DoClose(s)
  <2>1. Scripts!Calls(s, "close")
    BY <1>11 DEF Scripts!DoClose
  <2> QED
    BY <1>11, <1>n, <2>1 DEF h
<1>12. CASE Scripts!DoExit(s)
  <2>1. Scripts!Calls(s, "exit")
    BY <1>12 DEF Scripts!DoExit
  <2> QED
    BY <1>n, <2>1 DEF h
<1> QED
  BY <1>1, <1>2, <1>3, <1>4, <1>5, <1>6, <1>7, <1>8, <1>9, <1>10, <1>11, <1>12 DEF Scripts!Runs

\* Where the client is one process, close closes.
LEMMA CloseAlone ==
    ASSUME ScriptTyped, NEW s \in 1 .. 2, todo[3] = <<>>, script # "pipe2", Scripts!DoClose(s)
    PROVE  /\ Scripts!Done(s) /\ UNCHANGED <<bytes, refused>>
           /\ shut' = shut \cup {s} /\ gone' = gone \cup {3 - s}
<1>1. \A r \in 1 .. 3 : ~(Scripts!Shares(s, r) /\ ~Scripts!Ended(r))
  BY DEF Scripts!Shares, Scripts!End, Scripts!Ended
<1>2. Scripts!End(s) = s
  BY DEF Scripts!End
<1> QED
  BY <1>1, <1>2 DEF Scripts!DoClose, Scripts!Sides

\* A call of one of the pairs keeps the balance of both channels.
LEMMA PairStep ==
    ASSUME ScriptTyped, script \in Counted \cup Drained, UNCHANGED script,
           NEW s \in 1 .. 3, Scripts!Runs(s), ~garbled', ~refused, todo[3] = <<>>,
           PairOn(script \in Drained, todo[1], todo[2], bytes[1], bytes[2], shut, gone)
    PROVE  /\ ~refused' /\ todo'[3] = <<>>
           /\ PairOn(script \in Drained, todo'[1], todo'[2], bytes'[1], bytes'[2], shut', gone')
<1>d. (script \in Drained) \in BOOLEAN
  OBVIOUS
<1> PICK drains \in BOOLEAN : drains = (script \in Drained)
  BY <1>d, Zenon
<1>0. /\ todo \in [1 .. 3 -> Program] /\ bytes \in [1 .. 2 -> Nat]
      /\ bytes[1] \in Nat /\ bytes[2] \in Nat
      /\ todo[1] \in Seq(Front) /\ todo[2] \in Seq(Back)
      /\ PairOn(drains, todo[1], todo[2], bytes[1], bytes[2], shut, gone)
      /\ script # "pipe2"
  <2>1. todo[1] \in Seq(Front) /\ todo[2] \in Seq(Back)
    BY DEF PairOn
  <2>2. script # "pipe2"
    BY DEF Counted, Drained
  <2> QED
    BY <2>1, <2>2 DEF ScriptTyped
<1> DEFINE h == Head(todo[s])
           Goal == /\ ~refused' /\ todo'[3] = <<>>
                   /\ PairOn(drains, todo'[1], todo'[2], bytes'[1], bytes'[2], shut', gone')
<1>1. todo[s] # <<>> /\ s \in 1 .. 2
  BY ScriptEffect
<1>2. ASSUME Scripts!Done(s)
      PROVE  /\ todo'[s] = Tail(todo[s]) /\ todo'[3 - s] = todo[3 - s]
             /\ todo'[3] = <<>>
  BY <1>0, <1>1, <1>2 DEF Scripts!Done
<1>b. /\ \A n : bytes' = [bytes EXCEPT ![1] = n] => bytes'[1] = n /\ bytes'[2] = bytes[2]
      /\ \A n : bytes' = [bytes EXCEPT ![2] = n] => bytes'[2] = n /\ bytes'[1] = bytes[1]
  BY <1>0
<1>3. CASE s = 1
  <2>1. h \in Front
    BY <1>0, <1>1, <1>3, TailKeeps
  <2>2. /\ h.op \in {"listen", "accept", "connect", "begin", "close", "write", "read", "drain"}
        /\ h.op = "write" => h.chan = 1
        /\ h.op \in {"read", "drain"} => h.chan = 2
    BY <2>1, CallForms
  <2>3. /\ h.op \in {"listen", "accept", "connect", "begin"} =>
              PairOn(drains, Tail(todo[1]), todo[2], bytes[1], bytes[2], shut, gone)
        /\ h.op = "write" =>
              1 \notin gone /\ PairOn(drains, Tail(todo[1]), todo[2], bytes[1] + h.len, bytes[2], shut, gone)
        /\ h.op = "read" /\ h.len <= bytes[2] =>
              PairOn(drains, Tail(todo[1]), todo[2], bytes[1], bytes[2] - h.len, shut, gone)
        /\ h.op = "drain" => PairOn(drains, todo[1], todo[2], bytes[1], 0, shut, gone)
        /\ h.op = "drain" /\ 2 \in shut /\ bytes[2] = 0 =>
              PairOn(drains, Tail(todo[1]), todo[2], bytes[1], bytes[2], shut, gone)
        /\ h.op = "close" =>
              PairOn(drains, Tail(todo[1]), todo[2], bytes[1], bytes[2], shut \cup {1}, gone \cup {2})
    BY <1>0, <1>1, <1>3, PairFrontCall, ZenonT(40)
  <2>4. ASSUME h.op = "close", Scripts!DoClose(s)
        PROVE  /\ Scripts!Done(s) /\ UNCHANGED <<bytes, refused>>
               /\ shut' = shut \cup {1} /\ gone' = gone \cup {2}
    BY <1>0, <1>3, <2>4, CloseAlone
  <2>5. CASE h.op \in {"listen", "accept", "connect", "begin"}
    BY <1>2, <1>3, <2>3, <2>5, ScriptEffect, SMTT(60)
  <2>6. CASE h.op = "write"
    <3>1. /\ Scripts!Done(s) /\ UNCHANGED <<shut, gone, refused>>
          /\ bytes' = [bytes EXCEPT ![1] = bytes[1] + h.len]
      BY <2>2, <2>3, <2>6, ScriptEffect
    <3>2. bytes'[1] = bytes[1] + h.len /\ bytes'[2] = bytes[2]
      BY <1>b, <3>1
    <3> QED
      BY <1>2, <1>3, <2>3, <2>6, <3>1, <3>2
  <2>7. CASE h.op = "read"
    <3>1. /\ Scripts!Done(s) /\ UNCHANGED <<shut, gone, refused>> /\ h.len <= bytes[2]
          /\ bytes' = [bytes EXCEPT ![2] = bytes[2] - h.len]
      BY <2>2, <2>7, ScriptEffect
    <3>2. bytes'[1] = bytes[1] /\ bytes'[2] = bytes[2] - h.len
      BY <1>b, <3>1
    <3> QED
      BY <1>2, <1>3, <2>3, <2>7, <3>1, <3>2
  <2>8. CASE h.op = "drain"
    <3>1. /\ UNCHANGED <<shut, gone, refused>>
          /\ \/ UNCHANGED todo /\ bytes' = [bytes EXCEPT ![2] = 0]
             \/ bytes[2] = 0 /\ 2 \in shut /\ Scripts!Done(s) /\ UNCHANGED bytes
      BY <2>2, <2>8, ScriptEffect
    <3>2. CASE UNCHANGED todo /\ bytes' = [bytes EXCEPT ![2] = 0]
      <4>1. bytes'[1] = bytes[1] /\ bytes'[2] = 0
        BY <1>b, <3>2
      <4> QED
        BY <2>3, <2>8, <3>1, <3>2, <4>1
    <3>3. CASE bytes[2] = 0 /\ 2 \in shut /\ Scripts!Done(s) /\ UNCHANGED bytes
      BY <1>2, <1>3, <2>3, <2>8, <3>1, <3>3
    <3> QED
      BY <3>1, <3>2, <3>3
  <2>9. CASE h.op = "close"
    <3>1. Scripts!DoClose(s)
      BY <2>9, ScriptEffect
    <3>2. PairOn(drains, Tail(todo[1]), todo[2], bytes[1], bytes[2], shut \cup {1}, gone \cup {2})
      BY <2>3, <2>9
    <3>3. /\ Scripts!Done(s) /\ bytes' = bytes /\ refused' = refused
          /\ shut' = shut \cup {1} /\ gone' = gone \cup {2}
      BY <2>4, <2>9, <3>1
    <3>4. todo'[1] = Tail(todo[1]) /\ todo'[2] = todo[2] /\ todo'[3] = <<>>
      BY <1>2, <1>3, <3>3
    <3> QED
      BY <3>2, <3>3, <3>4
  <2>10. Goal
    BY <2>2, <2>5, <2>6, <2>7, <2>8, <2>9
  <2> QED
    BY <2>10
<1>4. CASE s = 2
  <2>1. h \in Back
    BY <1>0, <1>1, <1>4, TailKeeps
  <2>2. /\ h.op \in {"listen", "accept", "connect", "begin", "close", "write", "read", "peek", "shut"}
        /\ h.op \in {"write", "shut"} => h.chan = 2
        /\ h.op \in {"read", "peek"} => h.chan = 1
    BY <2>1, CallForms
  <2>3. /\ h.op \in {"listen", "accept", "connect", "begin", "peek"} =>
              PairOn(drains, todo[1], Tail(todo[2]), bytes[1], bytes[2], shut, gone)
        /\ h.op = "write" =>
              2 \notin gone /\ PairOn(drains, todo[1], Tail(todo[2]), bytes[1], bytes[2] + h.len, shut, gone)
        /\ h.op = "read" /\ h.len <= bytes[1] =>
              PairOn(drains, todo[1], Tail(todo[2]), bytes[1] - h.len, bytes[2], shut, gone)
        /\ h.op = "shut" =>
              PairOn(drains, todo[1], Tail(todo[2]), bytes[1], bytes[2], shut \cup {2}, gone)
        /\ h.op = "close" =>
              PairOn(drains, todo[1], Tail(todo[2]), bytes[1], bytes[2], shut \cup {2}, gone \cup {1})
    BY <1>0, <1>1, <1>4, PairBackCall, ZenonT(40)
  <2>4. ASSUME h.op = "close", Scripts!DoClose(s)
        PROVE  /\ Scripts!Done(s) /\ UNCHANGED <<bytes, refused>>
               /\ shut' = shut \cup {2} /\ gone' = gone \cup {1}
    BY <1>0, <1>4, <2>4, CloseAlone
  <2>5. CASE h.op \in {"listen", "accept", "connect", "begin", "peek"}
    BY <1>2, <1>4, <2>3, <2>5, ScriptEffect, SMTT(60)
  <2>6. CASE h.op = "write"
    <3>1. /\ Scripts!Done(s) /\ UNCHANGED <<shut, gone, refused>>
          /\ bytes' = [bytes EXCEPT ![2] = bytes[2] + h.len]
      BY <2>2, <2>3, <2>6, ScriptEffect
    <3>2. bytes'[1] = bytes[1] /\ bytes'[2] = bytes[2] + h.len
      BY <1>b, <3>1
    <3> QED
      BY <1>2, <1>4, <2>3, <2>6, <3>1, <3>2
  <2>7. CASE h.op = "read"
    <3>1. /\ Scripts!Done(s) /\ UNCHANGED <<shut, gone, refused>> /\ h.len <= bytes[1]
          /\ bytes' = [bytes EXCEPT ![1] = bytes[1] - h.len]
      BY <2>2, <2>7, ScriptEffect
    <3>2. bytes'[1] = bytes[1] - h.len /\ bytes'[2] = bytes[2]
      BY <1>b, <3>1
    <3> QED
      BY <1>2, <1>4, <2>3, <2>7, <3>1, <3>2
  <2>8. CASE h.op = "shut"
    <3>1. /\ Scripts!Done(s) /\ UNCHANGED <<bytes, gone, refused>> /\ shut' = shut \cup {2}
      BY <2>2, <2>8, ScriptEffect
    <3> QED
      BY <1>2, <1>4, <2>3, <2>8, <3>1
  <2>9. CASE h.op = "close"
    <3>1. Scripts!DoClose(s)
      BY <2>9, ScriptEffect
    <3>2. PairOn(drains, todo[1], Tail(todo[2]), bytes[1], bytes[2], shut \cup {2}, gone \cup {1})
      BY <2>3, <2>9
    <3>3. /\ Scripts!Done(s) /\ bytes' = bytes /\ refused' = refused
          /\ shut' = shut \cup {2} /\ gone' = gone \cup {1}
      BY <2>4, <2>9, <3>1
    <3>4. todo'[1] = todo[1] /\ todo'[2] = Tail(todo[2]) /\ todo'[3] = <<>>
      BY <1>2, <1>4, <3>3
    <3> QED
      BY <3>2, <3>3, <3>4
  <2>10. Goal
    BY <2>2, <2>5, <2>6, <2>7, <2>8, <2>9
  <2> QED
    BY <2>10
<1> QED
  BY <1>1, <1>3, <1>4

\* An echo client, or Answerer that serves it, makes its next call.
LEMMA EchoFrontCall ==
    ASSUME NEW a, NEW b, NEW x \in Nat, NEW y \in Nat, NEW sh, NEW gn,
           EchoOn(a, b, x, y, sh, gn), a # <<>>
    PROVE  LET h == Head(a) IN
           /\ h.op \in {"listen", "accept", "connect", "begin"} =>
                 EchoOn(Tail(a), b, x, y, sh, gn)
           /\ h.op = "write" => 1 \notin gn /\ EchoOn(Tail(a), b, x + h.len, y, sh, gn)
           /\ h.op = "fill" /\ h.len <= y => EchoOn(Tail(a), b, x, y - h.len, sh, gn)
           /\ h.op = "close" => EchoOn(Tail(a), b, x, y, sh \cup {1}, gn \cup {2})
<1> DEFINE h == Head(a)
           t == Tail(a)
<1>1. /\ a \in Seq(Asking) /\ b \in Seq(Answering) /\ Tidy(a) /\ Tidy(b)
      /\ 1 \in gn => b = <<>>
      /\ 1 \notin sh /\ 2 \notin gn
      /\ Has(b, "echo")
      /\ x + y + Size(a, "write") = Size(a, "fill")
  BY DEF EchoOn
<1>2. /\ t \in Seq(Asking) /\ Tidy(t) /\ h \in Asking
      /\ h.op = "close" => t = <<>>
  BY <1>1, TailKeeps
<1>3. /\ Size(a, "write") \in Nat /\ Size(t, "write") \in Nat
      /\ Size(a, "fill") \in Nat /\ Size(t, "fill") \in Nat /\ h.len \in Nat
      /\ Size(a, "write") = Size(t, "write") + (IF h.op = "write" THEN h.len ELSE 0)
      /\ Size(a, "fill") = Size(t, "fill") + (IF h.op = "fill" THEN h.len ELSE 0)
  BY <1>1, FrontSizes
<1>4. 1 \notin gn
  BY <1>1, HasEmpty
<1> HIDE DEF h, t
<1>5. ASSUME h.op \in {"listen", "accept", "connect", "begin"}
      PROVE  EchoOn(t, b, x, y, sh, gn)
  <2>1. Size(t, "write") = Size(a, "write") /\ Size(t, "fill") = Size(a, "fill")
    BY <1>3, <1>5
  <2> QED
    BY <1>1, <1>2, <1>4, <2>1 DEF EchoOn
<1>6. ASSUME h.op = "write" PROVE EchoOn(t, b, x + h.len, y, sh, gn)
  <2>1. /\ Size(a, "write") = Size(t, "write") + h.len /\ Size(t, "fill") = Size(a, "fill")
        /\ h.len \in Nat /\ Size(t, "write") \in Nat
    BY <1>3, <1>6
  <2>2. (x + h.len) + y + Size(t, "write") = Size(t, "fill")
    BY <1>1, <2>1
  <2> QED
    BY <1>1, <1>2, <1>4, <2>2 DEF EchoOn
<1>7. ASSUME h.op = "fill", h.len <= y PROVE EchoOn(t, b, x, y - h.len, sh, gn)
  <2>1. /\ Size(t, "write") = Size(a, "write") /\ Size(a, "fill") = Size(t, "fill") + h.len
        /\ h.len \in Nat /\ Size(t, "fill") \in Nat /\ Size(a, "write") \in Nat
    BY <1>3, <1>7
  <2>2. \A w, f, l \in Nat : x + y + w = f + l => x + (y - l) + w = f
    OBVIOUS
  <2>3. x + y + Size(t, "write") = Size(t, "fill") + h.len
    BY <1>1, <2>1
  <2>4. x + (y - h.len) + Size(t, "write") = Size(t, "fill")
    BY <2>1, <2>2, <2>3, SMTT(30)
  <2> QED
    BY <1>1, <1>2, <1>4, <2>4 DEF EchoOn
<1>8. ASSUME h.op = "close" PROVE EchoOn(t, b, x, y, sh \cup {1}, gn \cup {2})
  <2>1. Size(t, "write") = Size(a, "write") /\ Size(t, "fill") = Size(a, "fill") /\ t = <<>>
    BY <1>2, <1>3, <1>8
  <2> QED
    BY <1>1, <1>2, <1>4, <2>1 DEF EchoOn
<1> QED
  BY <1>4, <1>5, <1>6, <1>7, <1>8 DEF h, t

LEMMA EchoBackCall ==
    ASSUME NEW a, NEW b, NEW x \in Nat, NEW y \in Nat, NEW sh, NEW gn,
           EchoOn(a, b, x, y, sh, gn), b # <<>>
    PROVE  LET h == Head(b) IN
           /\ h.op \in {"listen", "accept", "connect", "begin"} =>
                 EchoOn(a, Tail(b), x, y, sh, gn)
           /\ h.op = "echo" =>
                 /\ \A n \in 1 .. x : 2 \notin gn /\ EchoOn(a, b, x - n, y + n, sh, gn)
                 /\ 1 \in sh => EchoOn(a, Tail(b), x, y, sh, gn)
           /\ h.op = "close" => EchoOn(a, Tail(b), x, y, sh \cup {2}, gn \cup {1})
<1> DEFINE h == Head(b)
           t == Tail(b)
<1>1. /\ a \in Seq(Asking) /\ b \in Seq(Answering) /\ Tidy(a) /\ Tidy(b)
      /\ 1 \notin gn
      /\ 2 \in gn => a = <<>>
      /\ 1 \in sh => a = <<>>
      /\ Has(b, "echo") \/ 1 \in sh
      /\ x + y + Size(a, "write") = Size(a, "fill")
  BY DEF EchoOn
<1>2. /\ t \in Seq(Answering) /\ Tidy(t) /\ h \in Answering
      /\ Has(b, "echo") /\ h.op # "echo" => Has(t, "echo")
      /\ h.op = "close" => t = <<>>
  BY <1>1, TailKeeps
<1>3. /\ Size(a, "write") \in Nat /\ Size(a, "fill") \in Nat
      /\ a = <<>> => Size(a, "fill") = 0
      /\ ~Has(<<>>, "echo")
  BY <1>1, SizeTypes, SizeEmpty, HasEmpty
<1> HIDE DEF h, t
<1>4. ASSUME h.op \in {"listen", "accept", "connect", "begin"}
      PROVE  EchoOn(a, t, x, y, sh, gn)
  BY <1>1, <1>2, <1>4 DEF EchoOn
<1>5. ASSUME NEW n \in 1 .. x PROVE 2 \notin gn /\ EchoOn(a, b, x - n, y + n, sh, gn)
  <2>1. x + y + Size(a, "write") # 0
    BY <1>3
  <2>2. (x - n) + (y + n) = x + y
    OBVIOUS
  <2> QED
    BY <1>1, <1>3, <2>1, <2>2 DEF EchoOn
<1>6. ASSUME 1 \in sh PROVE EchoOn(a, t, x, y, sh, gn)
  BY <1>1, <1>2, <1>6 DEF EchoOn
<1>7. ASSUME h.op = "close" PROVE EchoOn(a, t, x, y, sh \cup {2}, gn \cup {1})
  BY <1>1, <1>2, <1>3, <1>7 DEF EchoOn
<1> QED
  BY <1>4, <1>5, <1>6, <1>7 DEF h, t

\* The process that reads, Answerer, or the process that writes makes its next
\* call.  Of the two processes only the last to end closes the connection.
LEMMA SplitReaderCall ==
    ASSUME NEW a, NEW b, NEW p, NEW x \in Nat, NEW y \in Nat, NEW sh, NEW gn,
           SplitOn(a, b, p, x, y, sh, gn), a # <<>>
    PROVE  LET h == Head(a) IN
           /\ h.op \in {"listen", "accept", "connect", "begin", "close"} =>
                 SplitOn(Tail(a), b, p, x, y, sh, gn)
           /\ h.op = "drain" =>
                 /\ SplitOn(a, b, p, x, 0, sh, gn)
                 /\ 2 \in sh /\ y = 0 => SplitOn(Tail(a), b, p, x, y, sh, gn)
           /\ h.op = "close" /\ p = <<>> =>
                 SplitOn(Tail(a), b, p, x, y, sh \cup {1}, gn \cup {2})
<1> DEFINE h == Head(a)
           t == Tail(a)
<1>1. /\ a \in Seq(Reading) /\ b \in Seq(Answering) /\ p \in Seq(Writing)
      /\ Tidy(a) /\ Tidy(b) /\ Tidy(p)
      /\ 1 \in gn => b = <<>>
      /\ 2 \notin gn
      /\ 1 \in sh => ~Has(p, "write")
      /\ 2 \in sh => b = <<>>
      /\ Has(b, "echo") \/ (1 \in sh /\ x = 0)
      /\ Has(a, "drain") \/ (2 \in sh /\ y = 0)
  BY DEF SplitOn
<1>2. /\ t \in Seq(Reading) /\ Tidy(t) /\ h \in Reading
      /\ Has(a, "drain") /\ h.op # "drain" => Has(t, "drain")
      /\ h.op = "drain" => Has(a, "drain")
      /\ h.op = "close" => t = <<>>
  BY <1>1, TailKeeps
<1> HIDE DEF h, t
<1>3. ASSUME h.op \in {"listen", "accept", "connect", "begin", "close"}
      PROVE  SplitOn(t, b, p, x, y, sh, gn)
  BY <1>1, <1>2, <1>3 DEF SplitOn
<1>4. ASSUME h.op = "drain"
      PROVE  /\ SplitOn(a, b, p, x, 0, sh, gn)
             /\ 2 \in sh /\ y = 0 => SplitOn(t, b, p, x, y, sh, gn)
  BY <1>1, <1>2, <1>4 DEF SplitOn
<1>5. ASSUME h.op = "close", p = <<>>
      PROVE  SplitOn(t, b, p, x, y, sh \cup {1}, gn \cup {2})
  <2>1. ~Has(p, "write") /\ ~Has(t, "drain")
    BY <1>2, <1>5, HasEmpty
  <2> QED
    BY <1>1, <1>2, <1>5, <2>1 DEF SplitOn
<1> QED
  BY <1>3, <1>4, <1>5 DEF h, t

LEMMA SplitAnswerCall ==
    ASSUME NEW a, NEW b, NEW p, NEW x \in Nat, NEW y \in Nat, NEW sh, NEW gn,
           SplitOn(a, b, p, x, y, sh, gn), b # <<>>
    PROVE  LET h == Head(b) IN
           /\ h.op \in {"listen", "accept", "connect", "begin"} =>
                 SplitOn(a, Tail(b), p, x, y, sh, gn)
           /\ h.op = "echo" =>
                 /\ \A n \in 1 .. x : 2 \notin gn /\ SplitOn(a, b, p, x - n, y + n, sh, gn)
                 /\ 1 \in sh /\ x = 0 => SplitOn(a, Tail(b), p, x, y, sh, gn)
           /\ h.op = "close" => SplitOn(a, Tail(b), p, x, y, sh \cup {2}, gn \cup {1})
<1> DEFINE h == Head(b)
           t == Tail(b)
<1>1. /\ a \in Seq(Reading) /\ b \in Seq(Answering) /\ p \in Seq(Writing)
      /\ Tidy(a) /\ Tidy(b) /\ Tidy(p)
      /\ 1 \notin gn /\ 2 \notin gn /\ 2 \notin sh
      /\ 1 \in sh => ~Has(p, "write")
      /\ Has(b, "echo") \/ (1 \in sh /\ x = 0)
      /\ Has(a, "drain")
  BY HasEmpty DEF SplitOn
<1>2. /\ t \in Seq(Answering) /\ Tidy(t) /\ h \in Answering
      /\ Has(b, "echo") /\ h.op # "echo" => Has(t, "echo")
      /\ h.op = "echo" => Has(b, "echo")
      /\ h.op = "close" => t = <<>>
  BY <1>1, TailKeeps
<1> HIDE DEF h, t
<1>3. ASSUME h.op \in {"listen", "accept", "connect", "begin"}
      PROVE  SplitOn(a, t, p, x, y, sh, gn)
  BY <1>1, <1>2, <1>3 DEF SplitOn
<1>4. ASSUME h.op = "echo"
      PROVE  /\ \A n \in 1 .. x : 2 \notin gn /\ SplitOn(a, b, p, x - n, y + n, sh, gn)
             /\ 1 \in sh /\ x = 0 => SplitOn(a, t, p, x, y, sh, gn)
  BY <1>1, <1>2, <1>4 DEF SplitOn
<1>5. ASSUME h.op = "close" PROVE SplitOn(a, t, p, x, y, sh \cup {2}, gn \cup {1})
  <2>1. ~Has(t, "echo")
    BY <1>2, <1>5, HasEmpty
  <2> QED
    BY <1>1, <1>2, <1>5, <2>1 DEF SplitOn
<1> QED
  BY <1>3, <1>4, <1>5 DEF h, t

LEMMA SplitWriterCall ==
    ASSUME NEW a, NEW b, NEW p, NEW x \in Nat, NEW y \in Nat, NEW sh, NEW gn,
           SplitOn(a, b, p, x, y, sh, gn), p # <<>>
    PROVE  LET h == Head(p) IN
           /\ h.op \in {"listen", "accept", "connect", "begin", "close"} =>
                 SplitOn(a, b, Tail(p), x, y, sh, gn)
           /\ h.op = "write" => 1 \notin gn /\ \A z \in Nat : SplitOn(a, b, Tail(p), z, y, sh, gn)
           /\ h.op = "shut" => SplitOn(a, b, Tail(p), x, y, sh \cup {1}, gn)
           /\ h.op = "close" /\ a = <<>> =>
                 SplitOn(a, b, Tail(p), x, y, sh \cup {1}, gn \cup {2})
<1> DEFINE h == Head(p)
           t == Tail(p)
<1>1. /\ a \in Seq(Reading) /\ b \in Seq(Answering) /\ p \in Seq(Writing)
      /\ Tidy(a) /\ Tidy(b) /\ Tidy(p)
      /\ 1 \in gn => b = <<>>
      /\ 2 \in gn => a = <<>>
      /\ 1 \in sh => ~Has(p, "write")
      /\ 2 \in sh => b = <<>>
      /\ Has(b, "echo") \/ (1 \in sh /\ x = 0)
      /\ Has(a, "drain") \/ (2 \in sh /\ y = 0)
  BY DEF SplitOn
<1>2. /\ t \in Seq(Writing) /\ Tidy(t) /\ h \in Writing
      /\ Has(t, "write") => Has(p, "write")
      /\ h.op = "write" => Has(p, "write")
      /\ h.op = "close" => t = <<>>
      /\ h.op = "shut" => ~Has(t, "write")
  BY <1>1, TailKeeps
<1> HIDE DEF h, t
<1>3. ASSUME h.op \in {"listen", "accept", "connect", "begin", "close"}
      PROVE  SplitOn(a, b, t, x, y, sh, gn)
  BY <1>1, <1>2, <1>3 DEF SplitOn
<1>4. ASSUME h.op = "write" PROVE 1 \notin gn /\ \A z \in Nat : SplitOn(a, b, t, z, y, sh, gn)
  <2>1. 1 \notin sh /\ Has(b, "echo") /\ 1 \notin gn
    BY <1>1, <1>2, <1>4, HasEmpty
  <2> QED
    BY <1>1, <1>2, <1>4, <2>1 DEF SplitOn
<1>5. ASSUME h.op = "shut" PROVE SplitOn(a, b, t, x, y, sh \cup {1}, gn)
  BY <1>1, <1>2, <1>5 DEF SplitOn
<1>6. ASSUME h.op = "close", a = <<>>
      PROVE  SplitOn(a, b, t, x, y, sh \cup {1}, gn \cup {2})
  <2>1. ~Has(t, "write")
    BY <1>2, <1>6, HasEmpty
  <2> QED
    BY <1>1, <1>2, <1>6, <2>1 DEF SplitOn
<1> QED
  BY <1>3, <1>4, <1>5, <1>6 DEF h, t

\* What a call leaves of the other programs, and of the other channel.
LEMMA DoneLeaves ==
    ASSUME ScriptTyped, NEW s \in 1 .. 3, Scripts!Done(s)
    PROVE  todo'[s] = Tail(todo[s]) /\ \A r \in (1 .. 3) \ {s} : todo'[r] = todo[r]
BY DEF ScriptTyped, Scripts!Done

LEMMA BytesLeft ==
    ASSUME ScriptTyped
    PROVE  /\ \A n : bytes' = [bytes EXCEPT ![1] = n] => bytes'[1] = n /\ bytes'[2] = bytes[2]
           /\ \A n : bytes' = [bytes EXCEPT ![2] = n] => bytes'[2] = n /\ bytes'[1] = bytes[1]
BY DEF ScriptTyped

\* What the server has read it sends back, if anybody can still read it.
LEMMA EchoEffect ==
    ASSUME ScriptTyped, NEW s \in 1 .. 3, Scripts!DoEcho(s)
    PROVE  /\ UNCHANGED <<shut, gone>>
           /\ \/ /\ UNCHANGED todo
                 /\ \E n \in 1 .. bytes[1] :
                       /\ bytes'[1] = bytes[1] - n
                       /\ 2 \notin gone => bytes'[2] = bytes[2] + n
                 /\ 2 \notin gone => UNCHANGED refused
              \/ /\ Scripts!Done(s) /\ bytes[1] = 0 /\ 1 \in shut
                 /\ UNCHANGED <<bytes, refused>>
<1>1. UNCHANGED <<shut, gone>>
  BY DEF Scripts!DoEcho
<1>2. CASE bytes[1] = 0 /\ 1 \in shut /\ Scripts!Done(s) /\ UNCHANGED <<bytes, refused>>
  BY <1>1, <1>2
<1>3. CASE /\ \E n \in 1 .. bytes[1] :
                 bytes' = [bytes EXCEPT ![1] = @ - n, ![2] = IF 2 \in gone THEN @ ELSE @ + n]
           /\ refused' = (refused \/ 2 \in gone)
           /\ UNCHANGED todo
  <2>1. PICK n \in 1 .. bytes[1] :
           bytes' = [bytes EXCEPT ![1] = @ - n, ![2] = IF 2 \in gone THEN @ ELSE @ + n]
    BY <1>3
  <2>2. bytes'[1] = bytes[1] - n /\ (2 \notin gone => bytes'[2] = bytes[2] + n)
    BY <2>1 DEF ScriptTyped
  <2>3. 2 \notin gone => refused' = refused
    BY <1>3, Zenon DEF ScriptTyped
  <2> QED
    BY <1>1, <1>3, <2>2, <2>3
<1> QED
  BY <1>2, <1>3 DEF Scripts!DoEcho

\* So does a call of an echo client or its server,
LEMMA EchoStep ==
    ASSUME ScriptTyped, script \in Echoed, UNCHANGED script,
           NEW s \in 1 .. 3, Scripts!Runs(s), ~garbled', ~refused, todo[3] = <<>>,
           EchoOn(todo[1], todo[2], bytes[1], bytes[2], shut, gone)
    PROVE  /\ ~refused' /\ todo'[3] = <<>>
           /\ EchoOn(todo'[1], todo'[2], bytes'[1], bytes'[2], shut', gone')
<1> DEFINE h == Head(todo[s])
           Goal == /\ ~refused' /\ todo'[3] = <<>>
                   /\ EchoOn(todo'[1], todo'[2], bytes'[1], bytes'[2], shut', gone')
<1>0. /\ bytes[1] \in Nat /\ bytes[2] \in Nat
      /\ todo[1] \in Seq(Asking) /\ todo[2] \in Seq(Answering)
      /\ script # "pipe2"
  <2>1. todo[1] \in Seq(Asking) /\ todo[2] \in Seq(Answering)
    BY DEF EchoOn
  <2>2. script # "pipe2"
    BY DEF Echoed
  <2> QED
    BY <2>1, <2>2 DEF ScriptTyped
<1>1. todo[s] # <<>> /\ s \in 1 .. 2
  BY ScriptEffect, SMTT(30)
<1>2. ASSUME Scripts!Done(s)
      PROVE  /\ s = 1 => todo'[1] = Tail(todo[1]) /\ todo'[2] = todo[2]
             /\ s = 2 => todo'[1] = todo[1] /\ todo'[2] = Tail(todo[2])
             /\ todo'[3] = <<>>
  BY <1>1, <1>2, DoneLeaves
<1>3. CASE s = 1
  <2>1. h \in Asking
    BY <1>0, <1>1, <1>3, TailKeeps
  <2>2. /\ h.op \in {"listen", "accept", "connect", "begin", "close", "write", "fill"}
        /\ h.op = "write" => h.chan = 1
        /\ h.op = "fill" => h.chan = 2
    BY <2>1, CallForms
  <2>3. /\ h.op \in {"listen", "accept", "connect", "begin"} =>
              EchoOn(Tail(todo[1]), todo[2], bytes[1], bytes[2], shut, gone)
        /\ h.op = "write" =>
              1 \notin gone /\ EchoOn(Tail(todo[1]), todo[2], bytes[1] + h.len, bytes[2], shut, gone)
        /\ h.op = "fill" /\ h.len <= bytes[2] =>
              EchoOn(Tail(todo[1]), todo[2], bytes[1], bytes[2] - h.len, shut, gone)
        /\ h.op = "close" =>
              EchoOn(Tail(todo[1]), todo[2], bytes[1], bytes[2], shut \cup {1}, gone \cup {2})
    BY <1>0, <1>1, <1>3, EchoFrontCall
  <2>4. CASE h.op \in {"listen", "accept", "connect", "begin"}
    BY <1>2, <1>3, <2>3, <2>4, ScriptEffect
  <2>5. CASE h.op = "write"
    <3>1. /\ Scripts!Done(s) /\ UNCHANGED <<shut, gone, refused>>
          /\ bytes' = [bytes EXCEPT ![1] = bytes[1] + h.len]
      BY <2>2, <2>3, <2>5, ScriptEffect
    <3>2. bytes'[1] = bytes[1] + h.len /\ bytes'[2] = bytes[2]
      BY <3>1, BytesLeft
    <3> QED
      BY <1>2, <1>3, <2>3, <2>5, <3>1, <3>2
  <2>6. CASE h.op = "fill"
    <3>1. /\ Scripts!Done(s) /\ UNCHANGED <<shut, gone, refused>> /\ h.len <= bytes[2]
          /\ bytes' = [bytes EXCEPT ![2] = bytes[2] - h.len]
      BY <2>2, <2>6, ScriptEffect
    <3>2. bytes'[1] = bytes[1] /\ bytes'[2] = bytes[2] - h.len
      BY <3>1, BytesLeft
    <3> QED
      BY <1>2, <1>3, <2>3, <2>6, <3>1, <3>2
  <2>7. CASE h.op = "close"
    <3>1. Scripts!DoClose(s)
      BY <2>7, ScriptEffect
    <3>2. EchoOn(Tail(todo[1]), todo[2], bytes[1], bytes[2], shut \cup {1}, gone \cup {2})
      BY <2>3, <2>7
    <3>3. /\ Scripts!Done(s) /\ bytes' = bytes /\ refused' = refused
          /\ shut' = shut \cup {1} /\ gone' = gone \cup {2}
      BY <1>0, <1>3, <3>1, CloseAlone
    <3>4. todo'[1] = Tail(todo[1]) /\ todo'[2] = todo[2] /\ todo'[3] = <<>>
      BY <1>2, <1>3, <3>3
    <3> QED
      BY <3>2, <3>3, <3>4
  <2>8. Goal
    BY <2>2, <2>4, <2>5, <2>6, <2>7
  <2> QED
    BY <2>8
<1>4. CASE s = 2
  <2>1. h \in Answering
    BY <1>0, <1>1, <1>4, TailKeeps
  <2>2. h.op \in {"listen", "accept", "connect", "begin", "close", "echo"}
    BY <2>1, CallForms
  <2>3. /\ h.op \in {"listen", "accept", "connect", "begin"} =>
              EchoOn(todo[1], Tail(todo[2]), bytes[1], bytes[2], shut, gone)
        /\ h.op = "echo" => \A n \in 1 .. bytes[1] :
              2 \notin gone /\ EchoOn(todo[1], todo[2], bytes[1] - n, bytes[2] + n, shut, gone)
        /\ h.op = "echo" /\ 1 \in shut =>
              EchoOn(todo[1], Tail(todo[2]), bytes[1], bytes[2], shut, gone)
        /\ h.op = "close" =>
              EchoOn(todo[1], Tail(todo[2]), bytes[1], bytes[2], shut \cup {2}, gone \cup {1})
    BY <1>0, <1>1, <1>4, EchoBackCall
  <2>4. CASE h.op \in {"listen", "accept", "connect", "begin"}
    BY <1>2, <1>4, <2>3, <2>4, ScriptEffect
  <2>5. CASE h.op = "echo"
    <3>1. Scripts!DoEcho(s)
      BY <2>5, ScriptEffect
    <3>2. CASE Scripts!Done(s) /\ 1 \in shut /\ UNCHANGED <<bytes, refused, shut, gone>>
      BY <1>2, <1>4, <2>3, <2>5, <3>2
    <3>3. CASE /\ UNCHANGED <<todo, shut, gone>>
               /\ \E n \in 1 .. bytes[1] :
                     /\ bytes'[1] = bytes[1] - n
                     /\ 2 \notin gone => bytes'[2] = bytes[2] + n
               /\ 2 \notin gone => UNCHANGED refused
      <4>1. PICK n \in 1 .. bytes[1] :
               bytes'[1] = bytes[1] - n /\ (2 \notin gone => bytes'[2] = bytes[2] + n)
        BY <3>3
      <4>2. 2 \notin gone /\ EchoOn(todo[1], todo[2], bytes[1] - n, bytes[2] + n, shut, gone)
        BY <2>3, <2>5
      <4> QED
        BY <3>3, <4>1, <4>2
    <3> QED
      BY <3>1, <3>2, <3>3, EchoEffect
  <2>6. CASE h.op = "close"
    <3>1. Scripts!DoClose(s)
      BY <2>6, ScriptEffect
    <3>2. EchoOn(todo[1], Tail(todo[2]), bytes[1], bytes[2], shut \cup {2}, gone \cup {1})
      BY <2>3, <2>6
    <3>3. /\ Scripts!Done(s) /\ bytes' = bytes /\ refused' = refused
          /\ shut' = shut \cup {2} /\ gone' = gone \cup {1}
      BY <1>0, <1>4, <3>1, CloseAlone
    <3>4. todo'[1] = todo[1] /\ todo'[2] = Tail(todo[2]) /\ todo'[3] = <<>>
      BY <1>2, <1>4, <3>3
    <3> QED
      BY <3>2, <3>3, <3>4
  <2>7. Goal
    BY <2>2, <2>4, <2>5, <2>6
  <2> QED
    BY <2>7
<1> QED
  BY <1>1, <1>3, <1>4

\* Of two processes that have a connection the last to close it closes it.
LEMMA CloseShared ==
    ASSUME ScriptTyped, NEW s \in 1 .. 3, script = "split", Scripts!DoClose(s)
    PROVE  /\ Scripts!Done(s) /\ UNCHANGED <<bytes, refused>>
           /\ s = 2 => shut' = shut \cup {2} /\ gone' = gone \cup {1}
           /\ s = 1 => \/ UNCHANGED <<shut, gone>>
                       \/ todo[3] = <<>> /\ shut' = shut \cup {1} /\ gone' = gone \cup {2}
           /\ s = 3 => \/ UNCHANGED <<shut, gone>>
                       \/ todo[1] = <<>> /\ shut' = shut \cup {1} /\ gone' = gone \cup {2}
<1>0. Scripts!Done(s) /\ UNCHANGED <<bytes, refused>>
  BY DEF Scripts!DoClose
<1> DEFINE shared == \E r \in 1 .. 3 : Scripts!Shares(s, r) /\ ~Scripts!Ended(r)
<1>1. IF shared THEN UNCHANGED <<shut, gone>>
      ELSE shut' = shut \cup {Scripts!End(s)} /\ gone' = gone \cup {3 - Scripts!End(s)}
  BY DEF Scripts!DoClose, Scripts!Sides
<1>2. CASE s = 2
  <2>1. ~shared /\ Scripts!End(s) = 2
    BY <1>2 DEF Scripts!Shares, Scripts!End
  <2> QED
    BY <1>0, <1>1, <1>2, <2>1
<1>3. CASE s = 1
  <2>1. Scripts!End(s) = 1 /\ (todo[3] # <<>> => shared)
    BY <1>3 DEF Scripts!Shares, Scripts!End, Scripts!Ended
  <2> QED
    BY <1>0, <1>1, <1>3, <2>1
<1>4. CASE s = 3
  <2>1. Scripts!End(s) = 1 /\ (todo[1] # <<>> => shared)
    BY <1>4 DEF Scripts!Shares, Scripts!End, Scripts!Ended
  <2> QED
    BY <1>0, <1>1, <1>4, <2>1
<1> QED
  BY <1>2, <1>3, <1>4

\* and one of the two processes that share a socket.
LEMMA SplitStep ==
    ASSUME ScriptTyped, script = "split", UNCHANGED script,
           NEW s \in 1 .. 3, Scripts!Runs(s), ~garbled', ~refused,
           SplitOn(todo[1], todo[2], todo[3], bytes[1], bytes[2], shut, gone)
    PROVE  /\ ~refused'
           /\ SplitOn(todo'[1], todo'[2], todo'[3], bytes'[1], bytes'[2], shut', gone')
<1> DEFINE h == Head(todo[s])
           Goal == /\ ~refused'
                   /\ SplitOn(todo'[1], todo'[2], todo'[3], bytes'[1], bytes'[2], shut', gone')
<1>0. /\ bytes[1] \in Nat /\ bytes[2] \in Nat
      /\ todo[1] \in Seq(Reading) /\ todo[2] \in Seq(Answering) /\ todo[3] \in Seq(Writing)
  <2>1. todo[1] \in Seq(Reading) /\ todo[2] \in Seq(Answering) /\ todo[3] \in Seq(Writing)
    BY DEF SplitOn
  <2> QED
    BY <2>1 DEF ScriptTyped
<1>1. todo[s] # <<>>
  BY ScriptEffect
<1>2. ASSUME Scripts!Done(s)
      PROVE  todo'[s] = Tail(todo[s]) /\ \A r \in (1 .. 3) \ {s} : todo'[r] = todo[r]
  BY <1>2, DoneLeaves
<1>3. CASE s = 1
  <2>1. h.op \in {"listen", "accept", "connect", "begin", "close", "drain"}
        /\ (h.op = "drain" => h.chan = 2)
    BY <1>0, <1>1, <1>3, TailKeeps, CallForms
  <2>2. /\ h.op \in {"listen", "accept", "connect", "begin", "close"} =>
              SplitOn(Tail(todo[1]), todo[2], todo[3], bytes[1], bytes[2], shut, gone)
        /\ h.op = "drain" => SplitOn(todo[1], todo[2], todo[3], bytes[1], 0, shut, gone)
        /\ h.op = "drain" /\ 2 \in shut /\ bytes[2] = 0 =>
              SplitOn(Tail(todo[1]), todo[2], todo[3], bytes[1], bytes[2], shut, gone)
        /\ h.op = "close" /\ todo[3] = <<>> =>
              SplitOn(Tail(todo[1]), todo[2], todo[3], bytes[1], bytes[2],
                      shut \cup {1}, gone \cup {2})
    BY <1>0, <1>1, <1>3, SplitReaderCall
  <2>3. CASE h.op \in {"listen", "accept", "connect", "begin"}
    <3>1. Scripts!Done(s) /\ UNCHANGED <<bytes, shut, gone, refused>>
      BY <2>3, ScriptEffect
    <3> QED
      BY <1>2, <1>3, <2>2, <2>3, <3>1
  <2>4. CASE h.op = "drain"
    <3>1. /\ UNCHANGED <<shut, gone, refused>>
          /\ \/ UNCHANGED todo /\ bytes' = [bytes EXCEPT ![2] = 0]
             \/ bytes[2] = 0 /\ 2 \in shut /\ Scripts!Done(s) /\ UNCHANGED bytes
      BY <2>1, <2>4, ScriptEffect
    <3>2. CASE UNCHANGED todo /\ bytes' = [bytes EXCEPT ![2] = 0]
      <4>1. bytes'[1] = bytes[1] /\ bytes'[2] = 0
        BY <3>2, BytesLeft
      <4> QED
        BY <2>2, <2>4, <3>1, <3>2, <4>1
    <3>3. CASE bytes[2] = 0 /\ 2 \in shut /\ Scripts!Done(s) /\ UNCHANGED bytes
      BY <1>2, <1>3, <2>2, <2>4, <3>1, <3>3
    <3> QED
      BY <3>1, <3>2, <3>3
  <2>5. CASE h.op = "close"
    <3>1. Scripts!DoClose(s)
      BY <2>5, ScriptEffect
    <3>2. /\ Scripts!Done(s) /\ bytes' = bytes /\ refused' = refused
          /\ \/ UNCHANGED <<shut, gone>>
             \/ todo[3] = <<>> /\ shut' = shut \cup {1} /\ gone' = gone \cup {2}
      BY <1>3, <3>1, CloseShared
    <3>3. todo'[1] = Tail(todo[1]) /\ todo'[2] = todo[2] /\ todo'[3] = todo[3]
      BY <1>2, <1>3, <3>2
    <3> QED
      BY <2>2, <2>5, <3>2, <3>3
  <2>6. Goal
    BY <2>1, <2>3, <2>4, <2>5
  <2> QED
    BY <2>6
<1>4. CASE s = 2
  <2>1. h.op \in {"listen", "accept", "connect", "begin", "close", "echo"}
    BY <1>0, <1>1, <1>4, TailKeeps, CallForms
  <2>2. /\ h.op \in {"listen", "accept", "connect", "begin"} =>
              SplitOn(todo[1], Tail(todo[2]), todo[3], bytes[1], bytes[2], shut, gone)
        /\ h.op = "echo" => \A n \in 1 .. bytes[1] :
              /\ 2 \notin gone
              /\ SplitOn(todo[1], todo[2], todo[3], bytes[1] - n, bytes[2] + n, shut, gone)
        /\ h.op = "echo" /\ 1 \in shut /\ bytes[1] = 0 =>
              SplitOn(todo[1], Tail(todo[2]), todo[3], bytes[1], bytes[2], shut, gone)
        /\ h.op = "close" =>
              SplitOn(todo[1], Tail(todo[2]), todo[3], bytes[1], bytes[2],
                      shut \cup {2}, gone \cup {1})
    BY <1>0, <1>1, <1>4, SplitAnswerCall
  <2>3. CASE h.op \in {"listen", "accept", "connect", "begin"}
    <3>1. Scripts!Done(s) /\ UNCHANGED <<bytes, shut, gone, refused>>
      BY <2>3, ScriptEffect
    <3> QED
      BY <1>2, <1>4, <2>2, <2>3, <3>1
  <2>4. CASE h.op = "echo"
    <3>1. Scripts!DoEcho(s)
      BY <2>4, ScriptEffect
    <3>2. CASE /\ Scripts!Done(s) /\ bytes[1] = 0 /\ 1 \in shut
               /\ UNCHANGED <<bytes, refused, shut, gone>>
      BY <1>2, <1>4, <2>2, <2>4, <3>2
    <3>3. CASE /\ UNCHANGED <<todo, shut, gone>>
               /\ \E n \in 1 .. bytes[1] :
                     /\ bytes'[1] = bytes[1] - n
                     /\ 2 \notin gone => bytes'[2] = bytes[2] + n
               /\ 2 \notin gone => UNCHANGED refused
      <4>1. PICK n \in 1 .. bytes[1] :
               bytes'[1] = bytes[1] - n /\ (2 \notin gone => bytes'[2] = bytes[2] + n)
        BY <3>3
      <4>2. /\ 2 \notin gone
            /\ SplitOn(todo[1], todo[2], todo[3], bytes[1] - n, bytes[2] + n, shut, gone)
        BY <2>2, <2>4
      <4> QED
        BY <3>3, <4>1, <4>2
    <3> QED
      BY <3>1, <3>2, <3>3, EchoEffect
  <2>5. CASE h.op = "close"
    <3>1. Scripts!DoClose(s)
      BY <2>5, ScriptEffect
    <3>2. /\ Scripts!Done(s) /\ bytes' = bytes /\ refused' = refused
          /\ shut' = shut \cup {2} /\ gone' = gone \cup {1}
      BY <1>4, <3>1, CloseShared
    <3>3. todo'[1] = todo[1] /\ todo'[2] = Tail(todo[2]) /\ todo'[3] = todo[3]
      BY <1>2, <1>4, <3>2
    <3> QED
      BY <2>2, <2>5, <3>2, <3>3
  <2>6. Goal
    BY <2>1, <2>3, <2>4, <2>5
  <2> QED
    BY <2>6
<1>5. CASE s = 3
  <2>1. h.op \in {"listen", "accept", "connect", "begin", "close", "write", "shut"}
        /\ (h.op \in {"write", "shut"} => h.chan = 1)
    BY <1>0, <1>1, <1>5, TailKeeps, CallForms
  <2>2. /\ h.op \in {"listen", "accept", "connect", "begin", "close"} =>
              SplitOn(todo[1], todo[2], Tail(todo[3]), bytes[1], bytes[2], shut, gone)
        /\ h.op = "write" =>
              /\ 1 \notin gone
              /\ \A z \in Nat :
                    SplitOn(todo[1], todo[2], Tail(todo[3]), z, bytes[2], shut, gone)
        /\ h.op = "shut" =>
              SplitOn(todo[1], todo[2], Tail(todo[3]), bytes[1], bytes[2], shut \cup {1}, gone)
        /\ h.op = "close" /\ todo[1] = <<>> =>
              SplitOn(todo[1], todo[2], Tail(todo[3]), bytes[1], bytes[2],
                      shut \cup {1}, gone \cup {2})
    BY <1>0, <1>1, <1>5, SplitWriterCall
  <2>3. CASE h.op \in {"listen", "accept", "connect", "begin"}
    <3>1. Scripts!Done(s) /\ UNCHANGED <<bytes, shut, gone, refused>>
      BY <2>3, ScriptEffect
    <3> QED
      BY <1>2, <1>5, <2>2, <2>3, <3>1
  <2>4. CASE h.op = "write"
    <3>1. /\ Scripts!Done(s) /\ UNCHANGED <<shut, gone, refused>>
          /\ bytes' = [bytes EXCEPT ![1] = bytes[1] + h.len]
      BY <2>1, <2>2, <2>4, ScriptEffect
    <3>2. bytes'[1] \in Nat /\ bytes'[2] = bytes[2]
      <4>1. ScriptTyped'
        BY ScriptStep
      <4> QED
        BY <3>1, <4>1, BytesLeft DEF ScriptTyped
    <3> QED
      BY <1>2, <1>5, <2>2, <2>4, <3>1, <3>2
  <2>5. CASE h.op = "shut"
    <3>1. /\ Scripts!Done(s) /\ UNCHANGED <<bytes, gone, refused>> /\ shut' = shut \cup {1}
      BY <2>1, <2>5, ScriptEffect
    <3> QED
      BY <1>2, <1>5, <2>2, <2>5, <3>1
  <2>6. CASE h.op = "close"
    <3>1. Scripts!DoClose(s)
      BY <2>6, ScriptEffect
    <3>2. /\ Scripts!Done(s) /\ bytes' = bytes /\ refused' = refused
          /\ \/ UNCHANGED <<shut, gone>>
             \/ todo[1] = <<>> /\ shut' = shut \cup {1} /\ gone' = gone \cup {2}
      BY <1>5, <3>1, CloseShared
    <3>3. todo'[1] = todo[1] /\ todo'[2] = todo[2] /\ todo'[3] = Tail(todo[3])
      BY <1>2, <1>5, <3>2
    <3> QED
      BY <2>2, <2>6, <3>2, <3>3
  <2>7. Goal
    BY <2>1, <2>3, <2>4, <2>5, <2>6
  <2> QED
    BY <2>7
<1> QED
  BY <1>3, <1>4, <1>5

\* chat_client.cpp goes on reading at the end of the stream.
LEMMA ChatStep ==
    ASSUME ScriptTyped, NEW s \in 1 .. 3, Scripts!Runs(s), ~garbled',
           Has(todo[1], "follow"), \A r \in 1 .. 3 : ~Has(todo[r], "exit")
    PROVE  Has(todo'[1], "follow") /\ \A r \in 1 .. 3 : ~Has(todo'[r], "exit")
<1> DEFINE h == Head(todo[s])
<1>1. todo[s] \in Seq(ScriptCall) /\ todo[s] # <<>>
  BY ScriptEffect DEF ScriptTyped, Program
<1>2. /\ h.op # "exit"
      /\ ~Has(Tail(todo[s]), "exit")
      /\ Has(todo[s], "follow") /\ h.op # "follow" => Has(Tail(todo[s]), "follow")
  BY <1>1, TailKeeps
<1>3. UNCHANGED todo \/ (h.op # "follow" /\ Scripts!Done(s))
  <2>1. Scripts!DoClose(s) => Scripts!Done(s)
    BY DEF Scripts!DoClose
  <2>2. Scripts!DoEcho(s) => UNCHANGED todo \/ Scripts!Done(s)
    BY EchoEffect
  <2> QED
    BY <1>2, <2>1, <2>2, ScriptEffect
<1>4. CASE h.op # "follow" /\ Scripts!Done(s)
  <2>1. todo'[s] = Tail(todo[s]) /\ \A r \in (1 .. 3) \ {s} : todo'[r] = todo[r]
    BY <1>4, DoneLeaves
  <2>2. \A r \in 1 .. 3 : ~Has(todo'[r], "exit")
    BY <1>2, <2>1
  <2>3. Has(todo'[1], "follow")
    BY <1>2, <1>4, <2>1
  <2> QED
    BY <2>2, <2>3
<1> QED
  BY <1>3, <1>4

\* How the pairs begin.
Ready(drains, a, b) ==
    /\ a \in Seq(Front) /\ b \in Seq(Back) /\ Tidy(a) /\ Tidy(b)
    /\ Size(a, "write") = Size(b, "read")
    /\ drains => Has(a, "drain")
    /\ ~drains => ~Has(a, "drain") /\ Size(b, "write") = Size(a, "read")

\* A pair is ready if each write has its read a fixed number of calls away.
LEMMA MatchesReady ==
    ASSUME NEW a \in Seq(Front), NEW b \in Seq(Back), Tidy(a), Tidy(b),
           NEW d \in Int, Matches(a, "write", b, "read", d),
           NEW e \in Int, Matches(b, "write", a, "read", e), ~Has(a, "drain")
    PROVE  Ready(FALSE, a, b)
<1>2. Size(a, "write") = Size(b, "read")
  BY SizeMatched
<1>3. Size(b, "write") = Size(a, "read")
  BY SizeMatched
<1> QED
  BY <1>2, <1>3 DEF Ready

LEMMA MatchesDrained ==
    ASSUME NEW a \in Seq(Front), NEW b \in Seq(Back), Tidy(a), Tidy(b),
           NEW d \in Int, Matches(a, "write", b, "read", d), Has(a, "drain")
    PROVE  Ready(TRUE, a, b)
<1>2. Size(a, "write") = Size(b, "read")
  BY SizeMatched
<1> QED
  BY <1>2 DEF Ready

\* The calls the pairs are made of.
LEMMA CallsOfPairs ==
    /\ Scripts!Connect \in Front /\ Scripts!Close \in Front /\ Scripts!Drain(2) \in Front
    /\ \A n \in {Num, Str, 1, 3} : Scripts!Write(1, n) \in Front /\ Scripts!Read(2, n) \in Front
    /\ Scripts!Listen \in Back /\ Scripts!Accept \in Back /\ Scripts!Close \in Back
    /\ Scripts!Peek(1) \in Back /\ Scripts!Shut(2) \in Back
    /\ \A n \in {Num, Str, 1, 3} : Scripts!Write(2, n) \in Back /\ Scripts!Read(1, n) \in Back
<1>1. \A n \in {Num, Str, 1, 3} : n \in 1 .. Longest
  BY ScriptParameters DEF Longest, Scripts!StreamParameters
<1> QED
  BY <1>1 DEF Front, Back, Plain, Moving, Scripts!Call, Scripts!Connect, Scripts!Close,
         Scripts!Drain, Scripts!Write, Scripts!Read, Scripts!Listen, Scripts!Accept,
         Scripts!Peek, Scripts!Shut

\* 0702, 0704, 0705, 0706, 0707, 0708, 0722: every pair is.
LEMMA HelloReady == Ready(FALSE, Scripts!HelloClient, Scripts!HelloServer)
<1> DEFINE a == Scripts!HelloClient
           b == Scripts!HelloServer
<1>1. a \in Seq(Front) /\ b \in Seq(Back)
  BY CallsOfPairs DEF Scripts!HelloClient, Scripts!HelloServer
<1> USE DEF Scripts!HelloClient, Scripts!HelloServer, Scripts!Listen, Scripts!Accept,
        Scripts!Connect, Scripts!Write, Scripts!Read, Scripts!Close, Scripts!Call
<1>2. Tidy(a) /\ Tidy(b)
  BY DEF Tidy
<1>3. Matches(a, "write", b, "read", 0) /\ Matches(b, "write", a, "read", 0 - 1)
  BY DEF Matches
<1>4. ~Has(a, "drain")
  BY DEF Has
<1>5. 0 \in Int /\ 0 - 1 \in Int
  OBVIOUS
<1> HIDE DEF a, b, Scripts!HelloClient, Scripts!HelloServer
<1>6. Ready(FALSE, a, b)
  BY <1>1, <1>2, <1>3, <1>4, <1>5, MatchesReady
<1> QED
  BY <1>6 DEF a, b

\* The loops with a fixed number of rounds.
LEMMA TimesUnrolled ==
    ASSUME NEW c, NEW d, NEW e, NEW f
    PROVE  /\ Scripts!Times(2, <<c>>) = <<c, c>>
           /\ Scripts!Times(3, <<c>>) = <<c, c, c>>
           /\ Scripts!Times(3, <<c, d>>) = <<c, d, c, d, c, d>>
           /\ Scripts!Times(3, <<c, d, e, f>>) = <<c, d, e, f, c, d, e, f, c, d, e, f>>
<1>1. Scripts!Times(2, <<c>>) = <<c, c>>
  BY DEF Scripts!Times
<1>2. Scripts!Times(3, <<c>>) = <<c, c, c>>
  BY DEF Scripts!Times
<1>3. Scripts!Times(3, <<c, d>>) = <<c, d, c, d, c, d>>
  BY DEF Scripts!Times
<1>4. Scripts!Times(3, <<c, d, e, f>>) = <<c, d, e, f, c, d, e, f, c, d, e, f>>
  BY DEF Scripts!Times
<1> QED
  BY <1>1, <1>2, <1>3, <1>4

LEMMA TcpReady == Ready(TRUE, Scripts!TcpClient, Scripts!TcpServer)
<1> DEFINE a == Scripts!TcpClient
           b == Scripts!TcpServer
<1>1. a \in Seq(Front) /\ b \in Seq(Back)
  BY CallsOfPairs DEF Scripts!TcpClient, Scripts!TcpServer
<1> USE DEF Scripts!TcpClient, Scripts!TcpServer, Scripts!Listen, Scripts!Accept,
        Scripts!Connect, Scripts!Write, Scripts!Drain, Scripts!Close, Scripts!Call
<1>2. Tidy(a) /\ Tidy(b)
  BY DEF Tidy
<1>3. Matches(a, "write", b, "read", 0)
  BY DEF Matches
<1>4. Has(a, "drain")
  BY DEF Has
<1>5. 0 \in Int
  OBVIOUS
<1> HIDE DEF a, b, Scripts!TcpClient, Scripts!TcpServer
<1>6. Ready(TRUE, a, b)
  BY <1>1, <1>2, <1>3, <1>4, <1>5, MatchesDrained
<1> QED
  BY <1>6 DEF a, b

LEMMA FileByNameReady == Ready(FALSE, Scripts!FileByNameClient, Scripts!FileByNameServer)
<1> DEFINE a == Scripts!FileByNameClient
           b == Scripts!FileByNameServer
<1>1. a \in Seq(Front) /\ b \in Seq(Back)
  BY CallsOfPairs DEF Scripts!FileByNameClient, Scripts!FileByNameServer
<1> USE DEF Scripts!FileByNameClient, Scripts!FileByNameServer, Scripts!Listen, Scripts!Accept,
        Scripts!Connect, Scripts!Write, Scripts!Read, Scripts!Close, Scripts!Call
<1>2. Tidy(a) /\ Tidy(b)
  BY DEF Tidy
<1>3. Matches(a, "write", b, "read", 1) /\ Matches(b, "write", a, "read", 0 - 1)
  BY DEF Matches
<1>4. ~Has(a, "drain")
  BY DEF Has
<1>5. 1 \in Int /\ 0 - 1 \in Int
  OBVIOUS
<1> HIDE DEF a, b, Scripts!FileByNameClient, Scripts!FileByNameServer
<1>6. Ready(FALSE, a, b)
  BY <1>1, <1>2, <1>3, <1>4, <1>5, MatchesReady
<1> QED
  BY <1>6 DEF a, b

LEMMA FileReady == Ready(TRUE, Scripts!FileClient, Scripts!FileServer)
<1> DEFINE a == Scripts!FileClient
           b == Scripts!FileServer
<1>1. a \in Seq(Front) /\ b \in Seq(Back)
  BY CallsOfPairs DEF Scripts!FileClient, Scripts!FileServer
<1> USE DEF Scripts!FileClient, Scripts!FileServer, Scripts!Listen, Scripts!Accept,
        Scripts!Connect, Scripts!Write, Scripts!Read, Scripts!Drain, Scripts!Shut,
        Scripts!Close, Scripts!Call
<1>2. Tidy(a) /\ Tidy(b)
  BY DEF Tidy
<1>3. Matches(a, "write", b, "read", 3)
  BY DEF Matches
<1>4. Has(a, "drain")
  BY DEF Has
<1>5. 3 \in Int
  OBVIOUS
<1> HIDE DEF a, b, Scripts!FileClient, Scripts!FileServer
<1>6. Ready(TRUE, a, b)
  BY <1>1, <1>2, <1>3, <1>4, <1>5, MatchesDrained
<1> QED
  BY <1>6 DEF a, b

LEMMA SepReady == Ready(TRUE, Scripts!SepClnt, Scripts!SepServ2)
<1> DEFINE a == Scripts!SepClnt
           b == Scripts!SepServ2
<1>1. a \in Seq(Front) /\ b \in Seq(Back)
  BY CallsOfPairs DEF Scripts!SepClnt, Scripts!SepServ2
<1> USE DEF Scripts!SepClnt, Scripts!SepServ2, Scripts!Listen, Scripts!Accept, Scripts!Connect,
        Scripts!Write, Scripts!Read, Scripts!Drain, Scripts!Shut, Scripts!Close, Scripts!Call
<1>2. Tidy(a) /\ Tidy(b)
  BY DEF Tidy
<1>3. Matches(a, "write", b, "read", 2)
  BY DEF Matches
<1>4. Has(a, "drain")
  BY DEF Has
<1>5. 2 \in Int
  OBVIOUS
<1> HIDE DEF a, b, Scripts!SepClnt, Scripts!SepServ2
<1>6. Ready(TRUE, a, b)
  BY <1>1, <1>2, <1>3, <1>4, <1>5, MatchesDrained
<1> QED
  BY <1>6 DEF a, b

LEMMA PeekReady == Ready(FALSE, Scripts!PeekSend, Scripts!PeekRecv)
<1> DEFINE a == Scripts!PeekSend
           b == Scripts!PeekRecv
<1>1. a \in Seq(Front) /\ b \in Seq(Back)
  BY CallsOfPairs DEF Scripts!PeekSend, Scripts!PeekRecv
<1> USE DEF Scripts!PeekSend, Scripts!PeekRecv, Scripts!Listen, Scripts!Accept, Scripts!Connect,
        Scripts!Write, Scripts!Read, Scripts!Peek, Scripts!Close, Scripts!Call
<1>2. Tidy(a) /\ Tidy(b)
  BY DEF Tidy
<1>3. Matches(a, "write", b, "read", 2) /\ Matches(b, "write", a, "read", 0)
  BY DEF Matches
<1>4. ~Has(a, "drain")
  BY DEF Has
<1>5. 2 \in Int /\ 0 \in Int
  OBVIOUS
<1> HIDE DEF a, b, Scripts!PeekSend, Scripts!PeekRecv
<1>6. Ready(FALSE, a, b)
  BY <1>1, <1>2, <1>3, <1>4, <1>5, MatchesReady
<1> QED
  BY <1>6 DEF a, b

LEMMA OverlappedReady == Ready(FALSE, Scripts!OverlappedSend, Scripts!OverlappedRecv)
<1> DEFINE a == Scripts!OverlappedSend
           b == Scripts!OverlappedRecv
<1>1. a \in Seq(Front) /\ b \in Seq(Back)
  BY CallsOfPairs DEF Scripts!OverlappedSend, Scripts!OverlappedRecv
<1> USE DEF Scripts!OverlappedSend, Scripts!OverlappedRecv, Scripts!Listen, Scripts!Accept,
        Scripts!Connect, Scripts!Write, Scripts!Read, Scripts!Close, Scripts!Call
<1>2. Tidy(a) /\ Tidy(b)
  BY DEF Tidy
<1>3. Matches(a, "write", b, "read", 1) /\ Matches(b, "write", a, "read", 0)
  BY DEF Matches
<1>4. ~Has(a, "drain")
  BY DEF Has
<1>5. 1 \in Int /\ 0 \in Int
  OBVIOUS
<1> HIDE DEF a, b, Scripts!OverlappedSend, Scripts!OverlappedRecv
<1>6. Ready(FALSE, a, b)
  BY <1>1, <1>2, <1>3, <1>4, <1>5, MatchesReady
<1> QED
  BY <1>6 DEF a, b

LEMMA Pipe1Ready == Ready(FALSE, Scripts!Pipe1Child, Scripts!Pipe1Parent)
<1> DEFINE a == Scripts!Pipe1Child
           b == Scripts!Pipe1Parent
<1>1. a \in Seq(Front) /\ b \in Seq(Back)
  BY CallsOfPairs DEF Scripts!Pipe1Child, Scripts!Pipe1Parent
<1> USE DEF Scripts!Pipe1Child, Scripts!Pipe1Parent, Scripts!Write, Scripts!Read, Scripts!Close,
        Scripts!Call
<1>2. Tidy(a) /\ Tidy(b)
  BY DEF Tidy
<1>3. Matches(a, "write", b, "read", 0) /\ Matches(b, "write", a, "read", 0)
  BY DEF Matches
<1>4. ~Has(a, "drain")
  BY DEF Has
<1>5. 0 \in Int
  OBVIOUS
<1> HIDE DEF a, b, Scripts!Pipe1Child, Scripts!Pipe1Parent
<1>6. Ready(FALSE, a, b)
  BY <1>1, <1>2, <1>3, <1>4, <1>5, MatchesReady
<1> QED
  BY <1>6 DEF a, b

LEMMA Pipe3Ready == Ready(FALSE, Scripts!Pipe3Child, Scripts!Pipe3Parent)
<1> DEFINE a == Scripts!Pipe3Child
           b == Scripts!Pipe3Parent
<1>1. a \in Seq(Front) /\ b \in Seq(Back)
  BY CallsOfPairs DEF Scripts!Pipe3Child, Scripts!Pipe3Parent
<1> USE DEF Scripts!Pipe3Child, Scripts!Pipe3Parent, Scripts!Write, Scripts!Read, Scripts!Close,
        Scripts!Call
<1>2. Tidy(a) /\ Tidy(b)
  BY DEF Tidy
<1>3. Matches(a, "write", b, "read", 0) /\ Matches(b, "write", a, "read", 0)
  BY DEF Matches
<1>4. ~Has(a, "drain")
  BY DEF Has
<1>5. 0 \in Int
  OBVIOUS
<1> HIDE DEF a, b, Scripts!Pipe3Child, Scripts!Pipe3Parent
<1>6. Ready(FALSE, a, b)
  BY <1>1, <1>2, <1>3, <1>4, <1>5, MatchesReady
<1> QED
  BY <1>6 DEF a, b

\* What <<...>> \o Times(...) \o <<...>> is, call by call.
LEMMA Framed ==
    ASSUME NEW S, NEW u \in Seq(S), NEW m \in Seq(S), NEW z \in Seq(S)
    PROVE  /\ u \o m \o z \in Seq(S)
           /\ Len(u \o m \o z) = Len(u) + Len(m) + Len(z)
           /\ \A k \in 1 .. Len(u) : (u \o m \o z)[k] = u[k]
           /\ \A k \in 1 .. Len(m) : (u \o m \o z)[Len(u) + k] = m[k]
           /\ \A k \in 1 .. Len(z) : (u \o m \o z)[Len(u) + Len(m) + k] = z[k]
<1> DEFINE v == u \o m
<1>1. /\ v \in Seq(S) /\ Len(v) = Len(u) + Len(m)
      /\ \A k \in 1 .. Len(u) + Len(m) : v[k] = IF k <= Len(u) THEN u[k] ELSE m[k - Len(u)]
  BY ConcatProperties
<1>0. v \in Seq(S)
  BY <1>1
<1> HIDE DEF v
<1>2. /\ v \o z \in Seq(S) /\ Len(v \o z) = Len(v) + Len(z)
      /\ \A k \in 1 .. Len(v) + Len(z) : (v \o z)[k] = IF k <= Len(v) THEN v[k] ELSE z[k - Len(v)]
  BY <1>0, ConcatProperties
<1>3. Len(u) \in Nat /\ Len(m) \in Nat /\ Len(z) \in Nat
  BY LenProperties
<1>4. /\ v \o z \in Seq(S) /\ Len(v \o z) = Len(u) + Len(m) + Len(z)
      /\ \A k \in 1 .. Len(u) : (v \o z)[k] = u[k]
      /\ \A k \in 1 .. Len(m) : (v \o z)[Len(u) + k] = m[k]
      /\ \A k \in 1 .. Len(z) : (v \o z)[Len(u) + Len(m) + k] = z[k]
  <2>1. \A k \in 1 .. Len(u) : (v \o z)[k] = u[k]
    BY <1>1, <1>2, <1>3
  <2>2. \A k \in 1 .. Len(m) : (v \o z)[Len(u) + k] = m[k]
    BY <1>1, <1>2, <1>3
  <2>3. \A k \in 1 .. Len(z) : (v \o z)[Len(u) + Len(m) + k] = z[k]
    BY <1>1, <1>2, <1>3
  <2> QED
    BY <1>1, <1>2, <1>3, <2>1, <2>2, <2>3
<1> QED
  BY <1>4 DEF v

LEMMA Spelled ==
    ASSUME NEW S, NEW u \in Seq(S), NEW m \in Seq(S), NEW z \in Seq(S), NEW t \in Seq(S),
           Len(t) = Len(u) + Len(m) + Len(z),
           \A k \in 1 .. Len(u) : t[k] = u[k],
           \A k \in 1 .. Len(m) : t[Len(u) + k] = m[k],
           \A k \in 1 .. Len(z) : t[Len(u) + Len(m) + k] = z[k]
    PROVE  u \o m \o z = t
<1> DEFINE v == u \o m \o z
<1>1. /\ v \in Seq(S)
      /\ Len(v) = Len(u) + Len(m) + Len(z)
      /\ \A k \in 1 .. Len(u) : v[k] = u[k]
      /\ \A k \in 1 .. Len(m) : v[Len(u) + k] = m[k]
      /\ \A k \in 1 .. Len(z) : v[Len(u) + Len(m) + k] = z[k]
  BY Framed, SMTT(30)
<1>2. Len(u) \in Nat /\ Len(m) \in Nat /\ Len(z) \in Nat
  BY LenProperties
<1> HIDE DEF v
<1>3. ASSUME NEW k \in 1 .. Len(v) PROVE v[k] = t[k]
  <2>1. \/ k \in 1 .. Len(u) \/ k - Len(u) \in 1 .. Len(m)
        \/ k - (Len(u) + Len(m)) \in 1 .. Len(z)
    BY <1>1, <1>2
  <2>2. k = Len(u) + (k - Len(u)) /\ k = Len(u) + Len(m) + (k - (Len(u) + Len(m)))
    BY <1>2
  <2>3. CASE k \in 1 .. Len(u)
    BY <1>1, <2>3
  <2>4. CASE k - Len(u) \in 1 .. Len(m)
    <3>1. v[Len(u) + (k - Len(u))] = t[Len(u) + (k - Len(u))]
      BY <1>1, <2>4
    <3> QED
      BY <2>2, <3>1
  <2>5. CASE k - (Len(u) + Len(m)) \in 1 .. Len(z)
    <3> DEFINE j == k - (Len(u) + Len(m))
    <3>1. v[Len(u) + Len(m) + j] = z[j] /\ t[Len(u) + Len(m) + j] = z[j]
      BY <1>1, <2>5
    <3> QED
      BY <2>2, <3>1
  <2> QED
    BY <2>1, <2>3, <2>4, <2>5
<1>4. v = t
  BY <1>1, <1>3, SeqEqual
<1> QED
  BY <1>4 DEF v

\* The programs with a loop, call by call.
LEMMA TcpSpelled ==
    ASSUME NEW a, NEW b, NEW c, NEW d
    PROVE  <<a, b>> \o Scripts!Times(3, <<c>>) \o <<d>>
              = <<a, b, c, c, c, d>>
<1> DEFINE S == {a, b, c, d}
           u == <<a, b>>
           m == <<c, c, c>>
           z == <<d>>
           t == <<a, b, c, c, c, d>>
<1>1. u \in Seq(S) /\ m \in Seq(S) /\ z \in Seq(S) /\ t \in Seq(S)
  OBVIOUS
<1>2. Len(u) = 2 /\ Len(m) = 3 /\ Len(z) = 1 /\ Len(t) = 6
  OBVIOUS
<1>3. /\ \A k \in 1 .. 2 : t[k] = u[k]
      /\ \A k \in 1 .. 3 : t[2 + k] = m[k]
      /\ \A k \in 1 .. 1 : t[5 + k] = z[k]
  OBVIOUS
<1> HIDE DEF S, u, m, z, t
<1>4. /\ Len(t) = Len(u) + Len(m) + Len(z)
      /\ \A k \in 1 .. Len(u) : t[k] = u[k]
      /\ \A k \in 1 .. Len(m) : t[Len(u) + k] = m[k]
      /\ \A k \in 1 .. Len(z) : t[Len(u) + Len(m) + k] = z[k]
  BY <1>2, <1>3
<1>5. u \o m \o z = t
  BY <1>1, <1>4, Spelled
<1>6. Scripts!Times(3, <<c>>) = m
  BY TimesUnrolled DEF m
<1> QED
  BY <1>5, <1>6 DEF u, z, t

LEMMA OpServerSpelled ==
    ASSUME NEW a, NEW b, NEW c, NEW d, NEW e, NEW f
    PROVE  <<a, b, c>> \o Scripts!Times(2, <<c>>) \o <<d, e, f>>
              = <<a, b, c, c, c, d, e, f>>
<1> DEFINE S == {a, b, c, d, e, f}
           u == <<a, b, c>>
           m == <<c, c>>
           z == <<d, e, f>>
           t == <<a, b, c, c, c, d, e, f>>
<1>1. u \in Seq(S) /\ m \in Seq(S) /\ z \in Seq(S) /\ t \in Seq(S)
  OBVIOUS
<1>2. Len(u) = 3 /\ Len(m) = 2 /\ Len(z) = 3 /\ Len(t) = 8
  OBVIOUS
<1>3. /\ \A k \in 1 .. 3 : t[k] = u[k]
      /\ \A k \in 1 .. 2 : t[3 + k] = m[k]
      /\ \A k \in 1 .. 3 : t[5 + k] = z[k]
  OBVIOUS
<1> HIDE DEF S, u, m, z, t
<1>4. /\ Len(t) = Len(u) + Len(m) + Len(z)
      /\ \A k \in 1 .. Len(u) : t[k] = u[k]
      /\ \A k \in 1 .. Len(m) : t[Len(u) + k] = m[k]
      /\ \A k \in 1 .. Len(z) : t[Len(u) + Len(m) + k] = z[k]
  BY <1>2, <1>3
<1>5. u \o m \o z = t
  BY <1>1, <1>4, Spelled
<1>6. Scripts!Times(2, <<c>>) = m
  BY TimesUnrolled DEF m
<1> QED
  BY <1>5, <1>6 DEF u, z, t

LEMMA OpClientSpelled ==
    ASSUME NEW a, NEW b, NEW c, NEW d, NEW e
    PROVE  <<a, b>> \o Scripts!Times(2, <<b>>) \o <<c, d, e>>
              = <<a, b, b, b, c, d, e>>
<1> DEFINE S == {a, b, c, d, e}
           u == <<a, b>>
           m == <<b, b>>
           z == <<c, d, e>>
           t == <<a, b, b, b, c, d, e>>
<1>1. u \in Seq(S) /\ m \in Seq(S) /\ z \in Seq(S) /\ t \in Seq(S)
  OBVIOUS
<1>2. Len(u) = 2 /\ Len(m) = 2 /\ Len(z) = 3 /\ Len(t) = 7
  OBVIOUS
<1>3. /\ \A k \in 1 .. 2 : t[k] = u[k]
      /\ \A k \in 1 .. 2 : t[2 + k] = m[k]
      /\ \A k \in 1 .. 3 : t[4 + k] = z[k]
  OBVIOUS
<1> HIDE DEF S, u, m, z, t
<1>4. /\ Len(t) = Len(u) + Len(m) + Len(z)
      /\ \A k \in 1 .. Len(u) : t[k] = u[k]
      /\ \A k \in 1 .. Len(m) : t[Len(u) + k] = m[k]
      /\ \A k \in 1 .. Len(z) : t[Len(u) + Len(m) + k] = z[k]
  BY <1>2, <1>3
<1>5. u \o m \o z = t
  BY <1>1, <1>4, Spelled
<1>6. Scripts!Times(2, <<b>>) = m
  BY TimesUnrolled DEF m
<1> QED
  BY <1>5, <1>6 DEF u, z, t

LEMMA StringServerSpelled ==
    ASSUME NEW a, NEW b, NEW c, NEW d, NEW e, NEW f, NEW g
    PROVE  <<a, b>> \o Scripts!Times(3, <<c, d, e, f>>) \o <<g>>
              = <<a, b, c, d, e, f, c, d, e, f, c, d, e, f, g>>
<1> DEFINE S == {a, b, c, d, e, f, g}
           u == <<a, b>>
           m == <<c, d, e, f, c, d, e, f, c, d, e, f>>
           z == <<g>>
           t == <<a, b, c, d, e, f, c, d, e, f, c, d, e, f, g>>
<1>1. u \in Seq(S) /\ m \in Seq(S) /\ z \in Seq(S) /\ t \in Seq(S)
  OBVIOUS
<1>2. Len(u) = 2 /\ Len(m) = 12 /\ Len(z) = 1 /\ Len(t) = 15
  OBVIOUS
<1>3. /\ \A k \in 1 .. 2 : t[k] = u[k]
      /\ \A k \in 1 .. 12 : t[2 + k] = m[k]
      /\ \A k \in 1 .. 1 : t[14 + k] = z[k]
  OBVIOUS
<1> HIDE DEF S, u, m, z, t
<1>4. /\ Len(t) = Len(u) + Len(m) + Len(z)
      /\ \A k \in 1 .. Len(u) : t[k] = u[k]
      /\ \A k \in 1 .. Len(m) : t[Len(u) + k] = m[k]
      /\ \A k \in 1 .. Len(z) : t[Len(u) + Len(m) + k] = z[k]
  BY <1>2, <1>3
<1>5. u \o m \o z = t
  BY <1>1, <1>4, Spelled
<1>6. Scripts!Times(3, <<c, d, e, f>>) = m
  BY TimesUnrolled DEF m
<1> QED
  BY <1>5, <1>6 DEF u, z, t

LEMMA StringClientSpelled ==
    ASSUME NEW a, NEW b, NEW c, NEW d, NEW e, NEW f
    PROVE  <<a>> \o Scripts!Times(3, <<b, c, d, e>>) \o <<f>>
              = <<a, b, c, d, e, b, c, d, e, b, c, d, e, f>>
<1> DEFINE S == {a, b, c, d, e, f}
           u == <<a>>
           m == <<b, c, d, e, b, c, d, e, b, c, d, e>>
           z == <<f>>
           t == <<a, b, c, d, e, b, c, d, e, b, c, d, e, f>>
<1>1. u \in Seq(S) /\ m \in Seq(S) /\ z \in Seq(S) /\ t \in Seq(S)
  OBVIOUS
<1>2. Len(u) = 1 /\ Len(m) = 12 /\ Len(z) = 1 /\ Len(t) = 14
  OBVIOUS
<1>3. /\ \A k \in 1 .. 1 : t[k] = u[k]
      /\ \A k \in 1 .. 12 : t[1 + k] = m[k]
      /\ \A k \in 1 .. 1 : t[13 + k] = z[k]
  OBVIOUS
<1> HIDE DEF S, u, m, z, t
<1>4. /\ Len(t) = Len(u) + Len(m) + Len(z)
      /\ \A k \in 1 .. Len(u) : t[k] = u[k]
      /\ \A k \in 1 .. Len(m) : t[Len(u) + k] = m[k]
      /\ \A k \in 1 .. Len(z) : t[Len(u) + Len(m) + k] = z[k]
  BY <1>2, <1>3
<1>5. u \o m \o z = t
  BY <1>1, <1>4, Spelled
<1>6. Scripts!Times(3, <<b, c, d, e>>) = m
  BY TimesUnrolled DEF m
<1> QED
  BY <1>5, <1>6 DEF u, z, t

LEMMA StrPipeSpelled ==
    ASSUME NEW a, NEW b, NEW c
    PROVE  Scripts!Times(3, <<a, b>>) \o <<c>>
              = <<a, b, a, b, a, b, c>>
<1> DEFINE S == {a, b, c}
           m == <<a, b, a, b, a, b>>
           z == <<c>>
           t == <<a, b, a, b, a, b, c>>
<1>1. m \in Seq(S) /\ z \in Seq(S) /\ t \in Seq(S)
  OBVIOUS
<1>2. Len(m) = 6 /\ Len(z) = 1 /\ Len(t) = 7
  OBVIOUS
<1>3. /\ \A k \in 1 .. 6 : t[k] = m[k]
      /\ \A k \in 1 .. 1 : t[6 + k] = z[k]
  OBVIOUS
<1> HIDE DEF S, m, z, t
<1>4. m \o z = t
  <2> DEFINE v == m \o z
  <2>1. /\ v \in Seq(S) /\ Len(v) = Len(m) + Len(z)
        /\ \A k \in 1 .. Len(m) + Len(z) :
              v[k] = IF k <= Len(m) THEN m[k] ELSE z[k - Len(m)]
    BY <1>1, ConcatProperties
  <2> HIDE DEF v
  <2>2. ASSUME NEW k \in 1 .. Len(v) PROVE v[k] = t[k]
    <3>1. k \in 1 .. 6 \/ k - 6 \in 1 .. 1
      BY <1>2, <2>1
    <3>2. k = 6 + (k - 6)
      OBVIOUS
    <3>3. CASE k \in 1 .. 6
      BY <1>2, <1>3, <2>1, <3>3
    <3>4. CASE k - 6 \in 1 .. 1
      <4>1. v[k] = z[k - 6]
        BY <1>2, <2>1, <3>4
      <4>2. t[6 + (k - 6)] = z[k - 6]
        BY <1>3, <3>4
      <4> QED
        BY <3>2, <4>1, <4>2
    <3> QED
      BY <3>1, <3>3, <3>4
  <2>3. v = t
    <3>1. Len(v) = Len(t)
      BY <1>2, <2>1
    <3> QED
      BY <1>1, <2>1, <2>2, <3>1, SeqEqual
  <2> QED
    BY <2>3 DEF v
<1>5. Scripts!Times(3, <<a, b>>) = m
  BY TimesUnrolled DEF m
<1> QED
  BY <1>4, <1>5 DEF z, t

LEMMA OpReady == Ready(FALSE, Scripts!OpClient, Scripts!OpServer)
<1> DEFINE a == <<Scripts!Connect, Scripts!Write(1, Num), Scripts!Write(1, Num),
                  Scripts!Write(1, Num), Scripts!Write(1, 1), Scripts!Read(2, Num),
                  Scripts!Close>>
           b == <<Scripts!Listen, Scripts!Accept, Scripts!Read(1, Num), Scripts!Read(1, Num),
                  Scripts!Read(1, Num), Scripts!Read(1, 1), Scripts!Write(2, Num),
                  Scripts!Close>>
<1>1. Scripts!OpClient = a
  BY OpClientSpelled DEF Scripts!OpClient
<1>2. Scripts!OpServer = b
  BY OpServerSpelled DEF Scripts!OpServer
<1>3. a \in Seq(Front) /\ b \in Seq(Back)
  BY CallsOfPairs
<1> USE DEF Scripts!Listen, Scripts!Accept, Scripts!Connect, Scripts!Write, Scripts!Read,
        Scripts!Close, Scripts!Call
<1>4. Tidy(a) /\ Tidy(b)
  BY DEF Tidy
<1>5. Matches(a, "write", b, "read", 1)
  BY DEF Matches
<1>6. Matches(b, "write", a, "read", 0 - 1)
  BY DEF Matches
<1>7. ~Has(a, "drain")
  BY DEF Has
<1>8. 1 \in Int /\ 0 - 1 \in Int
  OBVIOUS
<1> HIDE DEF a, b
<1>9. Ready(FALSE, a, b)
  BY <1>3, <1>4, <1>5, <1>6, <1>7, <1>8, MatchesReady
<1> QED
  BY <1>1, <1>2, <1>9

LEMMA StringReady == Ready(FALSE, Scripts!StringClient, Scripts!StringServer)
<1> DEFINE a == <<Scripts!Connect, Scripts!Read(2, Num), Scripts!Read(2, Str),
                  Scripts!Write(1, Num), Scripts!Write(1, Str), Scripts!Read(2, Num),
                  Scripts!Read(2, Str), Scripts!Write(1, Num), Scripts!Write(1, Str),
                  Scripts!Read(2, Num), Scripts!Read(2, Str), Scripts!Write(1, Num),
                  Scripts!Write(1, Str), Scripts!Close>>
           b == <<Scripts!Listen, Scripts!Accept, Scripts!Write(2, Num), Scripts!Write(2, Str),
                  Scripts!Read(1, Num), Scripts!Read(1, Str), Scripts!Write(2, Num),
                  Scripts!Write(2, Str), Scripts!Read(1, Num), Scripts!Read(1, Str),
                  Scripts!Write(2, Num), Scripts!Write(2, Str), Scripts!Read(1, Num),
                  Scripts!Read(1, Str), Scripts!Close>>
<1>1. Scripts!StringClient = a
  BY StringClientSpelled DEF Scripts!StringClient
<1>2. Scripts!StringServer = b
  BY StringServerSpelled DEF Scripts!StringServer
<1>3. a \in Seq(Front) /\ b \in Seq(Back)
  BY CallsOfPairs
<1> USE DEF Scripts!Listen, Scripts!Accept, Scripts!Connect, Scripts!Write, Scripts!Read,
        Scripts!Close, Scripts!Call
<1>4. Tidy(a) /\ Tidy(b)
  BY DEF Tidy
<1>5. Matches(a, "write", b, "read", 1)
  BY DEF Matches
<1>6. Matches(b, "write", a, "read", 0 - 1)
  BY DEF Matches
<1>7. ~Has(a, "drain")
  BY DEF Has
<1>8. 1 \in Int /\ 0 - 1 \in Int
  OBVIOUS
<1> HIDE DEF a, b
<1>9. Ready(FALSE, a, b)
  BY <1>3, <1>4, <1>5, <1>6, <1>7, <1>8, MatchesReady
<1> QED
  BY <1>1, <1>2, <1>9

LEMMA StrPipeReady == Ready(FALSE, Scripts!StrPipeChild, Scripts!StrPipeParent)
<1> DEFINE a == <<Scripts!Write(1, Str), Scripts!Read(2, Str), Scripts!Write(1, Str),
                  Scripts!Read(2, Str), Scripts!Write(1, Str), Scripts!Read(2, Str),
                  Scripts!Close>>
           b == <<Scripts!Read(1, Str), Scripts!Write(2, Str), Scripts!Read(1, Str),
                  Scripts!Write(2, Str), Scripts!Read(1, Str), Scripts!Write(2, Str),
                  Scripts!Close>>
<1>1. Scripts!StrPipeChild = a
  BY StrPipeSpelled DEF Scripts!StrPipeChild
<1>2. Scripts!StrPipeParent = b
  BY StrPipeSpelled DEF Scripts!StrPipeParent
<1>3. a \in Seq(Front) /\ b \in Seq(Back)
  BY CallsOfPairs
<1> USE DEF Scripts!Listen, Scripts!Accept, Scripts!Connect, Scripts!Write, Scripts!Read,
        Scripts!Close, Scripts!Call
<1>4. Tidy(a) /\ Tidy(b)
  BY DEF Tidy
<1>5. Matches(a, "write", b, "read", 0)
  BY DEF Matches
<1>6. Matches(b, "write", a, "read", 0)
  BY DEF Matches
<1>7. ~Has(a, "drain")
  BY DEF Has
<1>8. 0 \in Int
  OBVIOUS
<1> HIDE DEF a, b
<1>9. Ready(FALSE, a, b)
  BY <1>3, <1>4, <1>5, <1>6, <1>7, <1>8, MatchesReady
<1> QED
  BY <1>1, <1>2, <1>9

\* Three writes of a byte, and one read of three.
LEMMA Tcp2Ready == Ready(FALSE, Scripts!TcpClient2, Scripts!TcpServer2)
<1> DEFINE w == Scripts!Write(2, 1)
           a == <<Scripts!Connect, Scripts!Read(2, 3), Scripts!Close>>
           b == <<Scripts!Listen, Scripts!Accept, w, w, w, Scripts!Close>>
<1>1. Scripts!TcpClient2 = a
  BY DEF Scripts!TcpClient2
<1>2. Scripts!TcpServer2 = b
  BY TcpSpelled DEF Scripts!TcpServer2
<1>3. a \in Seq(Front) /\ b \in Seq(Back)
  BY CallsOfPairs
<1> USE DEF Scripts!Listen, Scripts!Accept, Scripts!Connect, Scripts!Write, Scripts!Read,
        Scripts!Close, Scripts!Call
<1>4. Tidy(a) /\ Tidy(b)
  BY DEF Tidy
<1>5. Matches(a, "write", b, "read", 0)
  BY DEF Matches
<1>6. ~Has(a, "drain")
  BY DEF Has
<1>7. Longest \in Nat /\ Longest >= 3
  BY ScriptParameters DEF Longest, Scripts!StreamParameters
<1>8. Awaited(b, "write") = {<<3, 1>>, <<4, 1>>, <<5, 1>>}
  <2>1. ASSUME NEW p \in Awaited(b, "write") PROVE p \in {<<3, 1>>, <<4, 1>>, <<5, 1>>}
    <3>1. /\ p \in (1 .. 6) \X (1 .. Longest)
          /\ b[p[1]].op = "write" /\ p[2] <= b[p[1]].len
      BY DEF Awaited
    <3>2. p[1] \in {3, 4, 5}
      BY <3>1
    <3>3. b[p[1]].len = 1
      BY <3>2
    <3>4. p[2] = 1 /\ p = <<p[1], p[2]>>
      BY <1>7, <3>1, <3>3
    <3> QED
      BY <3>2, <3>4
  <2>2. \A k \in {3, 4, 5} : <<k, 1>> \in Awaited(b, "write")
    BY <1>7 DEF Awaited
  <2> QED
    BY <2>1, <2>2
<1>9. Awaited(a, "read") = {<<2, 1>>, <<2, 2>>, <<2, 3>>}
  <2>1. ASSUME NEW p \in Awaited(a, "read") PROVE p \in {<<2, 1>>, <<2, 2>>, <<2, 3>>}
    <3>1. /\ p \in (1 .. 3) \X (1 .. Longest)
          /\ a[p[1]].op = "read" /\ p[2] <= a[p[1]].len
      BY DEF Awaited
    <3>2. p[1] = 2
      BY <3>1
    <3>3. a[p[1]].len = 3
      BY <3>2
    <3>4. p[2] \in {1, 2, 3} /\ p = <<p[1], p[2]>>
      BY <1>7, <3>1, <3>3
    <3> QED
      BY <3>2, <3>4
  <2>2. \A k \in {1, 2, 3} : <<2, k>> \in Awaited(a, "read")
    BY <1>7 DEF Awaited
  <2> QED
    BY <2>1, <2>2
<1>10. ASSUME NEW x, NEW y, NEW z, x # y, y # z, x # z
       PROVE  Cardinality({x, y, z}) = 3
  <2>1. IsFiniteSet({x}) /\ Cardinality({x}) = 1
    BY FS_Singleton
  <2>2. IsFiniteSet({x} \cup {y}) /\ Cardinality({x} \cup {y}) = 2
    BY <1>10, <2>1, FS_AddElement
  <2>3. Cardinality(({x} \cup {y}) \cup {z}) = 3
    BY <1>10, <2>2, FS_AddElement
  <2>4. {x, y, z} = ({x} \cup {y}) \cup {z}
    OBVIOUS
  <2> QED
    BY <2>3, <2>4
<1>11. Size(b, "write") = 3
  <2> DEFINE x == <<3, 1>>
             y == <<4, 1>>
             z == <<5, 1>>
  <2>0. x # y /\ y # z /\ x # z
    OBVIOUS
  <2> HIDE DEF x, y, z
  <2>1. Cardinality({x, y, z}) = 3
    BY <1>10, <2>0
  <2> QED
    BY <1>8, <2>1 DEF Size, x, y, z
<1>12. Size(a, "read") = 3
  <2> DEFINE x == <<2, 1>>
             y == <<2, 2>>
             z == <<2, 3>>
  <2>0. x # y /\ y # z /\ x # z
    OBVIOUS
  <2> HIDE DEF x, y, z
  <2>1. Cardinality({x, y, z}) = 3
    BY <1>10, <2>0
  <2> QED
    BY <1>9, <2>1 DEF Size, x, y, z
<1> HIDE DEF a, b
<1>13. 0 \in Int
  OBVIOUS
<1>14. Size(a, "write") = Size(b, "read")
  BY <1>3, <1>5, <1>13, SizeMatched
<1>15. Ready(FALSE, a, b)
  BY <1>3, <1>4, <1>6, <1>11, <1>12, <1>14 DEF Ready
<1> QED
  BY <1>1, <1>2, <1>15

\* A loop is its calls over and over.
LEMMA TimesOne ==
    ASSUME NEW S, NEW c \in S, NEW n \in Nat
    PROVE  /\ Scripts!Times(n, <<c>>) \in Seq(S)
           /\ Len(Scripts!Times(n, <<c>>)) = n
           /\ \A k \in 1 .. n : Scripts!Times(n, <<c>>)[k] = c
<1> DEFINE e(k) == <<c>>[((k - 1) % 1) + 1]
           m == [k \in 1 .. n |-> e(k)]
<1>1. Scripts!Times(n, <<c>>) = m
  BY DEF Scripts!Times
<1>2. \A k \in 1 .. n : e(k) = c
  BY Z3
<1> HIDE DEF e
<1>3. m \in Seq(S) /\ Len(m) = n
  BY <1>2, IsASeq
<1>4. \A k \in 1 .. n : m[k] = c
  BY <1>2
<1> HIDE DEF m
<1> QED
  BY <1>1, <1>3, <1>4

LEMMA TimesTwo ==
    ASSUME NEW S, NEW calls \in Seq(S), Len(calls) = 2, NEW n \in Nat
    PROVE  /\ Scripts!Times(n, calls) \in Seq(S)
           /\ Len(Scripts!Times(n, calls)) = 2 * n
           /\ \A k \in 1 .. 2 * n :
                 /\ k % 2 = 1 => Scripts!Times(n, calls)[k] = calls[1]
                 /\ k % 2 # 1 => Scripts!Times(n, calls)[k] = calls[2]
<1> DEFINE e(k) == calls[((k - 1) % 2) + 1]
           m == [k \in 1 .. n * 2 |-> e(k)]
<1>1. Scripts!Times(n, calls) = m
  BY DEF Scripts!Times
<1>2. ASSUME NEW k \in 1 .. 2 * n
      PROVE  /\ k % 2 = 1 => e(k) = calls[1]
             /\ k % 2 # 1 => e(k) = calls[2]
  <2>1. CASE k % 2 = 1
    <3>1. (k - 1) % 2 = 0
      BY <2>1
    <3> QED
      BY <2>1, <3>1
  <2>2. CASE k % 2 # 1
    <3>1. (k - 1) % 2 = 1
      BY <2>2
    <3> QED
      BY <2>2, <3>1
  <2> QED
    BY <2>1, <2>2
<1>3. calls[1] \in S /\ calls[2] \in S
  BY ElementOfSeq
<1> HIDE DEF e
<1>4. m \in Seq(S) /\ Len(m) = n * 2
  <2>1. n * 2 \in Nat /\ n * 2 = 2 * n
    OBVIOUS
  <2>2. \A k \in 1 .. n * 2 : e(k) \in S
    BY <1>2, <1>3, <2>1
  <2> QED
    BY <2>1, <2>2, IsASeq
<1>5. \A k \in 1 .. 2 * n : /\ k % 2 = 1 => m[k] = calls[1]
                            /\ k % 2 # 1 => m[k] = calls[2]
  BY <1>2
<1> HIDE DEF m
<1>6. n * 2 = 2 * n
  OBVIOUS
<1> QED
  BY <1>1, <1>4, <1>5, <1>6

\* The echo clients, the two processes and chat_client.c.
LEMMA AnswererReady ==
    /\ Scripts!Answerer \in Seq(Answering) /\ Tidy(Scripts!Answerer)
    /\ Has(Scripts!Answerer, "echo") /\ ~Has(Scripts!Answerer, "exit")
<1> USE DEF Scripts!Answerer, Scripts!Listen, Scripts!Accept, Scripts!Echo, Scripts!Close,
        Scripts!Call
<1>1. Scripts!Answerer \in Seq(Answering)
  BY DEF Answering, Plain
<1>2. Tidy(Scripts!Answerer)
  BY DEF Tidy
<1>3. Has(Scripts!Answerer, "echo") /\ ~Has(Scripts!Answerer, "exit")
  BY DEF Has
<1> QED
  BY <1>1, <1>2, <1>3

LEMMA EchoReady ==
    /\ Scripts!EchoClient2 \in Seq(Asking) /\ Tidy(Scripts!EchoClient2)
    /\ Size(Scripts!EchoClient2, "write") = Size(Scripts!EchoClient2, "fill")
<1> DEFINE w == Scripts!Write(1, Str)
           f == Scripts!Fill(2, Str)
           u == <<Scripts!Connect>>
           m == Scripts!Times(Lines, <<w, f>>)
           z == <<Scripts!Close>>
           a == u \o m \o z
<1>1. Scripts!EchoClient2 = a
  BY DEF Scripts!EchoClient2
<1>2. Lines \in Nat /\ Str \in 1 .. Longest
  BY ScriptParameters DEF Longest, Scripts!StreamParameters
<1>3. Scripts!Connect \in Asking /\ Scripts!Close \in Asking /\ w \in Asking /\ f \in Asking
  BY <1>2 DEF Asking, Plain, Moving, Scripts!Connect, Scripts!Close, Scripts!Write,
         Scripts!Fill, Scripts!Call
<1>4. /\ Scripts!Connect.op = "connect" /\ Scripts!Close.op = "close" /\ w.op = "write"
      /\ f.op = "fill" /\ w.len = Str /\ f.len = Str
  BY DEF Scripts!Connect, Scripts!Close, Scripts!Write, Scripts!Fill, Scripts!Call
<1> HIDE DEF w, f
<1>5. /\ m \in Seq(Asking) /\ Len(m) = 2 * Lines
      /\ \A k \in 1 .. 2 * Lines : m[k] = IF k % 2 = 1 THEN w ELSE f
  <2> DEFINE c == <<w, f>>
  <2>1. c \in Seq(Asking) /\ Len(c) = 2 /\ c[1] = w /\ c[2] = f
    BY <1>3
  <2> HIDE DEF c
  <2>2. /\ Scripts!Times(Lines, c) \in Seq(Asking)
        /\ Len(Scripts!Times(Lines, c)) = 2 * Lines
        /\ \A k \in 1 .. 2 * Lines :
              /\ k % 2 = 1 => Scripts!Times(Lines, c)[k] = c[1]
              /\ k % 2 # 1 => Scripts!Times(Lines, c)[k] = c[2]
    BY <1>2, <2>1, TimesTwo
  <2>3. m = Scripts!Times(Lines, c)
    BY DEF c
  <2> HIDE DEF m
  <2> QED
    BY <2>1, <2>2, <2>3
<1>6. /\ u \in Seq(Asking) /\ z \in Seq(Asking) /\ Len(u) = 1 /\ Len(z) = 1
      /\ u[1] = Scripts!Connect /\ z[1] = Scripts!Close
  BY <1>3
<1> HIDE DEF u, m, z
<1>7. /\ a \in Seq(Asking)
      /\ Len(a) = Len(u) + Len(m) + Len(z)
      /\ \A k \in 1 .. Len(u) : a[k] = u[k]
      /\ \A k \in 1 .. Len(m) : a[Len(u) + k] = m[k]
      /\ \A k \in 1 .. Len(z) : a[Len(u) + Len(m) + k] = z[k]
  <2>1. u \in Seq(Asking) /\ m \in Seq(Asking) /\ z \in Seq(Asking)
    BY <1>5, <1>6
  <2> QED
    BY <2>1, Framed
<1> HIDE DEF a
<1>8. /\ Len(a) = 2 * Lines + 2 /\ a[1] = Scripts!Connect /\ a[2 * Lines + 2] = Scripts!Close
      /\ \A k \in 2 .. 2 * Lines + 1 : a[k] = IF k % 2 = 0 THEN w ELSE f
  <2>1. /\ Len(a) = 2 * Lines + 2 /\ a[1] = Scripts!Connect
        /\ a[2 * Lines + 2] = Scripts!Close
    <3>1. 1 + 2 * Lines + 1 = 2 * Lines + 2
      BY <1>2
    <3>2. a[1 + 2 * Lines + 1] = z[1]
      BY <1>5, <1>6, <1>7
    <3> QED
      BY <1>2, <1>5, <1>6, <1>7, <3>1, <3>2
  <2>2. ASSUME NEW k \in 2 .. 2 * Lines + 1 PROVE a[k] = IF k % 2 = 0 THEN w ELSE f
    <3>1. k - 1 \in 1 .. 2 * Lines /\ k = 1 + (k - 1)
      BY <1>2
    <3>2. a[1 + (k - 1)] = m[k - 1]
      BY <1>5, <1>6, <1>7, <3>1
    <3>3. (k - 1) % 2 = 1 <=> k % 2 = 0
      BY <1>2
    <3> QED
      BY <1>5, <3>1, <3>2, <3>3
  <2> QED
    BY <2>1, <2>2
<1>9. \A k \in 1 .. Len(a) :
         k = 1 \/ k \in 2 .. 2 * Lines + 1 \/ k = 2 * Lines + 2
  BY <1>2, <1>8
<1>10. \A k \in 1 .. Len(a) : /\ a[k].op = "close" => k = 2 * Lines + 2
                              /\ a[k].op # "shut"
  BY <1>4, <1>8, <1>9
<1>11. Tidy(a)
  BY <1>2, <1>8, <1>10 DEF Tidy
<1>12. Matches(a, "write", a, "fill", 1)
  <2>1. ASSUME NEW k \in 1 .. Len(a), a[k].op = "write"
        PROVE  k + 1 \in 1 .. Len(a) /\ a[k + 1].op = "fill" /\ a[k + 1].len = a[k].len
    <3>1. k \in 2 .. 2 * Lines + 1 /\ k % 2 = 0
      BY <1>4, <1>8, <1>9, <2>1
    <3>2. k + 1 \in 2 .. 2 * Lines + 1 /\ (k + 1) % 2 = 1
      BY <1>2, <3>1
    <3>3. a[k] = w /\ a[k + 1] = f
      BY <1>8, <3>1, <3>2
    <3> QED
      BY <1>2, <1>4, <1>8, <3>2, <3>3
  <2>2. ASSUME NEW k \in 1 .. Len(a), a[k].op = "fill"
        PROVE  k - 1 \in 1 .. Len(a) /\ a[k - 1].op = "write"
    <3>1. k \in 2 .. 2 * Lines + 1 /\ k % 2 # 0
      BY <1>4, <1>8, <1>9, <2>2
    <3>2. k - 1 \in 2 .. 2 * Lines + 1 /\ (k - 1) % 2 = 0
      BY <1>2, <3>1
    <3> QED
      BY <1>2, <1>4, <1>8, <3>2
  <2> QED
    BY <2>1, <2>2 DEF Matches
<1>13. 1 \in Int
  OBVIOUS
<1>14. Size(a, "write") = Size(a, "fill")
  BY <1>7, <1>12, <1>13, SizeMatched
<1> QED
  BY <1>1, <1>7, <1>11, <1>14

LEMMA SplitReady ==
    /\ Scripts!ReadRoutine \in Seq(Reading) /\ Tidy(Scripts!ReadRoutine)
    /\ Has(Scripts!ReadRoutine, "drain")
    /\ Scripts!WriteRoutine \in Seq(Writing) /\ Tidy(Scripts!WriteRoutine)
<1>1. Scripts!ReadRoutine \in Seq(Reading)
  BY DEF Reading, Plain, Scripts!ReadRoutine, Scripts!Connect, Scripts!Drain, Scripts!Close,
         Scripts!Call
<1>2. Tidy(Scripts!ReadRoutine) /\ Has(Scripts!ReadRoutine, "drain")
  <2> USE DEF Scripts!ReadRoutine, Scripts!Connect, Scripts!Drain, Scripts!Close, Scripts!Call
  <2>1. Tidy(Scripts!ReadRoutine)
    BY DEF Tidy
  <2>2. Has(Scripts!ReadRoutine, "drain")
    BY DEF Has
  <2> QED
    BY <2>1, <2>2
<1> DEFINE w == Scripts!Write(1, Str)
           u == <<Scripts!Begin>>
           m == Scripts!Times(Lines, <<w>>)
           z == <<Scripts!Shut(1), Scripts!Close>>
           a == u \o m \o z
<1>3. Scripts!WriteRoutine = a
  BY DEF Scripts!WriteRoutine
<1>4. Lines \in Nat /\ Str \in 1 .. Longest
  BY ScriptParameters DEF Longest, Scripts!StreamParameters
<1>5. /\ Scripts!Begin \in Writing /\ Scripts!Close \in Writing /\ w \in Writing
      /\ Scripts!Shut(1) \in Writing
  BY <1>4 DEF Writing, Plain, Moving, Scripts!Begin, Scripts!Close, Scripts!Write,
         Scripts!Shut, Scripts!Call
<1>6. /\ Scripts!Begin.op = "begin" /\ Scripts!Close.op = "close" /\ w.op = "write"
      /\ Scripts!Shut(1).op = "shut"
  BY DEF Scripts!Begin, Scripts!Close, Scripts!Write, Scripts!Shut, Scripts!Call
<1> HIDE DEF w
<1>7. /\ m \in Seq(Writing) /\ Len(m) = Lines
      /\ \A k \in 1 .. Lines : m[k] = w
  BY <1>4, <1>5, TimesOne
<1>8. /\ u \in Seq(Writing) /\ z \in Seq(Writing) /\ Len(u) = 1 /\ Len(z) = 2
      /\ u[1] = Scripts!Begin /\ z[1] = Scripts!Shut(1) /\ z[2] = Scripts!Close
  BY <1>5
<1> HIDE DEF u, m, z
<1>9. /\ a \in Seq(Writing)
      /\ Len(a) = Len(u) + Len(m) + Len(z)
      /\ \A k \in 1 .. Len(u) : a[k] = u[k]
      /\ \A k \in 1 .. Len(m) : a[Len(u) + k] = m[k]
      /\ \A k \in 1 .. Len(z) : a[Len(u) + Len(m) + k] = z[k]
  <2>1. u \in Seq(Writing) /\ m \in Seq(Writing) /\ z \in Seq(Writing)
    BY <1>7, <1>8
  <2> QED
    BY <2>1, Framed
<1> HIDE DEF a
<1>10. /\ Len(a) = Lines + 3 /\ a[1].op = "begin"
       /\ a[Lines + 2].op = "shut" /\ a[Lines + 3].op = "close"
       /\ \A k \in 2 .. Lines + 1 : a[k].op = "write"
  <2>1. Len(a) = Lines + 3
    BY <1>4, <1>7, <1>8, <1>9
  <2>2. a[1] = Scripts!Begin
    BY <1>8, <1>9
  <2>3. a[1 + Lines + 1] = Scripts!Shut(1) /\ a[1 + Lines + 2] = Scripts!Close
    BY <1>7, <1>8, <1>9
  <2>4. 1 + Lines + 1 = Lines + 2 /\ 1 + Lines + 2 = Lines + 3
    BY <1>4
  <2>5. ASSUME NEW k \in 2 .. Lines + 1 PROVE a[k] = w
    <3>1. k - 1 \in 1 .. Lines /\ k = 1 + (k - 1)
      BY <1>4
    <3>2. a[1 + (k - 1)] = m[k - 1]
      BY <1>7, <1>8, <1>9, <3>1
    <3> QED
      BY <1>7, <3>1, <3>2
  <2> QED
    BY <1>6, <2>1, <2>2, <2>3, <2>4, <2>5
<1>11. \A k \in 1 .. Len(a) :
          k = 1 \/ k \in 2 .. Lines + 1 \/ k = Lines + 2 \/ k = Lines + 3
  BY <1>4, <1>10
<1>12. \A k \in 1 .. Len(a) : /\ a[k].op = "close" => k = Lines + 3
                              /\ a[k].op = "shut" => k = Lines + 2
                              /\ a[k].op = "write" => k < Lines + 2
  BY <1>4, <1>10, <1>11
<1>13. Tidy(a)
  BY <1>4, <1>10, <1>12 DEF Tidy
<1> QED
  BY <1>1, <1>2, <1>3, <1>9, <1>13

LEMMA ChatReady ==
    /\ Has(Scripts!ChatClientC, "follow") /\ ~Has(Scripts!ChatClientC, "exit")
    /\ ~Has(Scripts!SendMsgC, "exit")
<1>1. Has(Scripts!ChatClientC, "follow") /\ ~Has(Scripts!ChatClientC, "exit")
  BY DEF Has, Scripts!ChatClientC, Scripts!Connect, Scripts!Follow, Scripts!Call
<1> DEFINE w == Scripts!Write(1, Str)
           S == {Scripts!Begin, w}
           u == <<Scripts!Begin>>
           m == Scripts!Times(Lines, <<w>>)
           a == u \o m
<1>2. Scripts!SendMsgC = a
  BY DEF Scripts!SendMsgC
<1>3. Lines \in Nat
  BY ScriptParameters DEF Scripts!StreamParameters
<1>4. \A h \in S : h.op # "exit"
  BY DEF Scripts!Begin, Scripts!Write, Scripts!Call
<1>5. w \in S /\ u \in Seq(S)
  OBVIOUS
<1> HIDE DEF w, S
<1>6. m \in Seq(S)
  BY <1>3, <1>5, TimesOne
<1> HIDE DEF u, m
<1>7. a \in Seq(S)
  BY <1>5, <1>6, ConcatProperties
<1> HIDE DEF a
<1>8. ~Has(a, "exit")
  BY <1>4, <1>7, ElementOfSeq DEF Has
<1> QED
  BY <1>1, <1>2, <1>8

\* Every pair begins as its class requires.
LEMMA FlowStart == ASSUME Scripts!Init PROVE FlowInv
<1> DEFINE Begins(q) == /\ todo[1] = q[1] /\ todo[2] = q[2]
                        /\ Len(q) = 2 => todo[3] = <<>>
                        /\ Len(q) = 3 => todo[3] = q[3]
<1>1. \A q : Scripts!Pairs[script] = q /\ Len(q) \in {2, 3} => Begins(q)
  BY DEF Scripts!Init, Scripts!Sides
<1>2. bytes[1] = 0 /\ bytes[2] = 0 /\ shut = {} /\ gone = {} /\ ~refused
  BY DEF Scripts!Init, Scripts!Chans
<1>3. ASSUME NEW x, NEW y, Scripts!Pairs[script] = <<x, y>>
      PROVE  todo[1] = x /\ todo[2] = y /\ todo[3] = <<>>
  <2> DEFINE q == <<x, y>>
  <2>1. Len(q) = 2 /\ q[1] = x /\ q[2] = y
    OBVIOUS
  <2> HIDE DEF q
  <2>2. Begins(q)
    BY <1>1, <1>3, <2>1 DEF q
  <2> QED
    BY <2>1, <2>2
<1>4. ASSUME NEW x, NEW y, NEW z, Scripts!Pairs[script] = <<x, y, z>>
      PROVE  todo[1] = x /\ todo[2] = y /\ todo[3] = z
  <2> DEFINE q == <<x, y, z>>
  <2>1. Len(q) = 3 /\ q[1] = x /\ q[2] = y /\ q[3] = z
    OBVIOUS
  <2> HIDE DEF q
  <2>2. Begins(q)
    BY <1>1, <1>4, <2>1 DEF q
  <2> QED
    BY <2>1, <2>2
<1> HIDE DEF Begins
<1>5. ASSUME NEW a, NEW b, NEW drains \in BOOLEAN, Ready(drains, a, b),
             Scripts!Pairs[script] = <<a, b>>
      PROVE  /\ todo[3] = <<>>
             /\ PairOn(drains, todo[1], todo[2], bytes[1], bytes[2], shut, gone)
  <2>1. todo[1] = a /\ todo[2] = b /\ todo[3] = <<>>
    BY <1>3, <1>5
  <2>2. \A label : Size(a, label) \in Nat /\ Size(b, label) \in Nat
    BY <1>5, SizeTypes DEF Ready
  <2> QED
    BY <1>2, <1>5, <2>1, <2>2 DEF Ready, PairOn
<1>6. ASSUME script \in Drained
      PROVE  /\ todo[3] = <<>>
             /\ PairOn(TRUE, todo[1], todo[2], bytes[1], bytes[2], shut, gone)
  <2>1. CASE script = "tcp"
    BY <1>5, <2>1, TcpReady DEF Scripts!Pairs
  <2>2. CASE script = "tcp_win"
    BY <1>5, <2>2, TcpReady DEF Scripts!Pairs, Scripts!TcpClientWin, Scripts!TcpServerWin,
           Scripts!TcpClient, Scripts!TcpServer
  <2>3. CASE script = "file"
    BY <1>5, <2>3, FileReady DEF Scripts!Pairs
  <2>4. CASE script = "file_win"
    BY <1>5, <2>4, FileReady DEF Scripts!Pairs, Scripts!FileClientWin, Scripts!FileServerWin,
           Scripts!FileClient, Scripts!FileServer
  <2>5. CASE script = "sep2"
    BY <1>5, <2>5, SepReady DEF Scripts!Pairs
  <2> QED
    BY <1>6, <2>1, <2>2, <2>3, <2>4, <2>5 DEF Drained
<1>7. ASSUME script \in Counted
      PROVE  /\ todo[3] = <<>>
             /\ PairOn(FALSE, todo[1], todo[2], bytes[1], bytes[2], shut, gone)
  <2>1. CASE script = "hello"
    BY <1>5, <2>1, HelloReady DEF Scripts!Pairs
  <2>2. CASE script = "hello_win"
    BY <1>5, <2>2, HelloReady DEF Scripts!Pairs, Scripts!HelloClientWin, Scripts!HelloServerWin,
           Scripts!HelloClient, Scripts!HelloServer
  <2>3. CASE script = "tcp2"
    BY <1>5, <2>3, Tcp2Ready DEF Scripts!Pairs
  <2>4. CASE script = "string3"
    BY <1>5, <2>4, StringReady DEF Scripts!Pairs
  <2>5. CASE script = "op"
    BY <1>5, <2>5, OpReady DEF Scripts!Pairs
  <2>6. CASE script = "file_name"
    BY <1>5, <2>6, FileByNameReady DEF Scripts!Pairs
  <2>7. CASE script = "peek"
    BY <1>5, <2>7, PeekReady DEF Scripts!Pairs
  <2>8. CASE script = "overlapped"
    BY <1>5, <2>8, OverlappedReady DEF Scripts!Pairs
  <2>9. CASE script = "routine"
    BY <1>5, <2>9, OverlappedReady DEF Scripts!Pairs, Scripts!CmplRoutinesRecv,
           Scripts!OverlappedRecv
  <2>10. CASE script = "pipe1"
    BY <1>5, <2>10, Pipe1Ready DEF Scripts!Pairs
  <2>11. CASE script = "pipe3"
    BY <1>5, <2>11, Pipe3Ready DEF Scripts!Pairs
  <2>12. CASE script = "pipe_str"
    BY <1>5, <2>12, StrPipeReady DEF Scripts!Pairs
  <2> QED
    BY <1>7, <2>1, <2>2, <2>3, <2>4, <2>5, <2>6, <2>7, <2>8, <2>9, <2>10, <2>11, <2>12
    DEF Counted
<1>8. ASSUME script \in Echoed
      PROVE  /\ todo[3] = <<>>
             /\ EchoOn(todo[1], todo[2], bytes[1], bytes[2], shut, gone)
  <2> DEFINE a == Scripts!EchoClient2
  <2>0. Scripts!EchoStdClient = a /\ Scripts!StableEchoClnt = a
    BY DEF Scripts!EchoClient2, Scripts!EchoStdClient, Scripts!StableEchoClnt
  <2>1. Scripts!Pairs[script] = <<a, Scripts!Answerer>>
    <3>1. CASE script = "count"
      BY <3>1 DEF Scripts!Pairs
    <3>2. CASE script = "line"
      BY <2>0, <3>2 DEF Scripts!Pairs
    <3>3. CASE script = "stable"
      BY <2>0, <3>3 DEF Scripts!Pairs
    <3> QED
      BY <1>8, <3>1, <3>2, <3>3 DEF Echoed
  <2>2. todo[1] = a /\ todo[2] = Scripts!Answerer /\ todo[3] = <<>>
    BY <1>3, <2>1
  <2>3. Size(a, "write") \in Nat
    BY EchoReady, SizeTypes
  <2> QED
    BY <1>2, <2>2, <2>3, EchoReady, AnswererReady DEF EchoOn
<1>9. ASSUME script = "split"
      PROVE  SplitOn(todo[1], todo[2], todo[3], bytes[1], bytes[2], shut, gone)
  <2>1. Scripts!Pairs[script]
           = <<Scripts!ReadRoutine, Scripts!Answerer, Scripts!WriteRoutine>>
    BY <1>9 DEF Scripts!Pairs
  <2>2. /\ todo[1] = Scripts!ReadRoutine /\ todo[2] = Scripts!Answerer
        /\ todo[3] = Scripts!WriteRoutine
    BY <1>4, <2>1
  <2> QED
    BY <1>2, <2>2, SplitReady, AnswererReady DEF SplitOn
<1>10. ASSUME script = "chat_c"
       PROVE  Has(todo[1], "follow") /\ \A s \in 1 .. 3 : ~Has(todo[s], "exit")
  <2>1. Scripts!Pairs[script]
           = <<Scripts!ChatClientC, Scripts!Answerer, Scripts!SendMsgC>>
    BY <1>10 DEF Scripts!Pairs
  <2>2. /\ todo[1] = Scripts!ChatClientC /\ todo[2] = Scripts!Answerer
        /\ todo[3] = Scripts!SendMsgC
    BY <1>4, <2>1
  <2> QED
    BY <2>2, ChatReady, AnswererReady
<1>11. script \in Counted => script \notin Drained
  BY DEF Counted, Drained
<1>12. Flowing
  <2>1. CASE script \in Counted
    <3>1. (script \in Drained) = FALSE
      BY <1>11, <2>1
    <3>2. script \notin Echoed /\ script # "split" /\ script # "chat_c"
      BY <2>1 DEF Counted, Echoed
    <3> QED
      BY <1>7, <2>1, <3>1, <3>2 DEF Flowing
  <2>2. CASE script \in Drained
    <3>1. (script \in Drained) = TRUE
      BY <2>2
    <3>2. script \notin Echoed /\ script # "split" /\ script # "chat_c"
      BY <2>2 DEF Drained, Echoed
    <3> QED
      BY <1>6, <2>2, <3>1, <3>2 DEF Flowing
  <2>3. CASE script \notin Counted \cup Drained
    BY <1>8, <1>9, <1>10, <2>3 DEF Flowing
  <2> QED
    BY <2>1, <2>2, <2>3
<1> QED
  BY <1>2, <1>12 DEF FlowInv

\* A call of any script keeps the balance.
LEMMA FlowStep ==
    ASSUME ScriptTyped, FlowInv, UNCHANGED script, NEW s \in 1 .. 3, Scripts!Runs(s)
    PROVE  FlowInv'
<1> SUFFICES ASSUME ~garbled' PROVE Flowing' /\ (Kept => ~refused)'
  BY DEF FlowInv
<1>1. ~garbled
  BY ScriptEffect
<1>2. Flowing /\ (Kept => ~refused)
  BY <1>1 DEF FlowInv
<1>3. CASE script \in Counted \cup Drained
  <2>1. ~refused /\ todo[3] = <<>>
    BY <1>2, <1>3 DEF Flowing, Kept
  <2>2. PairOn(script \in Drained, todo[1], todo[2], bytes[1], bytes[2], shut, gone)
    BY <1>2, <1>3 DEF Flowing
  <2>3. /\ ~refused' /\ todo'[3] = <<>>
        /\ PairOn(script \in Drained, todo'[1], todo'[2], bytes'[1], bytes'[2], shut', gone')
    BY <1>3, <2>1, <2>2, PairStep
  <2>4. script \notin Echoed /\ script # "split" /\ script # "chat_c"
    BY <1>3 DEF Counted, Drained, Echoed
  <2>5. script' = script
    OBVIOUS
  <2> QED
    BY <1>3, <2>3, <2>4, <2>5 DEF Flowing, Kept
<1>4. CASE script \in Echoed
  <2>1. ~refused /\ todo[3] = <<>>
    BY <1>2, <1>4 DEF Flowing, Kept
  <2>2. EchoOn(todo[1], todo[2], bytes[1], bytes[2], shut, gone)
    BY <1>2, <1>4 DEF Flowing
  <2>3. /\ ~refused' /\ todo'[3] = <<>>
        /\ EchoOn(todo'[1], todo'[2], bytes'[1], bytes'[2], shut', gone')
    BY <1>4, <2>1, <2>2, EchoStep
  <2>4. script \notin Counted \cup Drained /\ script # "split" /\ script # "chat_c"
    BY <1>4 DEF Counted, Drained, Echoed
  <2> QED
    BY <1>4, <2>3, <2>4 DEF Flowing, Kept
<1>5. CASE script = "split"
  <2>1. ~refused
    BY <1>2, <1>5 DEF Kept
  <2>2. SplitOn(todo[1], todo[2], todo[3], bytes[1], bytes[2], shut, gone)
    BY <1>2, <1>5 DEF Flowing
  <2>3. /\ ~refused'
        /\ SplitOn(todo'[1], todo'[2], todo'[3], bytes'[1], bytes'[2], shut', gone')
    BY <1>5, <2>1, <2>2, SplitStep
  <2>4. script \notin Counted \cup Drained \cup Echoed /\ script # "chat_c"
    BY <1>5 DEF Counted, Drained, Echoed
  <2> QED
    BY <1>5, <2>3, <2>4 DEF Flowing, Kept
<1>6. CASE script = "chat_c"
  <2>1. Has(todo[1], "follow") /\ \A r \in 1 .. 3 : ~Has(todo[r], "exit")
    BY <1>2, <1>6 DEF Flowing
  <2>2. Has(todo'[1], "follow") /\ \A r \in 1 .. 3 : ~Has(todo'[r], "exit")
    BY <2>1, ChatStep
  <2>3. script \notin Counted \cup Drained \cup Echoed /\ script # "split"
    BY <1>6 DEF Counted, Drained, Echoed
  <2> QED
    BY <1>6, <2>2, <2>3 DEF Flowing, Kept
<1>7. CASE script \notin Counted \cup Drained \cup Echoed \cup {"split", "chat_c"}
  BY <1>7 DEF Flowing, Kept
<1> QED
  BY <1>3, <1>4, <1>5, <1>6, <1>7

LEMMA FlowAlways == SmallSpec => []FlowInv
<1>1. SmallInit => FlowInv
  BY FlowStart DEF SmallInit
<1>2. ScriptTyped /\ FlowInv /\ [SmallNext]_all => FlowInv'
  <2> SUFFICES ASSUME ScriptTyped, FlowInv, [SmallNext]_all PROVE FlowInv'
    OBVIOUS
  <2>1. Scripts!Next \/ UNCHANGED streaming
    BY DEF SmallNext, all
  <2>2. CASE UNCHANGED streaming
    BY <2>2 DEF streaming, FlowInv, Flowing, Kept
  <2>3. ASSUME NEW s \in 1 .. 3, Scripts!Runs(s), UNCHANGED script PROVE FlowInv'
    BY <2>3, FlowStep
  <2> QED
    BY <2>1, <2>2, <2>3 DEF Scripts!Next, Scripts!Finished, Scripts!stream, Scripts!Sides, streaming
<1> QED
  BY <1>1, <1>2, ScriptAlways, PTL DEF SmallSpec

\* With no call left nothing more will be written or read, so nothing is
\* unread; chat_client.c has no last call.
LEMMA FlowEnds == ASSUME ScriptTyped, FlowInv, script \in DOMAIN Scripts!Pairs PROVE Scripts!Delivered
<1> SUFFICES ASSUME script \notin {"sep", "pipe2", "once", "once_win", "chat", "chat_win",
                                   "chat_cpp"},
                    \A s \in 1 .. 3 : todo[s] = <<>>, ~garbled
             PROVE  ~refused /\ bytes[1] = 0 /\ bytes[2] = 0
  BY DEF Scripts!Delivered, Scripts!Ended, Scripts!Sides, Scripts!Chans
<1>1. Flowing /\ (Kept => ~refused)
  BY DEF FlowInv
<1>2. todo[1] = <<>> /\ todo[2] = <<>> /\ todo[3] = <<>>
  OBVIOUS
<1>3. bytes[1] \in Nat /\ bytes[2] \in Nat
  BY DEF ScriptTyped
<1>4. script \in Counted \cup Drained \cup Echoed \cup {"split", "chat_c"}
  BY DEF Counted, Drained, Echoed, Scripts!Pairs
<1>5. script # "chat_c"
  BY <1>1, <1>2, HasEmpty DEF Flowing
<1>6. ~refused
  BY <1>1, <1>4, <1>5 DEF Kept
<1>7. CASE script \in Counted \cup Drained
  <2>1. PairOn(script \in Drained, <<>>, <<>>, bytes[1], bytes[2], shut, gone)
    BY <1>1, <1>2, <1>7 DEF Flowing
  <2>2. \A label : Size(<<>>, label) = 0 /\ ~Has(<<>>, label)
    BY SizeEmpty, HasEmpty
  <2>3. bytes[1] + 0 = 0
    BY <2>1, <2>2 DEF PairOn
  <2>4. CASE script \in Drained
    BY <1>3, <1>6, <2>1, <2>2, <2>3, <2>4 DEF PairOn
  <2>5. CASE script \notin Drained
    <3>1. bytes[2] + Size(<<>>, "write") = Size(<<>>, "read")
      BY <2>1, <2>5 DEF PairOn
    <3>2. Size(<<>>, "write") = 0 /\ Size(<<>>, "read") = 0
      BY <2>2
    <3>3. bytes[2] + 0 = 0
      BY <1>3, <3>1, <3>2
    <3>4. bytes[2] = 0
      BY <1>3, <3>3
    <3>5. bytes[1] = 0
      BY <1>3, <2>3
    <3> QED
      BY <1>6, <3>4, <3>5
  <2> QED
    BY <2>4, <2>5
<1>8. CASE script \in Echoed
  <2>1. EchoOn(<<>>, <<>>, bytes[1], bytes[2], shut, gone)
    BY <1>1, <1>2, <1>8 DEF Flowing
  <2> QED
    BY <1>3, <1>6, <2>1, SizeEmpty DEF EchoOn
<1>9. CASE script = "split"
  <2>1. SplitOn(<<>>, <<>>, <<>>, bytes[1], bytes[2], shut, gone)
    BY <1>1, <1>2, <1>9 DEF Flowing
  <2> QED
    BY <1>6, <2>1, HasEmpty DEF SplitOn
<1> QED
  BY <1>4, <1>5, <1>7, <1>8, <1>9

\* When the programs of a script have ended without a short read, all that was
\* written has been read and nothing was written that nobody could read; and
\* the news, or the messages, that were not lost have all been received.
THEOREM DeliveredHolds == SmallSpec => []Delivered
<1>1. ScriptTyped /\ FlowInv /\ Scripts!TypeOK /\ Udp!AllSeen => Delivered
  BY FlowEnds DEF Delivered, Scripts!TypeOK
<1>2. OthersTypeOK => Scripts!TypeOK
  BY DEF OthersTypeOK
<1> QED
  BY <1>1, <1>2, ScriptAlways, FlowAlways, OthersTypeOKHolds, AllSeenHolds, PTL
=============================================================================
