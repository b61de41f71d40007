------------------------------ MODULE EventSync ------------------------------
(* 0720/windows: two threads count in a string that main reads.  In          *)
(* SyncEvent_win.c they wait for a manual-reset event that main sets; in     *)
(* SyncEventToSemaVer_win.c main reads first and starts them then, and they  *)
(* take one of two permits while they count.                                 *)
EXTENDS Integers, Sequences, FiniteSets

CONSTANTS
    Lines,   \* what the user may type before the newline or the end of the input
    STR_LEN  \* bytes of str, the terminating zero included; 100 in both programs

\* What the constants may be. A line has no zero byte: C would end it there.
LineParameters ==
    /\ Lines \subseteq Seq(STRING)
    /\ \A l \in Lines : \A k \in 1 .. Len(l) : l[k] # "newline"
    /\ STR_LEN \in Nat \ {0}

VARIABLES
    variant,   \* "event" or "sema"
    main,      \* what main does next
    str,       \* the characters before the terminating zero
    signaled,  \* hEvent
    permits,   \* count of sema
    thread,    \* what each thread does next
    i, cnt,    \* its locals
    shown      \* what it has printed

vars == <<variant, main, str, signaled, permits, thread, i, cnt, shown>>

NumberOfA == "NumberOfA"
NumberOfOthers == "NumberOfOthers"
Threads == {NumberOfA, NumberOfOthers}

\* A line ends in a newline unless the input ends first, perhaps at once.
Inputs == Lines \cup {Append(l, "newline") : l \in Lines}

\* fgets leaves room for the zero. At the end of the input it stores nothing,
\* and str is a static array of zeros.
Stored(typed) ==
    SubSeq(typed, 1, IF Len(typed) < STR_LEN THEN Len(typed) ELSE STR_LEN - 1)

TypeOK ==
    /\ variant \in {"event", "sema"}
    /\ main \in {"create", "fgets", "set", "wait", "reset", "ended"}
    /\ str \in {<<>>} \cup {Stored(typed) : typed \in Inputs}
    /\ signaled \in BOOLEAN /\ permits \in 0 .. 2
    /\ thread \in [Threads -> {"none", "wait", "count", "release", "ended"}]
    /\ \A t \in Threads : i[t] \in 0 .. Len(str) /\ cnt[t] \in 0 .. i[t]
    /\ shown \in [Threads -> Int]

Init ==
    /\ variant \in {"event", "sema"}
    /\ main = IF variant = "event" THEN "create" ELSE "fgets"
    /\ str = <<>> /\ signaled = FALSE /\ permits = 2
    /\ thread = [t \in Threads |-> "none"]
    /\ i = [t \in Threads |-> 0] /\ cnt = [t \in Threads |-> 0]
    /\ shown = [t \in Threads |-> 0]

-----------------------------------------------------------------------------
(* main                                                                      *)

Create ==
    /\ main = "create"
    /\ \E t \in Threads :
          /\ thread[t] = "none"
          /\ t = NumberOfA \/ thread[NumberOfA] # "none"
          /\ thread' = [thread EXCEPT ![t] = "wait"]
          /\ main' = IF t = NumberOfA THEN "create"
                     ELSE IF variant = "event" THEN "fgets" ELSE "wait"
    /\ UNCHANGED <<variant, str, signaled, permits, i, cnt, shown>>

Fgets ==
    /\ main = "fgets"
    /\ \E typed \in Inputs : str' = Stored(typed)
    /\ main' = IF variant = "event" THEN "set" ELSE "create"
    /\ UNCHANGED <<variant, signaled, permits, thread, i, cnt, shown>>

SetEvent ==
    /\ main = "set"
    /\ signaled' = TRUE /\ main' = "wait"
    /\ UNCHANGED <<variant, str, permits, thread, i, cnt, shown>>

\* Both WaitForSingleObject have returned.
Wait ==
    /\ main = "wait" /\ \A t \in Threads : thread[t] = "ended"
    /\ main' = IF variant = "event" THEN "reset" ELSE "ended"
    /\ UNCHANGED <<variant, str, signaled, permits, thread, i, cnt, shown>>

ResetEvent ==
    /\ main = "reset"
    /\ signaled' = FALSE /\ main' = "ended"
    /\ UNCHANGED <<variant, str, permits, thread, i, cnt, shown>>

-----------------------------------------------------------------------------
(* The threads                                                               *)

\* Mutant: without WaitForSingleObject.
WaitNot(t) ==
    /\ thread[t] = "wait"
    /\ permits' = IF variant = "sema" /\ permits > 0 THEN permits - 1 ELSE permits
    /\ thread' = [thread EXCEPT ![t] = "count"]
    /\ UNCHANGED <<variant, main, str, signaled, i, cnt, shown>>

\* WaitForSingleObject leaves a manual-reset event signaled.
WaitFor(t) ==
    /\ thread[t] = "wait"
    /\ \/ variant = "event" /\ signaled /\ UNCHANGED permits
       \/ variant = "sema" /\ permits > 0 /\ permits' = permits - 1
    /\ thread' = [thread EXCEPT ![t] = "count"]
    /\ UNCHANGED <<variant, main, str, signaled, i, cnt, shown>>

Counts(t, ch) == (ch = "A") = (t = NumberOfA)

Look(t) ==
    /\ thread[t] = "count" /\ i[t] < Len(str)
    /\ i' = [i EXCEPT ![t] = @ + 1]
    /\ cnt' = [cnt EXCEPT ![t] = IF Counts(t, str[i[t] + 1]) THEN @ + 1 ELSE @]
    /\ UNCHANGED <<variant, main, str, signaled, permits, thread, shown>>

\* NumberOfOthers takes one off for the newline, without looking for one.
Show(t) ==
    /\ thread[t] = "count" /\ i[t] = Len(str)
    /\ shown' = [shown EXCEPT ![t] = IF t = NumberOfA THEN cnt[t] ELSE cnt[t] - 1]
    /\ thread' = [thread EXCEPT ![t] = IF variant = "event" THEN "ended" ELSE "release"]
    /\ UNCHANGED <<variant, main, str, signaled, permits, i, cnt>>

\* Mutant: lReleaseCount is 2.
ReleaseTwo(t) ==
    /\ thread[t] = "release"
    /\ permits' = permits + 2
    /\ thread' = [thread EXCEPT ![t] = "ended"]
    /\ UNCHANGED <<variant, main, str, signaled, i, cnt, shown>>

ReleaseSemaphore(t) ==
    /\ thread[t] = "release"
    /\ permits' = permits + 1
    /\ thread' = [thread EXCEPT ![t] = "ended"]
    /\ UNCHANGED <<variant, main, str, signaled, i, cnt, shown>>

Finished == main = "ended" /\ UNCHANGED vars

Next ==
    \/ Finished \/ Create \/ Fgets \/ SetEvent \/ Wait \/ ResetEvent
    \/ \E t \in Threads : WaitFor(t) \/ Look(t) \/ Show(t) \/ ReleaseSemaphore(t)

Spec == Init /\ [][Next]_vars

-----------------------------------------------------------------------------
Others == {k \in DOMAIN str : str[k] \notin {"A", "newline"}}
NewlineStored == \E k \in DOMAIN str : str[k] = "newline"

\* Each thread prints the count of the string that fgets stored, whenever it was
\* started and however the two are scheduled. When fgets stored no newline,
\* which the comment in SyncEvent_win.c:65 does not think of, the number of others
\* is one too small, and -1 if there are none.
CountsAgree ==
    main = "ended" =>
       /\ shown[NumberOfA] = Cardinality({k \in DOMAIN str : str[k] = "A"})
       /\ shown[NumberOfOthers] =
              Cardinality(Others) - (IF NewlineStored THEN 0 ELSE 1)
=============================================================================
