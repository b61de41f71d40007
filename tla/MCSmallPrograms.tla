--------------------------- MODULE MCSmallPrograms ---------------------------
(* Instances for TLC of the programs that have no server loop: two on thread *)
(* synchronisation, one on events, the scripted pairs, and the programs with *)
(* datagrams.  The variable program says which has been started; the others  *)
(* stay as they are.                                                         *)
EXTENDS SemaphoreHandoff

CONSTANTS NumThread, Rounds, IncLock, DecLock, Num, Str, Lines, Texts,
          STR_LEN

VARIABLES program,
          counter, holder, pc, count, reg, created, joined,          \* counter
          variant, main, str, signaled, permits, thread, i, cnt, shown,  \* event
          script, todo, up, bytes, shut, gone, garbled, refused,   \* scripts
          kit, flight, at, serv, asked, cur, seen, lost, doubled   \* datagrams

Counter == INSTANCE SharedCounter WITH num <- counter
Event == INSTANCE EventSync WITH Lines <- Texts
Scripts == INSTANCE StreamScripts
Udp == INSTANCE Datagrams

counting == <<counter, holder, pc, count, reg, created, joined>>
signalling == <<variant, main, str, signaled, permits, thread, i, cnt, shown>>
streaming == <<script, todo, up, bytes, shut, gone, garbled, refused>>
exchange == <<flight, at, serv, asked, cur, seen, lost, doubled>>
conversing == <<kit, exchange>>
all == <<program, vars, counting, signalling, streaming, conversing>>

ASSUME CounterParameters == Counter!Parameters
ASSUME ScriptParameters == Scripts!StreamParameters
ASSUME EventParameters == Event!LineParameters

\* Lines for the event programs. With room for three characters (STR_LEN = 4)
\* "bA" still fits with its newline, "bbA" without it, "Abbb" not at all.
MCTexts == {<<>>, <<"A">>, <<"b", "A">>, <<"b", "b", "A">>, <<"A", "b", "b", "b">>}

\* A program that is not started is in one of its initial states.
NoEvent == variant = "event"
NoScript == script = "hello"
NoDatagram == kit = "hosts"

SmallInit ==
    /\ Init /\ Counter!Init /\ Event!Init /\ Scripts!Init /\ Udp!Init
    /\ \/ program \in {"semaphore", "counter"} /\ NoEvent /\ NoScript /\ NoDatagram
       \/ program = "event" /\ NoScript /\ NoDatagram
       \/ program = "script" /\ NoEvent /\ NoDatagram
       \/ program = "datagram" /\ NoEvent /\ NoScript

SmallNext ==
    \/ /\ program = "semaphore" /\ Next
       /\ UNCHANGED <<program, counting, signalling, streaming, conversing>>
    \/ /\ program = "counter" /\ Counter!Next
       /\ UNCHANGED <<program, vars, signalling, streaming, conversing>>
    \/ /\ program = "event" /\ Event!Next
       /\ UNCHANGED <<program, vars, counting, streaming, conversing>>
    \/ /\ program = "script" /\ Scripts!Next
       /\ UNCHANGED <<program, vars, counting, signalling, conversing>>
    \/ /\ program = "datagram" /\ Udp!Next
       /\ UNCHANGED <<program, vars, counting, signalling, streaming>>

SmallSpec == SmallInit /\ [][SmallNext]_all

\* Threads that can run do run, the programs of a pair run while they can, so
\* do those with datagrams, and the user answers every prompt.
SmallFairSpec ==
    /\ SmallSpec
    /\ WF_vars(program = "semaphore" /\ Read)
    /\ WF_vars(program = "semaphore" /\ Accu)
    /\ WF_streaming(program = "script" /\ Scripts!Next)
    /\ WF_exchange(program = "datagram" /\ Udp!Host(1))
    /\ WF_exchange(program = "datagram" /\ Udp!Host(2))
    /\ WF_exchange(program = "datagram" /\ Udp!Server)

-----------------------------------------------------------------------------
\* The variables of the other programs keep their types: a semaphore
\* never has more than its maximum of permits, no index leaves the string.
OthersTypeOK == Counter!TypeOK /\ Event!TypeOK /\ Scripts!TypeOK /\ Udp!TypeOK

\* Both semaphore threads end: neither waits for a permit that never comes.
HandoffTerminates == program = "semaphore" => Terminates

\* The counter is 0 when main prints it.
ResultZero == Counter!ResultZero

\* The counting programs count as if += and -= were atomic.
AtomicSpec == Counter!AtomicSpec

\* The two threads of the event programs count what fgets stored of the line;
\* the number of others is one too small when that has no newline.
CountsAgree == Event!CountsAgree

\* What the scripted programs wrote has been read when they have ended, and
\* what was sent to all has been received unless it was lost.
Delivered == Scripts!Delivered /\ Udp!AllSeen

\* The answers datagrams bring are to the client's own last message.
AnswersMatch == Udp!AnswersMatch

\* The scripted programs come to rest: none waits for what never comes.  Nor
\* do the programs with datagrams, while the network loses none.
ProgramsEnd ==
    /\ program = "script" => <>Scripts!AtRest
    /\ program = "datagram" => <>Udp!AtRest
=============================================================================
