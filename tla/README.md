# A TLA+ verification project for `capstone_design`

The repository holds a chat server and client on Windows I/O completion ports
(`src/src/cpp`, and the same program in C in `src/src/c`) and, one directory per
study day (`0702` … `0729`), the programs its author wrote on the way to it:
echo and chat servers with `fork`, threads, `select`, `epoll`, event
notification, completion routines and completion ports, and small programs on
processes, signals, pipes, semaphores and locks. There are no tests; what the
programs promise is in their comments and in the `summary.md` files.

This directory contains models of these programs, the TLC
configurations that check them and proofs checked by TLAPS. Paths below are
relative to the repository; in `PROJECT.json` they start with `src/`.

## Inventory

| Component | State | Operations and interaction | What is hard |
|---|---|---|---|
| IOCP chat server (`src/cpp/server/IOCP.cpp`) | `clntArr`, `numOfClnt` (global, no lock); one `CLNT_INFO` per connection on the heap; an `IO_INFO` per operation; `tempBuf` per worker | main thread accepts, registers, starts the first receive; `2 × cores` workers take completions from one port: message → copy, broadcast, receive again; end of stream → close, free, remove; send done → free | all threads share the registry; several operations per connection are outstanding; the result of every call is ignored |
| IOCP chat server in C, study servers (`src/c/chat_server.cpp`, `0726`, `0727`) | same | same, with small differences (blocking sends in `0726`) | same |
| Chat clients | name, one socket | one thread sends what is typed, one prints what arrives; `q` closes and exits | end of stream while the other thread blocks |
| Thread-per-client chat server (`0719/linux/chat_serv.c`, `0720/windows/chat_serv_win.c`) | `clnt_socks`, `clnt_cnt`, one mutex | main registers and starts a thread; a thread reads, broadcasts under the mutex, removes its client | the address of main's variable is passed to the thread; shift of the registry; `read` returning −1 |
| Semaphore and lock programs (`0719`, `0720`) | two semaphores and a variable; a counter and a lock | two threads in alternation; 50 or 100 threads counting up and down | lost updates, deadlock |
| epoll servers (`0709`) | interest list, `clnt_arr` | one thread waits, accepts, reads, echoes or broadcasts | level against edge triggering |
| select servers (`0707`) | `fd_set` | same | the Windows set is an array that moves under the loop |
| Event notification servers (`0721`) | two parallel arrays | same, with one event object per socket | keeping the arrays parallel while scanning them |
| Overlapped I/O, completion routines (`0722`, `0723`) | `PER_IO_DATA` per connection | routines run when the thread sleeps alertably | buffer lengths, order of routines and accept |
| Multi-process servers (`0706`) | descriptors shared by fork, a pipe, zombies | a child per client, `SIGCHLD` handler, a store process | signals do not queue, the reader of the pipe ends |
| Pipes, signals (`0706`) | pipes | two processes talk in turns | reading one's own message |
| Iterative echo servers (`0703`, `0705`, `0708`) | one descriptor | one client after the other | a client that stays, `read` returning −1 |
| Locked echo server (`0719/linux/echo_serv.c`) | a mutex, one shared buffer | a thread per client | main's variable handed over by address, the mutex held for a session |
| Web server (`0729`) | a socket per thread | one request per connection | the error path closes a socket and goes on with it |
| Echo, greeting, calculator, file, half-close, pipe programs and clients (`0702`–`0708`, `0722`, `0723`) | one connection or two pipes | two programs exchange messages | partial reads, half close, who closes what |
| UDP programs (`0705`, `0707`) | a socket | a message and its answer; news to a group | loss, duplication |
| One-call demos, copy programs, CPU sampling, batch file | – | – | nothing for a model checker |

`PROJECT.json` lists every component with its files and its status, and under
`hazards` the places where this code can go wrong in a way a test would hardly
reach.

What makes each of them correct: a connection is served by one thread at a
time and for as long as it lives; a registry lists the connected clients and
nobody else; messages reach everyone they are owed to, in an agreed order;
memory and buffers are not used after they are given up; what a client does,
leaving included, is noticed in the end; nobody waits for ever.

## Modules

| Module | Models |
|---|---|
| `IocpChatServer` | the C++ chat server: main thread, workers, registry, heap, and the kernel's side (completion queue, outstanding receives and sends, closing and breaking connections) |
| `ReceiveStrand` | what the server promises about receives: each connection is armed, fired and held in turn, one at a time |
| `MCIocpChatServer` | quotas and symmetry for TLC |
| `IocpChatServerProofs` | theorems about receives, types and the order of messages |
| `IocpRegistryProofs` | theorems about `clntArr` and `numOfClnt` |
| `ThreadChatServer`, `MCThreadChatServer` | the chat servers with a thread per client, Linux and Windows (`Platform`) |
| `ThreadChatServerProofs` | its theorems |
| `SemaphoreHandoff` | `semaphore.c`, `SyncSema_win.c` and, with `ScanOutside`, `SycnSemaRead_win.c` |
| `OneSlot` | what these promise: a one-place buffer |
| `SharedCounter` | `thread4.c`, `thread3_win.c` (no lock), `mutex.c` (`"whole"` and `"each"`), `SyncCS_win.c`, `SyncMutex_win.c` (`"whole"`) |
| `AtomicCounter` | what these promise: updates are atomic |
| `SharedCounterProofs` | its theorems |
| `EventSync` | `SyncEvent_win.c` and its version with a semaphore: a line typed by main is read by two threads |
| `StreamScripts` | 29 pairs of programs that run through one exchange over a connection or pipes, each a sequence of its calls |
| `Datagrams` | the UDP echo and chat programs, `bound_host1/2.c`, news senders and receivers, over a network that loses and duplicates |
| `MCSmallPrograms` | the programs above without a server loop in one instance: `program` says which was started |
| `SmallProgramsProofs` | theorems about `SemaphoreHandoff`, and about the counter, the event, the scripted and the UDP programs as they are started there |
| `Sockets` | TCP as a server with many clients sees it: connect, send, close, break; accept, read, write, close |
| `SocketsProofs` | lemmas about what these calls do to the network |
| `SelectServer`, `SelectServerWin` | `echo_selectserv.c` and `echo_selectserv_win.c`, whose `fd_set` is an array |
| `EpollServer` | the five programs of `0709` (level or edge triggered, one read or a drain, echo or broadcast) |
| `AsyncNotifyServer` | the two programs of `0721` |
| `IterativeServers` | `echo_server.c`, `echo_server_win.c`, `reuseaddr_eserver.c`, `echo_stdserver.c` |
| `ForkServers` | `echo_mpserv.c`, `echo_storeserv.c` |
| `CompletionRoutineServer` | `CmplRouEchoServ_win.c` |
| `LockedEchoServer` | `0719/linux/echo_serv.c` |
| `WebServer` | `webserv_win.c` |
| `MCSocketServers` | the servers on `Sockets`, one of them chosen at the start, with two clients; their common properties |
| `SocketServersProofs` | theorems about all these servers: types, registries, events, what closes a connection, what clients are sent |
| `IocpStudyServers`, `MCIocpStudy` | `src/c/chat_server.cpp`, `0726`, `0727`: the same server loop with the life of each `IO_INFO` block |
| `IocpStudyServersProofs` | its theorems |

### IocpChatServer

Every access to shared memory and every kernel call is a step; an iteration of
a loop over `clntArr` is one step; memory no other thread can reach is not
state. The program counter of main (`mpc`) names the next statement of
`AcceptRoutine`: `accept` (83), `load` and `store` (the two halves of
`clntArr[numOfClnt++] = hClntSock`, 88, whose two stores the compiler may order
either way), `arm` (91–108). That of a worker (`pc`) follows `EchoThreadMain`:
`get` (132), `deref` (135–166), `send` (170–177), `rearm` (180–185), and for an
ended stream `close` (144), `delete` (145), `find` (149), `shift` (151), `load`
and `store` (`numOfClnt--`, 158). A completion carries the connection
(`CLNT_INFO`), the operation (`rwMode`) and the number of the message, 0 for 0
bytes. `owner` says what connection a `SOCKET` value denotes; a closed handle is
reused by the next accept. `info` follows the `CLNT_INFO` on the heap.
Reading `clntArr` past its end returns any handle.

The kernel: a receive completes with the next message, or with 0 bytes when the
stream has ended or the connection broke (the `FALSE` of
`GetQueuedCompletionStatus` is ignored by the code). A send completes when it
was transmitted; it may stay outstanding for ever, since a client need not
read. Closing the socket, or the break of the connection, ends the
outstanding sends, each with a completion. `WSARecv` on a broken connection
fails at once and reports nothing.

Abstractions: a receive returns one whole message, and messages are
`[from, num]`; addresses, byte counts and the buffer of `strcpy` are left out;
the calls before `AcceptRoutine` have succeeded. The casts of pointers to
`DWORD` (96, 132) are taken for a 32-bit build, where they lose nothing.

Three history variables serve the properties: `overlap` (two updates of the
registry have overlapped), `due` (whom a broadcast still owes), `shaken`
(broadcasts during which a client was removed).

### ThreadChatServer

One process per connection plus main; `pc` names the statements of
`handle_clnt`/`HandleClnt`, `mpc` those of main. `Start` reads main's variable
`clnt_sock` through the pointer, so a thread may get the socket of a later
client (`Mixed`). The critical sections of `main` and of the removal contain
no system call; nobody else can see into them, and each is one step
(`Register`, `Remove`) taken when the mutex is free. The one of `send_msg` is
`SendLock`, a `SendOne` per registered client, and `SendDone`. `ShiftLinux` and
`ShiftWindows` are the two different removal loops.
Where a loop reads past the end of the array, any descriptor may be there (`Loaded`,
`Following`).
`ReadError` is `read` returning −1, which is not 0 and is therefore broadcast
(the `write` of length −1 fails): Linux reports a broken connection once and
the end of the stream after that, Windows reports it every time. On Linux a
write to a connection whose client has closed brings a reset back, and the next
write raises SIGPIPE, which no program of the repository handles: `SendPipe`
ends the server (`mpc = "dead"`). Left out: a client that does not read, for
which `write` under the mutex blocks everyone.

### SemaphoreHandoff and SharedCounter

`Fill`, `Add` and the semaphore operations are steps; `scanf` may leave its
variable unchanged. In `SharedCounter`, `num += 1` is a load and a store as an
unoptimised build has them; `IncLock` and `DecLock` say what the lock is held
for. An optimising build that adds the whole loop at once is the case
`Rounds = 1` with another step.

### Sockets and the servers on it

`Sockets` counts a client's input in units of what one `read` returns; `taken`
is how far the server has read, `got` what was written to a client, `since`
what had been read when the client was accepted. A client connects once, sends
one or more units at a time, closes (`shut`) or breaks off (`reset`, which may
lose unread input). Linux reports a broken connection once, after which it reads
as ended (`gone`); Windows reports it every time. A write to a client that has
closed may bring a reset back; on Linux the next write then raises SIGPIPE,
which ends the process that wrote. A descriptor is reused once it is closed:
the lowest on Linux, any `SOCKET` on Windows.

Each server module has one action per branch of its loop: waiting, looking at
one descriptor, accepting, reading with what follows (echo or broadcast),
closing with what follows (`FD_CLR`, `EPOLL_CTL_DEL`, compressing the arrays).

* `SelectServer(Win)`: `select` copies what is readable; the loop then looks at
  each descriptor or array entry. In the Windows program the index runs over
  `reads` while the socket closed is taken from `cpyReads`; closing a wrong
  socket leaves an invalid one in the set, `select` fails and the program ends.
* `EpollServer`: `edge` holds the descriptors with an event not yet reported;
  every arrival marks one. `batch` is what `epoll_wait` returned; entries are
  handled in any order. With `EPOLLET` and one read per event
  (`echo_EPET_problem.c`) input stays unread.
* `AsyncNotifyServer`: `record` and `signaled` are what Windows keeps per socket
  and event object; `recv` and `accept` record again what is left. The arrays
  are functions so that compressing them copies what the code copies.
* `ForkServers`: a connection is closed when parent and child have closed it;
  `chld` is the one pending SIGCHLD; the store process ends after `StoreReads`
  reads (10 in the code) and what is written then stays in the pipe.
* `CompletionRoutineServer`: a completed operation queues its routine, which
  runs when main sleeps.
* `LockedEchoServer`: threads read main's `clnt_sock` through a pointer and share
  `message`.
* `WebServer`: a handler that has sent an error has closed the socket; the next
  accept may get the same `SOCKET` value before the handler uses it again
  (`stray`).

### IocpStudyServers

`io` is the heap of `IO_INFO` blocks with their `rwMode`; a block is held by an
outstanding operation, a completion in the queue or a worker. A removal from
`clntArr` is one step here: its races are the subject of `IocpChatServer`.
`tempBuf`, which the two programs with overlapped broadcasts send from, is left
out for the same reason.

### StreamScripts, Datagrams and EventSync

In `StreamScripts` `todo` holds the calls each program has still to make and
`bytes` what is unread in each direction. A `read` on TCP returns any part of
what was sent; one that a program relies on to be whole and that is not sets
`garbled` and ends the run of that pair. `Fill` and `Drain` are the loops that
read a given number of bytes or to the end. Closing counts for a connection
when every process that has it has closed it. The echo and chat clients run
against `Answerer`, which stands for the servers the other modules model.

In `Datagrams` the network keeps a set of datagrams on their way; it may lose
any and deliver one twice. `EventSync` has the event object with a manual reset
or the semaphore with two permits. What the user types (`Inputs`) ends in a newline or
with the input, perhaps at once; `fgets` keeps the first `STR_LEN - 1` characters of it
(`Stored`), so `str` may have no newline and may be empty.

## Runs

| Run | Question | Bounds |
|---|---|---|
| `IocpSafety` | receives one at a time, memory of receives, order of messages, completeness of broadcasts, refinement of `ReceiveStrand` | 2 connections, 2 workers, one client speaks twice |
| `IocpRegistry` | registry exact while updates do not overlap | 3 connections, 2 workers, no messages |
| `IocpLive` | messages and ends are served, receives are posted again | 2 connections, 1 worker, one message |
| `ThreadChat` | agreed order, delivery to the sender, count and registry | 3 connections, 2 of them speak, Windows |
| `ThreadChatLive` | every end is served, the mutex is released | 2 connections, Linux |
| `SmallPrograms` | hand-over exact and ending; counting atomic, result 0; both threads count the whole of what `fgets` stored; scripts end with everything read; datagram answers match | N = 5 as in the code, 3 values; 4 threads of 2 rounds; an int of 2 bytes, a message of 3; 2 messages per client; one duplicate; `STR_LEN` 4, lines of 0 to 4 characters, so that one fits with its newline, one only without, one not at all |
| `SocketServers` | who is sent what, which connections are closed, exact registries, no lost event, input read and ends served | 2 clients, 2 descriptors; one sends 2 units, the other 1 |
| `IocpStudy` | blocks have one owner, reported `CLNT_INFO` live, order of sends | 2 clients, 2 workers, 10 blocks; one client sends 2 units (1 where broadcasts are overlapped) |
| `IocpBuffer`, `IocpKey`, `IocpLost`, `ThreadChatShift` | statements of comments and notes that the code does not keep | small |

Two connections and two workers are what every race of the IOCP server needs:
the client that leaves and the one that stays, the worker that removes and the
one that broadcasts or handles a late send. A third connection matters for
the registry, where a removal from the middle must shift more than one slot;
it gets a run without messages. A message number above 2 adds no order that two
do not have. `MaxClnt` equals the number of connections, so an index past the
array is reached by the shift (which reads slot `numOfClnt`).

`Quota` bounds how many messages a client may send and, in the threaded server,
`Breaks` which connections may break without a proper end: all in
`ThreadChatLive`, none in `ThreadChat`, where a connection still breaks when the
server writes to a client that has closed.
A connection is made once; a client that comes back is another connection.

In `SocketServers` two descriptors are enough for one to be reused while the
other is served, and a client with two units leaves one unread when a program
reads once per event, for a drain to go round twice, and for a second round of
the store process. With two clients an array has an entry behind the one that
is removed, and a batch of `epoll_wait` can hold the end of one client and the
input of another. `IocpStudy` has blocks to spare: TLC stops if `malloc` found
none.

Deadlock is checked for the programs that end (`SmallPrograms`); the servers may
stop when all clients have left, and their runs say `CHECK_DEADLOCK FALSE`. In
`SharedCounter`, whose loops are finite, absence of deadlock is termination.

### What the properties need

* `RegistryExact` of the IOCP server holds only while no two updates overlap
  (`overlap`); `IocpLost` shows what happens otherwise: the counter is written
  by main and workers without synchronisation.
* `BroadcastComplete` excepts broadcasts that met a removal. Such a broadcast
  can skip a connected client, because the entries shift under its index
  (IOCP.cpp:170, against the comment in line 168).
* `FinServed` and `MessageServed` except connections that break. When a
  connection breaks between a completed receive and the next `WSARecv`
  (line 185), the call fails unseen and the client is never removed.
* `ReadKeyLive` is about receives. `IocpKey` shows that the completion of a
  send can outlive the `CLNT_INFO` it points to.
* `Echoed`, `RegistryExact` and `EofServed` of the threaded server except runs
  where threads got each other's sockets (`Mixed`); `EofServed` and
  `MutexReleased` those in which SIGPIPE has ended the program.

* `ClosesEnded` excepts programs that close a connection for another reason:
  `FD_CLOSE` may come before all is read, `echo_selectserv_win.c` may take a
  wrong socket, two threads of `echo_serv.c` may close one, the web server
  closes when it has answered.
* `EndServed` and `InputRead` except `echo_EPET_problem.c`, `echo_serv.c` and the
  iterative servers while a client stays (`Waits`), and a server that has ended
  by SIGPIPE or an error. Broken connections on Windows are excepted from
  `EndServed`: these programs never finish with them.
* `ClientsInStep` of the web server is silent once a handler has gone on with a
  socket that belongs to another connection. Of `echo_serv.c` it allows one
  thing (`Barred`): two threads that got the same descriptor may close it
  under a third that has read from it and not yet written, and the answer goes
  to whoever got that descriptor next. That takes four connections; an attempt at
  the proof showed it, no run could.
* `BlocksOwned` says of the echo server alone that no block is forgotten; the
  others forget one whose `WSARecv` or `WSASend` fails at once, and
  `IOCPChatServ_win.c` each one it has sent from (line 147).
* `Delivered` excepts `sep_serv.c`, `pipe2.c`, the clients with one read per
  message and the chat clients, which end without waiting; each of the first
  three has a corrected successor in the repository, for which it holds.
* `AnswersMatch` is exact only while no datagram is delivered twice;
  `ProgramsEnd` excepts loss, for which the clients wait for ever.

### Fairness

`IocpLive`: each worker and the main thread after an accept are scheduled, and
a receive that can complete completes (weak fairness each). Nothing is assumed
of clients, and nothing of sends, since a client may never read.
`ThreadChatLive`: each thread that can step does (weak fairness per thread);
nothing is assumed about who gets the mutex next. `SmallPrograms`: both semaphore
threads are scheduled and the user answers every prompt; the programs of a pair
go on while one of them can; each host with datagrams goes on while it can.
`SocketServers`: the server goes on while any of its processes or threads can
(weak fairness of the server as a whole); nothing is assumed of clients.

## Findings

`BuffersStable` (tempBuf reused under outstanding sends), `KeyLive` (freed
`CLNT_INFO` read), `RegistryAlwaysExact` (unsynchronised registry) and
`DisconnectedRemoved` (shift loop of `chat_serv.c`). `PROJECT.json` quotes the lines.

`CountsAgree` states another as it is: the comment in SyncEvent_win.c:65 says that
`NumberOfOthers` takes one off for the newline that `fgets` took in. A line of 99
characters or more, or the end of the input, leaves none in `str`; the number printed
is then one too small, and -1 for an empty `str` (SyncEventToSemaVer_win.c:54
likewise). The property holds because it says just that.

## Proofs

TLAPS checks, for every number of clients, threads, descriptors, messages and
iterations:

| Property | Theorem | Hypothesis besides the modules' assumptions |
|---|---|---|
| `IocpChatServer`: `TypeOK`, `OneReceive`, `ReadKeyLive`, `SendsInOrder`, refinement of `ReceiveStrand` | `IocpChatServerProofs` | – |
| `IocpChatServer`: `RegistryExact`, `BroadcastComplete` | `IocpRegistryProofs` | `Room` |
| `ThreadChatServer`: `TypeOK`, `CountBalanced`, `AgreedOrder`, one sender at a time | `ThreadChatServerProofs` | – |
| `ThreadChatServer`: `RegistryExact`, `Echoed` | `ThreadChatServerProofs` | `Platform = "windows"`, `Room` |
| `SemaphoreHandoff`: `TypeOK`, `OnePermit`, `ResultExact`, refinement of `OneSlot` | `SmallProgramsProofs` | – |
| `SharedCounter`: `TypeOK`, `Exclusive`, `ResultZero`, refinement of `AtomicCounter` | `SharedCounterProofs`, the last two again in `SmallProgramsProofs` for the programs of `MCSmallPrograms` | `Parameters`; all but the types: both loops hold the lock |
| `EventSync`: `CountsAgree`; `Datagrams`: `AnswersMatch`, `AllSeen` | `SmallProgramsProofs` | – |
| `StreamScripts`: `Delivered` of all pairs; `MCSmallPrograms`: `OthersTypeOK`, `Delivered` | `SmallProgramsProofs` | – |
| `MCSocketServers`: `TypeOK`, `ClientsInStep`, `RegistryExact`, `NoLostEvent`, `ClosesEnded` | `SocketServersProofs` | – |
| `IocpStudyServers`: `TypeOK`, `BlocksOwned`, `KeyLive`, `SentInOrder` | `IocpStudyServersProofs` | – |

`Room` says that the array of clients has a slot for every socket the process
can have open. The code takes that for granted: neither IOCP.cpp:88 nor
chat_serv_win.c compares its count with `MAX_CLNT`, and with more clients they
write behind the array. The instances TLC checks satisfy `Room`. The registry of
`chat_serv.c` (Linux) is not exact even then: its shift loop is one of the
findings, hence `Platform = "windows"`. The named assumptions of the modules say that
the values standing for "none" are not members of the sets, that quotas are
natural numbers, and (`SocketsAssumption`) that a process has finitely many descriptors,
which are numbers. `RoundsAssumption` has the loop bounds of two servers in `Nat`,
`StreamParameters` the lengths of an int and a message positive, `LineParameters` that
a line is a sequence of characters without a newline and `STR_LEN` positive, and `StudyAssumption`
says that 0 is no block. What the models leave out,
the proofs leave out too: a `malloc` or an `accept` that fails, for one.

No property below is inductive as it stands. What each proof adds:

* **Receives of the IOCP server** (`ReceiveInv`). The argument follows the *right to
  receive* on a connection `c`. It is in exactly one of four places: main
  arming `c`, an outstanding receive, a READ completion in the queue, or a
  worker holding it. `OneReceive` says so, but nothing in it keeps main from
  accepting a connection that already has a receive; `Fresh` adds that one
  nobody has accepted has no part in anything. For the refinement each step moves at
  most one connection (`OneMove`) or none (`NoMove`).
* **Order of messages** (`OrderInv`). Whoever handles a message of `c` handles the
  last one taken from `c`, and nothing on its way to anybody is later
  (`Latest`): the right to receive comes back only when the broadcast has ended.
  This needs nothing of the registry.
* **Registry of the IOCP server** (`RegistryInv`). Until two updates have overlapped,
  `Exclusive` says at most one thread is in an update, and `Standing` and `Removing` say what
  the slots list in each of its stages: with one slot too many while
  main adds, with a gap at `idx` while a worker shifts, with the count still one
  too large after that. `Handled` is needed to see that a handle denotes one
  connection while somebody still has input of it, since a closed handle comes
  back with the next accept; by `Room` the array is not left. For
  `BroadcastComplete`, `Owed` says that what an undisturbed broadcast owes is in
  the slots it has not come to.
* **Threaded server.** `Typed` has the mutex held exactly by the thread in the loop
  of `send_msg`; `Balanced` relates `clnt_cnt` to the connections registered.
  `AgreedOrder` follows from `Serial`: nothing is written that was not read, no
  two threads carry one message, one waiting for the mutex was written to nobody, and the one being
  written is the last everywhere it has come. For the Windows registry `Owning` keeps
  descriptors with their connections until they are closed, and `Listed` makes slots
  and registered connections correspond, also during a broadcast. `Echoing` says that
  each message taken was written to its sender or is about to be.
* **Semaphores.** To `OnePermit` the invariant adds that `Read` is ahead of `Accu` by
  exactly the pending number (`Ahead`), that the sum lags by its value (`Sums`),
  and the loop bounds (`Heads`).
* **Counter.** What a thread loaded is still the value of `num` when it stores
  (`Fresh`). A sum over threads would be an induction over data; `ResultZero` counts
  the pairs of a thread and an iteration it has done instead: `num` is the
  number of those that add minus the number of those that subtract (`Ups`, `Downs`), and
  at the end both are half the threads times the rounds.
* **Events and datagrams.** `LineFirst` (nobody counts before the line is there),
  `Tallied` (the count so far is the cardinality of the positions seen) and `Permits`
  give `CountsAgree`, since a newline can only be the last character stored
  (`StoredLine`): it is what `NumberOfOthers` takes off, if it is there.
  `AnswersMatch` needs to know of each datagram on its way which
  message of which client it is or answers. For `AllSeen`, a message that was sent to
  all has come or is on its way (`NewsKept`), and `bound_host1.c` has not ended while one
  is (`HostsKept`).
* **Scripts** (`FlowInv`). What the calls a program has still to make will write or read
  is no sum, which would need an induction over the sequence, but a cardinality: `Awaited`
  is the set of those bytes, each paired with the position of its call, and `Size`
  counts it. With `Size` the argument is one of balance, `PairOn` for two programs that
  read call by call or to the end of the stream, `EchoOn` for the echo clients, `SplitOn`
  for the two processes of one client: what is unread and what will still be written
  is what will still be read; and who closes leaves nothing to write (`Tidy`). That
  a pair begins in balance is shown by matching each write with the read a fixed
  number of calls away (`Matches`), for loops of any number of lines too.
* **Servers on `Sockets`.** `Network` says that a connection is made once, waits in one
  place and is on one descriptor after that. To it `AsyncInv` adds that the two arrays
  are parallel and list each open socket (`Parallel`), that what Windows has recorded has
  happened (`Recorded`), and that what is left is signaled (`Signaling`); `EpollInv` adds that
  a descriptor with an event is open until it is dealt with (`Batched`) and `Listed`.
  `ClosesEnded` is an action property: a step closes only connections that have
  ended (`Orderly`), which for a forked child that has exited, or a routine told of 0 bytes,
  is something the step before saw (`ForksInv`, `RoutinesInv`). `TypeOK` and `ClientsInStep`
  are proved program by program; `Lives` has the invariant of each. Common to
  them is `Tuned`: a client got exactly the units it is owed, up to what has been
  read, and nothing before it was accepted. What a program adds (`SelInv`, `WinInv`, `IterInv`,
  `ForksOwn`, `RoutinesOwn`, `LockedOwn`, `WebOwn`) says that the descriptor it is about to
  read or write is open and whose it is, and, between read and write, which unit
  the buffer holds.
* **Study servers** (`IInv`). An `IO_INFO` block is in one place (`OneOwner`): an outstanding
  receive or send, a completion, a worker; and it is on the heap there with the
  mode of that place (`OnHeap`). The right to receive is in one place again
  (`OneBearer`), and so the `CLNT_INFO` is on the heap: only its bearer frees it. `Contents` says that
  a buffer that will be sent from holds a unit, without which the types do not hold, and that the
  echo server forgets no block. `SentInOrder` (`News`) adds that whoever has a message holds
  the last one read from that client (`Latest`), and that the answers a client got, the ones under
  way and the one in the buffer number what was read from it (`Answering`).

TLC has checked each of these invariants on the instances of the runs.

Every invariant and every action property of the runs is a theorem. Only
model-checked are

* all liveness (`MessageServed`, `FinServed`, `EofServed`, `EndServed`, `InputRead`,
  `ProgramsEnd` and the others of that kind), which is beyond the prover;
* the four findings, which are counterexamples.

Where a statement about a sequence would need an induction over it (a sum, a
filter, a fold), the models and proofs name its elements by their positions
instead: `Carries` for what a client got, `Awaited` for bytes to come.

## Plan

1. (done) IOCP server, threaded chat server, semaphores and counters; first
   proofs.
2. (done) The servers on `Sockets`; the study servers; scripts, datagrams and
   events.
3. (done) The invariants of the servers and of the small programs as theorems.
4. (done) `TypeOK` and `ClientsInStep` of the servers on `Sockets`, `SentInOrder`,
   `Delivered` of the scripts and datagrams.

## Not modelled

* What the bytes of a message, file or request mean, and byte counts: the
  calculation of `op_server.c`, the shrinking receive of `CmplRouEchoServ_win.c`,
  `strcpy` without a terminator, indices that are not checked (`MAX_CLNT`,
  `WSA_MAXIMUM_WAIT_EVENTS`, `operand_arr`), `message[-1]` after a failing
  `recv`.
* Lines too long for the buffer of the chat, echo and datagram programs, which they
  would take for several messages. (`EventSync` has them: there the count depends on it.)
* Zero bytes in what a user types.
* A client that does not read, for which a blocking send waits.
* Socket set-up and its error exits: a program whose set-up fails just ends.
* Out-of-band data (`oob_*`): what becomes of the urgent byte is decided in the
  kernel, not in these programs.
* `select.c`, `thread1`–`thread3`, `fork.c`, `wait*.c`, `zombie.c`, `signal.c`,
  `sig*.c`, `remove_zombie.c`, copy, address and option programs, CPU sampling and
  the batch file: straight-line code around one call each, or pure I/O.
