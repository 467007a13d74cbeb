# Network-programming-exercises: specifications and proofs

The repository is a collection of network programs in C++: an HTTP/CGI server on
a process pool, two chat room servers and a client, timer containers, and small
servers about epoll, signals and parsing. This directory holds TLA+ models of
them, TLC runs that check the models on small instances, and TLAPS proofs for
every value of the constants. The comments of the source are its only
documentation; there are no tests. Line numbers are those of the source files.

## 1. Inventory

| component | source | state | operations | what is hard | what makes it correct |
|---|---|---|---|---|---|
| process pool | `proccesspool.h` | pids and pipes of the children, `child_counter`, `m_stop`, two epoll instances and signal pipes per process | dispatch, join (SIGCHLD), kill (SIGTERM), accept, process | edge-triggered events, signals that do not queue, crashes, a shared listening socket | a child serves only when those before it are gone, a child told to accept finds a connection, every death is joined, SIGTERM ends everything |
| CGI connection | `cgi_server.cpp` | receive buffer and index, the connections of a child, the programs it started | `init`, `process` with its receive loop, `fork`, `exec` | requests in pieces, the place of a line's end, programs that inherit descriptors, events of a batch | what becomes of a request is what its first line asks for; a client that is owed an end sees one |
| time wheel | `TimeWheel.h` | hand, slot lists, turns | `add_timer`, `del_timer`, `tick` | callbacks that change the list being walked | each timer fires in its tick |
| poll chat room | `Chatroom_server.cpp` | `fds[]`, `user_count`, `user[]` | the branches of one poll() loop | events handled after the slots have moved, shared buffers | the tables match the open sockets, messages reach the others |
| shared memory chat room | `server_shm.cpp` | `user[]`, `sub_process[]`, shared memory, one child per user | accept and fork, join, forward, relay | processes, signals, shared memory without locks | as above, and children are reached by the right index |
| chat client | `Chatroom_client.cpp` | two descriptors and a pipe | poll, splice | which events are tested | it runs until the server leaves |
| sorted timer list | `lst_timer.h` | doubly linked list of timers | `add_timer`, `adjust`, `del_timer`, `tick` | a walk that ends at null, pointers at both ends, a prev that is set wrong | the walk from the head meets every timer in order, nothing deleted is followed |
| idle-connection server | `ServerTest8.cpp` | users and their timers, the array of events and its bound | accept, receive, close, signals | one variable for the bound of the round and for the result of `recv`, timers of one second | the list is that of the open connections, also when an event is left over for a closed one |
| timer heap | `TimeHeap.h` | array, size, capacity | add, delete, pop, tick, resize | growth, sifting, callbacks that add timers | no timer is lost, the one fired is the one popped unless its callback added a sooner one, heap order |
| HTTP parser | `Http_prase_server.cpp` | buffer, three indices, state | parse line, request line, header, content | input in pieces | the same verdict for every split, nothing unparsed is overwritten |
| signal event server | `ServerTest7.cpp` | signal pipe, `stop_server`, array of events | accept, handle signals | EINTR, the bound of the round that `recv` overwrites, several signals in one receive | `accept` gets its connection, SIGTERM ends the server |
| TCP and UDP echo server | `ServerTest5.cpp` | one epoll instance | accept, echo TCP, echo UDP | edges that must not be lost, SIGPIPE | everything is read, every connection that ends is closed |
| out-of-band data | `ServerTest6.cpp`, `ClientTest2.cpp` | one connection | SIGURG handler | signal against recv | |
| non-blocking connect | `ClientTest1.cpp` | one socket | connect, select, SO_ERROR | the handshake against the timeout | what is returned was connected |
| stress tester | `stress_test.cpp` | one epoll instance | connect, write, read, remove | re-armed edges, sockets that block after all | no call waits, every answer is read |

`ServerTest1` to `ServerTest4` are commented out. Each program is a process (or
a family of them) on its own; they share no code besides copies of `addfd`,
`addsig` and the "unified event source": a signal handler that writes the number
of the signal to a socketpair that the event loop watches. The containers
(`TimeWheel.h`, `TimeHeap.h`, `lst_timer.h`) are used by callbacks: the list by
`ServerTest8.cpp`, the others by nobody in the repository.

The hazards, each at its line and with the properties aimed at it, are in
`PROJECT.json`.

## 2. Modules

| module | what it is |
|---|---|
| `ProcessPool` | the pool: parent, children, signals, kernel |
| `ProcessPoolProofs` | theorems about `ProcessPool` |
| `CgiConn` | one connection of a child: what a receive of `process()` makes of it |
| `CgiServer`, `MCCgiServer` | `ProcessPool` with `CgiConn` as its T, clients and programs |
| `CgiServerProofs` | theorems about `CgiServer`, among them that it implements the pool |
| `TimerQueue` | what a timer container promises, in ticks |
| `TimeWheel` | the wheel; implements `TimerQueue` |
| `TimeWheelProofs` | theorems about `TimeWheel`, among them the refinement |
| `ChatRoomPoll` | the poll() chat room server, its clients and their sockets |
| `ChatRoomPollProofs` | theorems about `ChatRoomPoll` |
| `ShmChatServer` | the shared memory chat room: parent, children, signals, clients |
| `ShmChatServerProofs` | theorems about `ShmChatServer` |
| `MCShmChatServer` | symmetry, and what a comment says, where the code does otherwise |
| `TimeHeap` | the timer heap in its array |
| `MCTimeHeap` | the heap order that its comment asks for, and that the code does not keep |
| `TimeHeapProofs` | theorems about `TimeHeap` |
| `HttpParser` | the request parser with its receive loop, and a request parsed as a whole |
| `MCHttpParser` | requests, and what a comment says, where the code does otherwise |
| `HttpParserProofs` | theorems about `HttpParser` |
| `TimerListOps` | the operations of the sorted timer list on its pointers |
| `SortedTimerList` | the list under a program that keeps to its comments |
| `IdleServer` | the server that uses the list |
| `SignalServer`, `EchoServer`, `StressTest`, `NonblockConnect` | one event program each |
| `MCPrograms` | these six programs, each by itself; a run chooses among them (`Programs`) |
| `ProgramProofs` | theorems about `MCPrograms` |

Each component module is a system by itself: VARIABLES, `Init`, an action per
branch of the code, `Next`, `Spec`, and fairness where liveness is checked.
Operators marked as *faulty variants* are forms that a plausible bug would give
to the definition after them; no action uses them, they show that the properties
notice. The `MC` modules give constants their values, hold the statements that
the code does not live up to, and put programs that are independent of each other
into one run: `program` is chosen in the initial state and each program changes
its own variables only, so that the states of the run are those of the programs
side by side.

### ProcessPool

*State.* The parent's locals and members keep their names (`m_pid`,
`child_counter`, `m_stop`, `ev`, `i`, `signal`). A process id is the slot of its
child. An epoll instance is its ready list: the set of armed edges (`pready`,
`child[j].ready`). An arrival arms the edge, the `epoll_wait` that reports it
disarms it, however much is read afterwards: this is what EPOLLET means here.
A signal is pending at most once (`pend`); its handler appends it to `sigpipe`
and arms the edge of the pipe. A child is a record: its place in `run_child`,
the ints unread in its pipe, its edges, the rest of its batch, its SIGTERM, its
`m_stop`, and the number of clients it serves.

*Actions.* One per branch of the two loops: `ParentSetup`, `EpollWait`,
`Dispatch(j)`, `DispatchNone`, `RecvSignals`, `HandleChld`,
`HandleTerm`, `ParentEndBatch`; `ChildSetup`, `ChildEpollWait`, `ChildRecvNote`,
`ChildAccept`, `ChildSignal`, `ChildProcess`, `ChildEndBatch`; the signal handler
`DeliverSignal`; and the environment `Arrive`, `Crash`, `Terminate`. The events
of a batch are handled in any order, since epoll promises none.
In a pool of one `child_counter` may be 1: what is read at `m_sub_process[1]` is
undefined, so the search may end there (`Found`), go on at slot 0, or never end. Between `fork` and `setup_sig_pipe` signals have
their default action: a child's death is not announced, SIGTERM is fatal.

*Abstracted.* `recv` on a pipe with data does not fail, the ints of a pipe are
counted, a signal byte that is no signal (the handler sends four bytes, three of
them 0) is dropped, SIGINT is SIGTERM. What `T::process` does is the choice of
how many of the reported connections it closes; `CgiServer` has what decides it.

### CgiConn and CgiServer

*State.* A connection is a record: the text that its client means to send, how
much of it has come, how the client ended, `m_read_idex`, and why the child
closed it. The first `m_read_idex` bytes of the text are `m_buf`. To the pool's
variables `CgiServer` adds the connections in the order of their arrival, their
`owner`, the `armed` edges, each child's `batch` and the connection whose
`process()` it is in (`current`), and the programs that `held` a connection when
they were started. `fork` copies all descriptors of the child, and the code closes
none: a program holds the connections of the child's other clients too.

*Actions.* The pool's, conjoined with what they do to connections: `Accept`
(with what `addfd` reports at once), `EpollWait`, `ProcessBegin`, `Process` (one
iteration of the loop of `process()`: a receive, the search for the end of the
line, the file, `fork`), `ProcessEnd`, `EndBatch` and `Crash`, with which the
child's descriptors go. Around them `Send`, `Leave` (the client closes the
connection or it is reset; what came before is received first) and `ProgramEnds`. A receive
into a full buffer asks for 0 bytes and gets them: that is read as the client's
departure (`"full"`).

*Abstracted.* A text is a sequence of bytes of which only \r, \n and the rest are
told apart; a path exists or not (`Files`). The search of a receive looks at the
byte before the new ones too (line 69). `fork` may fail; `exec` does not.


### TimerQueue and TimeWheel

`TimerQueue` is the promise: timers count ticks down, a timer at 0 is due in the
tick that begins, all due timers fire in that tick. `TimeWheel` is the code:
`rotation`, `time_slot`, the lists and `cur_slot`, with `tick()` cut into the
steps between which a callback runs: `TickBegin`, `Turn` and `Expire` of a timer
of the walk, `CallbackReturn`, `TickEnd`. While a callback runs, `add_timer` and
`del_timer` are enabled as between ticks. The refinement mapping (`Left`, `Due`,
`Pending`) computes the ticks left from the turns and from the distance of the
slot from the hand, less one while a tick is under way, and plus a full turn for
a timer of the current slot that the walk has passed.

A callback that deletes the timer tick() holds in `next`, or its own, is outside
the model (guard of `del_timer`): the code then uses freed memory. The guard is
the wheel's implicit contract with its callbacks. The list of a slot is a set: its
pointers are not modelled.

### ChatRoomPoll

*State.* `fds` with `fd`, `events` and `revents`; `user_count`; of `user[]` the
pointer `client_write` (as the descriptor whose `read_buf` it points to) and the
buffer `read_buf` (as the client its content came from). `told` is history: of
whose message a client was last told that it is to be written. Around it the sockets:
`owner` of each descriptor, `backlog`, and of each client what it did (`peer`),
the pending error of the server's socket (`err`) and the chunks `unread`.

*Actions.* `Poll` fixes the `revents` of all slots, those behind `user_count`
included; then one action per branch for slot `j`, in the loop's order, with
`continue`, falling through to line 188, and `--j` as the code has them. A
branch and the write after it are two steps, and clients act between any two.
Descriptors are given out lowest first, so a departed client's number is soon
another's. The kernel is modelled where the code depends on it: RST leaves
ECONNRESET (or EPIPE, after FIN), an error is reported once, then `send` raises
SIGPIPE, for which the server has no handler; data already received can be read
after a reset. A client that does not read is not writable.

*Abstracted.* A message is one chunk as one `recv` returns it, told apart by its
sender. Clients are numbered in the order in which they connect, since nothing else
tells them apart; `MaxMoves` bounds the chunks, FINs and RSTs of all of them
together. The result of
`poll` is never an error (no signal handler is installed). The buffers of
`new client_data[]` are empty, as fresh heap memory is.

### ShmChatServer

*State.* The parent keeps its names (`user`, `user_count`, `sub_process`,
`stop_server`, `terminate`, `signals`); a child's pid is its client. `armed` and
`reported` are the ready list of the parent's epoll instance and what is left of
its batch, `carmed` and `creported` the same of each child. `shm` is the memory,
one message for each index, or nothing after the `memset`. A notification is the
index that goes through the pipes, with the message it was sent for as history.

*Actions.* The parent: `EpollWait`, `AcceptFails`, `TurnAway`, `Fork`,
`TakeSignals` and then, for each byte, `Join` of one child after the other and
`Joined`, or `HandleTerm`; `TakeNote`, `Relay` once for each send, `RelayEnd`;
`Stop`. A child: `Start`, `CheckStop`, `ChildWait`, `Clear` (the `memset`),
`Recv`, `Notify`, `Forward`, `Orphaned`. SIGTERM meets a child in its first steps
(`TermBorn`: the inherited handler writes to the parent's pipe, or to a closed
one), between check and wait (`TermMissed`), or elsewhere (`TermChild`).

*What the code does and its names do not say.* `set_fd_nonblock` calls `fcntl`
without a command: all descriptors block, so `Notify` and `Relay` wait for room
in the pipe. `sub_process` holds the descriptor of the connection, the lowest free
one, which is the same for all and above `USER_LIMIT` (`FirstFreeAssumption`), so
the removal in `Join` is never reached. It is modelled all the same: with the
index in the table, as the comment wants it, `IndexesAgree` fails, since a child
is not told that its entry has moved.

*Abstracted.* As in `ChatRoomPoll`, a message is one chunk. Clients read what
they are sent. `Recv` fills a part of the memory in one step and `Forward` reads
it in one, after the notification; in the code (lines 131 and 169) another child
may be in its `send` meanwhile. Each byte goes through the steps of the model, so
that no byte of another client or of an earlier message is sent, which is what
`NeverOlder` says of the whole; but the bytes of one `send` may be partly of one
message and partly of the next, or cleared. Such torn messages are not told apart
from whole ones. Line 345 writes the entry of a pid that is the number of a user,
which is not a child's. The 100 bytes of `signal` are enough for all signals.

### TimeHeap

*State.* The members keep their names; `array` is a function on `0 .. capacity -
1`. A sift is a loop, and each of its iterations is a step (`SiftUp`, `SiftDown`,
and `SiftUpEnds`, `SiftDownEnds`, which place the timer): in between, `array[pos]`
is a hole and `held` is the timer that is to go into it. `cancelled` are the
timers whose `cb_func` is null, `heapify` is the constructor's index, `made` are the
timers constructed and not yet added. `set` is history: the timers added and not
popped; so is `added`: what the callback that is running has added.

*Actions.* `heap_timer` is the constructor of a timer, which fixes the second in
which it expires (line 30; the timeout is an `int`, and may be negative);
`add_timer` (up to its loop, with the growth) may come any time later, so that a
timer may have expired when it is added. Then `del_timer`, `pop`;
`TickBegin`, `Fire`, `CallbackReturns`, `DropCancelled`, `TickEnd`; `Heapify`
starts the sifts of the second constructor, and `Clock` is the second hand.
While a callback runs (`cb`), `heap_timer`, `add_timer` and `del_timer` are enabled
as between ticks. `resize` copies one element more than the old array has, since `cur_size`
counts the new timer already: what is read there is undefined, and the model takes
any value. It goes into the hole and is overwritten.

*Abstracted.* The constructors' contracts are assumed: a capacity of at least 1
(with 0, doubling gives 0) and `size <= cap` (the growth of line 61 reads the
array before there is one). A deleted timer is not used any more, except where the
code itself keeps a pointer. The clock does not move during a sift, which does
not read it. A callback does not call `pop` or `tick`.

### HttpParser

*State.* `recv_buf` and the three indices, `check_state`, the last result. The
text is a sequence of tokens: blank, \r, \n, \0, and whole words, of which only
those that a comparison tells apart have names. `stream` is what the client
sends, `peer` whether it is still there.

*Actions.* `Recv(n)`: the next piece, of any length; `RecvEnds`; and, for each
line that `prase_line` returns, `LineOpen`, `LineBad`, `RequestLine`, `Header`.
The scan itself is an operator (`Stop`): it reads nothing that changes while it
runs. Line 144 is an assignment where a comparison is meant: it writes \0 to
`start_line`, and its condition is never true, so `GET_REQUEST` is not a result
of the model, and neither is `INTERNAL_ERROR`, as both states of the machine are
handled.

*Abstracted.* A piece that ends inside a word is as one that ends before it. What
line 144 writes when `start_line` is behind a full buffer is not modelled: the
byte is outside the object. The server accepts one connection and then ends; its
socket calls before that are left out.

### TimerListOps, SortedTimerList and IdleServer

*State.* The memory of the list is a record (`Memory`): `head`, `tail`, and
`next`, `prev`, `erpire` of every address, the addresses that are `live`, and a
`fault`. An operation of the class is an operator from memory to memory that
follows the pointers the code follows: a null pointer ends the program, a pointer
to a deleted timer or a circle leaves nothing to be said. Line 207 sets `t->prev`
to `t` itself where the comment of line 41 speaks of a doubly linked list, and
`tick()` leaves `tail` at the timer it has deleted when it empties the list.

*SortedTimerList* is a caller that keeps to the comments: times are only put off
before `adjust`, no timer is deleted twice. `tick()` is `TickBegin`, `TickFire`
for each timer, `TickEnd`. `spoiled` is history: a timer whose prev is itself was
moved or deleted. From then on nothing is promised; up to then everything is.

*IdleServer* is ServerTest8. `epet` is the array of events as far as it was ever
written, since `recv` stores its result in the bound `ret` of the round: the round
may run on into entries of earlier batches (`ReceiveStray` when their connection
was closed) or into memory that was never written (`Unwritten`). Line 163 looks
for the wrong end of the signal pipe, so a signal is received as a connection's
data (`PipeAsConnection`) and the null timer of its user is followed. `tick()` is
therefore never called. `deprived` is history: the open connections whose timer was
deleted by an entry for a closed connection that had the same address before, or by
the end of a connection so deprived. Where two timers have one second, or a timer is put off
past another one, the search runs off the end of the list: the server survives
data only from the connection whose timer is the last one. What a client sent
before it reset the connection can still be received, and the edge that brought
both is then spent (`Receive` takes one of them).

*Abstracted.* A message is its length. Ports and texts are left out.

### SignalServer, EchoServer, StressTest, NonblockConnect

Each has `pc` for its place, `ready` for the armed edges of its epoll instance,
and one action per branch of its loop.

*SignalServer* (ServerTest7): the batch, the bound `ret` that `recv` overwrites
with the number of signals, the blank entries behind the batch (`bzero`, line
107), and SIGHUP or SIGTERM at any time, of which one that finds the server
asleep interrupts `epoll_wait` (SA_RESTART does not apply): EINTR ends the loop.
Connections are never read or closed; a process out of descriptors is beyond the
bounds.

*EchoServer* (ServerTest5): a connection is read until nothing is left, the
listening and the UDP socket once for each event, so that of what came together
some waits for the next edge. The result of `send` is not looked at and SIGPIPE
has its default action: an echo to a connection that was reset ends the server.

*StressTest*: connections that are written to and read in turn, each step asking
for the other event anew. The arguments of `fcntl` are exchanged (line 22), so
that the sockets block, all but the one with descriptor 4; the model has no
call that waits unless `CallsMeetTheirState` fails. A failed connect leaves its
descriptor open. A request sent to a server that has closed resets the
connection, and the next one raises SIGPIPE.

*NonblockConnect*: the function with all its returns, against a handshake that
ends, fails or does neither, before, at and after the timeout, and a reset
between `select` and `SO_ERROR`.

## 3. Runs

Passing runs:

| run | instance | what it shows |
|---|---|---|
| `pool_lifecycle` | 3 children, 2 connections, 3 crashes, 1 SIGTERM | `TypeOK`; `FirstServes`: a child is told of connections only when every child before it has been joined; `NotificationsBacked`: every notification under way has a waiting connection of its own; `NoOrphans`; `SigchldNotLost`; `TermCompletes`, `DeadPoolExits`: SIGTERM, or the death of all children, ends the pool |
| `wheel` | 3 slots, 3 timers, timeouts of 1, 2, 3 and 6 ticks | `TypeOK`, `NeverEarly`, `AtMostOneTurnLate`, `EveryTimerFires`, `ImplementsQueue` |
| `chat_room` | 4 clients, 3 places, and 3 chunks, FINs and RSTs in all | `TypeOK`, `SlotsAreOpenUsers`; `WaitingHasMessage`: the message that a client was told of is still where its pointer leads, unless the sender has left or the client was reset; `RecvGetsData`, `RoundVisitsAll`; `DepartedIsClosed`: the connection of every client that goes is closed |
| `shm_chat` | 3 clients, 2 places, 2 messages, 1 failure, departure or SIGTERM, pipes for 1 notification | `TypeOK`; `IndexesAgree`: an index means the same child to itself and to the parent; `NotToldOwn`; `NeverOlder`: what is read is the message announced, or cleared, or a later one of the same client; `ZombieNoticed`; `LeavesAtMostOne` |
| `heap` | 4 timers, timeouts of -1 and 1, 1 timer at a time between its construction and its addition, capacities of 1 and 4 with any timers from the start | `TypeOK`; `NoTimerLost`: each slot in use has a timer of its own, and every timer a slot; `FiredUnlessSooner`: what is popped is what has fired, or what its callback has added and expires sooner; `EveryTimerFires` |
| `http` | two requests with one token replaced, removed or added, buffer of 10 | `TypeOK`; `UnparsedIntact`; `SplitIndependent`: the verdict is the one on the text as a whole; `EndsWhenOver` |
| `timer_list` | 4 addresses, seconds 0 to 2 under the caller; 3 clients, 2 messages of 2 bytes, a buffer of 3 under the server | `ListSound`: until a timer put in by a search is touched, the chain has every timer in order, only the prev of such timers is wrong, and no deleted timer is followed; `TicksInOrder`: until then a tick fires in order and leaves nothing due; `ListMatchesConnections`: a server that runs has a list linked both ways, in order, of the timers of its open connections but for those that were deprived of theirs |
| `cgi_server` | a pool of one, 2 connections with texts of 2 to 5 bytes in pieces, a buffer of 4, 1 crash | `RequestsAnswered`: types; a child told to accept has a connection, though the pool's index leaves the array; `process()` is called for open connections only; what becomes of a request is what its first line asks for, wherever it is cut; `Served`: a connection with a whole line, an overlong text or an end is closed, and no program holds it for ever |
| `small_programs` | 2 connections each; 3 signals; 2 bytes or datagrams in receives of 1; 2 answers; 2 seconds | `CallsMeetTheirState`: the assertions on `accept` hold, the stress tester never waits, a descriptor returned was connected; `EdgesSuffice`: the echo server and the stress tester read all and close all; `ComesToAnEnd`: SIGTERM ends the signal server, `nonblock_connect` returns |

Several properties of the last three rows are conjunctions of properties that the
modules name one by one (`TypeOK`, `ChainIsSorted`, `BackLinks`, ...); the
conjuncts have faulty variants of their own that the runs refuse.

Runs that refute what a comment says (`findings` has the texts):

| run | property | what happens |
|---|---|---|
| `shm_user_leaves` | `JoinedIsNoUser` | users are never removed: the room is full for good |
| `heap_order` | `HeapOrder` | line 220 compares the element in the hole, which after the first iteration is the child just moved up: the sift stops a level early |
| `http_complete` | `WaitsOnlyIfIncomplete` | the empty line is not seen (line 144): the server waits for more of a complete request |

Seen in the models, without a run of their own:

* Pool: `child_counter` is a quotient, not a remainder (line 231), so in a
  pool of three or more the first child that lives gets everything (`FirstServes`),
  though line 216 speaks of round robin; a pool of one, which the assertion of line 137
  admits, reads `m_sub_process[1]`; children that all die before `run()` leave the parent waiting (`DeadPoolExits` has the
  proviso); two connections that arrive between two `epoll_wait`s are one edge, and
  one of them is accepted.
* Wheel: a timer that a callback sets for a multiple of N ticks fires a turn late
  (`AtMostOneTurnLate`).
* Poll chat room: when a sender leaves, the last user is copied over his entry
  (line 143). Who waits for the sender's message gets the last user's in its place,
  or an empty one, so that the message is lost; a pointer to that entry may be the
  last user's own, who is sent his own old message although line 175 means to leave
  out the sender. This is the exception in `WaitingHasMessage`. The step back
  after a removal can write from a null pointer to a client without a message.
* Shared memory chat room: a child that gets SIGTERM between its check and its
  wait goes on; a message may be gone before the others have read it; one
  notification per edge leaves others in the pipe.
* Timer heap: a callback that adds a timer which expires sooner than its own (one
  constructed before, or with a negative timeout) puts it above the root, and line
  197 pops that one instead of `temp`: it is deleted without its callback, and the
  timer that was fired is fired again. This is the exception in `FiredUnlessSooner`.
* Timer list: what follows when a timer put in by a search is moved or deleted; a
  tick that empties the list leaves `tail` dangling, and the next `add_timer`
  follows the null head.
* ServerTest8: the first signal ends it (lines 163, 218); so do two connections in
  one second and data from a client whose timer is not the last; a left-over event
  deletes a timer twice, or, when the address is in use again, the timer of another
  connection while the server goes on (`deprived`).
* ServerTest5 and the stress tester are ended by SIGPIPE; two connections or
  datagrams of one edge are taken with one more edge. SIGHUP ends ServerTest7 when
  it is asleep.

*Bounds.* Every bound is a constant of its module. Three children are the least
for which a search passes a hole and one child is between two others; two
connections make an edge coalesce; with three crashes and a SIGTERM all children
may die, SIGCHLD coalesces, and a SIGTERM comes between. Timeouts of 1, 2, N and 2N ticks,
with N = 3, cover the next slot, the last one before the hand, a full turn and
several; three timers let a walk have one before, one at and one after the hand.
Three places and four clients make the room full, move the last user to another's
slot and reuse descriptors; three moves in all are two messages that overlap in the
buffers and a departure, or a message and a departure with one beside it. Four
timers are the least for a sift of two levels: added one by one they let the heap
grow from 1 to 2 and 4, from the start they may be in any order. Two seconds and
timeouts of -1 and 1 let a timer expire before, at and after a tick, and before it
is added. In the last
second no timer is made, since a callback that adds one that has expired again
and again keeps tick() from ending. The requests of the parser have a request
line, a header and the empty line, with both forms of URL; the buffer is a little
smaller than they are, so that some verdicts come before it is full, and some
texts do not fit. In the shared
memory room two messages of one client overwrite each other, a SIGTERM makes two
children exit at once, and pipes for one notification make every send block at
some time. The run uses that nothing tells clients apart (`Symmetry`; it checks
no liveness), and so does that of the timer list with its addresses. Four timers
are a head, a tail, one put in between them by a search and one more beside it;
two seconds give equal times, put off or not, and a tick between them. Three
clients are the least for a batch in which the bound of the round is overwritten
before two others; messages of 2 bytes and receives of 3 make results of 1, 2 and 3,
which cut the batch or run past it. States in which a connection of a server that
runs on is `deprived` of its timer are among those of the run.
With two connections a program of the CGI server holds another client's; the
texts end before, at and after the end of the buffer of 4, in one piece or with a
cut between \r and \n or behind them; an index outside the pool's array needs one
child. SIGTERM is not among what happens there: `pool_lifecycle` has it. Two
connections in each small program make a batch in which one event is before
another; three signals are two for one receive and one beside it; two bytes and
receives of one make the loop of a connection go round. The theorems below do not
depend on the bounds.

*Deadlock* is not checked: all these programs wait for clients and, in the
models, for a bounded number of them.

*Fairness.* The pool: every process that can run is scheduled in the end (weak
fairness of its steps), and a pending signal is delivered in the end; nothing is
assumed of clients, crashes or the user. The wheel: tick() is called in the end
and goes on (line 138 says that it is called every SI seconds, and callbacks
return). The chat room: the server's process is scheduled; it may block in
poll(), where no step is enabled. The heap: as for the wheel (the comment of line
171), sifts end, and the clock goes on: it is enabled again and again, between
sifts, hence strong fairness. The parser: what was sent arrives, and the server
runs; clients may stop at any point and stay. The CGI server: each child that can
run is scheduled, and programs end (without that a client may wait for ever for
the end of its connection); nothing is assumed of the parent or of clients. The
signal and the echo server: the process is scheduled. The stress tester: the
process is scheduled, the server that it talks to takes the requests, and a reset
arrives; without that reading and writing cannot take turns. The non-blocking
connect: its caller is scheduled and time goes on; nothing is assumed of the
handshake. The shared memory room, the timer list and its server are checked for
safety only: the latter has no progress to promise, since its timers never fire.

## 4. Proofs

All are proved by `tlapm` for every value of the constants that the `ASSUME`s
allow: 1 to 16 children (the constructor's assertion), any number of slots or
places, any tick length, any set of clients, of timers and timeouts, all texts, any
size of a buffer or pipe, any bounds. The sets of timers are finite, as the memory
is. Every safety property of the passing runs is proved, their action properties and
the refinements with them (what is only model-checked is at the end of this section).

`ProcessPoolProofs`
* `TypeCorrect`. `TypeOK` is not inductive: `child_counter` is bounded because
  the index `i` is less than the number of events of a batch, and a child's
  record stays typed only if a reported event has its datum. `TypeInv` adds
  these (`BatchIndex`, `ReportsHold`).
* `InOrder` (`FirstServes`): with three or more children the quotient of line 231 is 0
  for every index of a batch (`BatchIndex`), so that each search begins at the first
  slot and stops at the first child that has not been joined; a slot stays without a
  child once it is.
* `NoOrphansLeft`: `JoinInv` says that a slot without pid has a joined child,
  and that `m_stop` is set only when no slot has a pid.
* `NoSigchldLost`: `ChldInv` adds that while there is a signal in the pipe, its
  edge is armed or reported (`Armed`), and that before the handler is set no
  zombie is of the kind that was announced (`Quiet`).
* `NotesBacked`: `NotificationsBacked` counts the ints in all pipes, the children
  about to accept and the edges of the parent. The sum over the slots is taken
  through `TypeInv` (a step changes one summand, or lowers some: `FewerNotes`);
  `NothingTold` says that before `run_parent` watches the listening socket there is
  nothing to count, which is why its first edge, raised when the socket is added,
  does not count a connection twice.

`TimeWheelProofs`
* `TypeCorrect`: `WheelInv` adds that a timer is in no list but that of its
  `time_slot`, and where the walk stands.
* `WheelImplementsQueue`: the initial state maps to the queue's, and each action
  maps to a step of the queue or to a stutter (`AddRefines` to `TickEndRefines`).
  The arithmetic is in `Modulo`, `Distance` and `Entered`.
* `NoTimerEarly`, `NoTimerForgotten`: `AgeInv` says that the age of a timer and
  the ticks left add up to the ticks asked for, or to one turn more.

`ChatRoomPollProofs`, for every `UserLimit` and every set of clients
* `TypeCorrect`, `SlotsCorrect` from one invariant, `RoomInv`: `TypeOK` needs the
  position of the loop (`LoopInv`: in the middle of a round `j` is at most one
  behind `user_count`), and that needs the slots to be what they should be.
  `OwnersInv` says that a client is at the end of one descriptor, or once in the
  backlog, or nowhere: without it the removal of one client could take state of
  another along. There is one lemma per step (`AcceptStep`, `RejectStep`,
  `RemoveStep`, `BroadcastStep`, `WriteStep`, ...), which also says what the step
  leaves alone.
* `WaitingCorrect`: `WaitingHasMessage` is inductive together with `RoomInv`. A step
  keeps what a client was told of (`ToldStays`) if its entry and the buffer it points
  to stay as they are; by `OwnersInv` a client is at the end of one descriptor, so that
  what happens to another's entry does not touch it. The overwriting of line 143
  changes the entry of the one that leaves, and so only messages whose sender is then
  gone (`ToldRemove`).
* `RecvCorrect` and `VisitCorrect`: `ReportsInv` and `VisitInv` speak of the slots
  that the loop has still to handle (`Ahead`) and of those it has handled.
  `OnwardGoesOn` says that a step which does not remove a client keeps that
  division; `RemoveStep` that the slot which takes the last user is ahead again.
  That a client's departure is always watched is part of `ReportsInv`: it is what
  makes POLLIN without POLLRDHUP mean data.

`TimeHeapProofs`, for every capacity, every set of timers and timeouts
* `TypeCorrect`, `NoneLost`, `FiredStays` from one invariant, `HeapInv`. The
  contents of the heap are a function (`Contents`, the array with the held timer
  in the hole) that has each timer of `set` once (`Arranged`). An iteration of a
  sift exchanges two slots (`Exchanged`), `add_timer` appends one (`Added`), a pop
  puts the last in the place of the first (`Popped`): each keeps `Arranged`, in
  whatever order the timers are. `HeapifyInv` keeps the constructor's index in the
  part in use. `CallbackInv` says what is at the root while a callback runs (`AtRoot`):
  the timer it belongs to, or one that it has added. Only what the callback adds is
  sifted up then, and the strict comparison of line 116 lets it pass the root only if
  it expires sooner; what is thus at the root stays there until another that it has
  added expires sooner still. Nothing is assumed of when timers were constructed.

`HttpParserProofs`, for every size of the buffer and all texts
* `TypeCorrect`, `UnparsedStays` from one invariant, `ParserInv`. `ScannedClean`:
  there is no \r in front of the scan, so a line ends where the scan has stopped
  (`EndIs`) and its terminators are in front of what comes next. `StartBehind`:
  what line 144 overwrites is in front of the end of the next line, or behind all
  the data. `BlanksInside`: the blanks that `prase_requestline` overwrites are in
  its line. That a scan finds the first position is proved from the order of the
  natural numbers (`Least`).
* `Judged`: `SplitIndependent` by `ParserInv` and `Verdict`. Until the first line is
  complete the buffer is what was sent and has no \r in front of the scan
  (`Untouched`); afterwards the buffer no longer shows the request line, since it was
  cut into strings, and `FirstLineGood` keeps what was found of it in the text as a
  whole. `WaitsAtEnd`: the parser asks for more only when at most a last \r is
  unread, so what it has not looked at decides nothing. That `prase_requestline`
  accepts what the reference definition accepts is `RequestLineIs`, for every line.

`ShmChatServerProofs`, for every `USER_LIMIT` and every set of clients
* `TypeCorrect`, `IndexesCorrect`, `SenderSkipped` (`NotToldOwn`), `MemoryCurrent`
  (`NeverOlder`), `ZombiesNoticed`, `AtMostOneLeft` from one invariant, `IInv`.
  `TableInv`: an entry of `user[]` and the index its child was born with name each
  other. `BacklogInv`: a client waits there once, so it is forked for once.
  `MemoryInv`: a part of the memory has a message of its own child, older than those
  of its client that are unread. `NotesInv` says the same of the notifications: what
  is announced is what is in the memory, or something later or nothing is there
  (`GoodNote`). It holds for both kinds of pipe, and for the index that a child or
  the parent has in its hands between two sends. `StopInv`: the batch in which the
  server stops may fork one more child, when the listening socket is reported behind
  the signals, and no other.
* `NobodyRemoved`, an action property (`EntriesStay`): an entry in use stays what it
  is. This is why the indices agree. It rests on `FirstFreeAssumption`: the number in
  `sub_process` is above the limit, and the removal in `Join` is not reached.

`ProgramProofs`, for every finite set of timers, and any number of descriptors,
signals, connections and answers
* `InOrder` (`ListSound`): a list in order is given by the places of its timers
  (`Placed`): `next` leads to the next place, `prev` leads back or, for a timer put
  in by a search, to the timer itself, and times grow with the places. Each operation
  is followed through the cases of its code (`PutAt`, `TakenFrom`, `Meets` for the
  walk) and leaves such places, or ends the program with a null pointer (`Kept`).
  That a walk meets every timer once, and then null, comes from the places
  being numbers up to the number of timers. `ListInv` adds when the tail is null and,
  within a tick, that nothing left is earlier than what was fired.
* `Ticks` (`TicksInOrder`), an action property, from `ListInv`; like `ListSound` it says
  nothing once a timer put in by a search was moved or deleted (`spoiled`).
* `Matches` (`ListMatchesConnections`): under ServerTest8 a list is `Linked` both
  ways and its times are different; since no timer is later than the one that is set
  or put off, a search runs off the end of the list (`SearchFails`), so a server that
  goes on never has a timer put in by a search. `IdleInv` adds that the timers of
  the open connections that were not deprived of theirs (`Timed`), one for each, are the
  list, none of them later than a timer set now (`Listed`), and that there is a free descriptor for each connection that waits
  (`Counted`): without it an accepted connection could take the entry of one that is
  open.
* `CallsMeet` (`CallsMeetTheirState`) from `SmallInv`, the invariant of whichever of
  the four small programs runs. A batch is an order of what was ready, so it names
  nothing twice; what an entry was reported for must still be there when its turn
  comes.
  - `SignalInv`: a connection waits while the listening socket is still ahead in the
    array. The round may go past the batch, when `recv()` overwrites its bound, but the
    entries there are blank (`bzero`, line 107): whatever the bound, the listening
    socket is met once.
  - `EchoInv`: the array keeps the entries of earlier batches, so only the rest of the
    present one (`EchoBatch`) names nothing twice. A connection leaves the backlog by
    `accept()` only, and there is a free descriptor for each that waits
    (`EchoCounted`).
  - `StressInv`: what is left of a batch is open and still has what was reported: an
    answer, room, an end or an error. The other side only adds to that, and handling
    one connection touches no other (`Different`).
  - `ConnectInv`: the descriptor is open wherever it is used, and `getsockopt` is
    reached only when the socket is writable, so that an error of 0 means connected.

`CgiServerProofs`, for every pool, all texts and every size of the buffer
* `ImplementsPool`: each step of the server is a step of the pool or leaves the pool
  alone. `PoolStaysSound` then has all that `ProcessPoolProofs` shows of the pool, by
  name, for the server: what a template argument does cannot spoil it.
* `Answered` (`RequestsAnswered`) from `IInv`. `ConnsInv`: a connection has received
  no more than was sent and than the buffer holds, and while it is open no line ends
  in what it received (`GoodConn`), so the next receive that completes a line
  completes the first (`FirstLineIs`). `OwnerInv`: those that wait in the backlog are
  the last that arrived, and nobody has them. `HandInv`: what a child has still to
  handle is open and its own, and the one in `process()` is not in the rest of the
  batch. `HoldInv` has the types of what programs hold.

*Assumptions.* All are `ASSUME`s of the modules, which TLC evaluates in the runs:
sizes and limits are natural numbers, positive where the code divides by them or has
an array of that size; the values for "nobody" and "null" are no clients and no
timers; and `FirstFreeAssumption`, from the order in which the kernel gives out
descriptors.

Only model-checked: liveness (`TermCompletes`, `DeadPoolExits`,
`EveryTimerFires` of the wheel and of the heap, `DepartedIsClosed`,
`EndsWhenOver`, `Served`, `EdgesSuffice`, `ComesToAnEnd`), which needs fairness and
ENABLED. That the reference definitions of the runs, such as the request parsed as a
whole, are what HTTP asks for is not a question of proof.

## 5. Plan

Next is `TimeWheelList`: the pointers of the wheel, to implement `TimeWheel`. `Placed`
and `Linked` of `ProgramProofs` are the invariants its lists need.

With the held timer compared in line 220, `HeapOrder` holds in its run; that this
is so for every heap can be proved once the code does it.

## 6. Not modelled

* The chat room client: its loop ends at the first return of `poll()` (line 77
  tests the events it asked for, not those that came), so there is no behaviour.
* The out-of-band data programs: what they do is what the kernel does with SIGURG
  and the urgent pointer; their own code is one receive in a handler.
* `ServerTest1` to `ServerTest4`: every line is commented out.
* The pointers of the wheel's lists, and callbacks that delete the timer `tick()`
  holds; destructors; a process that runs out of descriptors or memory.
* Command lines, address set up, logging, the content of messages and pages, and
  the generated build files.
