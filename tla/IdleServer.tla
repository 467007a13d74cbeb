------------------------------ MODULE IdleServer ------------------------------
(***************************************************************************)
(* ServerTest8.cpp: a server with one thread and an edge-triggered epoll   *)
(* instance, which keeps a timer per connection in the list of lst_timer.h *)
(* and is to close those on which nothing is received for 3 * TIMESLOT.    *)
(*                                                                         *)
(* A round goes over the array epet up to index ret, and a receive stores  *)
(* its result in ret too: the rest of a batch is dropped after a result of *)
(* 0 or -1, and after a longer message the round runs on into the entries  *)
(* that earlier batches left in the array, or that were never written.     *)
(* Line 163 looks for the signal pipe's end that is written to and is not  *)
(* watched.  The other end, which is, is taken for a connection: its entry *)
(* of user has no timer, and line 218 follows the null pointer.  So tick   *)
(* is not called, neither is timer_handler, and the server does not last   *)
(* beyond the first signal that it sees.                                   *)
(***************************************************************************)
EXTENDS TimerListOps, Integers, Sequences, SequencesExt

CONSTANTS
    TIMESLOT,
    Sizes,       \* bytes that a client sends at once
    Room,        \* BUFF_SIZE - 1
    MaxClients,  \* bound: connections that clients open
    MaxSent,     \* bound: messages that clients send
    MaxTime      \* bound: the last time there is

lfd == 1
pipe == 2                         \* pipe_fd[0]
Fd == 3 .. 2 + MaxClients         \* descriptors of connections
Source == {lfd, pipe} \cup Fd     \* what the epoll instance watches
Time == 0 .. MaxTime + 3 * TIMESLOT

VARIABLES
    pc,        \* "wait" (in epoll_wait), "round", "crashed", "undefined"
    l,         \* lst_timer
    timer,     \* user[fd].timer
    epet,      \* the array of events as far as it was ever written
    i, ret,
    ready,     \* armed edges of the epoll instance
    sock,      \* the connections: whether open, bytes unread, how the client ended
    backlog,   \* connections to be accepted
    signals,   \* there are bytes in the signal pipe
    now,       \* time(nullptr)
    arrived, sent,  \* what clients did so far, for the bounds
    deprived   \* history: open connections whose timer was deleted on account of
               \* another descriptor, a closed one or one that is deprived itself

serverVars == <<pc, l, timer, epet, i, ret, deprived>>
vars == <<serverVars, ready, sock, backlog, signals, now, arrived, sent>>

Socket == [open : BOOLEAN, bytes : Nat, end : {"no", "left", "reset"}]
Fresh == [open |-> FALSE, bytes |-> 0, end |-> "no"]

Init ==
    /\ pc = "wait"
    /\ l = EmptyList
    /\ timer = [fd \in Fd |-> NULL]
    /\ epet = <<>> /\ i = 0 /\ ret = 0
    /\ ready = {}
    /\ sock = [fd \in Fd |-> Fresh]
    /\ backlog = <<>>
    /\ signals = FALSE
    /\ now = 0
    /\ arrived = 0 /\ sent = 0
    /\ deprived = {}

Running == pc \in {"wait", "round"}
Open == {fd \in Fd : sock[fd].open}

-----------------------------------------------------------------------------
(* The round.                                                              *)

Readable(s) ==
    CASE s = lfd -> backlog # <<>>
      [] s = pipe -> signals
      [] OTHER -> sock[s].bytes > 0 \/ sock[s].end # "no"

epoll_wait ==
    /\ pc = "wait"
    /\ \E events \in SetToSeqs({s \in ready : Readable(s)}) :
         /\ events # <<>>
         /\ epet' = events \o SubSeq(epet, Len(events) + 1, Len(epet))
         /\ ret' = Len(events)
    /\ ready' = {}
    /\ i' = 0
    /\ pc' = "round"
    /\ UNCHANGED <<l, timer, sock, backlog, signals, now, arrived, sent, deprived>>

At(s) == pc = "round" /\ i < Len(epet) /\ epet[i + 1] = s

\* The next iteration with a list l2 and a bound n, or the end of the round or
\* of the program; i and ret mean nothing until the next one.
Goes(l2, n) ==
    /\ l' = l2
    /\ IF l2.fault = "none" /\ i + 1 < n
       THEN pc' = "round" /\ i' = i + 1 /\ ret' = n
       ELSE /\ i' = 0 /\ ret' = 0
            /\ pc' = CASE l2.fault = "none" -> "wait"
                       [] l2.fault = "null" -> "crashed"
                       [] OTHER -> "undefined"
    /\ UNCHANGED epet

\* The lowest descriptor that is free.
NewFd == Min(Fd \ Open)

Deadline == now + 3 * TIMESLOT

\* A connection and a timer for it, which takes any address that is free.
Accept ==
    /\ At(lfd)
    /\ backlog # <<>>
    /\ \E t \in Timer \ l.live, fd \in {NewFd} :
         /\ timer' = [timer EXCEPT ![fd] = t]
         /\ sock' = [sock EXCEPT ![fd] = Head(backlog)]
         /\ ready' = ready \cup
                (IF Head(backlog).bytes > 0 \/ Head(backlog).end # "no" THEN {fd} ELSE {})
         /\ Goes(Added(New(l, t, Deadline), t), ret)
    /\ backlog' = Tail(backlog)
    /\ UNCHANGED <<signals, now, arrived, sent, deprived>>

\* An lfd of an earlier batch: nothing waits, and the round is left.
AcceptNone ==
    /\ At(lfd)
    /\ backlog = <<>>
    /\ pc' = "wait" /\ i' = 0 /\ ret' = 0
    /\ UNCHANGED <<l, timer, epet, deprived,
                   ready, sock, backlog, signals, now, arrived, sent>>

\* The bytes of the signal pipe, received as those of a connection.
PipeAsConnection ==
    /\ At(pipe)
    /\ IF signals
       THEN pc' = "crashed" /\ signals' = FALSE /\ UNCHANGED <<l, epet, i, ret>>
       ELSE Goes(l, -1) /\ UNCHANGED signals
    /\ UNCHANGED <<timer, deprived, ready, sock, backlog, now, arrived, sent>>

\* Faulty variant: the timer stays in the list.
TimerKept(fd) == l

TimerGone(fd) == IF timer[fd] = NULL THEN l ELSE Deleted(l, timer[fd])

\* The connections that have the timer of fd too: the address was used again.
Sharing(fd) == {other \in Open \ {fd} : timer[other] = timer[fd]}

\* cb_func, and del_timer of user[fd].timer; the pointer stays.
CloseConnection(fd, n) ==
    /\ sock' = [sock EXCEPT ![fd] = Fresh]
    /\ ready' = ready \ {fd}
    /\ Goes(TimerGone(fd), n)
    /\ deprived' = IF sock[fd].open /\ fd \notin deprived THEN deprived
                   ELSE (deprived \ {fd}) \cup Sharing(fd)

TimerPutOff(fd) == Adjusted([l EXCEPT !.erpire[timer[fd]] = Deadline], timer[fd])

Received(fd) == IF sock[fd].bytes < Room THEN sock[fd].bytes ELSE Room

\* recv() on an open connection: data, or nothing to be had, or its end.
Receive(fd) ==
    /\ At(fd) /\ sock[fd].open
    /\ \/ /\ sock[fd].bytes > 0
          /\ sock' = [sock EXCEPT ![fd].bytes = @ - Received(fd)]
          /\ Goes(TimerPutOff(fd), Received(fd))
          /\ UNCHANGED <<ready, deprived>>
       \/ /\ sock[fd].bytes = 0 /\ sock[fd].end = "no"
          /\ Goes(l, -1)
          /\ UNCHANGED <<sock, ready, deprived>>
       \/ /\ sock[fd].bytes = 0 /\ sock[fd].end # "no"
          /\ CloseConnection(fd, IF sock[fd].end = "left" THEN 0 ELSE -1)
    /\ UNCHANGED <<timer, backlog, signals, now, arrived, sent>>

\* recv() on a descriptor that was closed: EBADF, and what belonged to it is
\* closed and deleted again.  The pointer to its timer may name that of another
\* connection by now.
ReceiveStray(fd) ==
    /\ At(fd) /\ ~ sock[fd].open
    /\ CloseConnection(fd, -1)
    /\ UNCHANGED <<timer, backlog, signals, now, arrived, sent>>

\* An entry that was never written: if the memory is zero "something else
\* happened", if not it names any descriptor.
Unwritten ==
    /\ pc = "round" /\ i >= Len(epet)
    /\ \/ Goes(l, ret)
       \/ pc' = "undefined" /\ UNCHANGED <<l, epet, i, ret>>
    /\ UNCHANGED <<timer, deprived, ready, sock, backlog, signals, now, arrived, sent>>

Server ==
    \/ epoll_wait \/ Accept \/ AcceptNone \/ PipeAsConnection \/ Unwritten
    \/ \E fd \in Fd : Receive(fd) \/ ReceiveStray(fd)

-----------------------------------------------------------------------------
(* The clients, the clock and signals.                                     *)

Connect ==
    /\ Running /\ arrived < MaxClients
    /\ arrived' = arrived + 1
    /\ backlog' = Append(backlog, [Fresh EXCEPT !.open = TRUE])
    /\ ready' = ready \cup {lfd}
    /\ UNCHANGED <<serverVars, sock, signals, now, sent>>

\* A client sends, leaves or resets the connection, before it is accepted or after.
\* What was sent before can still be received.
Acts(s) ==
    {[s EXCEPT !.bytes = @ + n] : n \in IF sent < MaxSent THEN Sizes ELSE {}}
        \cup {[s EXCEPT !.end = "left"], [s EXCEPT !.end = "reset"]}

Client ==
    /\ Running
    /\ \/ \E fd \in Open : sock[fd].end = "no" /\ \E s \in Acts(sock[fd]) :
            /\ sock' = [sock EXCEPT ![fd] = s]
            /\ ready' = ready \cup {fd}
            /\ sent' = IF s.end = "no" THEN sent + 1 ELSE sent
            /\ UNCHANGED backlog
       \/ \E k \in DOMAIN backlog : backlog[k].end = "no" /\ \E s \in Acts(backlog[k]) :
            /\ backlog' = [backlog EXCEPT ![k] = s]
            /\ sent' = IF s.end = "no" THEN sent + 1 ELSE sent
            /\ UNCHANGED <<sock, ready>>
    /\ UNCHANGED <<serverVars, signals, now, arrived>>

\* sig_handler, for SIGTERM or for the one alarm of line 121.
Signalled ==
    /\ signals' = TRUE
    /\ ready' = ready \cup {pipe}

Clock ==
    /\ Running /\ now < MaxTime
    /\ now' = now + 1
    /\ IF now' = TIMESLOT THEN Signalled ELSE UNCHANGED <<signals, ready>>
    /\ UNCHANGED <<serverVars, sock, backlog, arrived, sent>>

Terminate ==
    /\ Running
    /\ Signalled
    /\ UNCHANGED <<serverVars, sock, backlog, now, arrived, sent>>

Next == Server \/ Connect \/ Client \/ Clock \/ Terminate

Spec == Init /\ [][Next]_vars

-----------------------------------------------------------------------------
TypeOK ==
    /\ pc \in {"wait", "round", "crashed", "undefined"}
    /\ l \in Memory(Time)
    /\ timer \in [Fd -> Pointer]
    /\ epet \in Seq(Source)
    /\ i \in Nat /\ ret \in -1 .. Max({Room} \cup {MaxClients + 2})
    /\ ready \subseteq Source
    /\ sock \in [Fd -> Socket]
    /\ backlog \in Seq(Socket)
    /\ signals \in BOOLEAN /\ deprived \subseteq Fd
    /\ now \in 0 .. MaxTime /\ arrived \in 0 .. MaxClients /\ sent \in 0 .. MaxSent

\* The list of a server that runs is linked in both directions, and every time
\* is later than the one before it: two timers of one second, or one put off
\* past another, end the program.  It has one timer for each open connection,
\* and no other, but for the connections whose timer was deleted on account of
\* another descriptor: by an entry left over in the array, which names a closed
\* connection whose timer's address is in use again (lines 195-211), or by the
\* end of a connection that was deprived so.
ListMatchesConnections ==
    Running =>
        /\ l.live = {timer[fd] : fd \in Open \ deprived}
        /\ \A fd1, fd2 \in Open \ deprived : timer[fd1] = timer[fd2] => fd1 = fd2
        /\ l.head = NULL <=> l.live = {}
        /\ \A t \in l.live :
             /\ l.prev[t] = NULL <=> l.head = t
             /\ l.next[t] = NULL <=> l.tail = t
             /\ l.next[t] # NULL => /\ l.prev[l.next[t]] = t
                                    /\ l.erpire[t] < l.erpire[l.next[t]]

=============================================================================
