------------------------------ MODULE EchoServer ------------------------------
(***************************************************************************)
(* ServerTest5.cpp: one edge-triggered epoll loop for a TCP and a UDP      *)
(* socket.  A connection is read until nothing is left; the listening and  *)
(* the UDP socket are read once for each event, so that what arrived       *)
(* together is taken only when more arrives.  The result of send() is not  *)
(* looked at: of the echoes only the errors and SIGPIPE are modelled.      *)
(***************************************************************************)
EXTENDS Naturals, Sequences, SequencesExt

CONSTANTS
    Room,         \* TCP_BUFFER_SIZE - 1
    MaxClients,   \* bound: connections that clients open
    MaxSent       \* bound: bytes and datagrams that clients send

lfd == 1
udpfd == 2
Fd == 3 .. 2 + MaxClients    \* descriptors of connections

VARIABLES
    pc,        \* "wait" (in epoll_wait), "round", "read" (in the loop of a connection), "aborted",
               \* "killed" (by SIGPIPE)
    events,    \* the array of events as far as it was ever written
    i, ret,
    ready,     \* armed edges of the epoll instance
    sock,      \* the connections: open or not, bytes unread, how the client ended
    backlog,   \* connections to be accepted
    udp,       \* datagrams unread
    arrived, sent  \* what clients did so far, for the bounds

vars == <<pc, events, i, ret, ready, sock, backlog, udp, arrived, sent>>

\* The end is "broken" if a send raises SIGPIPE: after a reset of which a send or
\* the client's departure has told already.
Socket == [open : BOOLEAN, bytes : Nat, echoed : BOOLEAN, end : {"no", "left", "reset", "broken"}]
Fresh == [open |-> FALSE, bytes |-> 0, echoed |-> FALSE, end |-> "no"]

Init ==
    /\ pc = "wait" /\ events = <<>> /\ i = 0 /\ ret = 0
    /\ ready = {}
    /\ sock = [fd \in Fd |-> Fresh]
    /\ backlog = <<>> /\ udp = 0
    /\ arrived = 0 /\ sent = 0

Open == {fd \in Fd : sock[fd].open}
Pending(s) == s.bytes > 0 \/ s.end # "no"

Readable(s) ==
    CASE s = lfd -> backlog # <<>>
      [] s = udpfd -> udp > 0
      [] OTHER -> Pending(sock[s])

epoll_wait ==
    /\ pc = "wait"
    /\ \E batch \in SetToSeqs({s \in ready : Readable(s)}) :
         /\ batch # <<>>
         /\ events' = batch \o SubSeq(events, Len(batch) + 1, Len(events))
         /\ ret' = Len(batch)
    /\ ready' = {}
    /\ i' = 0
    /\ pc' = "round"
    /\ UNCHANGED <<sock, backlog, udp, arrived, sent>>

At(s) == pc = "round" /\ i < Len(events) /\ events[i + 1] = s

MoreEvents(n) == n < ret

Next_i ==
    /\ i' = i + 1
    /\ pc' = IF MoreEvents(i + 1) THEN "round" ELSE "wait"

\* Faulty variant: epoll_ctl reports only what comes after it.
AddedBlind(fd, s) == {}

\* add_fd: what waits already is reported.
Added(fd, s) == IF Pending(s) THEN {fd} ELSE {}

\* assert(connfd >= 0)
Accept ==
    /\ At(lfd)
    /\ IF backlog = <<>>
       THEN pc' = "aborted" /\ UNCHANGED <<i, sock, ready, backlog>>
       ELSE \E fd \in {Min(Fd \ Open)} :
              /\ sock' = [sock EXCEPT ![fd] = Head(backlog)]
              /\ ready' = ready \cup Added(fd, Head(backlog))
              /\ backlog' = Tail(backlog)
              /\ Next_i
    /\ UNCHANGED <<events, ret, udp, arrived, sent>>

\* One datagram is received and sent back.
Datagram ==
    /\ At(udpfd)
    /\ udp' = IF udp > 0 THEN udp - 1 ELSE 0
    /\ Next_i
    /\ UNCHANGED <<events, ret, ready, sock, backlog, arrived, sent>>

ReadBegin ==
    /\ \E fd \in Fd : At(fd)
    /\ pc' = "read"
    /\ UNCHANGED <<events, ret, i, ready, sock, backlog, udp, arrived, sent>>

\* Faulty variant: one receive for an event.
ReadAgainOnce(s) == FALSE

\* while(1): after data the connection is read again.
ReadAgain(s) == s.bytes > 0

\* One iteration of the loop of a connection: the bytes that fit are received and
\* sent back.  After the client has left the descriptor is closed, read (EBADF)
\* and closed once more, which does nothing: no other connection can have got it
\* in between.
Read ==
    /\ pc = "read"
    /\ \E fd \in {events[i + 1]}, s \in {sock[events[i + 1]]} :
         /\ s.bytes > 0 => s.end # "broken"
         /\ sock' = [sock EXCEPT ![fd] =
                       IF s.bytes > 0
                       THEN [s EXCEPT !.bytes = IF @ > Room THEN @ - Room ELSE 0,
                                      !.echoed = TRUE,
                                      !.end = IF @ = "reset" THEN "broken" ELSE @]
                       ELSE IF s.end = "no" THEN s ELSE Fresh]
         /\ ready' = IF sock'[fd].open THEN ready ELSE ready \ {fd}
         /\ IF ReadAgain(s) THEN UNCHANGED <<pc, i>> ELSE Next_i
    /\ UNCHANGED <<events, ret, backlog, udp, arrived, sent>>

SendKilled ==
    /\ pc = "read"
    /\ sock[events[i + 1]].bytes > 0 /\ sock[events[i + 1]].end = "broken"
    /\ pc' = "killed"
    /\ UNCHANGED <<events, ret, i, ready, sock, backlog, udp, arrived, sent>>

Server == epoll_wait \/ Accept \/ Datagram \/ ReadBegin \/ Read \/ SendKilled

-----------------------------------------------------------------------------
(* The clients.                                                            *)

loopVars == <<pc, events, i, ret>>

Connect ==
    /\ arrived < MaxClients
    /\ arrived' = arrived + 1
    /\ backlog' = Append(backlog, [Fresh EXCEPT !.open = TRUE])
    /\ ready' = ready \cup {lfd}
    /\ UNCHANGED <<loopVars, sock, udp, sent>>

\* A client sends a byte, leaves or resets the connection.
Acts(s) ==
    {[s EXCEPT !.bytes = @ + 1] : n \in IF sent < MaxSent THEN {1} ELSE {}}
        \cup {[s EXCEPT !.end = "left"], [s EXCEPT !.end = "reset"]}
SentBy(s) == sent' = IF s.end = "no" THEN sent + 1 ELSE sent

ActsAccepted ==
    /\ \E fd \in Open : sock[fd].end = "no" /\ \E s \in Acts(sock[fd]) :
         /\ sock' = [sock EXCEPT ![fd] = s]
         /\ ready' = ready \cup {fd}
         /\ SentBy(s)
    /\ UNCHANGED <<loopVars, backlog, udp, arrived>>

ActsWaiting ==
    /\ \E k \in DOMAIN backlog : backlog[k].end = "no" /\ \E s \in Acts(backlog[k]) :
         /\ backlog' = [backlog EXCEPT ![k] = s]
         /\ SentBy(s)
    /\ UNCHANGED <<loopVars, sock, ready, udp, arrived>>

\* An echo meets a client that has left.
Refused ==
    /\ \E fd \in Open :
         /\ sock[fd].end = "left" /\ sock[fd].echoed
         /\ sock' = [sock EXCEPT ![fd].end = "broken"]
         /\ ready' = ready \cup {fd}
    /\ UNCHANGED <<loopVars, backlog, udp, arrived, sent>>

SendDatagram ==
    /\ sent < MaxSent
    /\ sent' = sent + 1
    /\ udp' = udp + 1
    /\ ready' = ready \cup {udpfd}
    /\ UNCHANGED <<loopVars, sock, backlog, arrived>>

Next == Server \/ Connect \/ ActsAccepted \/ ActsWaiting \/ Refused \/ SendDatagram

\* The process is given the processor.
Fairness == WF_vars(Server)

Spec == Init /\ [][Next]_vars /\ Fairness

-----------------------------------------------------------------------------
TypeOK ==
    /\ pc \in {"wait", "round", "read", "aborted", "killed"}
    /\ events \in Seq({lfd, udpfd} \cup Fd) /\ ret \in 0 .. Len(events) /\ i \in 0 .. ret
    /\ ready \subseteq {lfd, udpfd} \cup Fd
    /\ sock \in [Fd -> Socket]
    /\ backlog \in Seq(Socket) /\ udp \in Nat
    /\ arrived \in 0 .. MaxClients /\ sent \in 0 .. MaxSent

\* assert(connfd >= 0) of line 108 holds: no event of the listening socket
\* outlives the connection it is for.
AssertHolds == pc # "aborted"

\* What a client has sent on an accepted connection is read in the end, though
\* only an edge makes the server look: bytes that came before the connection
\* was accepted, while it was read and between two batches.
Drained == \A fd \in Fd : sock[fd].bytes > 0 ~> sock[fd].bytes = 0 \/ pc = "killed"

\* The connection of a client that leaves or fails is closed in the end.
LeaverClosed == \A fd \in Fd : sock[fd].end # "no" ~> ~ sock[fd].open \/ pc = "killed"

=============================================================================
