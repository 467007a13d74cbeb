------------------------------ MODULE StressTest ------------------------------
(***************************************************************************)
(* stress_test.cpp: connections that are written to and read in turn, with *)
(* edge-triggered events asked for anew after every step.  The arguments   *)
(* of fcntl() are exchanged (line 22), so that every connection but the    *)
(* one with descriptor 4 stays blocking: a receive or a send that had to   *)
(* wait would stop all of them.  A request or an answer is one unit.       *)
(***************************************************************************)
EXTENDS Naturals, Sequences, SequencesExt

CONSTANTS
    Links,      \* link_num
    Room,       \* requests that the buffers of a connection hold
    MaxAnswers  \* bound: answers that the server sends

Fd == 4 .. 3 + Links

VARIABLES
    pc,        \* "connect" (send_request_n), "wait" (in epoll_wait), "batch", "killed"
    links,     \* connections tried so far
    batch,     \* events of the batch still to be handled
    ready,     \* descriptors with an edge
    sock,      \* the connections, see Connection
    answered   \* answers sent so far, for the bound

vars == <<pc, links, batch, ready, sock, answered>>

Connection ==
    [state : {"none", "open", "closed"},
     asks : {"in", "out"},       \* the event that is registered
     queued : 0 .. Room,         \* requests that the server has not read
     answers : 0 .. MaxAnswers,  \* answers unread
     end : BOOLEAN,              \* the server has closed its side
     error : {"no", "reset", "pipe"}]

None == [state |-> "none", asks |-> "out", queued |-> 0, answers |-> 0, end |-> FALSE, error |-> "no"]

Init ==
    /\ pc = "connect" /\ links = 0
    /\ batch = <<>> /\ ready = {}
    /\ sock = [fd \in Fd |-> None]
    /\ answered = 0

\* A reset connection can be read and written, at once and in vain.
CanRead(s) == s.answers > 0 \/ s.end \/ s.error # "no"
CanWrite(s) == s.queued < Room \/ s.error # "no"
Reported(s) == IF s.asks = "in" THEN CanRead(s) ELSE CanWrite(s)

\* send_request_n.  The descriptor of a connection that fails is never closed.
Connect ==
    /\ pc = "connect" /\ links < Links
    /\ links' = links + 1
    /\ \/ /\ sock' = [sock EXCEPT ![4 + links].state = "open"]
          /\ ready' = ready \cup {4 + links}
       \/ UNCHANGED <<sock, ready>>
    /\ UNCHANGED <<pc, batch, answered>>

ConnectEnds ==
    /\ pc = "connect" /\ links = Links
    /\ pc' = "wait"
    /\ UNCHANGED <<links, batch, ready, sock, answered>>

epoll_wait ==
    /\ pc = "wait"
    /\ \E events \in SetToSeqs({fd \in ready : Reported(sock[fd])}) :
         /\ events # <<>>
         /\ batch' = events
    /\ ready' = {}
    /\ pc' = "batch"
    /\ UNCHANGED <<links, sock, answered>>

\* Faulty variant: the event is not asked for anew.
ArmedOnce(fd, s) == ready \ {fd}

\* EPOLL_CTL_MOD reports what holds already.
Armed(fd, s) == IF Reported(s) THEN ready \cup {fd} ELSE ready \ {fd}

HandledAs(fd, s) ==
    /\ sock' = [sock EXCEPT ![fd] = s]
    /\ ready' = IF s.state = "open" THEN Armed(fd, s) ELSE ready \ {fd}
    /\ batch' = Tail(batch)
    /\ pc' = IF Len(batch) = 1 THEN "wait" ELSE "batch"
    /\ UNCHANGED <<links, answered>>

Current == sock[Head(batch)]
Closed(s) == [s EXCEPT !.state = "closed"]

\* The event asked for after one of the kind that s has asked for.
AskedNext(s) == IF s.asks = "in" THEN "out" ELSE "in"

\* Faulty variant: "read until nothing is left", as edge-triggered events suggest.
ReadAgainTillEmpty(s) == s.answers > 0

\* read_once: one receive for an event.
ReadAgain(s) == FALSE

\* read_once, removefd
Read ==
    /\ pc = "batch" /\ Current.asks = "in" /\ CanRead(Current)
    /\ IF ReadAgain(Current)
       THEN /\ sock' = [sock EXCEPT ![Head(batch)].answers = @ - 1]
            /\ UNCHANGED <<pc, links, batch, ready, answered>>
       ELSE HandledAs(Head(batch),
                IF Current.answers > 0
                THEN [Current EXCEPT !.answers = @ - 1, !.asks = AskedNext(Current)]
                ELSE Closed(Current))

\* write_nbytes, removefd
Write ==
    /\ pc = "batch" /\ Current.asks = "out" /\ CanWrite(Current)
    /\ Current.error # "pipe"
    /\ HandledAs(Head(batch),
           IF Current.error = "no"
           THEN [Current EXCEPT !.queued = @ + 1, !.asks = AskedNext(Current)]
           ELSE Closed(Current))

\* SIGPIPE: the server had closed its side before it reset the connection.
WriteKilled ==
    /\ pc = "batch" /\ Current.asks = "out" /\ Current.error = "pipe"
    /\ pc' = "killed"
    /\ UNCHANGED <<links, batch, ready, sock, answered>>

Tester == Connect \/ ConnectEnds \/ epoll_wait \/ Read \/ Write \/ WriteKilled

-----------------------------------------------------------------------------
(* The server.                                                             *)

Alive(s) == s.state = "open" /\ s.error = "no"
Serving(fd) == Alive(sock[fd]) /\ ~ sock[fd].end

TakesRequest(fd) ==
    /\ Serving(fd) /\ sock[fd].queued > 0
    /\ sock' = [sock EXCEPT ![fd].queued = @ - 1]
    /\ ready' = ready \cup {fd}
    /\ UNCHANGED <<pc, links, batch, answered>>

Answers(fd) ==
    /\ Serving(fd) /\ answered < MaxAnswers
    /\ answered' = answered + 1
    /\ sock' = [sock EXCEPT ![fd].answers = @ + 1]
    /\ ready' = ready \cup {fd}
    /\ UNCHANGED <<pc, links, batch>>

\* close(), which resets the connection if requests are unread.
Closes(fd) ==
    /\ Serving(fd)
    /\ sock' = IF sock[fd].queued = 0 THEN [sock EXCEPT ![fd].end = TRUE]
                                      ELSE [sock EXCEPT ![fd].error = "reset"]
    /\ ready' = ready \cup {fd}
    /\ UNCHANGED <<pc, links, batch, answered>>

\* A request that meets a closed server resets the connection.
Refused(fd) ==
    /\ Alive(sock[fd]) /\ sock[fd].end /\ sock[fd].queued > 0
    /\ sock' = [sock EXCEPT ![fd].queued = 0, ![fd].error = "pipe"]
    /\ ready' = ready \cup {fd}
    /\ UNCHANGED <<pc, links, batch, answered>>

Server(fd) == TakesRequest(fd) \/ Answers(fd) \/ Closes(fd) \/ Refused(fd)

Next == Tester \/ \E fd \in Fd : Server(fd)

\* The process is given the processor, the server reads, and a reset arrives.
Fairness ==
    /\ WF_vars(Tester)
    /\ \A fd \in Fd : WF_vars(TakesRequest(fd) \/ Refused(fd))

Spec == Init /\ [][Next]_vars /\ Fairness

-----------------------------------------------------------------------------
TypeOK ==
    /\ pc \in {"connect", "wait", "batch", "killed"}
    /\ links \in 0 .. Links
    /\ batch \in Seq(Fd) /\ ready \subseteq Fd
    /\ sock \in [Fd -> Connection]
    /\ answered \in 0 .. MaxAnswers

\* read_once and write_nbytes are called only when they need not wait: the
\* sockets that line 22 leaves blocking never stop the other connections.
NeverWaits ==
    pc = "batch" => Current.state = "open" /\ Reported(Current)

Killed == pc = "killed"

\* What the server answers is read in the end, in whichever of its two states
\* a connection was when the answer came, unless SIGPIPE ends the program: the
\* server has to take requests meanwhile, since reads and writes alternate.
Answered ==
    \A fd \in Fd : sock[fd].answers > 0 ~> sock[fd].answers = 0 \/ sock[fd].state = "closed" \/ Killed

\* A connection that the server has closed or reset is removed in the end.
Removed ==
    \A fd \in Fd : sock[fd].end \/ sock[fd].error # "no" ~> sock[fd].state = "closed" \/ Killed

=============================================================================
