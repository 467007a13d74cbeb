----------------------------- MODULE SignalServer -----------------------------
(***************************************************************************)
(* ServerTest7.cpp: signals and connections in one edge-triggered epoll    *)
(* loop.  Connections are accepted and never read.  ret is the number of   *)
(* events of the batch and, once the signal pipe was read, the number of   *)
(* signals: then the rest of the batch is dropped, or the round runs on    *)
(* into entries of the array, which are blank.                             *)
(***************************************************************************)
EXTENDS Integers, Sequences, SequencesExt

CONSTANTS
    MaxClients,  \* bound: connections that clients open
    MaxSignals   \* bound: signals sent to the server

lfd == 1
pipe == 2                       \* pipe_fd[0]
Fd == 3 .. 2 + MaxClients       \* descriptors of connections
Signal == {"HUP", "TERM"}       \* SIGCHLD is handled as SIGHUP is, SIGINT as SIGTERM

VARIABLES
    pc,          \* "wait" (in epoll_wait), "round", "ended", "aborted"
    stop_server,
    epet,        \* the array of events, without the blank entries at its end
    i, ret,
    ready,       \* armed edges of the epoll instance
    backlog,     \* connections to be accepted
    accepted,    \* connections accepted so far
    signals,     \* bytes in the signal pipe
    arrived, raised  \* what clients and users did so far, for the bounds

loopVars == <<pc, stop_server, epet, i, ret>>
vars == <<loopVars, ready, backlog, accepted, signals, arrived, raised>>

Init ==
    /\ pc = "wait" /\ stop_server = FALSE
    /\ epet = <<>> /\ i = 0 /\ ret = 0
    /\ ready = {}
    /\ backlog = 0 /\ accepted = 0
    /\ signals = <<>>
    /\ arrived = 0 /\ raised = 0

\* A connection's data is never read, so that its descriptor stays readable.
Readable(s) ==
    CASE s = lfd -> backlog > 0
      [] s = pipe -> signals # <<>>
      [] OTHER -> TRUE

Reported == {s \in ready : Readable(s)}

\* Faulty variant: no bzero() of line 107.
BatchOver(events) == events \o SubSeq(epet, Len(events) + 1, Len(epet))

Batch(events) == events

epoll_wait ==
    /\ pc = "wait"
    /\ \E events \in SetToSeqs(Reported) :
         /\ events # <<>>
         /\ epet' = Batch(events)
         /\ ret' = Len(events)
    /\ ready' = {}
    /\ i' = 0
    /\ pc' = "round"
    /\ UNCHANGED <<stop_server, backlog, accepted, signals, arrived, raised>>

At(s) == pc = "round" /\ i < Len(epet) /\ epet[i + 1] = s

\* The next iteration, or the end of the round and perhaps of the program.
Goes(n, stop) ==
    /\ ret' = n
    /\ stop_server' = stop
    /\ i' = i + 1
    /\ pc' = IF i + 1 < n THEN "round" ELSE IF stop THEN "ended" ELSE "wait"
    /\ UNCHANGED epet

\* assert(connfd >= 0)
Accept ==
    /\ At(lfd)
    /\ IF backlog > 0
       THEN /\ backlog' = backlog - 1 /\ accepted' = accepted + 1
            /\ Goes(ret, stop_server)
       ELSE /\ pc' = "aborted"
            /\ UNCHANGED <<stop_server, epet, i, ret, backlog, accepted>>
    /\ UNCHANGED <<ready, signals, arrived, raised>>

\* Faulty variant: a receive of one byte.
TakenOne == IF signals = <<>> THEN <<>> ELSE <<Head(signals)>>

Taken == signals

\* recv() of the signal pipe; a result of -1 ends the round.
ReadSignals ==
    /\ At(pipe)
    /\ signals' = SubSeq(signals, Len(Taken) + 1, Len(signals))
    /\ IF signals = <<>>
       THEN pc' = (IF stop_server THEN "ended" ELSE "wait")
            /\ UNCHANGED <<stop_server, epet, i, ret>>
       ELSE Goes(Len(Taken), stop_server \/ "TERM" \in ToSet(Taken))
    /\ UNCHANGED <<ready, backlog, accepted, arrived, raised>>

\* "something else happened": data on a connection, or a blank entry.
Other ==
    /\ pc = "round"
    /\ i < Len(epet) => epet[i + 1] \in Fd
    /\ Goes(ret, stop_server)
    /\ UNCHANGED <<ready, backlog, accepted, signals, arrived, raised>>

Server == epoll_wait \/ Accept \/ ReadSignals \/ Other

-----------------------------------------------------------------------------
(* The clients and the users.                                              *)

Running == pc \in {"wait", "round"}

Connect ==
    /\ Running /\ arrived < MaxClients
    /\ arrived' = arrived + 1
    /\ backlog' = backlog + 1
    /\ ready' = ready \cup {lfd}
    /\ UNCHANGED <<loopVars, accepted, signals, raised>>

Data ==
    /\ Running
    /\ \E fd \in 3 .. 2 + accepted : ready' = ready \cup {fd}
    /\ UNCHANGED <<loopVars, backlog, accepted, signals, arrived, raised>>

\* sig_handler.  A signal that finds the server asleep in epoll_wait also
\* interrupts the call, which SA_RESTART does not restart: EINTR ends the loop.
Raise(s) ==
    /\ Running /\ raised < MaxSignals
    /\ raised' = raised + 1
    /\ signals' = Append(signals, s)
    /\ ready' = ready \cup {pipe}
    /\ \/ UNCHANGED pc
       \/ pc = "wait" /\ Reported = {} /\ pc' = "ended"
    /\ UNCHANGED <<stop_server, epet, i, ret, backlog, accepted, arrived>>

Next == Server \/ Connect \/ Data \/ \E s \in Signal : Raise(s)

\* The process is given the processor.
Fairness == WF_vars(Server)

Spec == Init /\ [][Next]_vars /\ Fairness

-----------------------------------------------------------------------------
TypeOK ==
    /\ pc \in {"wait", "round", "ended", "aborted"}
    /\ stop_server \in BOOLEAN
    /\ epet \in Seq({lfd, pipe} \cup Fd)
    /\ i \in Nat /\ ret \in Nat
    /\ ready \subseteq {lfd, pipe} \cup Fd
    /\ backlog \in Nat /\ accepted \in Nat
    /\ backlog + accepted = arrived
    /\ signals \in Seq(Signal)
    /\ arrived \in 0 .. MaxClients /\ raised \in 0 .. MaxSignals

\* assert(connfd >= 0) of line 123 holds: the round never comes to an entry of
\* lfd without a connection that waits, though the bound of the round is
\* overwritten and connections come while it goes on.
AssertHolds == pc # "aborted"

\* SIGTERM ends the server wherever it is met: in its sleep, before a batch,
\* within one, and behind other signals in the pipe.
TermPending == "TERM" \in ToSet(signals)
TermEnds == TermPending ~> pc = "ended"

=============================================================================
