---------------------------- MODULE NonblockConnect ----------------------------
(***************************************************************************)
(* nonblock_connect of ClientTest1.cpp: a connection is begun on a socket  *)
(* that does not block, awaited by select() for a time, and judged by the  *)
(* error that is pending on the socket.  The handshake ends, fails or does *)
(* neither, at any time, and an established connection may be reset.       *)
(***************************************************************************)
EXTENDS Naturals

CONSTANT MaxWait  \* the argument time, in seconds

VARIABLES
    pc,           \* "socket", "connect", "select", "getsockopt", "returned"
    socket,       \* "none", "open" or "closed"
    nonblocking,  \* O_NONBLOCK
    handshake,    \* "none", "begun", "established", "failed" or "reset"
    waited,       \* seconds in select
    result        \* "none", "fd" or "-1"

vars == <<pc, socket, nonblocking, handshake, waited, result>>

Init ==
    /\ pc = "socket" /\ socket = "none" /\ nonblocking = FALSE
    /\ handshake = "none" /\ waited = 0 /\ result = "none"

\* return cfd, with the flags that the socket had before
Succeeds ==
    /\ pc' = "returned" /\ result' = "fd"
    /\ nonblocking' = FALSE
    /\ UNCHANGED <<socket, waited>>

\* close(cfd), return -1
Fails ==
    /\ pc' = "returned" /\ result' = "-1"
    /\ socket' = "closed"
    /\ UNCHANGED <<nonblocking, waited>>

SocketFails ==
    /\ pc = "socket"
    /\ pc' = "returned" /\ result' = "-1"
    /\ UNCHANGED <<socket, nonblocking, handshake, waited>>

Socket ==
    /\ pc = "socket"
    /\ pc' = "connect" /\ socket' = "open" /\ nonblocking' = TRUE
    /\ UNCHANGED <<handshake, waited, result>>

\* connect(): established at once, EINPROGRESS, or another error
Connect ==
    /\ pc = "connect"
    /\ \/ handshake' = "established" /\ Succeeds
       \/ handshake' = "begun" /\ pc' = "select" /\ UNCHANGED <<socket, nonblocking, waited, result>>
       \/ UNCHANGED handshake /\ Fails

Writable == handshake \in {"established", "failed", "reset"}

\* Faulty variant: select() with no timeout.
TimeIsUpNever == FALSE

TimeIsUp == waited = MaxWait

\* select(): the socket is writable
SelectWakes ==
    /\ pc = "select" /\ Writable
    /\ pc' = "getsockopt"
    /\ UNCHANGED <<socket, nonblocking, handshake, waited, result>>

\* select(): 0.  What comes later comes too late.  (No signal handler: never -1.)
SelectEnds ==
    /\ pc = "select" /\ ~ Writable /\ TimeIsUp
    /\ Fails
    /\ UNCHANGED handshake

\* Faulty variant: a socket that can be written is taken to be connected.
SoErrorUnasked == FALSE

SoError == handshake \in {"failed", "reset"}

\* SO_ERROR; getsockopt() itself does not fail on an open socket.
GetSockOpt ==
    /\ pc = "getsockopt"
    /\ IF SoError THEN Fails ELSE Succeeds
    /\ UNCHANGED handshake

Caller == SocketFails \/ Socket \/ Connect \/ SelectWakes \/ SelectEnds \/ GetSockOpt

\* The network, while the socket is open.
Handshake ==
    /\ socket = "open"
    /\ \/ handshake = "begun" /\ handshake' \in {"established", "failed"}
       \/ handshake = "established" /\ handshake' = "reset"
    /\ UNCHANGED <<pc, socket, nonblocking, waited, result>>

Second ==
    /\ pc = "select" /\ ~ Writable /\ waited < MaxWait
    /\ waited' = waited + 1
    /\ UNCHANGED <<pc, socket, nonblocking, handshake, result>>

Next == Caller \/ Handshake \/ Second

\* The process is given the processor, and time goes on.
Fairness == WF_vars(Caller) /\ WF_vars(Second)

Spec == Init /\ [][Next]_vars /\ Fairness

-----------------------------------------------------------------------------
TypeOK ==
    /\ pc \in {"socket", "connect", "select", "getsockopt", "returned"}
    /\ socket \in {"none", "open", "closed"} /\ nonblocking \in BOOLEAN
    /\ handshake \in {"none", "begun", "established", "failed", "reset"}
    /\ waited \in 0 .. MaxWait
    /\ result \in {"none", "fd", "-1"}

\* The comment of line 29: a descriptor that is returned belongs to a connection
\* that was established (it may have been reset since), is open and blocks again;
\* -1 leaves no open socket behind.
ReturnsConnected ==
    /\ result = "fd" => /\ handshake \in {"established", "reset"}
                        /\ socket = "open" /\ ~ nonblocking
    /\ result = "-1" => socket # "open"

\* The caller gets an answer, though the handshake may never end.
Answers == pc = "connect" ~> pc = "returned"

=============================================================================
