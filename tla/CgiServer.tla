------------------------------- MODULE CgiServer -------------------------------
(***************************************************************************)
(* The CGI server: the process pool of proccesspool.h with cgi_conn as its *)
(* T.  Connections are numbered in the order of their arrival, which is    *)
(* the order in which they are accepted.  To the pool's state come the     *)
(* connections, which child has accepted them, and the programs that were  *)
(* started for them.  A program inherits every descriptor of the child:    *)
(* its client's connection and those of all others that were open then.    *)
(***************************************************************************)
EXTENDS Integers, Sequences, FiniteSets, CgiConn

CONSTANTS
    PoolSize, MaxConn, MaxCrash, MaxTerm,  \* those of ProcessPool
    Cuts   \* bound: where a text may be cut into pieces

\* What ProcessPool assumes of its constants.
ASSUME PoolAssumption ==
    PoolSize \in 1..16 /\ MaxConn \in Nat /\ MaxCrash \in Nat /\ MaxTerm \in Nat

VARIABLES
    pstate, m_pid, child_counter, m_stop, pready, ev, i,   \* the pool's
    pend, sigpipe, signal, child, backlog,
    arrived, crashes, terms,
    conn,      \* connections, by number
    owner,     \* the child that accepted them, None before
    armed,     \* connections whose edge is armed
    batch,     \* connections of the child's batch of events, still to be handled
    current,   \* the connection that the child is in process() of, 0 if none
    held       \* the programs, named by their client, that hold a connection too

poolVars == <<pstate, m_pid, child_counter, m_stop, pready, ev, i, pend, sigpipe,
              signal, child, backlog, arrived, crashes, terms>>
connVars == <<conn, owner, armed, batch, current, held>>
vars == <<poolVars, connVars>>

Pool == INSTANCE ProcessPool

Conns == 1 .. MaxConn
None == Pool!None

Init ==
    /\ Pool!Init
    /\ conn = <<>>
    /\ owner = [c \in Conns |-> None]
    /\ armed = {}
    /\ batch = [j \in Pool!Slots |-> {}]
    /\ current = [j \in Pool!Slots |-> 0]
    /\ held = [c \in Conns |-> {}]

Open(j) == {c \in DOMAIN conn : owner[c] = j /\ conn[c].outcome = "none"}
Programs == UNION {held[c] : c \in Conns}

-----------------------------------------------------------------------------
(* A child.                                                                *)

\* addfd reports what waits already.
ReportedAtAdd(c) == IF Pending(conn[c]) THEN {c} ELSE {}

Accept(j) ==
    /\ Pool!ChildAccept(j)
    /\ IF backlog = 0 THEN UNCHANGED <<owner, armed>>
       ELSE \E c \in {Len(conn) - backlog + 1} :
              /\ owner' = [owner EXCEPT ![c] = j]
              /\ armed' = armed \cup ReportedAtAdd(c)
    /\ UNCHANGED <<conn, batch, current, held>>

\* epoll_wait: among what is reported are the connections that have an edge.
EpollWait(j) ==
    /\ Pool!ChildEpollWait(j)
    /\ batch' = [batch EXCEPT ![j] = {c \in armed \cap Open(j) : Pending(conn[c])}]
    /\ "conn" \in child'[j].ev <=> batch'[j] # {}
    /\ armed' = armed \ Open(j)
    /\ UNCHANGED <<conn, owner, current, held>>

ProcessBegin(j) ==
    /\ Pool!ChildInBatch(j, "conn") /\ current[j] = 0
    /\ \E c \in batch[j] :
         /\ current' = [current EXCEPT ![j] = c]
         /\ batch' = [batch EXCEPT ![j] = @ \ {c}]
    /\ UNCHANGED <<poolVars, conn, owner, armed, held>>

\* One iteration of the loop of process().
Process(j) ==
    /\ current[j] # 0
    /\ \E c \in {current[j]} : \E s \in Received(conn[c]) :
         /\ conn' = [conn EXCEPT ![c] = s]
         /\ held' = [d \in Conns |-> held[d] \cup
                       (IF s.outcome = "ran" /\ d \in Open(j) THEN {c} ELSE {})]
         /\ current' = IF Loops(conn[c], s) THEN current ELSE [current EXCEPT ![j] = 0]
         /\ armed' = IF s.outcome = "none" THEN armed ELSE armed \ {c}
    /\ UNCHANGED <<poolVars, owner, batch>>

\* The pool counts the connections when all of the batch were processed.
ProcessEnd(j) ==
    /\ current[j] = 0 /\ batch[j] = {}
    /\ Pool!ChildProcess(j)
    /\ child'[j].conns = Cardinality(Open(j))
    /\ UNCHANGED connVars

\* With the child go its descriptors, wherever it is.
Goes(j) ==
    /\ conn' = [c \in DOMAIN conn |-> IF c \in Open(j) THEN Closed(conn[c], "gone") ELSE conn[c]]
    /\ armed' = armed \ Open(j)
    /\ batch' = [batch EXCEPT ![j] = {}]
    /\ current' = [current EXCEPT ![j] = 0]
    /\ UNCHANGED <<owner, held>>

EndBatch(j) ==
    /\ Pool!ChildEndBatch(j)
    /\ IF child[j].stop THEN Goes(j) ELSE UNCHANGED connVars

Crash(j) == Pool!Crash(j) /\ Goes(j)

\* What a child does without its connections, between two calls of process().
ChildAlone(j) ==
    /\ current[j] = 0
    /\ Pool!ChildSetup(j) \/ Pool!ChildRecvNote(j) \/ Pool!ChildSignal(j)
    /\ UNCHANGED connVars

ChildStep(j) ==
    \/ Accept(j) \/ EpollWait(j) \/ ProcessBegin(j) \/ Process(j) \/ ProcessEnd(j)
    \/ EndBatch(j) \/ ChildAlone(j)

-----------------------------------------------------------------------------
(* The clients, the programs, and the rest of the pool.                    *)

Arrive ==
    /\ Pool!Arrive
    /\ \E text \in Texts : conn' = Append(conn, Fresh(text))
    /\ UNCHANGED <<owner, armed, batch, current, held>>

\* What the client does is an edge once the connection was accepted.
ClientDoes(c, s) ==
    /\ conn' = [conn EXCEPT ![c] = s]
    /\ armed' = IF owner[c] # None /\ s.outcome = "none" THEN armed \cup {c} ELSE armed
    /\ UNCHANGED <<poolVars, owner, batch, current, held>>

\* A piece of the text comes.
Send(c) ==
    /\ conn[c].outcome = "none" /\ conn[c].end = "no"
    /\ \E n \in Cuts \cup {Len(conn[c].text)} :
         /\ n \in conn[c].sent + 1 .. Len(conn[c].text)
         /\ ClientDoes(c, [conn[c] EXCEPT !.sent = n])

\* The client closes the connection, or the connection fails.  What came before
\* either can still be received.
Leave(c) ==
    /\ conn[c].outcome = "none" /\ conn[c].end = "no"
    /\ \E end \in {"left", "reset"} : ClientDoes(c, [conn[c] EXCEPT !.end = end])

ProgramEnds(p) ==
    /\ p \in Programs
    /\ held' = [c \in Conns |-> held[c] \ {p}]
    /\ UNCHANGED <<poolVars, conn, owner, armed, batch, current>>

ParentStep == Pool!ParentStep /\ UNCHANGED connVars
Signals == (Pool!DeliverSignal \/ Pool!Terminate) /\ UNCHANGED connVars

Next ==
    \/ ParentStep \/ Signals
    \/ \E j \in Pool!Slots : ChildStep(j) \/ Crash(j)
    \/ Arrive
    \/ \E c \in DOMAIN conn : Send(c) \/ Leave(c)
    \/ \E p \in Conns : ProgramEnds(p)

\* Children are given the processor and programs end; nothing is assumed of
\* the parent and of clients.
Fairness ==
    /\ \A j \in Pool!Slots : WF_vars(ChildStep(j))
    /\ \A p \in Conns : WF_vars(ProgramEnds(p))

Spec == Init /\ [][Next]_vars /\ Fairness

-----------------------------------------------------------------------------
TypeOK ==
    /\ Pool!TypeOK
    /\ conn \in Seq(Connection) /\ Len(conn) = arrived
    /\ \A c \in DOMAIN conn : conn[c].m_read_idex <= Room
    /\ owner \in [Conns -> Pool!Slots \cup {None}]
    /\ armed \subseteq Conns
    /\ batch \in [Pool!Slots -> SUBSET Conns]
    /\ current \in [Pool!Slots -> 0 .. MaxConn]
    /\ held \in [Conns -> SUBSET Conns]

\* As ProcessPool!NotificationsBacked, with connections that really are processed:
\* in a pool of one, whose search leaves the array, no accept() is in vain.
NotificationsBacked == Pool!NotificationsBacked

\* removefd asserts that the descriptor was registered: a batch never names a
\* connection that was closed, by its own event or that of another.
ProcessesOpen ==
    \A j \in Pool!Slots : batch[j] \cup ({current[j]} \ {0}) \subseteq Open(j)

\* What becomes of a request is what its first line asks for: however the text
\* is cut into pieces, whenever they come, and whatever follows the line.
OutcomeOfText ==
    \A c \in DOMAIN conn :
        CASE conn[c].outcome \in {"ran", "nofork"} -> Verdict(conn[c].text) = "run"
          [] conn[c].outcome = "missing" -> Verdict(conn[c].text) = "missing"
          [] conn[c].outcome = "full" -> Verdict(conn[c].text) = "full"
          [] OTHER -> TRUE

\* What holds of the server in every state: its types, that no child is told of
\* a connection that is not there, that process() is called for open connections
\* only, and that each request gets what its first line asks for.
RequestsAnswered == TypeOK /\ NotificationsBacked /\ ProcessesOpen /\ OutcomeOfText

\* An accepted connection on which a whole line, a text longer than the buffer
\* or an end has come is closed by its child in the end, and its client sees
\* this when the programs have ended that were started while it was open: its
\* own and those of other clients, which hold the connection too.
Whole(s) == s.end # "no" \/ Verdict(SubSeq(s.text, 1, s.sent)) # "more"
Served ==
    \A c \in Conns :
        (c \in DOMAIN conn /\ owner[c] # None /\ Whole(conn[c]))
            ~> (c \in DOMAIN conn /\ conn[c].outcome # "none" /\ held[c] = {})

=============================================================================
