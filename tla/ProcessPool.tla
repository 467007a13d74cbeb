------------------------------- MODULE ProcessPool -------------------------------
(***************************************************************************)
(* The half-sync/half-async process pool of proccesspool.h: a parent that  *)
(* watches the listening socket and the signal pipe with an edge-triggered *)
(* epoll instance, and PoolSize children that it created with fork().  The *)
(* parent tells a child of a new connection by writing one int to the      *)
(* child's socketpair; the child reads it and accepts from the listening   *)
(* socket, which all processes share.  Signals reach both event loops as   *)
(* bytes that a handler writes to a socketpair ("unified event source").   *)
(*                                                                         *)
(* What is abstracted: a process id is the slot of the child that has it,  *)
(* the two ends of a socketpair are one queue, a notification is counted   *)
(* (its int is always 1) and a connection is counted (T::process decides   *)
(* only whether it stays open).  The ready list of an epoll instance is    *)
(* the set of its armed edges: an edge is armed by an arrival and disarmed *)
(* by the epoll_wait that reports it, not by the read that follows.        *)
(***************************************************************************)
EXTENDS Integers, Sequences, FiniteSets, Functions

CONSTANTS
    PoolSize,   \* pool_content, the number of children
    MaxConn,    \* bound: connections that clients open
    MaxCrash,   \* bound: children killed from outside (SIGKILL, a fault)
    MaxTerm     \* bound: SIGTERM/SIGINT sent to the parent

\* The constructor asserts 0 < pool_content <= MAX_CHILD_PROCESS.
ASSUME PoolSizeAssumption == PoolSize \in 1..16
ASSUME BoundsAssumption == MaxConn \in Nat /\ MaxCrash \in Nat /\ MaxTerm \in Nat

Slots == 0 .. PoolSize - 1
None == -1                             \* the m_pid of a slot whose child was joined
Signals == {"CHLD", "TERM"}            \* SIGINT is handled as SIGTERM is
ParentEvents == {"listen", "sig"}      \* listenfd and sig_pipefd[0]
ChildEvents == {"pipe", "sig", "conn"} \* m_pipefd[1], sig_pipefd[0], a client

Dead == {"zombie", "silent"}           \* "silent": its SIGCHLD had no handler
Running == {"wait", "loop", "accept"}  \* past setup_sig_pipe
Child == [st    : {"forked", "reaped"} \cup Running \cup Dead,
          notes : Nat,                 \* unread ints in m_pipefd
          ready : SUBSET {"pipe", "sig"}, \* armed edges; clients' data is not tracked
          ev    : SUBSET ChildEvents,  \* rest of the batch of the last epoll_wait
          sig   : BOOLEAN,             \* SIGTERM bytes unread in its signal pipe
          stop  : BOOLEAN,             \* its m_stop
          conns : Nat]                 \* client connections it serves

VARIABLES
    pstate,         \* "setup", "wait" (in epoll_wait), "loop", "exited", "killed", "hung"
    m_pid,          \* m_sub_process[j].m_pid
    child_counter,  \* where the search for a child starts
    m_stop,
    pready,         \* armed edges of the parent's epoll instance
    ev,             \* events of the batch still to be handled
    i,              \* index of the next event of the batch
    pend,           \* signals pending for the parent (a signal is pending once)
    sigpipe,        \* signals the handler wrote to the pipe, unread
    signal,         \* signals read from the pipe, still to be handled
    child,          \* the children, by slot
    backlog,        \* connections waiting in the listening socket
    arrived, crashes, terms  \* environment events so far, for the bounds

parentVars == <<pstate, m_pid, child_counter, m_stop, pready, ev, i>>
signalVars == <<pend, sigpipe, signal>>
envVars == <<arrived, crashes, terms>>
vars == <<parentVars, signalVars, child, backlog, envVars>>

\* proccesspool: the parent has forked every child, none has run yet.
Forked == [st |-> "forked", notes |-> 0, ready |-> {}, ev |-> {},
           sig |-> FALSE, stop |-> FALSE, conns |-> 0]

Init ==
    /\ pstate = "setup"
    /\ m_pid = [j \in Slots |-> j]
    /\ child_counter = 0
    /\ m_stop = FALSE
    /\ pready = {} /\ ev = {} /\ i = 0
    /\ pend = {} /\ sigpipe = <<>> /\ signal = <<>>
    /\ child = [j \in Slots |-> Forked]
    /\ backlog = 0
    /\ arrived = 0 /\ crashes = 0 /\ terms = 0

-----------------------------------------------------------------------------
(* The end of a process.  Its pipe and its connections are closed.  The    *)
(* parent gets SIGCHLD if it has installed the handler; before, the        *)
(* default action discards the signal and only the zombie remains.         *)

Listening == pstate \in {"wait", "loop"}
Alive(j) == child[j].st \in Running \cup {"forked"}

Gone(st) == [Forked EXCEPT !.st = st]
Corpse == Gone(IF Listening THEN "zombie" ELSE "silent")
RaisedBy(dying) ==
    IF Listening /\ dying # {} THEN pend \cup {"CHLD"} ELSE pend
Exit(j) ==
    /\ child' = [child EXCEPT ![j] = Corpse]
    /\ pend' = RaisedBy({j})

-----------------------------------------------------------------------------
(* The parent: run_parent.                                                 *)

\* setup_sig_pipe, then addfd(listenfd), which reports what already waits.
ParentSetup ==
    /\ pstate = "setup"
    /\ pstate' = "wait"
    /\ pready' = IF backlog > 0 THEN {"listen"} ELSE {}
    /\ UNCHANGED <<m_pid, child_counter, m_stop, ev, i,
                   signalVars, child, backlog, envVars>>

\* An armed edge is reported if its descriptor is readable now.
Readable(e) == IF e = "listen" THEN backlog > 0 ELSE sigpipe # <<>>

\* Faulty variant: the index is not reset for a new batch.
FirstIndexKept == i

\* for(int i = 0; ...)
FirstIndex == 0

EpollWait ==
    /\ pstate = "wait"
    /\ \E e \in pready : Readable(e)
    /\ ev' = {e \in pready : Readable(e)}
    /\ pready' = {}
    /\ i' = FirstIndex
    /\ pstate' = "loop"
    /\ UNCHANGED <<m_pid, child_counter, m_stop, signalVars, child, backlog, envVars>>

NextEvent(e) ==
    /\ ev' = ev \ {e}
    /\ i' = i + 1

InBatch(e) == pstate = "loop" /\ signal = <<>> /\ e \in ev

\* Faulty variant: counted one too far.
CounterFromNext(k) == (k + 2) \div PoolSize

\* The new child_counter is computed from the index of the event (line 231).
CounterAfter(k) == (k + 1) \div PoolSize

\* j is the first slot with a child, from child_counter on, cyclically.
FirstLive(j) ==
    /\ m_pid[j] # None
    /\ \A k \in Slots :
         (k - child_counter) % PoolSize < (j - child_counter) % PoolSize => m_pid[k] = None

\* Where the search may end.  If child_counter is past the array, which a pool of
\* one reaches, what m_sub_process[child_counter].m_pid reads is undefined: it may
\* read as a pid, or as -1, with which the search goes on at slot 0.
Found == {j \in Slots : FirstLive(j)} \cup ({child_counter} \ Slots)

\* send() of one int.  A child that has registered the pipe gets an edge; to
\* a child that has died it fails with EPIPE, which nobody looks at.
Notified(c) ==
    IF c.st \in Running THEN [c EXCEPT !.notes = @ + 1, !.ready = @ \cup {"pipe"}]
    ELSE IF c.st = "forked" THEN [c EXCEPT !.notes = @ + 1]
    ELSE c

\* A notification to what is past the array goes to some other descriptor.
Dispatch(j) ==
    /\ InBatch("listen")
    /\ j \in Found
    /\ NextEvent("listen")
    /\ child_counter' = CounterAfter(i)
    /\ child' = [k \in Slots |-> IF k = j THEN Notified(child[k]) ELSE child[k]]
    /\ UNCHANGED <<pstate, m_pid, m_stop, pready, signalVars, backlog, envVars>>

\* No slot has a child: the parent stops, the rest of the batch is dropped.  A
\* search that began past the array does not come back there, and never ends.
DispatchNone ==
    /\ InBatch("listen")
    /\ \A j \in Slots : m_pid[j] = None
    /\ IF child_counter \in Slots
       THEN m_stop' = TRUE /\ ev' = {} /\ UNCHANGED pstate
       ELSE pstate' = "hung" /\ UNCHANGED <<m_stop, ev>>
    /\ UNCHANGED <<m_pid, child_counter, pready, i, signalVars, child, backlog, envVars>>

\* recv() of the whole content of the signal pipe.
RecvSignals ==
    /\ InBatch("sig")
    /\ NextEvent("sig")
    /\ signal' = sigpipe
    /\ sigpipe' = <<>>
    /\ UNCHANGED <<pstate, m_pid, child_counter, m_stop, pready, pend,
                   child, backlog, envVars>>

\* case SIGCHLD: waitpid() until no zombie is left, clear the slots of the
\* joined, and stop if no slot has a child any more.
\*
\* Faulty variants: waitpid() once per SIGCHLD; stop at the first child
\* joined; m_stop not computed anew.
JoinedOne == {j \in Slots : /\ child[j].st \in Dead
                            /\ \A k \in Slots : child[k].st \in Dead => j <= k}
StopAtFirst(pid) == \E j \in Slots : pid[j] = None
StopKept(pid) == m_stop

Joined == {j \in Slots : child[j].st \in Dead}
StopAfter(pid) == \A j \in Slots : pid[j] = None

HandleChld ==
    /\ pstate = "loop" /\ signal # <<>> /\ Head(signal) = "CHLD"
    /\ signal' = Tail(signal)
    /\ child' = [j \in Slots |-> IF j \in Joined THEN Gone("reaped") ELSE child[j]]
    /\ m_pid' = [j \in Slots |-> IF j \in Joined THEN None ELSE m_pid[j]]
    /\ m_stop' = StopAfter(m_pid')
    /\ UNCHANGED <<pstate, child_counter, pready, ev, i, pend, sigpipe, backlog, envVars>>

\* kill(m_pid, SIGTERM): a child that has its handler will read the signal
\* from its own signal pipe; one that has not dies of the default action.
\*
\* Faulty variant: the child does not watch its signal pipe.
KilledUnwatched(c) ==
    IF c.st \in Running THEN [c EXCEPT !.sig = TRUE]
    ELSE IF c.st = "forked" THEN Gone("zombie")
    ELSE c

Killed(c) ==
    IF c.st \in Running THEN [c EXCEPT !.sig = TRUE, !.ready = @ \cup {"sig"}]
    ELSE IF c.st = "forked" THEN Gone("zombie")
    ELSE c

\* case SIGTERM, case SIGINT: kill every child that has not been joined.
HandleTerm ==
    /\ pstate = "loop" /\ signal # <<>> /\ Head(signal) = "TERM"
    /\ signal' = Tail(signal)
    /\ child' = [j \in Slots |-> IF m_pid[j] # None THEN Killed(child[j]) ELSE child[j]]
    /\ pend' = RaisedBy({j \in Slots : m_pid[j] # None /\ child[j].st = "forked"})
    /\ UNCHANGED <<parentVars, sigpipe, backlog, envVars>>

\* The end of the batch: while(!m_stop), after the loop the parent is done.
ParentEndBatch ==
    /\ pstate = "loop" /\ signal = <<>> /\ ev = {}
    /\ pstate' = IF m_stop THEN "exited" ELSE "wait"
    /\ UNCHANGED <<m_pid, child_counter, m_stop, pready, ev, i,
                   signalVars, child, backlog, envVars>>

\* sig_handler runs in the parent, at any point of its loop.
DeliverSignal ==
    /\ Listening
    /\ \E s \in pend :
         /\ pend' = pend \ {s}
         /\ sigpipe' = Append(sigpipe, s)
    /\ pready' = pready \cup {"sig"}
    /\ UNCHANGED <<pstate, m_pid, child_counter, m_stop, ev, i, signal,
                   child, backlog, envVars>>

ParentStep ==
    \/ ParentSetup \/ EpollWait \/ DispatchNone
    \/ \E j \in Found : Dispatch(j)
    \/ RecvSignals \/ HandleChld \/ HandleTerm \/ ParentEndBatch

-----------------------------------------------------------------------------
(* A child: run_child.                                                     *)

ChildOnly == UNCHANGED <<parentVars, signalVars, envVars>>

\* setup_sig_pipe, then addfd(pipefd), which reports what already waits.
ChildSetup(j) ==
    /\ child[j].st = "forked"
    /\ child' = [child EXCEPT ![j].st = "wait",
                              ![j].ready = IF child[j].notes > 0 THEN {"pipe"} ELSE {}]
    /\ ChildOnly /\ UNCHANGED backlog

\* epoll_wait: the armed edges that are readable and, when clients have sent
\* something, their connections.
ChildEpollWait(j) ==
    /\ child[j].st = "wait"
    /\ \E clients \in SUBSET (IF child[j].conns > 0 THEN {"conn"} ELSE {}) :
         LET batch == clients \cup
                        {e \in child[j].ready : IF e = "pipe" THEN child[j].notes > 0
                                                ELSE child[j].sig}
         IN /\ batch # {}
            /\ child' = [child EXCEPT ![j].st = "loop", ![j].ev = batch, ![j].ready = {}]
    /\ ChildOnly /\ UNCHANGED backlog

ChildInBatch(j, e) == child[j].st = "loop" /\ e \in child[j].ev

\* Faulty variant: the int is peeked at and stays in the pipe.
NotesKept(n) == n

\* One int is read, however many there are.
NotesLeft(n) == n - 1

ChildRecvNote(j) ==
    /\ ChildInBatch(j, "pipe")
    /\ child' = [child EXCEPT ![j].st = "accept",
                              ![j].ev = @ \ {"pipe"},
                              ![j].notes = NotesLeft(@)]
    /\ ChildOnly /\ UNCHANGED backlog

\* accept() on the shared, non-blocking listening socket, and T::init.
ChildAccept(j) ==
    /\ child[j].st = "accept"
    /\ LET n == IF backlog > 0 THEN 1 ELSE 0
       IN /\ backlog' = backlog - n
          /\ child' = [child EXCEPT ![j].st = "loop", ![j].conns = @ + n]
    /\ ChildOnly

ChildSignal(j) ==
    /\ ChildInBatch(j, "sig")
    /\ child' = [child EXCEPT ![j].ev = @ \ {"sig"},
                              ![j].stop = @ \/ child[j].sig,
                              ![j].sig = FALSE]
    /\ ChildOnly /\ UNCHANGED backlog

\* T::process of every connection of the batch: it waits for more of a request
\* or closes the connection.
ChildProcess(j) ==
    /\ ChildInBatch(j, "conn")
    /\ \E closed \in 0 .. child[j].conns :
         child' = [child EXCEPT ![j].ev = @ \ {"conn"}, ![j].conns = @ - closed]
    /\ ChildOnly /\ UNCHANGED backlog

\* The end of the batch.  m_stop is looked at here and only here.
ChildEndBatch(j) ==
    /\ child[j].st = "loop" /\ child[j].ev = {}
    /\ IF child[j].stop
       THEN Exit(j)
       ELSE child' = [child EXCEPT ![j].st = "wait"] /\ UNCHANGED pend
    /\ UNCHANGED <<parentVars, sigpipe, signal, backlog, envVars>>

ChildStep(j) ==
    \/ ChildSetup(j) \/ ChildEpollWait(j) \/ ChildRecvNote(j) \/ ChildAccept(j)
    \/ ChildSignal(j) \/ ChildProcess(j) \/ ChildEndBatch(j)

-----------------------------------------------------------------------------
(* The environment.                                                        *)

\* A connection is completed by the kernel; each one is an edge of listenfd.
Arrive ==
    /\ arrived < MaxConn
    /\ pstate # "exited"
    /\ arrived' = arrived + 1
    /\ backlog' = backlog + 1
    /\ pready' = IF Listening THEN pready \cup {"listen"} ELSE pready
    /\ UNCHANGED <<pstate, m_pid, child_counter, m_stop, ev, i,
                   signalVars, child, crashes, terms>>

\* A child dies without having been told to.
Crash(j) ==
    /\ crashes < MaxCrash
    /\ Alive(j)
    /\ crashes' = crashes + 1
    /\ Exit(j)
    /\ UNCHANGED <<parentVars, sigpipe, signal, backlog, arrived, terms>>

\* SIGTERM or SIGINT for the parent.  Before setup_sig_pipe it is fatal.
Terminate ==
    /\ terms < MaxTerm
    /\ terms' = terms + 1
    /\ \/ pstate = "setup" /\ pstate' = "killed" /\ UNCHANGED pend
       \/ Listening /\ pend' = pend \cup {"TERM"} /\ UNCHANGED pstate
    /\ UNCHANGED <<m_pid, child_counter, m_stop, pready, ev, i, sigpipe, signal,
                   child, backlog, arrived, crashes>>

Next ==
    \/ ParentStep
    \/ DeliverSignal
    \/ \E j \in Slots : ChildStep(j) \/ Crash(j)
    \/ Arrive
    \/ Terminate

Spec == Init /\ [][Next]_vars

\* Every process that can run is scheduled in the end, and a pending signal is
\* delivered in the end.  Nothing is assumed of clients, crashes or SIGTERM.
Fairness ==
    /\ WF_vars(ParentStep)
    /\ WF_vars(DeliverSignal)
    /\ \A j \in Slots : WF_vars(ChildStep(j))

FairSpec == Spec /\ Fairness

-----------------------------------------------------------------------------
(* Properties.                                                             *)

\* Types, and the bound that the size of a batch puts on child_counter.
ParentTypeOK ==
    /\ pstate \in {"setup", "wait", "loop", "exited", "killed", "hung"}
    /\ m_pid \in [Slots -> Slots \cup {None}]
    /\ child_counter \in 0..2
    /\ m_stop \in BOOLEAN
    /\ pready \subseteq ParentEvents /\ ev \subseteq ParentEvents /\ i \in 0..2
SignalTypeOK ==
    pend \subseteq Signals /\ sigpipe \in Seq(Signals) /\ signal \in Seq(Signals)
ChildTypeOK == child \in [Slots -> Child]
EnvTypeOK == backlog \in Nat /\ arrived \in Nat /\ crashes \in Nat /\ terms \in Nat

TypeOK == ParentTypeOK /\ SignalTypeOK /\ ChildTypeOK /\ EnvTypeOK

\* Line 216 promises round robin.  What the search of lines 217-225 and the
\* quotient of line 231 promise together is another order: while three or more
\* children were started, a child serves (it has been told of a connection, is
\* about to accept one or has one) only when every child before it has been joined.
Serves(j) == child[j].notes > 0 \/ child[j].st = "accept" \/ child[j].conns > 0
FirstServes ==
    PoolSize > 2 => \A j \in Slots : Serves(j) => \A k \in Slots : k < j => m_pid[k] = None

\* Every notification, wherever it is on its way (an armed or reported edge
\* of the parent, an int in a child's pipe, a child about to accept), has a
\* waiting connection of its own.  So no accept() of a child that was told
\* to accept fails, whatever the other children took meanwhile.
Edges == Cardinality({"listen"} \cap pready) + Cardinality({"listen"} \cap ev)
Accepting == {j \in Slots : child[j].st = "accept"}
NotificationsBacked ==
    SumFunction([j \in Slots |-> child[j].notes]) + Cardinality(Accepting) + Edges <= backlog

\* When the event loop of the parent has ended, every child has exited and has
\* been joined: no orphan and no zombie (lines 271-280).
NoOrphans == pstate = "exited" => \A j \in Slots : child[j].st = "reaped"

\* A zombie whose death was signalled is going to be joined: the SIGCHLD is
\* pending, or unread in the pipe with an edge that will wake the parent, or
\* among the signals being handled.  One SIGCHLD may stand for many deaths.
Unread(s) == s \in Range(sigpipe) /\ "sig" \in pready \cup ev
SigchldNotLost ==
    (Listening /\ \E j \in Slots : child[j].st = "zombie")
        => "CHLD" \in pend \/ Unread("CHLD") \/ "CHLD" \in Range(signal)

\* SIGTERM to a parent that has set up its handlers ends the whole pool: it is
\* passed on to every child, all are joined and the parent leaves its loop,
\* whatever else happens, provided that the parent will hear or has heard of
\* some child's death.
TermCompletes ==
    ("TERM" \in pend /\ \E j \in Slots : child[j].st # "silent") ~> (pstate = "exited")

\* When all children have died, the parent exits too (line 271), if it was
\* told of one of the deaths.
AllDead == \A j \in Slots : ~ Alive(j)
DeadPoolExits ==
    (Listening /\ AllDead /\ \E j \in Slots : child[j].st = "zombie") ~> (pstate = "exited")

=============================================================================
