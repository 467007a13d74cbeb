------------------------------- MODULE MCPrograms -------------------------------
(***************************************************************************)
(* Six programs that share nothing, for TLC: the timer list of lst_timer.h *)
(* under the program that its comments describe (SortedTimerList) and      *)
(* under its only user in the repository (IdleServer), and the four small  *)
(* event programs.  The program is chosen at the beginning, from those of  *)
(* the run; the variables of the others stay 0.                            *)
(***************************************************************************)
EXTENDS Naturals, FiniteSets, TLC

CONSTANTS
    Programs,                              \* those of the run
    Timer, NULL, MaxTime, TIMESLOT, Sizes, \* of the list and its two programs
    Room, MaxClients, MaxSent,             \* of several programs
    MaxSignals,                            \* SignalServer
    Links, MaxAnswers,                     \* StressTest
    MaxWait                                \* NonblockConnect

ASSUME TimerAssumption == IsFiniteSet(Timer) /\ NULL \notin Timer
ASSUME BoundAssumption ==
    /\ MaxTime \in Nat /\ TIMESLOT \in Nat
    /\ Sizes \subseteq Nat /\ Room \in Nat \ {0}
    /\ MaxClients \in Nat /\ MaxSent \in Nat
ASSUME SmallAssumption ==
    MaxSignals \in Nat /\ Links \in Nat /\ MaxAnswers \in Nat /\ MaxWait \in Nat

VARIABLES
    program,
    l, now,                                             \* of the list's programs
    ticking, fired, emptied, spoiled,                   \* SortedTimerList
    timer, deprived,                                     \* IdleServer
    pc, i, ret, ready, backlog, arrived, sock,          \* of several programs
    epet, signals, sent,
    stop_server, accepted, raised,                      \* SignalServer
    events, udp,                                        \* EchoServer
    links, batch, answered,                             \* StressTest
    socket, nonblocking, handshake, waited, result      \* NonblockConnect

listVars == <<ticking, fired, emptied, spoiled>>
timerVars == <<l, now, listVars, timer, deprived>>
loopVars == <<i, ret, backlog, arrived>>
arrayVars == <<epet, signals>>
signalOnly == <<stop_server, accepted, raised>>
echoOnly == <<events, udp>>
stressOnly == <<links, batch, answered>>
connectOnly == <<socket, nonblocking, handshake, waited, result>>
vars == <<program, pc, ready, sock, sent, timerVars, loopVars, arrayVars,
          signalOnly, echoOnly, stressOnly, connectOnly>>

List == INSTANCE SortedTimerList
Idle == INSTANCE IdleServer
Signal == INSTANCE SignalServer
Echo == INSTANCE EchoServer
Stress == INSTANCE StressTest
Connect == INSTANCE NonblockConnect

NoList == ticking = 0 /\ fired = 0 /\ emptied = 0 /\ spoiled = 0
NoTimers == l = 0 /\ now = 0 /\ timer = 0 /\ deprived = 0 /\ NoList
NoLoop == i = 0 /\ ret = 0 /\ backlog = 0 /\ arrived = 0
NoArray == epet = 0 /\ signals = 0
NoSignal == stop_server = 0 /\ accepted = 0 /\ raised = 0
NoEcho == events = 0 /\ udp = 0
NoStress == links = 0 /\ batch = 0 /\ answered = 0
NoConnect == socket = 0 /\ nonblocking = 0 /\ handshake = 0 /\ waited = 0 /\ result = 0

Init ==
    /\ program \in Programs
    /\ \/ /\ program = "list" /\ List!Init /\ timer = 0 /\ deprived = 0
          /\ pc = 0 /\ ready = 0 /\ sock = 0 /\ sent = 0 /\ NoLoop /\ NoArray
          /\ NoSignal /\ NoEcho /\ NoStress /\ NoConnect
       \/ program = "idle" /\ Idle!Init
          /\ NoList /\ NoSignal /\ NoEcho /\ NoStress /\ NoConnect
       \/ program = "signal" /\ Signal!Init /\ sock = 0 /\ sent = 0
          /\ NoTimers /\ NoEcho /\ NoStress /\ NoConnect
       \/ program = "echo" /\ Echo!Init
          /\ NoTimers /\ NoArray /\ NoSignal /\ NoStress /\ NoConnect
       \/ program = "stress" /\ Stress!Init /\ sent = 0
          /\ NoTimers /\ NoLoop /\ NoArray /\ NoSignal /\ NoEcho /\ NoConnect
       \/ program = "connect" /\ Connect!Init /\ ready = 0 /\ sock = 0 /\ sent = 0
          /\ NoTimers /\ NoLoop /\ NoArray /\ NoSignal /\ NoEcho /\ NoStress

\* A step of a program leaves the variables of the others alone.
InList ==
    program = "list" /\ UNCHANGED <<program, pc, ready, sock, sent, timer, deprived, loopVars, arrayVars,
                                    signalOnly, echoOnly, stressOnly, connectOnly>>
InIdle ==
    program = "idle" /\ UNCHANGED <<program, listVars, signalOnly, echoOnly, stressOnly, connectOnly>>
InSignal ==
    program = "signal" /\ UNCHANGED <<program, sock, sent, timerVars, echoOnly, stressOnly, connectOnly>>
InEcho ==
    program = "echo" /\ UNCHANGED <<program, timerVars, arrayVars, signalOnly, stressOnly, connectOnly>>
InStress ==
    program = "stress" /\ UNCHANGED <<program, sent, timerVars, loopVars, arrayVars,
                                      signalOnly, echoOnly, connectOnly>>
InConnect ==
    program = "connect" /\ UNCHANGED <<program, ready, sock, sent, timerVars, loopVars, arrayVars,
                                       signalOnly, echoOnly, stressOnly>>

Next ==
    \/ InList /\ List!Next
    \/ InIdle /\ Idle!Next
    \/ InSignal /\ Signal!Next
    \/ InEcho /\ Echo!Next
    \/ InStress /\ Stress!Next
    \/ InConnect /\ Connect!Next

\* The fairness of each program; of the first two only safety is checked.
Fairness ==
    /\ WF_vars(InSignal /\ Signal!Server)
    /\ WF_vars(InEcho /\ Echo!Server)
    /\ WF_vars(InStress /\ Stress!Tester)
    /\ \A fd \in Stress!Fd : WF_vars(InStress /\ (Stress!TakesRequest(fd) \/ Stress!Refused(fd)))
    /\ WF_vars(InConnect /\ Connect!Caller) /\ WF_vars(InConnect /\ Connect!Second)

Spec == Init /\ [][Next]_vars /\ Fairness

\* One address is as good as another.
Symmetry == Permutations(Timer)

-----------------------------------------------------------------------------
(* The properties of the list's programs; the modules say what they mean.  *)

\* While a timer put in by a search is not touched, lst_timer.h meets every timer
\* in order, has no wrong pointer but the prev of those timers, and follows no
\* deleted one.
ListSound == program = "list" => List!ListSound

\* Until a timer put in by a search is moved or deleted, tick() fires in order of
\* time and leaves none that is due.
TicksInOrder ==
    /\ [][program = "list" => List!FiresInOrder]_<<l, listVars>>
    /\ [][program = "list" => List!LeavesNoneDue]_<<l, listVars>>

\* While ServerTest8 runs, its list is in order, and is that of its open connections
\* but for those that an entry left over in the array has deprived of their timer.
ListMatchesConnections == program = "idle" => Idle!TypeOK /\ Idle!ListMatchesConnections

-----------------------------------------------------------------------------
(* The properties of the small programs.                                   *)

TypeOK ==
    CASE program = "signal" -> Signal!TypeOK
      [] program = "echo" -> Echo!TypeOK
      [] program = "stress" -> Stress!TypeOK
      [] program = "connect" -> Connect!TypeOK
      [] OTHER -> TRUE

\* No call of these programs meets what it does not expect: an accept() of
\* ServerTest7 and ServerTest5 always gets the connection that their assertions
\* ask for, the stress tester never waits in a receive or a send, and
\* nonblock_connect returns only descriptors that were connected.
CallsMeetTheirState ==
    /\ TypeOK
    /\ program = "signal" => Signal!AssertHolds
    /\ program = "echo" => Echo!AssertHolds
    /\ program = "stress" => Stress!NeverWaits
    /\ program = "connect" => Connect!ReturnsConnected

\* ServerTest5 reads what a client has sent on an accepted connection, and closes
\* the connection of a client that leaves or fails, unless SIGPIPE ends it.
EchoServes(fd) ==
    /\ program = "echo" /\ sock[fd].bytes > 0 ~>
           program = "echo" /\ (sock[fd].bytes = 0 \/ pc = "killed")
    /\ program = "echo" /\ sock[fd].end # "no" ~>
           program = "echo" /\ (~ sock[fd].open \/ pc = "killed")

\* The stress tester reads every answer, and removes every connection that the
\* server has ended, unless SIGPIPE ends it.
StressGone(fd) == sock[fd].state = "closed" \/ Stress!Killed
StressServes(fd) ==
    /\ program = "stress" /\ sock[fd].answers > 0 ~>
           program = "stress" /\ (sock[fd].answers = 0 \/ StressGone(fd))
    /\ program = "stress" /\ (sock[fd].end \/ sock[fd].error # "no") ~>
           program = "stress" /\ StressGone(fd)

\* Edges are enough for the two programs that read connections by them: whatever
\* arrives while an event is handled is read in the end, and every connection
\* that ends is closed.
EdgesSuffice ==
    /\ \A fd \in Echo!Fd : EchoServes(fd)
    /\ \A fd \in Stress!Fd : StressServes(fd)

\* SIGTERM ends ServerTest7 wherever it is met, and nonblock_connect returns
\* though the handshake may never end.
ComesToAnEnd ==
    /\ program = "signal" /\ Signal!TermPending ~> pc = "ended"
    /\ program = "connect" /\ pc = "connect" ~> pc = "returned"

=============================================================================
