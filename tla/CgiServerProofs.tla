----------------------------- MODULE CgiServerProofs -----------------------------
(***************************************************************************)
(* Proofs about CgiServer.  The server is shown to be a process pool: every *)
(* step of it is a step of ProcessPool or leaves the pool alone.  What was  *)
(* proved of the pool then holds of the server, and an invariant of the     *)
(* connections is added to it.                                              *)
(***************************************************************************)
EXTENDS CgiServer, SequenceTheorems, TLAPS

\* The pool again, with what ProcessPoolProofs proves of it.
P == INSTANCE ProcessPoolProofs

-----------------------------------------------------------------------------
(* The server is a pool.                                                   *)

LEMMA ChildStepIsPoolStep ==
    ASSUME NEW j \in Pool!Slots, ChildStep(j) \/ Crash(j)
    PROVE  Pool!Next \/ UNCHANGED poolVars
<1>1. CASE Accept(j)
  BY <1>1 DEF Accept, Pool!Next, Pool!ChildStep
<1>2. CASE EpollWait(j)
  BY <1>2 DEF EpollWait, Pool!Next, Pool!ChildStep
<1>3. CASE ProcessBegin(j) \/ Process(j)
  BY <1>3 DEF ProcessBegin, Process
<1>4. CASE ProcessEnd(j)
  BY <1>4 DEF ProcessEnd, Pool!Next, Pool!ChildStep
<1>5. CASE EndBatch(j)
  BY <1>5 DEF EndBatch, Pool!Next, Pool!ChildStep
<1>6. CASE ChildAlone(j)
  BY <1>6 DEF ChildAlone, Pool!Next, Pool!ChildStep
<1>7. CASE Crash(j)
  BY <1>7 DEF Crash, Pool!Next
<1>8. QED
  BY <1>1, <1>2, <1>3, <1>4, <1>5, <1>6, <1>7 DEF ChildStep

LEMMA StepIsPoolStep == [Next]_vars => [Pool!Next]_(Pool!vars)
<1>1. UNCHANGED poolVars => UNCHANGED Pool!vars
  BY DEF poolVars, Pool!vars, Pool!parentVars, Pool!signalVars, Pool!envVars
<1>2. ASSUME Next
      PROVE  Pool!Next \/ UNCHANGED poolVars
  <2>1. CASE ParentStep
    BY <2>1 DEF ParentStep, Pool!Next
  <2>2. CASE Signals
    BY <2>2 DEF Signals, Pool!Next
  <2>3. CASE \E j \in Pool!Slots : ChildStep(j) \/ Crash(j)
    BY <2>3, ChildStepIsPoolStep
  <2>4. CASE Arrive
    BY <2>4 DEF Arrive, Pool!Next
  <2>5. CASE \E c \in DOMAIN conn : Send(c) \/ Leave(c)
    BY <2>5 DEF Send, Leave, ClientDoes
  <2>6. CASE \E p \in Conns : ProgramEnds(p)
    BY <2>6 DEF ProgramEnds
  <2>7. QED
    BY <1>2, <2>1, <2>2, <2>3, <2>4, <2>5, <2>6 DEF Next
<1>3. QED
  BY <1>1, <1>2 DEF vars

\* The CGI server implements the process pool: whatever cgi_conn does in a child,
\* proccesspool<cgi_conn> behaves as proccesspool does for any T.
THEOREM ImplementsPool == Spec => Pool!Spec
<1>1. Init => Pool!Init
  BY DEF Init
<1>2. QED
  BY <1>1, StepIsPoolStep, PTL DEF Spec, Pool!Spec


LEMMA SameInit == Pool!Init <=> P!Init
  BY DEF
       Pool!Init, Pool!Forked, Pool!Slots, P!Init, P!Forked, P!Slots

LEMMA SameTypeOK == Pool!TypeOK <=> P!TypeOK
  BY DEF
       Pool!TypeOK, Pool!EnvTypeOK, Pool!ChildTypeOK, Pool!Child, Pool!ChildEvents,
       Pool!Dead, Pool!Running, Pool!Slots, Pool!SignalTypeOK, Pool!Signals,
       Pool!ParentTypeOK, Pool!ParentEvents, Pool!None, P!TypeOK, P!EnvTypeOK,
       P!ChildTypeOK, P!Child, P!ChildEvents, P!Dead, P!Running, P!Slots,
       P!SignalTypeOK, P!Signals, P!ParentTypeOK, P!ParentEvents, P!None

LEMMA SameNotificationsBacked == Pool!NotificationsBacked <=> P!NotificationsBacked
  BY DEF
       Pool!NotificationsBacked, Pool!Edges, Pool!Accepting, Pool!Slots,
       Pool!Cardinality, Pool!SumFunction, Pool!SumFunctionOnSet,
       Pool!FoldFunctionOnSet, Pool!MapThenFoldSet,
       P!NotificationsBacked, P!Edges, P!Accepting, P!Slots,
       P!Cardinality, P!SumFunction, P!SumFunctionOnSet,
       P!FoldFunctionOnSet, P!MapThenFoldSet

LEMMA SameNext == Pool!Next <=> P!Next
  BY DEF
       Pool!Next, Pool!Terminate, Pool!Listening, Pool!Arrive, Pool!signalVars,
       Pool!Crash, Pool!parentVars, Pool!Exit, Pool!RaisedBy, Pool!Corpse,
       Pool!Gone, Pool!Forked, Pool!Alive, Pool!Running, Pool!ChildStep,
       Pool!ChildEndBatch, Pool!envVars, Pool!ChildProcess, Pool!ChildOnly,
       Pool!ChildInBatch, Pool!ChildSignal, Pool!ChildAccept, Pool!ChildRecvNote,
       Pool!NotesLeft, Pool!ChildEpollWait, Pool!ChildSetup, Pool!Slots,
       Pool!DeliverSignal, Pool!ParentStep, Pool!ParentEndBatch, Pool!HandleTerm,
       Pool!None, Pool!Killed, Pool!HandleChld, Pool!StopAfter, Pool!Joined,
       Pool!Dead, Pool!RecvSignals, Pool!NextEvent, Pool!InBatch, Pool!Dispatch,
       Pool!Notified, Pool!CounterAfter, Pool!Found, Pool!FirstLive,
       Pool!DispatchNone, Pool!EpollWait, Pool!FirstIndex, Pool!Readable,
       Pool!ParentSetup, P!Next, P!Terminate, P!Listening, P!Arrive, P!signalVars,
       P!Crash, P!parentVars, P!Exit, P!RaisedBy, P!Corpse, P!Gone, P!Forked,
       P!Alive, P!Running, P!ChildStep, P!ChildEndBatch, P!envVars, P!ChildProcess,
       P!ChildOnly, P!ChildInBatch, P!ChildSignal, P!ChildAccept, P!ChildRecvNote,
       P!NotesLeft, P!ChildEpollWait, P!ChildSetup, P!Slots, P!DeliverSignal,
       P!ParentStep, P!ParentEndBatch, P!HandleTerm, P!None, P!Killed, P!HandleChld,
       P!StopAfter, P!Joined, P!Dead, P!RecvSignals, P!NextEvent, P!InBatch,
       P!Dispatch, P!Notified, P!CounterAfter, P!Found, P!FirstLive, P!DispatchNone,
       P!EpollWait, P!FirstIndex, P!Readable, P!ParentSetup



LEMMA SameFirstServes == Pool!FirstServes <=> P!FirstServes
  BY DEF
       Pool!FirstServes, Pool!Serves, Pool!Slots, Pool!None,
       P!FirstServes, P!Serves, P!Slots, P!None

LEMMA SameNoOrphans == Pool!NoOrphans <=> P!NoOrphans
  BY DEF
       Pool!NoOrphans, Pool!Slots, P!NoOrphans, P!Slots

LEMMA SameSigchldNotLost == Pool!SigchldNotLost <=> P!SigchldNotLost
  BY DEF
       Pool!SigchldNotLost, Pool!Unread, Pool!Slots, Pool!Listening, Pool!Range,
       P!SigchldNotLost, P!Unread, P!Slots, P!Listening, P!Range

LEMMA SameSpec == Pool!Spec => P!Spec
<1>1. UNCHANGED Pool!vars => UNCHANGED P!vars
  BY DEF Pool!vars, Pool!parentVars, Pool!signalVars, Pool!envVars,
         P!vars, P!parentVars, P!signalVars, P!envVars
<1>2. [Pool!Next]_(Pool!vars) => [P!Next]_(P!vars)
  BY <1>1, SameNext
<1>3. QED
  BY <1>2, SameInit, PTL DEF Pool!Spec, P!Spec

\* What is proved of the pool is true of the server, whatever its connections do: its
\* types, a waiting connection for each notification, the order in which children serve,
\* that a parent which has left its loop leaves no child behind, and that no SIGCHLD is lost.
PoolHolds ==
    /\ Pool!TypeOK /\ Pool!NotificationsBacked
    /\ Pool!FirstServes /\ Pool!NoOrphans /\ Pool!SigchldNotLost

THEOREM PoolStaysSound == Spec => []PoolHolds
<1>1. Pool!Spec => []P!TypeOK
  BY PoolAssumption, SameSpec, P!TypeCorrect
<1>2. Pool!Spec => []P!NotificationsBacked
  BY PoolAssumption, SameSpec, P!NotesBacked
<1>3. Pool!Spec => []P!FirstServes
  BY PoolAssumption, SameSpec, P!InOrder
<1>4. Pool!Spec => []P!NoOrphans
  BY PoolAssumption, SameSpec, P!NoOrphansLeft
<1>5. Pool!Spec => []P!SigchldNotLost
  BY PoolAssumption, SameSpec, P!NoSigchldLost
<1>6. /\ P!TypeOK /\ P!NotificationsBacked
      /\ P!FirstServes /\ P!NoOrphans /\ P!SigchldNotLost
      => PoolHolds
  BY SameTypeOK, SameNotificationsBacked, SameFirstServes, SameNoOrphans,
     SameSigchldNotLost DEF PoolHolds
<1>7. QED
  BY <1>1, <1>2, <1>3, <1>4, <1>5, <1>6, ImplementsPool, PTL



-----------------------------------------------------------------------------
(* One connection: what its first line asks for, however it is received.   *)

LEMMA MinIs ==
    ASSUME NEW S, S \subseteq Nat, S # {}
    PROVE  Min(S) \in S /\ \A k \in S : Min(S) <= k
<1>1. \E m \in S : \A k \in S : m <= k
  BY PoolAssumption, P!Least
<1>2. QED
  BY <1>1 DEF Min

\* The first line ends at k, where a line ends and none ended before.
LEMMA FirstLineIs ==
    ASSUME NEW text \in Seq(STRING), NEW k \in 1 .. Len(text), CompleteAt(text, k),
           \A j \in 1 .. k - 1 : ~ CompleteAt(text, j)
    PROVE  FirstLine(text) = k
<1> DEFINE ends == {j \in 1 .. Len(text) : CompleteAt(text, j)}
<1>1. k \in ends /\ ends \subseteq Nat
  OBVIOUS
<1>2. Min(ends) \in ends /\ Min(ends) <= k
  BY <1>1, MinIs
<1>3. Min(ends) = k
  BY <1>1, <1>2
<1>4. QED
  BY <1>1, <1>3 DEF FirstLine

\* Where no line ends in the first n bytes, the first line is not among them.
LEMMA FirstLineIsNot ==
    ASSUME NEW text \in Seq(STRING), NEW n \in Nat,
           \A j \in 1 .. n : ~ CompleteAt(text, j)
    PROVE  FirstLine(text) \notin 1 .. n
<1> DEFINE ends == {j \in 1 .. Len(text) : CompleteAt(text, j)}
<1>1. CASE ends = {}
  BY <1>1 DEF FirstLine
<1>2. CASE ends # {}
  <2>1. Min(ends) \in ends
    <3>1. ends \subseteq Nat
      OBVIOUS
    <3>2. QED
      BY <1>2, <3>1, MinIs
  <2>2. CompleteAt(text, Min(ends)) /\ FirstLine(text) = Min(ends)
    BY <1>2, <2>1 DEF FirstLine
  <2>3. QED
    BY <2>2
<1>3. QED
  BY <1>1, <1>2

\* What became of the request is what its first line asks for.
AsAsked(s) ==
    /\ s.outcome \in {"ran", "nofork"} => Verdict(s.text) = "run"
    /\ s.outcome = "missing" => Verdict(s.text) = "missing"
    /\ s.outcome = "full" => Verdict(s.text) = "full"

\* A connection of the server: not more was received than was sent and than the buffer
\* holds, and while it is open no line ends in what was received.
GoodConn(s) ==
    /\ s \in Connection
    /\ s.m_read_idex <= s.sent /\ s.sent <= Len(s.text) /\ s.m_read_idex <= Room
    /\ s.outcome = "none" => \A k \in 1 .. s.m_read_idex : ~ CompleteAt(s.text, k)
    /\ AsAsked(s)

LEMMA ConnText ==
    ASSUME NEW s \in Connection
    PROVE  /\ s.text \in Seq(STRING) /\ Len(s.text) \in Nat
           /\ s.sent \in Nat /\ s.m_read_idex \in Nat /\ Room \in Nat
<1>1. s.text \in Texts /\ s.sent \in Nat /\ s.m_read_idex \in Nat
  BY DEF Connection
<1>2. s.text \in Seq(STRING) /\ Room \in Nat
  BY <1>1, TextAssumption
<1>3. Len(s.text) \in Nat
  BY <1>2
<1>4. QED
  BY <1>1, <1>2, <1>3

LEMMA FreshIsGood ==
    ASSUME NEW text \in Texts
    PROVE  GoodConn(Fresh(text)) /\ Fresh(text).outcome = "none"
<1>1. Fresh(text) \in Connection
  BY DEF Fresh, Connection, Outcome
<1>2. QED
  BY <1>1, ConnText DEF Fresh, GoodConn, AsAsked

\* A closed connection is good if its outcome is as asked.
LEMMA ClosedIsGood ==
    ASSUME NEW s \in Connection, NEW why \in Outcome \ {"none"},
           why \in {"ran", "nofork"} => Verdict(s.text) = "run",
           why = "missing" => Verdict(s.text) = "missing",
           why = "full" => Verdict(s.text) = "full"
    PROVE  /\ GoodConn(Closed(s, why))
           /\ Closed(s, why).outcome = why /\ Closed(s, why).text = s.text
<1>1. s.text \in Texts
  BY DEF Connection
<1>2. Closed(s, why) = [text |-> s.text, sent |-> 0, end |-> "no", m_read_idex |-> 0,
                        outcome |-> why]
  BY DEF Closed, Fresh
<1>3. Closed(s, why) \in Connection
  BY <1>1, <1>2 DEF Connection
<1>4. QED
  BY <1>2, <1>3, ConnText DEF GoodConn, AsAsked



\* One receive of process() and what it does with the bytes.
LEMMA ReceivedIsGood ==
    ASSUME NEW s, GoodConn(s), s.outcome = "none", NEW t \in Received(s)
    PROVE  GoodConn(t)
<1>1. /\ s \in Connection /\ s.text \in Seq(STRING) /\ Len(s.text) \in Nat
      /\ s.sent \in Nat /\ s.m_read_idex \in Nat /\ Room \in Nat
      /\ s.m_read_idex <= s.sent /\ s.sent <= Len(s.text) /\ s.m_read_idex <= Room
      /\ \A k \in 1 .. s.m_read_idex : ~ CompleteAt(s.text, k)
  BY ConnText DEF GoodConn
<1>2. Unread(s) \in Nat
  BY <1>1 DEF Unread
<1>3. CASE Unread(s) = 0
  <2>1. t \in {s, Closed(s, "left"), Closed(s, "failed")}
    <3>1. s.end \in {"no", "left", "reset"}
      BY <1>1 DEF Connection
    <3>2. QED
      BY <1>3, <3>1 DEF Received
  <2>2. GoodConn(Closed(s, "left")) /\ GoodConn(Closed(s, "failed"))
    BY <1>1, ClosedIsGood DEF Outcome
  <2>3. QED
    BY <2>1, <2>2
<1>4. CASE Unread(s) # 0
  <2> DEFINE idx == s.m_read_idex + Takes(s)
             more == [s EXCEPT !.m_read_idex = idx]
             ends == LineEnds(s, s.m_read_idex, idx)
  <2>1. /\ Takes(s) \in Nat /\ idx \in Nat /\ idx <= s.sent /\ idx <= Room
        /\ Takes(s) = 0 => s.m_read_idex = Room
    <3>1. {Unread(s), Room - s.m_read_idex} \subseteq Nat
      BY <1>1, <1>2
    <3>2. /\ Takes(s) \in {Unread(s), Room - s.m_read_idex}
          /\ Takes(s) <= Unread(s) /\ Takes(s) <= Room - s.m_read_idex
      BY <3>1, MinIs DEF Takes
    <3>3. QED
      BY <1>1, <1>2, <1>4, <3>1, <3>2 DEF Unread
  <2>2. CASE Takes(s) = 0
    <3>1. t = Closed(s, "full")
      BY <1>4, <2>2 DEF Received
    <3>2. s.m_read_idex = Room /\ Len(s.text) > Room
      BY <1>1, <1>4, <2>1, <2>2 DEF Unread
    <3>3. FirstLine(s.text) \notin 1 .. Room
      BY <1>1, <3>2, FirstLineIsNot
    <3>4. Verdict(s.text) = "full"
      BY <3>2, <3>3 DEF Verdict
    <3>5. QED
      BY <1>1, <3>1, <3>4, ClosedIsGood DEF Outcome
  <2>3. /\ more \in Connection /\ more.m_read_idex = idx
        /\ more.text = s.text /\ more.sent = s.sent /\ more.outcome = "none"
    BY <1>1, <2>1 DEF Connection, GoodConn
  <2>4. CASE Takes(s) # 0 /\ ends = {}
    <3>1. t = more
      BY <1>4, <2>4 DEF Received
    <3>2. ASSUME NEW k \in 1 .. idx
          PROVE  ~ CompleteAt(s.text, k)
      <4>1. k \in 1 .. s.m_read_idex \/ k \in s.m_read_idex + 1 .. idx
        BY <1>1, <2>1, <3>2
      <4>2. QED
        BY <1>1, <2>4, <4>1 DEF LineEnds
    <3>3. QED
      BY <1>1, <2>1, <2>3, <3>1, <3>2 DEF GoodConn, AsAsked
  <2>5. CASE Takes(s) # 0 /\ ends # {}
    <3> DEFINE k == Min(ends)
    <3>1. ends \subseteq Nat
      BY <1>1, <2>1 DEF LineEnds
    <3>2. k \in ends /\ \A e \in ends : k <= e
      BY <2>5, <3>1, MinIs
    <3>3. k \in s.m_read_idex + 1 .. idx /\ CompleteAt(s.text, k)
      BY <3>2 DEF LineEnds
    <3>4. k \in 1 .. Len(s.text) /\ k \in 1 .. Room
      BY <1>1, <2>1, <3>3
    <3>5. ASSUME NEW e \in 1 .. k - 1
          PROVE  ~ CompleteAt(s.text, e)
      <4>1. e \in 1 .. s.m_read_idex \/ (e \in s.m_read_idex + 1 .. idx /\ e < k)
        BY <1>1, <2>1, <3>3, <3>5
      <4>2. QED
        BY <1>1, <3>2, <4>1 DEF LineEnds
    <3>6. FirstLine(s.text) = k
      BY <1>1, <3>3, <3>4, <3>5, FirstLineIs
    <3>7. Verdict(s.text) = IF Path(s, k) \in Files THEN "run" ELSE "missing"
      BY <3>4, <3>6 DEF Verdict, Path
    <3>8. CASE Path(s, k) \notin Files
      <4>1. t = Closed(more, "missing")
        BY <1>4, <2>5, <3>8 DEF Received
      <4>2. QED
        BY <2>3, <3>7, <3>8, <4>1, ClosedIsGood DEF Outcome
    <3>9. CASE Path(s, k) \in Files
      <4>1. t \in {Closed(more, "nofork"), Closed(more, "ran")}
        BY <1>4, <2>5, <3>9 DEF Received
      <4>2. GoodConn(Closed(more, "nofork")) /\ GoodConn(Closed(more, "ran"))
        BY <2>3, <3>7, <3>9, ClosedIsGood DEF Outcome
      <4>3. QED
        BY <4>1, <4>2
    <3>10. QED
      BY <3>8, <3>9
  <2>6. QED
    BY <2>2, <2>4, <2>5
<1>5. QED
  BY <1>3, <1>4

\* A piece that comes, and the ends that a client makes.
LEMMA ClientKeepsGood ==
    ASSUME NEW s, GoodConn(s), NEW n \in Nat, n >= s.m_read_idex, n <= Len(s.text),
           NEW e \in {"no", "left", "reset"}
    PROVE  GoodConn([s EXCEPT !.sent = n, !.end = e])
<1> DEFINE t == [s EXCEPT !.sent = n, !.end = e]
<1>1. s \in Connection
  BY DEF GoodConn
<1>2. /\ t \in Connection /\ t.sent = n /\ t.m_read_idex = s.m_read_idex
      /\ t.text = s.text /\ t.outcome = s.outcome
  BY <1>1 DEF Connection
<1>3. QED
  BY <1>2 DEF GoodConn, AsAsked



-----------------------------------------------------------------------------
(* The connections and the children that have them.                        *)

\* Slot j is handling its clients' events.
InProcess(j) == child[j].st = "loop" /\ "conn" \in child[j].ev

\* Every arrived connection is a good one.
ConnsInv ==
    /\ conn \in Seq(Connection) /\ Len(conn) = arrived /\ arrived <= MaxConn
    /\ \A c \in DOMAIN conn : GoodConn(conn[c])

\* The connections that wait are the last that arrived, and nobody has them.
OwnerInv ==
    /\ owner \in [Conns -> Pool!Slots \cup {None}]
    /\ backlog <= Len(conn)
    /\ \A c \in Conns : c > Len(conn) - backlog => owner[c] = None

\* What a child has still to process is open and its own, and it is in process() only
\* between the events that it read and the end of its batch.
HandInv ==
    /\ batch \in [Pool!Slots -> SUBSET Conns]
    /\ current \in [Pool!Slots -> 0 .. MaxConn]
    /\ \A j \in Pool!Slots :
         /\ batch[j] \subseteq Open(j) \ {current[j]}
         /\ current[j] # 0 => current[j] \in Open(j) /\ InProcess(j)

HoldInv == armed \subseteq Conns /\ held \in [Conns -> SUBSET Conns]

IInv == ConnsInv /\ OwnerInv /\ HandInv /\ HoldInv

LEMMA ConnDomain ==
    ASSUME ConnsInv, Pool!TypeOK
    PROVE  /\ DOMAIN conn = 1 .. Len(conn) /\ DOMAIN conn \subseteq Conns
           /\ Len(conn) \in Nat /\ arrived \in Nat /\ backlog \in Nat
           /\ \A c \in DOMAIN conn : conn[c] \in Connection
           /\ MaxConn \in Nat
<1>1. DOMAIN conn = 1 .. Len(conn) /\ Len(conn) \in Nat
  BY DEF ConnsInv
<1>2. MaxConn \in Nat
  BY PoolAssumption
<1>3. arrived \in Nat /\ backlog \in Nat
  BY DEF Pool!TypeOK, Pool!EnvTypeOK
<1>4. DOMAIN conn \subseteq Conns
  BY <1>1, <1>2, <1>3 DEF ConnsInv, Conns
<1>5. \A c \in DOMAIN conn : conn[c] \in Connection
  BY DEF ConnsInv, GoodConn
<1>6. QED
  BY <1>1, <1>2, <1>3, <1>4, <1>5

LEMMA NoneIsNoSlot == None \notin Pool!Slots
  BY PoolAssumption DEF None, Pool!None, Pool!Slots

LEMMA ConnInit == Init => IInv
<1> SUFFICES ASSUME Init
             PROVE  IInv
  OBVIOUS
<1>1. /\ conn = <<>> /\ arrived = 0 /\ backlog = 0 /\ armed = {}
      /\ owner = [c \in Conns |-> None]
      /\ batch = [j \in Pool!Slots |-> {}] /\ current = [j \in Pool!Slots |-> 0]
      /\ held = [c \in Conns |-> {}]
  BY DEF Init, Pool!Init
<1>2. conn \in Seq(Connection) /\ Len(conn) = 0 /\ DOMAIN conn = {} /\ MaxConn \in Nat
  BY <1>1, PoolAssumption
<1>3. ConnsInv
  BY <1>1, <1>2 DEF ConnsInv
<1>4. OwnerInv
  BY <1>1, <1>2 DEF OwnerInv, Conns
<1>5. HandInv
  BY <1>1, <1>2 DEF HandInv, Open
<1>6. HoldInv
  BY <1>1 DEF HoldInv
<1>7. QED
  BY <1>3, <1>4, <1>5, <1>6 DEF IInv

\* A step that leaves the connections to whom they belong.
LEMMA StillStep ==
    ASSUME IInv, UNCHANGED <<conn, owner, batch, current, backlog, arrived>>, HoldInv',
           \A j \in Pool!Slots : current[j] # 0 => InProcess(j)'
    PROVE  IInv'
<1>1. ConnsInv' /\ OwnerInv'
  BY DEF IInv, ConnsInv, OwnerInv
<1>2. HandInv'
  BY DEF IInv, HandInv, Open
<1>3. QED
  BY <1>1, <1>2 DEF IInv

\* What a step of a child leaves alone.
LEMMA OthersKept ==
    ASSUME Pool!TypeOK, NEW j \in Pool!Slots, Pool!ChildStep(j) \/ Pool!Crash(j)
    PROVE  /\ child \in [Pool!Slots -> Pool!Child]
           /\ \A k \in Pool!Slots \ {j} : InProcess(k) => InProcess(k)'
           /\ arrived' = arrived
<1>1. child \in [Pool!Slots -> Pool!Child]
  BY DEF Pool!TypeOK, Pool!ChildTypeOK
<1>2. \E r : child' = [child EXCEPT ![j] = r]
  <2>1. CASE Pool!ChildSetup(j)
    BY <1>1, <2>1 DEF Pool!ChildSetup
  <2>2. CASE Pool!ChildEpollWait(j)
    <3>1. PICK b : child' = [child EXCEPT ![j].st = "loop", ![j].ev = b, ![j].ready = {}]
      BY <2>2 DEF Pool!ChildEpollWait
    <3>2. QED
      BY <1>1, <3>1
  <2>3. CASE Pool!ChildRecvNote(j)
    BY <1>1, <2>3 DEF Pool!ChildRecvNote
  <2>4. CASE Pool!ChildAccept(j)
    BY <1>1, <2>4 DEF Pool!ChildAccept
  <2>5. CASE Pool!ChildSignal(j)
    BY <1>1, <2>5 DEF Pool!ChildSignal
  <2>6. CASE Pool!ChildProcess(j)
    BY <1>1, <2>6 DEF Pool!ChildProcess
  <2>7. CASE Pool!ChildEndBatch(j)
    BY <1>1, <2>7 DEF Pool!ChildEndBatch, Pool!Exit
  <2>8. CASE Pool!Crash(j)
    BY <1>1, <2>8 DEF Pool!Crash, Pool!Exit
  <2>9. QED
    BY <2>1, <2>2, <2>3, <2>4, <2>5, <2>6, <2>7, <2>8 DEF Pool!ChildStep
<1>3. \A k \in Pool!Slots \ {j} : child'[k] = child[k]
  BY <1>1, <1>2
<1>4. arrived' = arrived
  BY DEF Pool!ChildStep, Pool!Crash, Pool!ChildSetup, Pool!ChildEpollWait,
         Pool!ChildRecvNote, Pool!ChildAccept, Pool!ChildSignal, Pool!ChildProcess,
         Pool!ChildEndBatch, Pool!ChildOnly, Pool!envVars
<1>5. QED
  BY <1>1, <1>3, <1>4 DEF InProcess



\* The parent, the handler, and the arrivals do not stop a child that is in process().
LEMMA ParentKeeps ==
    ASSUME Pool!TypeOK,
           Pool!ParentStep \/ Pool!DeliverSignal \/ Pool!Terminate \/ Pool!Arrive
    PROVE  \A k \in Pool!Slots : InProcess(k) => InProcess(k)'
<1> SUFFICES ASSUME NEW k \in Pool!Slots, InProcess(k)
             PROVE  InProcess(k)'
  OBVIOUS
<1>1. child[k].st = "loop" /\ "conn" \in child[k].ev /\ child[k] \in Pool!Child
  BY DEF InProcess, Pool!TypeOK, Pool!ChildTypeOK
<1>2. CASE \E j \in Pool!Found : Pool!Dispatch(j)
  <2>1. child'[k] \in {child[k], Pool!Notified(child[k])}
    BY <1>2 DEF Pool!Dispatch
  <2>2. Pool!Notified(child[k]) = [child[k] EXCEPT !.notes = @ + 1, !.ready = @ \cup {"pipe"}]
    BY <1>1 DEF Pool!Notified, Pool!Running
  <2>3. Pool!Notified(child[k]).st = "loop" /\ Pool!Notified(child[k]).ev = child[k].ev
    BY <1>1, <2>2 DEF Pool!Child
  <2>4. QED
    BY <1>1, <2>1, <2>3 DEF InProcess
<1>3. CASE Pool!HandleChld
  <2>1. k \notin Pool!Joined
    BY <1>1 DEF Pool!Joined, Pool!Dead
  <2>2. child'[k] = child[k]
    BY <1>3, <2>1 DEF Pool!HandleChld
  <2>3. QED
    BY <1>1, <2>2 DEF InProcess
<1>4. CASE Pool!HandleTerm
  <2>1. child'[k] \in {child[k], Pool!Killed(child[k])}
    BY <1>4 DEF Pool!HandleTerm
  <2>2. Pool!Killed(child[k]) = [child[k] EXCEPT !.sig = TRUE, !.ready = @ \cup {"sig"}]
    BY <1>1 DEF Pool!Killed, Pool!Running
  <2>3. Pool!Killed(child[k]).st = "loop" /\ Pool!Killed(child[k]).ev = child[k].ev
    BY <1>1, <2>2 DEF Pool!Child
  <2>4. QED
    BY <1>1, <2>1, <2>3 DEF InProcess
<1>5. CASE \/ Pool!ParentSetup \/ Pool!EpollWait \/ Pool!DispatchNone \/ Pool!RecvSignals
           \/ Pool!ParentEndBatch \/ Pool!DeliverSignal \/ Pool!Terminate \/ Pool!Arrive
  <2>1. child' = child
    BY <1>5 DEF Pool!ParentSetup, Pool!EpollWait, Pool!DispatchNone, Pool!RecvSignals,
                Pool!ParentEndBatch, Pool!DeliverSignal, Pool!Terminate, Pool!Arrive
  <2>2. QED
    BY <1>1, <2>1 DEF InProcess
<1>6. QED
  BY <1>2, <1>3, <1>4, <1>5 DEF Pool!ParentStep

LEMMA ParentConnStep ==
    ASSUME IInv, Pool!TypeOK, ParentStep \/ Signals
    PROVE  IInv'
<1>1. UNCHANGED connVars
  BY DEF ParentStep, Signals
<1>2. backlog' = backlog /\ arrived' = arrived
  BY DEF ParentStep, Signals, Pool!ParentStep, Pool!ParentSetup, Pool!EpollWait,
         Pool!Dispatch, Pool!DispatchNone, Pool!RecvSignals, Pool!HandleChld,
         Pool!HandleTerm, Pool!ParentEndBatch, Pool!DeliverSignal, Pool!Terminate,
         Pool!envVars
<1>3. \A k \in Pool!Slots : InProcess(k) => InProcess(k)'
  BY ParentKeeps DEF ParentStep, Signals
<1>4. \A k \in Pool!Slots : current[k] # 0 => InProcess(k)'
  BY <1>3 DEF IInv, HandInv
<1>5. HoldInv'
  BY <1>1 DEF IInv, HoldInv, connVars
<1>6. QED
  BY <1>1, <1>2, <1>4, <1>5, StillStep DEF connVars

\* What a child does between two calls of process().
LEMMA AloneConnStep ==
    ASSUME IInv, Pool!TypeOK, NEW j \in Pool!Slots,
           ChildAlone(j) \/ ProcessEnd(j) \/ (EndBatch(j) /\ ~ child[j].stop)
    PROVE  IInv'
<1>1. UNCHANGED connVars
  BY DEF ChildAlone, ProcessEnd, EndBatch
<1>2. Pool!ChildStep(j)
  BY DEF ChildAlone, ProcessEnd, EndBatch, Pool!ChildStep
<1>3. current[j] = 0
  <2>1. CASE EndBatch(j)
    <3>1. ~ InProcess(j)
      BY <2>1 DEF EndBatch, Pool!ChildEndBatch, InProcess
    <3>2. QED
      BY <3>1 DEF IInv, HandInv
  <2>2. QED
    BY <2>1 DEF ChildAlone, ProcessEnd
<1>4. backlog' = backlog
  BY DEF ChildAlone, ProcessEnd, EndBatch, Pool!ChildSetup, Pool!ChildRecvNote,
         Pool!ChildSignal, Pool!ChildProcess, Pool!ChildEndBatch
<1>5. arrived' = arrived /\ \A k \in Pool!Slots \ {j} : InProcess(k) => InProcess(k)'
  BY <1>2, OthersKept
<1>6. \A k \in Pool!Slots : current[k] # 0 => InProcess(k)'
  BY <1>3, <1>5 DEF IInv, HandInv
<1>7. HoldInv'
  BY <1>1 DEF IInv, HoldInv, connVars
<1>8. QED
  BY <1>1, <1>4, <1>5, <1>6, <1>7, StillStep DEF connVars

\* The oldest waiting connection is accepted.
LEMMA AcceptConnStep ==
    ASSUME IInv, Pool!TypeOK, NEW j \in Pool!Slots, Accept(j)
    PROVE  IInv'
<1>1. /\ Pool!ChildAccept(j) /\ UNCHANGED <<conn, batch, current, held>>
      /\ child[j].st = "accept"
  BY DEF Accept, Pool!ChildAccept
<1>2. arrived' = arrived /\ \A k \in Pool!Slots \ {j} : InProcess(k) => InProcess(k)'
  BY <1>1, OthersKept DEF Pool!ChildStep
<1>3. current[j] = 0
  BY <1>1 DEF IInv, HandInv, InProcess
<1>4. \A k \in Pool!Slots : current[k] # 0 => InProcess(k)'
  BY <1>2, <1>3 DEF IInv, HandInv
<1>5. /\ DOMAIN conn = 1 .. Len(conn) /\ DOMAIN conn \subseteq Conns
      /\ Len(conn) \in Nat /\ backlog \in Nat /\ backlog <= Len(conn)
  BY ConnDomain DEF IInv, OwnerInv
<1>6. CASE backlog = 0
  <2>1. UNCHANGED <<owner, armed, backlog>>
    BY <1>6 DEF Accept, Pool!ChildAccept
  <2>2. HoldInv'
    BY <1>1, <2>1 DEF IInv, HoldInv
  <2>3. QED
    BY <1>1, <1>2, <1>4, <2>1, <2>2, StillStep
<1>7. CASE backlog # 0
  <2> DEFINE c == Len(conn) - backlog + 1
  <2>1. /\ backlog' = backlog - 1 /\ owner' = [owner EXCEPT ![c] = j]
        /\ armed' = armed \cup ReportedAtAdd(c)
    BY <1>5, <1>7 DEF Accept, Pool!ChildAccept
  <2>2. c \in DOMAIN conn /\ c \in Conns /\ c > Len(conn) - backlog
    BY <1>5, <1>7
  <2>3. owner[c] = None
    BY <2>2 DEF IInv, OwnerInv
  <2>4. ConnsInv'
    BY <1>1, <1>2 DEF IInv, ConnsInv
  <2>5. OwnerInv'
    <3>1. owner' \in [Conns -> Pool!Slots \cup {None}]
      BY <2>1 DEF IInv, OwnerInv
    <3>2. ASSUME NEW d \in Conns, d > Len(conn) - (backlog - 1)
          PROVE  owner'[d] = None
      <4>1. d \in Int /\ d > Len(conn) - backlog /\ d # c
        BY <1>5, <3>2 DEF Conns
      <4>2. QED
        BY <2>1, <4>1 DEF IInv, OwnerInv
    <3>3. QED
      BY <1>1, <1>5, <2>1, <3>1, <3>2, <1>7 DEF OwnerInv
  <2>6. \A k \in Pool!Slots : Open(k) \subseteq Open(k)'
    <3>1. \A k \in Pool!Slots : \A d \in Open(k) : d # c /\ owner'[d] = owner[d]
      BY <1>5, <2>1, <2>3, NoneIsNoSlot DEF IInv, OwnerInv, Open
    <3>2. QED
      BY <1>1, <3>1 DEF Open
  <2>7. HandInv'
    BY <1>1, <1>4, <2>6 DEF IInv, HandInv
  <2>8. HoldInv'
    BY <1>1, <2>1, <2>2 DEF IInv, HoldInv, ReportedAtAdd
  <2>9. QED
    BY <2>4, <2>5, <2>7, <2>8 DEF IInv
<1>8. QED
  BY <1>6, <1>7



\* epoll_wait hands out connections that the child has open.
LEMMA EpollConnStep ==
    ASSUME IInv, Pool!TypeOK, NEW j \in Pool!Slots, EpollWait(j)
    PROVE  IInv'
<1>1. /\ Pool!ChildEpollWait(j) /\ UNCHANGED <<conn, owner, current, held>>
      /\ child[j].st = "wait" /\ backlog' = backlog
      /\ armed' = armed \ Open(j)
      /\ batch' = [batch EXCEPT ![j] = {c \in armed \cap Open(j) : Pending(conn[c])}]
  BY DEF EpollWait, Pool!ChildEpollWait
<1>2. arrived' = arrived /\ \A k \in Pool!Slots \ {j} : InProcess(k) => InProcess(k)'
  BY <1>1, OthersKept DEF Pool!ChildStep
<1>3. current[j] = 0
  BY <1>1 DEF IInv, HandInv, InProcess
<1>4. \A k \in Pool!Slots : Open(k)' = Open(k)
  BY <1>1 DEF Open
<1>5. Open(j) \subseteq Conns /\ 0 \notin Open(j)
  BY ConnDomain DEF IInv, Open
<1>6. ConnsInv' /\ OwnerInv' /\ HoldInv'
  BY <1>1, <1>2 DEF IInv, ConnsInv, OwnerInv, HoldInv
<1>7. HandInv'
  <2>1. batch' \in [Pool!Slots -> SUBSET Conns] /\ current' \in [Pool!Slots -> 0 .. MaxConn]
    BY <1>1, <1>5 DEF IInv, HandInv
  <2>2. ASSUME NEW k \in Pool!Slots
        PROVE  /\ batch'[k] \subseteq Open(k)' \ {current'[k]}
               /\ current'[k] # 0 => current'[k] \in Open(k)' /\ InProcess(k)'
    <3>1. CASE k = j
      <4>1. batch'[k] \subseteq Open(k)
        BY <1>1, <3>1 DEF IInv, HandInv
      <4>2. QED
        BY <1>1, <1>3, <1>4, <1>5, <3>1, <4>1
    <3>2. CASE k # j
      BY <1>1, <1>2, <1>4, <3>2 DEF IInv, HandInv
    <3>3. QED
      BY <3>1, <3>2
  <2>3. QED
    BY <2>1, <2>2 DEF HandInv
<1>8. QED
  BY <1>6, <1>7 DEF IInv

\* Where the pool stands still, so do its children.
LEMMA PoolStill ==
    ASSUME UNCHANGED poolVars
    PROVE  /\ arrived' = arrived /\ backlog' = backlog
           /\ \A k \in Pool!Slots : InProcess(k)' = InProcess(k)
BY DEF poolVars, InProcess

LEMMA BeginConnStep ==
    ASSUME IInv, Pool!TypeOK, NEW j \in Pool!Slots, ProcessBegin(j)
    PROVE  IInv'
<1>1. UNCHANGED poolVars /\ UNCHANGED <<conn, owner, armed, held>> /\ InProcess(j)
  BY DEF ProcessBegin, InProcess, Pool!ChildInBatch
<1>2. PICK c \in batch[j] : /\ current' = [current EXCEPT ![j] = c]
                            /\ batch' = [batch EXCEPT ![j] = @ \ {c}]
  BY DEF ProcessBegin
<1>3. c \in Open(j) /\ c \in 0 .. MaxConn
  BY PoolAssumption DEF IInv, HandInv, Conns
<1>4. \A k \in Pool!Slots : Open(k)' = Open(k)
  BY <1>1 DEF Open
<1>5. ConnsInv' /\ OwnerInv' /\ HoldInv'
  BY <1>1, PoolStill DEF IInv, ConnsInv, OwnerInv, HoldInv
<1>6. HandInv'
  <2>1. batch' \in [Pool!Slots -> SUBSET Conns] /\ current' \in [Pool!Slots -> 0 .. MaxConn]
    BY <1>2, <1>3 DEF IInv, HandInv
  <2>2. ASSUME NEW k \in Pool!Slots
        PROVE  /\ batch'[k] \subseteq Open(k)' \ {current'[k]}
               /\ current'[k] # 0 => current'[k] \in Open(k)' /\ InProcess(k)'
    <3>1. CASE k = j
      <4>1. batch'[k] = batch[j] \ {c} /\ current'[k] = c
        BY <1>2, <3>1 DEF IInv, HandInv
      <4>2. QED
        BY <1>1, <1>3, <1>4, <3>1, <4>1, PoolStill DEF IInv, HandInv
    <3>2. CASE k # j
      <4>1. batch'[k] = batch[k] /\ current'[k] = current[k]
        BY <1>2, <3>2 DEF IInv, HandInv
      <4>2. QED
        BY <1>1, <1>4, <4>1, PoolStill DEF IInv, HandInv
    <3>3. QED
      BY <3>1, <3>2
  <2>3. QED
    BY <2>1, <2>2 DEF HandInv
<1>7. QED
  BY <1>5, <1>6 DEF IInv

\* One connection becomes another good one of the same place in the sequence.
LEMMA ConnReplaced ==
    ASSUME ConnsInv, Pool!TypeOK, arrived' = arrived, NEW c \in DOMAIN conn,
           NEW s, GoodConn(s), conn' = [conn EXCEPT ![c] = s]
    PROVE  /\ ConnsInv' /\ DOMAIN conn' = DOMAIN conn /\ Len(conn') = Len(conn)
           /\ \A d \in DOMAIN conn : conn'[d] = IF d = c THEN s ELSE conn[d]
<1>1. s \in Connection
  BY DEF GoodConn
<1>2. /\ conn' \in Seq(Connection) /\ Len(conn') = Len(conn)
      /\ DOMAIN conn' = DOMAIN conn
  BY <1>1 DEF ConnsInv
<1>3. \A d \in DOMAIN conn : conn'[d] = IF d = c THEN s ELSE conn[d]
  OBVIOUS
<1>4. ConnsInv'
  BY <1>2, <1>3 DEF ConnsInv
<1>5. QED
  BY <1>2, <1>3, <1>4

\* What the child j does with its connection c, which becomes s.
Iterates(j, c, s) ==
    /\ conn' = [conn EXCEPT ![c] = s]
    /\ held' = [d \in Conns |-> held[d] \cup
                  (IF s.outcome = "ran" /\ d \in Open(j) THEN {c} ELSE {})]
    /\ current' = IF Loops(conn[c], s) THEN current ELSE [current EXCEPT ![j] = 0]
    /\ armed' = IF s.outcome = "none" THEN armed ELSE armed \ {c}

\* One iteration of process(): the connection stays as it is, goes on, or is closed,
\* and then it is in no batch.
LEMMA ProcessConnStep ==
    ASSUME IInv, Pool!TypeOK, NEW j \in Pool!Slots, Process(j)
    PROVE  IInv'
<1> DEFINE c == current[j]
<1>1. UNCHANGED poolVars /\ UNCHANGED <<owner, batch>> /\ c # 0
  BY DEF Process
<1>2. PICK s \in Received(conn[c]) : Iterates(j, c, s)
  <2>1. \E d \in {c} : \E s \in Received(conn[d]) : Iterates(j, d, s)
    BY DEF Process, Iterates
  <2>2. QED
    BY <2>1
<1>3. c \in Open(j) /\ c \in DOMAIN conn /\ owner[c] = j /\ conn[c].outcome = "none"
  BY <1>1 DEF IInv, HandInv, Open
<1>4. GoodConn(s)
  BY <1>2, <1>3, ReceivedIsGood DEF IInv, ConnsInv
<1>5. /\ ConnsInv' /\ DOMAIN conn' = DOMAIN conn /\ Len(conn') = Len(conn)
      /\ \A d \in DOMAIN conn : conn'[d] = IF d = c THEN s ELSE conn[d]
  <2>1. arrived' = arrived /\ ConnsInv /\ conn' = [conn EXCEPT ![c] = s]
    BY <1>1, <1>2, PoolStill DEF IInv, Iterates
  <2>2. QED
    BY <1>3, <1>4, <2>1, ConnReplaced
<1>6. OwnerInv'
  BY <1>1, <1>5, PoolStill DEF IInv, OwnerInv
<1>7. HoldInv'
  <2>1. c \in Conns
    BY <1>3, ConnDomain DEF IInv
  <2>2. QED
    BY <1>2, <2>1 DEF IInv, HoldInv, Iterates
<1>8. \A k \in Pool!Slots : Open(k) \ {c} \subseteq Open(k)'
  BY <1>1, <1>5 DEF Open
<1>9. \A k \in Pool!Slots \ {j} : c \notin Open(k)
  BY <1>3 DEF Open
<1>10. s.outcome = "none" => c \in Open(j)'
  BY <1>1, <1>3, <1>5 DEF Open
<1>11. HandInv'
  <2>1. batch' \in [Pool!Slots -> SUBSET Conns] /\ current' \in [Pool!Slots -> 0 .. MaxConn]
    BY <1>1, <1>2, PoolAssumption DEF IInv, HandInv, Iterates
  <2>2. ASSUME NEW k \in Pool!Slots
        PROVE  /\ batch'[k] \subseteq Open(k)' \ {current'[k]}
               /\ current'[k] # 0 => current'[k] \in Open(k)' /\ InProcess(k)'
    <3>1. CASE k = j
      <4>1. batch[j] \subseteq Open(j)' \ {c} /\ InProcess(j)'
        BY <1>1, <1>8, PoolStill DEF IInv, HandInv
      <4>2. 0 \notin batch[j]
        BY PoolAssumption DEF IInv, HandInv, Conns
      <4>3. current'[j] \in {0, c} /\ (current'[j] # 0 => Loops(conn[c], s))
        BY <1>2 DEF IInv, HandInv, Iterates
      <4>4. current'[j] # 0 => current'[j] \in Open(j)'
        BY <1>10, <4>3 DEF Loops
      <4>5. QED
        BY <1>1, <3>1, <4>1, <4>2, <4>3, <4>4
    <3>2. CASE k # j
      <4>1. current'[k] = current[k]
        BY <1>2, <3>2 DEF IInv, HandInv, Iterates
      <4>2. QED
        BY <1>1, <1>8, <1>9, <3>2, <4>1, PoolStill DEF IInv, HandInv
    <3>3. QED
      BY <3>1, <3>2
  <2>3. QED
    BY <2>1, <2>2 DEF HandInv
<1>12. QED
  BY <1>5, <1>6, <1>7, <1>11 DEF IInv



\* The end of a child takes its connections with it, and no other child's.
LEMMA GoesConnStep ==
    ASSUME IInv, Pool!TypeOK, NEW j \in Pool!Slots, Goes(j),
           Pool!ChildEndBatch(j) \/ Pool!Crash(j)
    PROVE  IInv'
<1>1. /\ conn' = [c \in DOMAIN conn |->
                    IF c \in Open(j) THEN Closed(conn[c], "gone") ELSE conn[c]]
      /\ armed' = armed \ Open(j) /\ UNCHANGED <<owner, held>>
      /\ batch' = [batch EXCEPT ![j] = {}] /\ current' = [current EXCEPT ![j] = 0]
  BY DEF Goes
<1>2. arrived' = arrived /\ \A k \in Pool!Slots \ {j} : InProcess(k) => InProcess(k)'
  BY OthersKept DEF Pool!ChildStep
<1>3. backlog' = backlog
  BY DEF Pool!ChildEndBatch, Pool!Crash
<1>4. /\ DOMAIN conn = 1 .. Len(conn) /\ Len(conn) \in Nat /\ MaxConn \in Nat
      /\ \A c \in DOMAIN conn : GoodConn(conn[c]) /\ conn[c] \in Connection
  BY ConnDomain DEF IInv, ConnsInv
<1>5. \A c \in DOMAIN conn : GoodConn(conn'[c])
  <2>1. \A c \in DOMAIN conn : GoodConn(Closed(conn[c], "gone"))
    BY <1>4, ClosedIsGood DEF Outcome
  <2>2. QED
    BY <1>1, <1>4, <2>1
<1>6. DOMAIN conn' = DOMAIN conn /\ conn' \in Seq(Connection) /\ Len(conn') = Len(conn)
  <2>1. \A c \in DOMAIN conn : conn'[c] \in Connection
    BY <1>5 DEF GoodConn
  <2>2. conn' \in [1 .. Len(conn) -> Connection]
    BY <1>1, <1>4, <2>1
  <2>3. conn' \in Seq(Connection)
    BY <1>4, <2>2, SeqDef
  <2>4. QED
    BY <1>4, <2>2, <2>3, LenProperties
<1>7. ConnsInv'
  BY <1>2, <1>5, <1>6 DEF IInv, ConnsInv
<1>8. OwnerInv'
  BY <1>1, <1>3, <1>6 DEF IInv, OwnerInv
<1>9. HoldInv'
  BY <1>1 DEF IInv, HoldInv
<1>10. \A k \in Pool!Slots \ {j} : Open(k) \subseteq Open(k)'
  <2>1. \A k \in Pool!Slots \ {j} : \A c \in Open(k) : c \notin Open(j)
    BY DEF Open
  <2>2. QED
    BY <1>1, <1>6, <2>1 DEF Open
<1>11. HandInv'
  <2>1. batch' \in [Pool!Slots -> SUBSET Conns] /\ current' \in [Pool!Slots -> 0 .. MaxConn]
    BY <1>1, <1>4 DEF IInv, HandInv
  <2>2. ASSUME NEW k \in Pool!Slots
        PROVE  /\ batch'[k] \subseteq Open(k)' \ {current'[k]}
               /\ current'[k] # 0 => current'[k] \in Open(k)' /\ InProcess(k)'
    <3>1. CASE k = j
      BY <1>1, <3>1 DEF IInv, HandInv
    <3>2. CASE k # j
      <4>1. batch'[k] = batch[k] /\ current'[k] = current[k]
        BY <1>1, <3>2 DEF IInv, HandInv
      <4>2. QED
        BY <1>2, <1>10, <3>2, <4>1 DEF IInv, HandInv
    <3>3. QED
      BY <3>1, <3>2
  <2>3. QED
    BY <2>1, <2>2 DEF HandInv
<1>12. QED
  BY <1>7, <1>8, <1>9, <1>11 DEF IInv

\* A connection arrives and waits.
LEMMA ArriveConnStep ==
    ASSUME IInv, Pool!TypeOK, Arrive
    PROVE  IInv'
<1>1. /\ Pool!Arrive /\ UNCHANGED <<owner, armed, batch, current, held>>
      /\ arrived < MaxConn /\ arrived' = arrived + 1 /\ backlog' = backlog + 1
  BY DEF Arrive, Pool!Arrive
<1>2. PICK text \in Texts : conn' = Append(conn, Fresh(text))
  BY DEF Arrive
<1>3. GoodConn(Fresh(text)) /\ Fresh(text) \in Connection
  BY FreshIsGood DEF GoodConn
<1>4. /\ DOMAIN conn = 1 .. Len(conn) /\ Len(conn) \in Nat /\ MaxConn \in Nat
      /\ arrived \in Nat /\ backlog \in Nat /\ conn \in Seq(Connection)
      /\ Len(conn) = arrived
  BY ConnDomain DEF IInv, ConnsInv
<1>5. /\ conn' \in Seq(Connection) /\ Len(conn') = Len(conn) + 1
      /\ DOMAIN conn' = 1 .. Len(conn) + 1
      /\ \A c \in DOMAIN conn : conn'[c] = conn[c]
      /\ conn'[Len(conn) + 1] = Fresh(text)
  BY <1>2, <1>3, <1>4
<1>6. ConnsInv'
  <2>1. ASSUME NEW c \in DOMAIN conn'
        PROVE  GoodConn(conn'[c])
    <3>1. c \in DOMAIN conn \/ c = Len(conn) + 1
      BY <1>4, <1>5
    <3>2. QED
      BY <1>3, <1>5, <3>1 DEF IInv, ConnsInv
  <2>2. QED
    BY <1>1, <1>4, <1>5, <2>1 DEF ConnsInv
<1>7. OwnerInv'
  <2>1. Len(conn') - backlog' = Len(conn) - backlog
    BY <1>1, <1>4, <1>5
  <2>2. backlog' <= Len(conn')
    BY <1>1, <1>4, <1>5 DEF IInv, OwnerInv
  <2>3. QED
    BY <1>1, <2>1, <2>2 DEF IInv, OwnerInv
<1>8. \A k \in Pool!Slots : Open(k) \subseteq Open(k)'
  BY <1>1, <1>4, <1>5 DEF Open
<1>9. \A k \in Pool!Slots : InProcess(k) => InProcess(k)'
  BY <1>1, ParentKeeps
<1>10. HandInv'
  BY <1>1, <1>8, <1>9 DEF IInv, HandInv
<1>11. HoldInv'
  BY <1>1 DEF IInv, HoldInv
<1>12. QED
  BY <1>6, <1>7, <1>10, <1>11 DEF IInv

\* What a client does leaves its connection to the child that has it.
LEMMA ClientConnStep ==
    ASSUME IInv, Pool!TypeOK, NEW c \in DOMAIN conn, NEW s, GoodConn(s),
           s.outcome = conn[c].outcome, ClientDoes(c, s)
    PROVE  IInv'
<1>1. /\ UNCHANGED poolVars /\ UNCHANGED <<owner, batch, current, held>>
      /\ conn' = [conn EXCEPT ![c] = s] /\ armed' \subseteq armed \cup {c}
  BY DEF ClientDoes
<1>2. /\ ConnsInv' /\ DOMAIN conn' = DOMAIN conn /\ Len(conn') = Len(conn)
      /\ \A d \in DOMAIN conn : conn'[d] = IF d = c THEN s ELSE conn[d]
  <2>1. arrived' = arrived /\ ConnsInv
    BY <1>1, PoolStill DEF IInv
  <2>2. QED
    BY <1>1, <2>1, ConnReplaced
<1>3. OwnerInv'
  BY <1>1, <1>2, PoolStill DEF IInv, OwnerInv
<1>4. HoldInv'
  BY <1>1, ConnDomain DEF IInv, HoldInv
<1>5. \A k \in Pool!Slots : Open(k)' = Open(k)
  BY <1>1, <1>2 DEF Open
<1>6. HandInv'
  BY <1>1, <1>5, PoolStill DEF IInv, HandInv
<1>7. QED
  BY <1>2, <1>3, <1>4, <1>6 DEF IInv

LEMMA SendLeaveConnStep ==
    ASSUME IInv, Pool!TypeOK, NEW c \in DOMAIN conn, Send(c) \/ Leave(c)
    PROVE  IInv'
<1> DEFINE r == conn[c]
<1>1. /\ GoodConn(r) /\ r \in Connection /\ r.m_read_idex <= r.sent
      /\ r.sent <= Len(r.text) /\ r.sent \in Nat /\ r.m_read_idex \in Nat
      /\ Len(r.text) \in Nat /\ r.end = "no" /\ r.outcome = "none"
  <2>1. GoodConn(r)
    BY DEF IInv, ConnsInv
  <2>2. r \in Connection /\ r.m_read_idex <= r.sent /\ r.sent <= Len(r.text)
    BY <2>1 DEF GoodConn
  <2>3. r.end = "no" /\ r.outcome = "none"
    BY DEF Send, Leave
  <2>4. QED
    BY <2>1, <2>2, <2>3, ConnText
<1>2. ASSUME NEW n \in Nat, n >= r.m_read_idex, n <= Len(r.text),
             NEW e \in {"no", "left", "reset"},
             ClientDoes(c, [r EXCEPT !.sent = n, !.end = e])
      PROVE  IInv'
  <2> DEFINE s == [r EXCEPT !.sent = n, !.end = e]
  <2>1. GoodConn(s) /\ s.outcome = r.outcome
    BY <1>1, <1>2, ClientKeepsGood DEF Connection
  <2> HIDE DEF s
  <2>2. ClientDoes(c, s)
    BY <1>2 DEF s
  <2>3. QED
    BY <2>1, <2>2, ClientConnStep
<1>3. CASE Send(c)
  <2>1. PICK n \in r.sent + 1 .. Len(r.text) : ClientDoes(c, [r EXCEPT !.sent = n])
    BY <1>3 DEF Send
  <2>2. [r EXCEPT !.sent = n] = [r EXCEPT !.sent = n, !.end = "no"]
    BY <1>1 DEF Connection
  <2>3. n \in Nat /\ n >= r.m_read_idex /\ n <= Len(r.text)
    BY <1>1, <2>1
  <2>4. QED
    BY <1>2, <2>1, <2>2, <2>3
<1>4. CASE Leave(c)
  <2>1. PICK e \in {"left", "reset"} : ClientDoes(c, [r EXCEPT !.end = e])
    BY <1>4 DEF Leave
  <2>2. [r EXCEPT !.end = e] = [r EXCEPT !.sent = r.sent, !.end = e]
    BY <1>1 DEF Connection
  <2>3. QED
    BY <1>1, <1>2, <2>1, <2>2
<1>5. QED
  BY <1>3, <1>4

\* A program that ends holds no connection any more.
LEMMA ProgramConnStep ==
    ASSUME IInv, Pool!TypeOK, NEW p, ProgramEnds(p)
    PROVE  IInv'
<1>1. /\ UNCHANGED poolVars /\ UNCHANGED <<conn, owner, armed, batch, current>>
      /\ held' = [c \in Conns |-> held[c] \ {p}]
  BY DEF ProgramEnds
<1>2. HoldInv'
  BY <1>1 DEF IInv, HoldInv
<1>3. \A k \in Pool!Slots : current[k] # 0 => InProcess(k)'
  BY <1>1, PoolStill DEF IInv, HandInv
<1>4. backlog' = backlog /\ arrived' = arrived
  BY <1>1, PoolStill
<1>5. QED
  BY <1>1, <1>2, <1>3, <1>4, StillStep



LEMMA ConnStep == IInv /\ Pool!TypeOK /\ [Next]_vars => IInv'
<1> SUFFICES ASSUME IInv, Pool!TypeOK, [Next]_vars
             PROVE  IInv'
  OBVIOUS
<1>1. CASE ParentStep \/ Signals
  BY <1>1, ParentConnStep
<1>2. CASE \E j \in Pool!Slots : ChildStep(j) \/ Crash(j)
  <2>1. PICK j \in Pool!Slots : ChildStep(j) \/ Crash(j)
    BY <1>2
  <2>2. CASE Accept(j)
    BY <2>2, AcceptConnStep
  <2>3. CASE EpollWait(j)
    BY <2>3, EpollConnStep
  <2>4. CASE ProcessBegin(j)
    BY <2>4, BeginConnStep
  <2>5. CASE Process(j)
    BY <2>5, ProcessConnStep
  <2>6. CASE ProcessEnd(j) \/ ChildAlone(j)
    BY <2>6, AloneConnStep
  <2>7. CASE EndBatch(j)
    <3>1. CASE child[j].stop
      <4>1. Goes(j) /\ Pool!ChildEndBatch(j)
        BY <2>7, <3>1 DEF EndBatch
      <4>2. QED
        BY <4>1, GoesConnStep
    <3>2. CASE ~ child[j].stop
      BY <2>7, <3>2, AloneConnStep
    <3>3. QED
      BY <3>1, <3>2
  <2>8. CASE Crash(j)
    <3>1. Goes(j) /\ Pool!Crash(j)
      BY <2>8 DEF Crash
    <3>2. QED
      BY <3>1, GoesConnStep
  <2>9. QED
    BY <2>1, <2>2, <2>3, <2>4, <2>5, <2>6, <2>7, <2>8 DEF ChildStep
<1>3. CASE Arrive
  BY <1>3, ArriveConnStep
<1>4. CASE \E c \in DOMAIN conn : Send(c) \/ Leave(c)
  BY <1>4, SendLeaveConnStep
<1>5. CASE \E p \in Conns : ProgramEnds(p)
  BY <1>5, ProgramConnStep
<1>6. CASE UNCHANGED vars
  <2>1. UNCHANGED poolVars /\ UNCHANGED connVars
    BY <1>6 DEF vars
  <2>2. \A k \in Pool!Slots : current[k] # 0 => InProcess(k)'
    BY <2>1, PoolStill DEF IInv, HandInv
  <2>3. HoldInv'
    BY <2>1 DEF IInv, HoldInv, connVars
  <2>4. backlog' = backlog /\ arrived' = arrived
    BY <2>1, PoolStill
  <2>5. QED
    BY <2>1, <2>2, <2>3, <2>4, StillStep DEF connVars
<1>7. QED
  BY <1>1, <1>2, <1>3, <1>4, <1>5, <1>6 DEF Next

\* The invariant of the connections holds of every server, of any size.
THEOREM Inductive == Spec => []IInv
<1>1. Spec => []Pool!TypeOK
  BY PoolStaysSound, PTL DEF PoolHolds
<1>2. QED
  BY <1>1, ConnInit, ConnStep, PTL DEF Spec

\* The server's types; with the pool's, that a child is told of a connection only if
\* one waits; that process() is called for open connections of its own child only;
\* and that each request gets what its first line asks for, however the text was cut
\* and whichever child died meanwhile.
THEOREM Answered == Spec => []RequestsAnswered
<1>1. IInv /\ PoolHolds => RequestsAnswered
  <2> SUFFICES ASSUME IInv, PoolHolds
               PROVE  RequestsAnswered
    OBVIOUS
  <2>1. Pool!TypeOK /\ Pool!NotificationsBacked
    BY DEF PoolHolds
  <2>2. TypeOK
    BY <2>1 DEF IInv, ConnsInv, OwnerInv, HandInv, HoldInv, GoodConn, TypeOK
  <2>3. ProcessesOpen
    BY DEF IInv, HandInv, ProcessesOpen
  <2>4. OutcomeOfText
    BY DEF IInv, ConnsInv, GoodConn, AsAsked, OutcomeOfText
  <2>5. QED
    BY <2>1, <2>2, <2>3, <2>4 DEF RequestsAnswered, NotificationsBacked
<1>2. QED
  BY <1>1, PoolStaysSound, Inductive, PTL


=============================================================================
