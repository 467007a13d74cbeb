---------------------------- MODULE ProcessPoolProofs ----------------------------
(***************************************************************************)
(* Proofs about ProcessPool, for every PoolSize that the constructor's     *)
(* assertion admits and for every bound on the environment.                *)
(***************************************************************************)
EXTENDS ProcessPool, FiniteSetTheorems, WellFoundedInduction, TLAPS

-----------------------------------------------------------------------------
(* Type correctness.  The index of an event stays below the size of the    *)
(* batch, which at most listenfd and the signal pipe make up: this bounds  *)
(* child_counter, which the code computes from that index.                 *)

One(e) == IF e \in ev THEN 1 ELSE 0
BatchIndex == i + One("listen") + One("sig") <= 2

\* What epoll_wait reported to a child still holds when the child gets to it:
\* there is an int to read, there is a connection to process.
ReportHolds(c) == ("pipe" \in c.ev => c.notes > 0) /\ ("conn" \in c.ev => c.conns > 0)
ReportsHold == \A j \in Slots : ReportHolds(child[j])

TypeInv == TypeOK /\ BatchIndex /\ ReportsHold

\* What line 231 computes from the index of an event.
LEMMA CounterAfterBound ==
    ASSUME NEW k \in 0..1
    PROVE  CounterAfter(k) \in 0..2
<1>1. PoolSize \in 1..16
  BY PoolSizeAssumption
<1>2. CASE PoolSize = 1
  BY <1>2 DEF CounterAfter
<1>3. CASE PoolSize = 2
  BY <1>3 DEF CounterAfter
<1>4. CASE PoolSize > 2
  BY <1>1, <1>4 DEF CounterAfter
<1>5. QED
  BY <1>1, <1>2, <1>3, <1>4

\* A process that ends, is notified or is killed is still a well-formed child.
LEMMA ChildRecords ==
    ASSUME NEW c \in Child
    PROVE  /\ Forked \in Child
           /\ Gone("zombie") \in Child /\ Gone("silent") \in Child /\ Gone("reaped") \in Child
           /\ Corpse \in Child
           /\ ReportHolds(Corpse) /\ ReportHolds(Gone("reaped"))
           /\ Notified(c) \in Child /\ (ReportHolds(c) => ReportHolds(Notified(c)))
           /\ Killed(c) \in Child /\ (ReportHolds(c) => ReportHolds(Killed(c)))
<1>1. Forked \in Child
  BY DEF Forked, Child
<1>2. Gone("zombie") \in Child /\ Gone("silent") \in Child /\ Gone("reaped") \in Child
  BY <1>1 DEF Gone, Forked, Child, Dead
<1>3. Notified(c) \in Child /\ (ReportHolds(c) => ReportHolds(Notified(c)))
  <2>1. c.ready \cup {"pipe"} \in SUBSET {"pipe", "sig"} /\ c.notes + 1 \in Nat
    BY DEF Child
  <2>2. Notified(c) \in Child
    BY <2>1 DEF Notified, Child
  <2>3. /\ Notified(c).ev = c.ev /\ Notified(c).conns = c.conns
        /\ c.notes > 0 => Notified(c).notes > 0
    BY DEF Notified, Child
  <2>4. QED
    BY <2>2, <2>3 DEF ReportHolds
<1>4. Killed(c) \in Child /\ (ReportHolds(c) => ReportHolds(Killed(c)))
  <2>1. c.ready \cup {"sig"} \in SUBSET {"pipe", "sig"}
    BY DEF Child
  <2>2. CASE c.st \in Running
    <3>1. Killed(c) \in Child
      BY <2>1, <2>2 DEF Killed, Child
    <3>2. Killed(c).ev = c.ev /\ Killed(c).notes = c.notes /\ Killed(c).conns = c.conns
      BY <2>2 DEF Killed, Child
    <3>3. QED
      BY <3>1, <3>2 DEF ReportHolds
  <2>3. CASE c.st \notin Running
    <3>1. Gone("zombie").ev = {}
      BY DEF Gone, Forked
    <3>2. QED
      BY <1>2, <2>3, <3>1 DEF Killed, ReportHolds
  <2>4. QED
    BY <2>2, <2>3
<1>5. ReportHolds(Corpse) /\ ReportHolds(Gone("reaped"))
  <2>1. \A st \in {"zombie", "silent", "reaped"} : Gone(st).ev = {}
    BY DEF Gone, Forked
  <2>2. QED
    BY <2>1 DEF Corpse, ReportHolds
<1>6. Corpse \in {Gone("zombie"), Gone("silent")}
  BY DEF Corpse
<1>7. QED
  BY <1>1, <1>2, <1>3, <1>4, <1>5, <1>6

LEMMA TypeInit == Init => TypeInv
<1>1. Forked \in Child
  BY DEF Forked, Child
<1>2. Init => BatchIndex /\ ReportsHold
  BY DEF Init, BatchIndex, One, ReportsHold, ReportHolds, Forked
<1>3. Init => TypeOK
  <2> SUFFICES ASSUME Init PROVE TypeOK
    OBVIOUS
  <2>1. child \in [Slots -> Child]
    BY <1>1 DEF Init
  <2>2. m_pid \in [Slots -> Slots \cup {None}]
    BY DEF Init
  <2>3. sigpipe \in Seq(Signals) /\ signal \in Seq(Signals)
    BY DEF Init
  <2>4. m_stop \in BOOLEAN
    BY DEF Init
  <2>5. child_counter \in 0..2 /\ i \in 0..2
    BY DEF Init
  <2>6. pready \subseteq ParentEvents /\ ev \subseteq ParentEvents /\ pend \subseteq Signals
    BY DEF Init
  <2>7. QED
    BY <2>1, <2>2, <2>3, <2>4, <2>5, <2>6, Zenon DEF Init, TypeOK, ParentTypeOK, SignalTypeOK, ChildTypeOK, EnvTypeOK
<1>4. QED
  BY <1>2, <1>3 DEF TypeInv

\* Every step of the parent keeps the types.
LEMMA ParentTypeStep ==
    TypeInv /\ ParentStep => TypeInv'
<1> SUFFICES ASSUME TypeInv, ParentStep PROVE TypeInv'
  OBVIOUS
<1> USE DEF TypeInv, TypeOK
<1>1. CASE ParentSetup
  <2>1. ParentTypeOK' /\ BatchIndex'
    BY <1>1 DEF ParentSetup, ParentTypeOK, BatchIndex, One, ParentEvents
  <2>2. SignalTypeOK' /\ ChildTypeOK' /\ EnvTypeOK' /\ ReportsHold'
    BY <1>1 DEF ParentSetup, SignalTypeOK, ChildTypeOK, EnvTypeOK, ReportsHold, signalVars, envVars
  <2>3. QED
    BY <2>1, <2>2
<1>2. CASE EpollWait
  <2>1. BatchIndex'
    BY <1>2 DEF EpollWait, FirstIndex, BatchIndex, One
  <2>2. pready' \subseteq ParentEvents /\ ev' \subseteq ParentEvents
    BY <1>2 DEF EpollWait, ParentTypeOK
  <2>3. ParentTypeOK'
    BY <1>2, <2>2 DEF EpollWait, FirstIndex, ParentTypeOK
  <2>4. SignalTypeOK' /\ ChildTypeOK' /\ EnvTypeOK' /\ ReportsHold'
    BY <1>2 DEF EpollWait, SignalTypeOK, ChildTypeOK, EnvTypeOK, ReportsHold, signalVars, envVars
  <2>5. QED
    BY <2>1, <2>3, <2>4
<1>3. CASE DispatchNone
  <2>1. ParentTypeOK' /\ BatchIndex'
    <3>1. CASE child_counter \in Slots
      BY <1>3, <3>1 DEF DispatchNone, ParentTypeOK, BatchIndex, One, ParentEvents
    <3>2. CASE child_counter \notin Slots
      BY <1>3, <3>2 DEF DispatchNone, ParentTypeOK, BatchIndex, One
    <3>3. QED
      BY <3>1, <3>2
  <2>2. SignalTypeOK' /\ ChildTypeOK' /\ EnvTypeOK' /\ ReportsHold'
    BY <1>3 DEF DispatchNone, SignalTypeOK, ChildTypeOK, EnvTypeOK, ReportsHold, signalVars, envVars
  <2>3. QED
    BY <2>1, <2>2
<1>4. ASSUME NEW j, Dispatch(j) PROVE TypeInv'
  <2>1. i \in 0..1 /\ CounterAfter(i) \in 0..2
    BY <1>4, CounterAfterBound DEF Dispatch, InBatch, ParentTypeOK, BatchIndex, One
  <2>2. ParentTypeOK' /\ BatchIndex'
    BY <1>4, <2>1 DEF Dispatch, InBatch, NextEvent, ParentTypeOK, BatchIndex, One, ParentEvents
  <2>3. ASSUME NEW k \in Slots PROVE child'[k] \in Child /\ ReportHolds(child'[k])
    BY <1>4, ChildRecords DEF Dispatch, ChildTypeOK, ReportsHold
  <2>4. ChildTypeOK' /\ ReportsHold'
    BY <1>4, <2>3 DEF Dispatch, ChildTypeOK, ReportsHold
  <2>5. SignalTypeOK' /\ EnvTypeOK'
    BY <1>4 DEF Dispatch, SignalTypeOK, EnvTypeOK, signalVars, envVars
  <2>6. QED
    BY <2>2, <2>4, <2>5
<1>6. CASE RecvSignals
  <2>1. i \in 0..1
    BY <1>6 DEF RecvSignals, InBatch, ParentTypeOK, BatchIndex, One
  <2>2. ParentTypeOK' /\ BatchIndex'
    BY <1>6, <2>1 DEF RecvSignals, InBatch, NextEvent, ParentTypeOK, BatchIndex, One, ParentEvents
  <2>3. SignalTypeOK' /\ ChildTypeOK' /\ EnvTypeOK' /\ ReportsHold'
    BY <1>6 DEF RecvSignals, SignalTypeOK, ChildTypeOK, EnvTypeOK, ReportsHold, envVars
  <2>4. QED
    BY <2>2, <2>3
<1>7. CASE HandleChld
  <2>1. ParentTypeOK' /\ BatchIndex'
    BY <1>7 DEF HandleChld, StopAfter, ParentTypeOK, BatchIndex, One, ParentEvents
  <2>2. ChildTypeOK' /\ ReportsHold'
    BY <1>7, ChildRecords DEF HandleChld, ChildTypeOK, ReportsHold
  <2>3. SignalTypeOK' /\ EnvTypeOK'
    BY <1>7 DEF HandleChld, SignalTypeOK, EnvTypeOK, envVars
  <2>4. QED
    BY <2>1, <2>2, <2>3
<1>8. CASE HandleTerm
  <2>1. ParentTypeOK' /\ BatchIndex'
    BY <1>8 DEF HandleTerm, parentVars, ParentTypeOK, BatchIndex, One
  <2>2. ChildTypeOK' /\ ReportsHold'
    BY <1>8, ChildRecords DEF HandleTerm, ChildTypeOK, ReportsHold
  <2>3. SignalTypeOK' /\ EnvTypeOK'
    BY <1>8 DEF HandleTerm, RaisedBy, SignalTypeOK, EnvTypeOK, envVars, Signals
  <2>4. QED
    BY <2>1, <2>2, <2>3
<1>9. CASE ParentEndBatch
  <2>1. ParentTypeOK' /\ BatchIndex'
    BY <1>9 DEF ParentEndBatch, ParentTypeOK, BatchIndex, One
  <2>2. SignalTypeOK' /\ ChildTypeOK' /\ EnvTypeOK' /\ ReportsHold'
    BY <1>9 DEF ParentEndBatch, SignalTypeOK, ChildTypeOK, EnvTypeOK, ReportsHold, signalVars, envVars
  <2>3. QED
    BY <2>1, <2>2
<1>10. QED
  BY <1>1, <1>2, <1>3, <1>4, <1>6, <1>7, <1>8, <1>9 DEF ParentStep

\* Replacing one child by a well-formed one whose reports hold.
LEMMA ChildUpdate ==
    ASSUME TypeInv, NEW j \in Slots, NEW c \in Child, ReportHolds(c),
           child' = [child EXCEPT ![j] = c]
    PROVE  ChildTypeOK' /\ ReportsHold'
BY DEF TypeInv, TypeOK, ChildTypeOK, ReportsHold

\* Every step of a child keeps the types.
LEMMA ChildTypeStep ==
    ASSUME TypeInv, NEW j \in Slots, ChildStep(j)
    PROVE  TypeInv'
<1> DEFINE c == child[j]
           Kept == ChildTypeOK' /\ ReportsHold'
<1>1. c \in Child /\ ReportHolds(c)
  BY DEF TypeInv, TypeOK, ChildTypeOK, ReportsHold
<1>2. ASSUME ChildOnly
      PROVE  /\ ParentTypeOK' /\ SignalTypeOK' /\ BatchIndex'
             /\ (arrived \in Nat /\ crashes \in Nat /\ terms \in Nat)'
  BY <1>2 DEF TypeInv, TypeOK, ChildOnly, parentVars, signalVars, envVars,
              ParentTypeOK, SignalTypeOK, EnvTypeOK, BatchIndex, One
<1>3. ASSUME ChildOnly, UNCHANGED backlog, Kept PROVE TypeInv'
  BY <1>2, <1>3 DEF TypeInv, TypeOK, EnvTypeOK
<1>4. CASE ChildSetup(j)
  <2>1. PICK r \in SUBSET {"pipe", "sig"} :
          child' = [child EXCEPT ![j] = [c EXCEPT !.st = "wait", !.ready = r]]
    BY <1>4 DEF ChildSetup
  <2>2. Kept
    BY <1>1, <2>1, ChildUpdate DEF Child, Running, ReportHolds
  <2>3. QED
    BY <1>3, <1>4, <2>2 DEF ChildSetup
<1>5. CASE ChildEpollWait(j)
  <2>1. PICK batch \in SUBSET ChildEvents :
          /\ child' = [child EXCEPT ![j] = [c EXCEPT !.st = "loop", !.ev = batch, !.ready = {}]]
          /\ "pipe" \in batch => c.notes > 0
          /\ "conn" \in batch => c.conns > 0
    <3>1. PICK clients \in SUBSET (IF c.conns > 0 THEN {"conn"} ELSE {}) :
            LET batch == clients \cup
                           {e \in c.ready : IF e = "pipe" THEN c.notes > 0 ELSE c.sig}
            IN child' = [child EXCEPT ![j].st = "loop", ![j].ev = batch, ![j].ready = {}]
      BY <1>5 DEF ChildEpollWait
    <3> DEFINE batch == clients \cup
                          {e \in c.ready : IF e = "pipe" THEN c.notes > 0 ELSE c.sig}
    <3>2. batch \in SUBSET ChildEvents /\ ("pipe" \in batch => c.notes > 0)
      BY <1>1 DEF Child, ChildEvents
    <3>3. CASE c.conns > 0
      BY <3>1, <3>2, <3>3
    <3>4. CASE ~ (c.conns > 0)
      <4>1. clients = {}
        BY <3>4
      <4>2. "conn" \notin batch
        BY <1>1, <4>1 DEF Child
      <4>3. QED
        BY <3>1, <3>2, <3>4, <4>2
    <3>5. QED
      BY <3>3, <3>4
  <2>2. Kept
    BY <1>1, <2>1, ChildUpdate DEF Child, Running, ReportHolds
  <2>3. QED
    BY <1>3, <1>5, <2>2 DEF ChildEpollWait
<1>6. CASE ChildRecvNote(j)
  <2>1. c.notes - 1 \in Nat
    BY <1>1, <1>6 DEF ChildRecvNote, ChildInBatch, ReportHolds, Child
  <2> DEFINE d == [c EXCEPT !.st = "accept", !.ev = @ \ {"pipe"}, !.notes = @ - 1]
  <2>2. d \in Child /\ ReportHolds(d)
    BY <1>1, <2>1 DEF Child, Running, ReportHolds
  <2>3. child' = [child EXCEPT ![j] = d]
    BY <1>6 DEF ChildRecvNote, NotesLeft
  <2>4. Kept
    BY <2>2, <2>3, ChildUpdate
  <2>5. QED
    BY <1>3, <1>6, <2>4 DEF ChildRecvNote
<1>7. CASE ChildAccept(j)
  <2> DEFINE m == IF backlog > 0 THEN 1 ELSE 0
  <2>0. /\ m \in {0, 1} /\ (m = 1 => backlog > 0)
        /\ backlog' = backlog - m
        /\ child' = [child EXCEPT ![j].st = "loop", ![j].conns = @ + m]
    BY <1>7 DEF ChildAccept
  <2> HIDE DEF m
  <2>1. PICK n \in {0, 1} :
          /\ backlog' = backlog - n /\ (n = 1 => backlog > 0)
          /\ child' = [child EXCEPT ![j] = [c EXCEPT !.st = "loop", !.conns = @ + n]]
    BY <2>0
  <2>2. c.conns + n \in Nat /\ ("conn" \in c.ev => c.conns + n > 0)
    BY <1>1 DEF Child, ReportHolds
  <2>3. Kept
    BY <1>1, <2>1, <2>2, ChildUpdate DEF Child, Running, ReportHolds
  <2>4. backlog' \in Nat
    BY <2>1 DEF TypeInv, TypeOK, EnvTypeOK
  <2>5. QED
    BY <1>2, <1>7, <2>3, <2>4 DEF ChildAccept, TypeInv, TypeOK, EnvTypeOK
<1>8. CASE ChildSignal(j)
  <2> DEFINE d == [c EXCEPT !.ev = @ \ {"sig"}, !.stop = @ \/ c.sig, !.sig = FALSE]
  <2>1. d \in Child /\ ReportHolds(d)
    BY <1>1 DEF Child, ReportHolds
  <2>2. child' = [child EXCEPT ![j] = d]
    BY <1>8 DEF ChildSignal
  <2>3. Kept
    BY <2>1, <2>2, ChildUpdate
  <2>4. QED
    BY <1>3, <1>8, <2>3 DEF ChildSignal
<1>9. CASE ChildProcess(j)
  <2>1. PICK closed \in 0 .. c.conns :
          child' = [child EXCEPT ![j] = [c EXCEPT !.ev = @ \ {"conn"}, !.conns = @ - closed]]
    BY <1>9 DEF ChildProcess
  <2>2. c.conns - closed \in Nat
    BY <1>1, <1>9 DEF ChildProcess, ChildInBatch, ReportHolds, Child
  <2>3. Kept
    BY <1>1, <2>1, <2>2, ChildUpdate DEF Child, ReportHolds
  <2>4. QED
    BY <1>3, <1>9, <2>3 DEF ChildProcess
<1>10. CASE ChildEndBatch(j)
  <2>1. Kept
    <3>1. CASE c.stop
      BY <1>1, <1>10, <3>1, ChildRecords, ChildUpdate DEF ChildEndBatch, Exit
    <3>2. CASE ~ c.stop
      BY <1>1, <1>10, <3>2, ChildUpdate DEF ChildEndBatch, Child, Running, ReportHolds
    <3>3. QED
      BY <3>1, <3>2
  <2>2. pend' \subseteq Signals
    BY <1>10 DEF ChildEndBatch, Exit, RaisedBy, Signals, TypeInv, TypeOK, SignalTypeOK
  <2>3. QED
    BY <1>10, <2>1, <2>2 DEF ChildEndBatch, parentVars, envVars, TypeInv, TypeOK,
       ParentTypeOK, SignalTypeOK, EnvTypeOK, BatchIndex, One
<1>11. QED
  BY <1>4, <1>5, <1>6, <1>7, <1>8, <1>9, <1>10 DEF ChildStep

\* Signals, connections and crashes keep the types.
LEMMA EnvTypeStep ==
    ASSUME TypeInv,
           DeliverSignal \/ Arrive \/ Terminate \/ \E j \in Slots : Crash(j)
    PROVE  TypeInv'
<1> USE DEF TypeInv, TypeOK
<1>1. CASE DeliverSignal
  <2>1. pready' \subseteq ParentEvents
    BY <1>1 DEF DeliverSignal, ParentTypeOK, ParentEvents
  <2>2. SignalTypeOK'
    BY <1>1 DEF DeliverSignal, SignalTypeOK
  <2>3. QED
    BY <1>1, <2>1, <2>2 DEF DeliverSignal, ParentTypeOK, ChildTypeOK, EnvTypeOK,
       BatchIndex, One, ReportsHold, envVars
<1>2. CASE Arrive
  <2>1. pready' \subseteq ParentEvents
    BY <1>2 DEF Arrive, ParentTypeOK, ParentEvents
  <2>2. QED
    BY <1>2, <2>1 DEF Arrive, ParentTypeOK, SignalTypeOK, ChildTypeOK, EnvTypeOK,
       BatchIndex, One, ReportsHold, signalVars
<1>3. CASE Terminate
  <2>1. pstate' \in {"setup", "wait", "loop", "exited", "killed", "hung"}
    BY <1>3 DEF Terminate, ParentTypeOK
  <2>2. pend' \subseteq Signals
    BY <1>3 DEF Terminate, SignalTypeOK, Signals
  <2>3. QED
    BY <1>3, <2>1, <2>2 DEF Terminate, ParentTypeOK, SignalTypeOK, ChildTypeOK, EnvTypeOK,
       BatchIndex, One, ReportsHold
<1>4. ASSUME NEW j \in Slots, Crash(j) PROVE TypeInv'
  <2>1. ChildTypeOK' /\ ReportsHold'
    BY <1>4, ChildRecords, ChildUpdate DEF Crash, Exit, ChildTypeOK
  <2>2. pend' \subseteq Signals
    BY <1>4 DEF Crash, Exit, RaisedBy, SignalTypeOK, Signals
  <2>3. QED
    BY <1>4, <2>1, <2>2 DEF Crash, ParentTypeOK, SignalTypeOK, EnvTypeOK,
       BatchIndex, One, parentVars
<1>5. QED
  BY <1>1, <1>2, <1>3, <1>4

LEMMA TypeStep == TypeInv /\ [Next]_vars => TypeInv'
<1> SUFFICES ASSUME TypeInv, [Next]_vars PROVE TypeInv'
  OBVIOUS
<1>1. CASE Next
  BY <1>1, ParentTypeStep, ChildTypeStep, EnvTypeStep DEF Next
<1>2. CASE UNCHANGED vars
  BY <1>2 DEF vars, parentVars, signalVars, envVars, TypeInv, TypeOK, ParentTypeOK,
     SignalTypeOK, ChildTypeOK, EnvTypeOK, BatchIndex, One, ReportsHold
<1>3. QED
  BY <1>1, <1>2

\* In every reachable state the variables have their types; child_counter is
\* at most 2, and an event reported to a child is not stale when handled.
THEOREM TypeCorrect == Spec => []TypeOK
<1>1. TypeInv => TypeOK
  BY DEF TypeInv
<1>2. QED
  BY <1>1, TypeInit, TypeStep, PTL DEF Spec

-----------------------------------------------------------------------------
(* The order in which children serve.                                      *)

\* With three or more children the search always begins at slot 0, because line 231
\* divides the number of the event, which is at most 2, by the number of children.
FirstInv == PoolSize > 2 => child_counter = 0 /\ FirstServes

\* The steps that may make a child serve that did not, or move the counter, are the
\* dispatch of a connection; every other step leaves a serving child as it was told to
\* be, and no step gives a slot its pid back.
LEMMA QuietFirstStep ==
    ASSUME TypeInv, FirstInv, UNCHANGED child_counter,
           \A k \in Slots : m_pid[k] = None => m_pid'[k] = None,
           \A k \in Slots : Serves(k)' => Serves(k)
    PROVE  FirstInv'
  BY DEF FirstInv, FirstServes

LEMMA ChildFirstStep ==
    ASSUME TypeInv, NEW j \in Slots, ChildStep(j) \/ Crash(j)
    PROVE  /\ UNCHANGED <<child_counter, m_pid>>
           /\ \A k \in Slots : Serves(k)' => Serves(k)
<1>1. UNCHANGED <<child_counter, m_pid>>
  BY DEF ChildStep, ChildSetup, ChildEpollWait, ChildRecvNote, ChildAccept, ChildSignal,
     ChildProcess, ChildEndBatch, Crash, ChildOnly, parentVars
<1> SUFFICES \A k \in Slots : Serves(k)' => Serves(k)
  BY <1>1
<1> child \in [Slots -> Child] /\ ReportHolds(child[j])
  BY DEF TypeInv, TypeOK, ChildTypeOK, ReportsHold
<1>3. CASE ChildSetup(j)
  BY <1>3 DEF ChildSetup, Serves
<1>4. CASE ChildEpollWait(j)
  <2>1. PICK batch :
          child' = [child EXCEPT ![j].st = "loop", ![j].ev = batch, ![j].ready = {}]
    BY <1>4 DEF ChildEpollWait
  <2>2. QED
    BY <2>1 DEF Serves
<1>5. CASE ChildRecvNote(j)
  BY <1>5 DEF ChildRecvNote, ChildInBatch, ReportHolds, NotesLeft, Serves
<1>6. CASE ChildAccept(j)
  BY <1>6 DEF ChildAccept, Serves
<1>7. CASE ChildSignal(j)
  BY <1>7 DEF ChildSignal, Serves
<1>8. CASE ChildProcess(j)
  BY <1>8 DEF ChildProcess, ChildInBatch, ReportHolds, Serves, Child
<1>9. ASSUME Exit(j) PROVE \A k \in Slots : Serves(k)' => Serves(k)
  <2>1. Corpse.notes = 0 /\ Corpse.conns = 0 /\ Corpse.st # "accept"
    BY DEF Corpse, Gone, Forked
  <2>2. child' = [child EXCEPT ![j] = Corpse]
    BY <1>9 DEF Exit
  <2>3. QED
    BY <2>1, <2>2 DEF Serves
<1>10. CASE ChildEndBatch(j)
  <2>1. CASE Exit(j)
    BY <1>9, <2>1
  <2>2. CASE child' = [child EXCEPT ![j].st = "wait"]
    BY <2>2 DEF Serves
  <2>3. QED
    BY <1>10, <2>1, <2>2 DEF ChildEndBatch
<1>11. CASE Crash(j)
  BY <1>9, <1>11 DEF Crash
<1>12. QED
  BY <1>3, <1>4, <1>5, <1>6, <1>7, <1>8, <1>10, <1>11 DEF ChildStep

LEMMA DispatchFirstStep ==
    ASSUME TypeInv, FirstInv, NEW j \in Found, Dispatch(j)
    PROVE  FirstInv'
<1> SUFFICES ASSUME PoolSize > 2 PROVE child_counter' = 0 /\ FirstServes'
  BY DEF FirstInv
<1> PoolSize \in 3..16 /\ child_counter = 0 /\ FirstServes /\ 0 \in Slots
  BY PoolSizeAssumption DEF FirstInv, Slots
<1>1. child_counter' = 0
  <2>1. i \in 0..1
    BY DEF Dispatch, InBatch, TypeInv, TypeOK, ParentTypeOK, BatchIndex, One
  <2>2. QED
    BY <2>1 DEF Dispatch, CounterAfter
<1>2. j \in Slots /\ FirstLive(j)
  BY DEF Found
<1>3. \A k \in Slots : k < j => m_pid[k] = None
  BY <1>2 DEF FirstLive, Slots
<1>4. \A k \in Slots \ {j} : child'[k] = child[k]
  BY DEF Dispatch
<1>5. UNCHANGED m_pid
  BY DEF Dispatch
<1>6. QED
  BY <1>1, <1>3, <1>4, <1>5 DEF FirstServes, Serves

LEMMA ChangedFirstStep ==
    ASSUME TypeInv, HandleChld \/ HandleTerm
    PROVE  /\ UNCHANGED child_counter
           /\ \A k \in Slots : m_pid[k] = None => m_pid'[k] = None
           /\ \A k \in Slots : Serves(k)' => Serves(k)
<1>1. Gone("zombie").notes = 0 /\ Gone("zombie").conns = 0 /\ Gone("zombie").st # "accept"
  BY DEF Gone, Forked
<1>2. Gone("reaped").notes = 0 /\ Gone("reaped").conns = 0 /\ Gone("reaped").st # "accept"
  BY DEF Gone, Forked
<1>3. CASE HandleChld
  BY <1>2, <1>3 DEF HandleChld, Serves
<1>4. CASE HandleTerm
  <2>1. ASSUME NEW k \in Slots PROVE Serves(k)' => Serves(k)
    <3>1. child[k] \in Child
      BY DEF TypeInv, TypeOK, ChildTypeOK
    <3>2. child'[k] = child[k] \/ child'[k] = Killed(child[k])
      BY <1>4 DEF HandleTerm
    <3>3. CASE child[k].st \in Running
      BY <3>1, <3>2, <3>3 DEF Killed, Serves, Child
    <3>4. CASE child[k].st \notin Running
      BY <1>1, <3>2, <3>4 DEF Killed, Serves
    <3>5. QED
      BY <3>3, <3>4
  <2>2. QED
    BY <1>4, <2>1 DEF HandleTerm, parentVars
<1>5. QED
  BY <1>3, <1>4

LEMMA FirstStep == TypeInv /\ FirstInv /\ [Next]_vars => FirstInv'
<1> SUFFICES ASSUME TypeInv, FirstInv, [Next]_vars PROVE FirstInv'
  OBVIOUS
<1>1. ASSUME UNCHANGED <<child_counter, m_pid, child>> PROVE FirstInv'
  BY <1>1 DEF FirstInv, FirstServes, Serves
<1>2. CASE HandleChld \/ HandleTerm
  BY <1>2, ChangedFirstStep, QuietFirstStep
<1>3. CASE ParentSetup \/ EpollWait \/ DispatchNone \/ RecvSignals \/ ParentEndBatch
  BY <1>1, <1>3 DEF ParentSetup, EpollWait, DispatchNone, RecvSignals, ParentEndBatch
<1>4. CASE \E j \in Found : Dispatch(j)
  BY <1>4, DispatchFirstStep
<1>5. CASE DeliverSignal \/ Arrive \/ Terminate
  BY <1>1, <1>5 DEF DeliverSignal, Arrive, Terminate
<1>6. CASE \E j \in Slots : ChildStep(j) \/ Crash(j)
  BY <1>6, ChildFirstStep, QuietFirstStep
<1>7. CASE UNCHANGED vars
  BY <1>1, <1>7 DEF vars, parentVars
<1>8. QED
  BY <1>2, <1>3, <1>4, <1>5, <1>6, <1>7 DEF Next, ParentStep

\* With three or more children a child gets a connection only when all the children
\* before it have been joined (lines 217-231): the pool is no round robin.
THEOREM InOrder == Spec => []FirstServes
<1>1. Init => FirstInv
  BY DEF Init, FirstInv, FirstServes, Serves, Forked
<1>2. FirstInv => FirstServes
  BY DEF FirstInv, FirstServes
<1>3. QED
  BY <1>1, <1>2, FirstStep, TypeInit, TypeStep, PTL DEF Spec

-----------------------------------------------------------------------------
(* No orphans.  A slot is cleared only when its child is joined, a joined  *)
(* child never comes back, m_stop means that every slot is clear, and the  *)
(* loop is left only with m_stop.                                          *)

ClearedAreJoined == \A j \in Slots : m_pid[j] = None => child[j].st = "reaped"
JoinInv ==
    /\ ClearedAreJoined
    /\ m_stop => StopAfter(m_pid)
    /\ pstate = "exited" => m_stop

\* Nothing but the parent's loop touches the parent's variables.
LEMMA OthersKeepParent ==
    ASSUME DeliverSignal \/ Arrive \/ \E j \in Slots : ChildStep(j) \/ Crash(j)
    PROVE  UNCHANGED <<pstate, m_pid, m_stop, ev, signal>>
BY DEF ChildStep, ChildSetup, ChildEpollWait, ChildRecvNote, ChildAccept, ChildSignal,
   ChildProcess, ChildEndBatch, Crash, ChildOnly, DeliverSignal, Arrive, parentVars, signalVars

\* A child that was joined stays so.
LEMMA ReapedStays ==
    ASSUME TypeInv, Next, NEW j \in Slots, child[j].st = "reaped"
    PROVE  child'[j].st = "reaped"
<1> USE DEF TypeInv, TypeOK, ChildTypeOK
<1>1. CASE ParentStep
  <2>1. CASE UNCHANGED child
    BY <2>1
  <2>2. Notified(child[j]) = child[j] /\ Killed(child[j]) = child[j]
    BY DEF Notified, Killed, Running
  <2>3. ASSUME NEW k, Dispatch(k) PROVE child'[j].st = "reaped"
    BY <2>2, <2>3 DEF Dispatch
  <2>4. CASE HandleChld
    BY <2>4 DEF HandleChld, Joined, Dead
  <2>5. CASE HandleTerm
    BY <2>2, <2>5 DEF HandleTerm
  <2>6. QED
    BY <1>1, <2>1, <2>3, <2>4, <2>5 DEF ParentStep, ParentSetup, EpollWait, DispatchNone,
       RecvSignals, ParentEndBatch
<1>2. CASE DeliverSignal \/ Arrive \/ Terminate
  BY <1>2 DEF DeliverSignal, Arrive, Terminate
<1>3. ASSUME NEW k \in Slots, ChildStep(k) \/ Crash(k) PROVE child'[j] = child[j]
  <2>1. k # j
    BY <1>3 DEF ChildStep, ChildSetup, ChildEpollWait, ChildRecvNote, ChildAccept,
       ChildSignal, ChildProcess, ChildEndBatch, ChildInBatch, Crash, Alive, Running
  <2>2. QED
    BY <1>3, <2>1 DEF ChildStep, ChildSetup, ChildEpollWait, ChildRecvNote, ChildAccept,
       ChildSignal, ChildProcess, ChildEndBatch, Crash, Exit
<1>4. QED
  BY <1>1, <1>2, <1>3 DEF Next

\* A slot is only ever cleared by HandleChld, which clears those it joined.
LEMMA ClearedStep ==
    ASSUME TypeInv, ClearedAreJoined, Next
    PROVE  ClearedAreJoined'
<1> SUFFICES ASSUME NEW j \in Slots, m_pid'[j] = None PROVE child'[j].st = "reaped"
  BY DEF ClearedAreJoined
<1>1. CASE m_pid[j] = None
  BY <1>1, ReapedStays DEF ClearedAreJoined
<1>2. CASE m_pid[j] # None
  <2>1. HandleChld
    BY <1>2, OthersKeepParent DEF Next, ParentStep, ParentSetup, EpollWait, DispatchNone,
       Dispatch, RecvSignals, HandleTerm, ParentEndBatch, parentVars, Terminate
  <2>2. j \in Joined
    BY <1>2, <2>1 DEF HandleChld
  <2>3. QED
    BY <2>1, <2>2 DEF HandleChld, Gone, Forked
<1>3. QED
  BY <1>1, <1>2

LEMMA JoinStep == TypeInv /\ JoinInv /\ [Next]_vars => JoinInv'
<1> SUFFICES ASSUME TypeInv, JoinInv, [Next]_vars PROVE JoinInv'
  OBVIOUS
<1> USE DEF JoinInv
<1>1. CASE UNCHANGED vars
  BY <1>1 DEF vars, parentVars, ClearedAreJoined, StopAfter
<1>2. ASSUME Next PROVE ClearedAreJoined'
  BY <1>2, ClearedStep
<1>3. ASSUME UNCHANGED <<pstate, m_pid, m_stop>>
      PROVE  (m_stop => StopAfter(m_pid))' /\ (pstate = "exited" => m_stop)'
  BY <1>3 DEF StopAfter
<1>4. CASE ParentStep
  <2>1. CASE ParentSetup \/ EpollWait
    BY <1>2, <1>4, <2>1 DEF ParentSetup, EpollWait, StopAfter, Next
  <2>2. CASE DispatchNone
    BY <1>2, <1>4, <2>2 DEF DispatchNone, StopAfter, Next
  <2>3. CASE HandleChld
    BY <1>2, <1>4, <2>3 DEF HandleChld, StopAfter, Next
  <2>4. CASE ParentEndBatch
    BY <1>2, <1>4, <2>4 DEF ParentEndBatch, StopAfter, Next
  <2>5. CASE RecvSignals \/ HandleTerm \/ \E j : Dispatch(j)
    BY <1>2, <1>3, <1>4, <2>5 DEF RecvSignals, HandleTerm, Dispatch, parentVars, Next
  <2>6. QED
    BY <1>4, <2>1, <2>2, <2>3, <2>4, <2>5 DEF ParentStep
<1>5. CASE Terminate
  BY <1>2, <1>5 DEF Terminate, StopAfter, Next
<1>6. CASE DeliverSignal \/ Arrive \/ \E j \in Slots : ChildStep(j) \/ Crash(j)
  BY <1>2, <1>3, <1>6, OthersKeepParent DEF Next
<1>7. QED
  BY <1>1, <1>4, <1>5, <1>6 DEF Next

LEMMA JoinInit == Init => JoinInv
BY DEF Init, JoinInv, ClearedAreJoined, None, Slots

\* When the parent has left its loop, every child has exited and was joined.
THEOREM NoOrphansLeft == Spec => []NoOrphans
<1>1. TypeInv /\ JoinInv => NoOrphans
  BY DEF JoinInv, ClearedAreJoined, StopAfter, NoOrphans
<1>2. QED
  BY <1>1, TypeInit, TypeStep, JoinInit, JoinStep, PTL DEF Spec

-----------------------------------------------------------------------------
(* No SIGCHLD is lost.  Its way from the kernel to the handler is followed *)
(* in three stages; the edge of the signal pipe is armed at the second.    *)

Quiet ==
    /\ pstate = "setup" => sigpipe = <<>> /\ signal = <<>>
    /\ pstate \in {"setup", "wait"} => ev = {}
Armed == sigpipe # <<>> => "sig" \in pready \cup ev \/ StopAfter(m_pid)
Zombies == {j \in Slots : child[j].st = "zombie"}
OnItsWay == "CHLD" \in pend \/ "CHLD" \in Range(sigpipe) \/ "CHLD" \in Range(signal)
ChldInv ==
    /\ Quiet
    /\ Listening => Armed /\ (Zombies # {} => OnItsWay)
    /\ pstate = "setup" => Zombies = {}

LEMMA RangeAppend ==
    ASSUME NEW s \in Seq(Signals), NEW x \in Signals
    PROVE  Range(s) \cup {x} \subseteq Range(Append(s, x))
<1> DEFINE t == Append(s, x)
<1>1. /\ DOMAIN s = 1..Len(s) /\ DOMAIN t = 1..(Len(s) + 1) /\ Len(s) \in Nat
      /\ \A n \in 1..Len(s) : t[n] = s[n]
      /\ t[Len(s) + 1] = x
  OBVIOUS
<1> HIDE DEF t
<1>2. Range(s) \subseteq Range(t)
  BY <1>1 DEF Range
<1>3. x \in Range(t)
  BY <1>1 DEF Range
<1>4. QED
  BY <1>2, <1>3 DEF t

LEMMA RangeTail ==
    ASSUME NEW s \in Seq(Signals), s # <<>>
    PROVE  Range(s) \subseteq {Head(s)} \cup Range(Tail(s))
<1> DEFINE t == Tail(s)
<1>1. /\ DOMAIN s = 1..Len(s) /\ DOMAIN t = 1..(Len(s) - 1) /\ Len(s) \in Nat
      /\ \A n \in 1..(Len(s) - 1) : t[n] = s[n + 1]
      /\ s[1] = Head(s)
  OBVIOUS
<1> HIDE DEF t
<1> SUFFICES ASSUME NEW n \in 1..Len(s), n # 1 PROVE s[n] \in Range(t)
  BY <1>1 DEF Range, t
<1>2. n - 1 \in DOMAIN t /\ t[n - 1] = s[n]
  BY <1>1
<1>3. QED
  BY <1>2 DEF Range

\* The control of the parent: nothing is read before setup, a batch is over
\* before the next epoll_wait.
LEMMA QuietStep == Quiet /\ [Next]_vars => Quiet'
<1> SUFFICES ASSUME Quiet, [Next]_vars PROVE Quiet'
  OBVIOUS
<1> USE DEF Quiet
<1>1. CASE UNCHANGED vars
  BY <1>1 DEF vars, parentVars, signalVars
<1>2. CASE ParentStep
  BY <1>2 DEF ParentStep, ParentSetup, EpollWait, DispatchNone, Dispatch,
     InBatch, RecvSignals, HandleChld, HandleTerm, ParentEndBatch, parentVars, signalVars
<1>3. CASE DeliverSignal
  BY <1>3 DEF DeliverSignal, Listening
<1>4. CASE Arrive \/ Terminate
  BY <1>4 DEF Arrive, Terminate, Listening, signalVars
<1>5. ASSUME NEW j \in Slots, ChildStep(j) \/ Crash(j)
      PROVE  UNCHANGED <<pstate, ev, sigpipe, signal>>
  BY <1>5 DEF ChildStep, ChildSetup, ChildEpollWait, ChildRecvNote, ChildAccept, ChildSignal,
     ChildProcess, ChildEndBatch, Crash, ChildOnly, parentVars, signalVars
<1>6. QED
  BY <1>1, <1>2, <1>3, <1>4, <1>5 DEF Next

\* A zombie appears only with its SIGCHLD: when the parent kills a child that
\* has no handler yet, or when a child exits or crashes.
LEMMA NewZombie ==
    ASSUME TypeInv, Next, NEW j \in Slots, child[j].st # "zombie", child'[j].st = "zombie"
    PROVE  Listening /\ "CHLD" \in pend'
<1> USE DEF TypeInv, TypeOK, ChildTypeOK
<1>1. CASE ParentStep
  <2>1. CASE UNCHANGED child
    BY <2>1
  <2>2. Notified(child[j]).st = child[j].st
    BY DEF Notified, Child
  <2>3. ASSUME NEW k, Dispatch(k) PROVE child'[j].st = child[j].st
    BY <2>2, <2>3 DEF Dispatch
  <2>4. CASE HandleChld
    BY <2>4 DEF HandleChld, Gone, Forked
  <2>5. CASE HandleTerm
    <3>1. child'[j] = IF m_pid[j] # None THEN Killed(child[j]) ELSE child[j]
      BY <2>5 DEF HandleTerm
    <3>2. child[j].st \notin Running
      BY <3>1 DEF Killed, Child, Running
    <3>3. m_pid[j] # None /\ child[j].st = "forked"
      BY <3>1, <3>2 DEF Killed
    <3>4. Listening
      BY <2>5 DEF HandleTerm, Listening
    <3>5. QED
      BY <2>5, <3>3, <3>4 DEF HandleTerm, RaisedBy
  <2>6. QED
    BY <1>1, <2>1, <2>3, <2>4, <2>5 DEF ParentStep, ParentSetup, EpollWait, DispatchNone,
       RecvSignals, ParentEndBatch
<1>2. CASE DeliverSignal \/ Arrive \/ Terminate
  BY <1>2 DEF DeliverSignal, Arrive, Terminate
<1>3. ASSUME NEW k \in Slots, ChildStep(k) \/ Crash(k) PROVE Listening /\ "CHLD" \in pend'
  <2>1. CASE Exit(k)
    <3>1. child'[j] = Corpse
      BY <2>1 DEF Exit
    <3>2. Listening
      BY <3>1 DEF Corpse, Gone, Forked
    <3>3. QED
      BY <2>1, <3>2 DEF Exit, RaisedBy
  <2>2. CASE ~ Exit(k)
    <3>1. child[k] \in Child
      OBVIOUS
    <3>2. child'[k].st \in Running
      <4>1. CASE ChildSetup(k) \/ ChildRecvNote(k)
        BY <3>1, <4>1 DEF ChildSetup, ChildRecvNote, Running, Child
      <4>2. CASE ChildEpollWait(k) \/ ChildAccept(k)
        <5>1. child'[k].st = "loop"
          <6>1. CASE ChildEpollWait(k)
            <7>1. PICK b : child' = [child EXCEPT ![k].st = "loop", ![k].ev = b, ![k].ready = {}]
              BY <6>1 DEF ChildEpollWait
            <7>2. QED
              BY <3>1, <7>1 DEF Child
          <6>2. CASE ChildAccept(k)
            BY <3>1, <6>2 DEF ChildAccept, Child
          <6>3. QED
            BY <4>2, <6>1, <6>2
        <5>2. QED
          BY <5>1 DEF Running
      <4>3. CASE ChildSignal(k) \/ ChildProcess(k)
        BY <3>1, <4>3 DEF ChildSignal, ChildProcess, ChildInBatch, Running, Child
      <4>4. CASE ChildEndBatch(k)
        BY <2>2, <3>1, <4>4 DEF ChildEndBatch, Running, Child
      <4>5. QED
        BY <1>3, <2>2, <4>1, <4>2, <4>3, <4>4 DEF ChildStep, Crash
    <3>3. child' = [child EXCEPT ![k] = child'[k]]
      BY <1>3, <2>2 DEF ChildStep, ChildSetup, ChildEpollWait, ChildRecvNote,
         ChildAccept, ChildSignal, ChildProcess, ChildEndBatch, Crash
    <3>4. QED
      BY <3>2, <3>3 DEF Running
  <2>3. QED
    BY <2>1, <2>2
<1>4. QED
  BY <1>1, <1>2, <1>3 DEF Next

\* What has left one stage of the way has reached the next, until the handler
\* takes it: only HandleChld forgets a SIGCHLD, and it leaves no zombie.
LEMMA WayStep ==
    ASSUME TypeInv, Next, Listening, OnItsWay, ~ HandleChld
    PROVE  Listening' => OnItsWay'
<1> SUFFICES ASSUME Listening' PROVE OnItsWay'
  OBVIOUS
<1> USE DEF TypeInv, TypeOK, SignalTypeOK
<1>1. CASE UNCHANGED <<sigpipe, signal>> /\ pend \subseteq pend'
  BY <1>1 DEF OnItsWay
<1>2. CASE DeliverSignal
  <2>1. PICK s \in pend : pend' = pend \ {s} /\ sigpipe' = Append(sigpipe, s)
    BY <1>2 DEF DeliverSignal
  <2>2. Range(sigpipe) \cup {s} \subseteq Range(sigpipe')
    BY <2>1, RangeAppend
  <2>3. QED
    BY <1>2, <2>1, <2>2 DEF DeliverSignal, OnItsWay
<1>3. CASE RecvSignals
  BY <1>3 DEF RecvSignals, InBatch, OnItsWay, Range
<1>4. CASE HandleTerm
  <2>1. Range(signal) \subseteq {"TERM"} \cup Range(signal')
    BY <1>4, RangeTail DEF HandleTerm
  <2>2. pend \subseteq pend'
    BY <1>4 DEF HandleTerm, RaisedBy
  <2>3. QED
    BY <1>4, <2>1, <2>2 DEF HandleTerm, OnItsWay
<1>5. ASSUME NEW j \in Slots, ChildStep(j) \/ Crash(j)
      PROVE  UNCHANGED <<sigpipe, signal>> /\ pend \subseteq pend'
  BY <1>5 DEF ChildStep, ChildSetup, ChildEpollWait, ChildRecvNote, ChildAccept, ChildSignal,
     ChildProcess, ChildEndBatch, Crash, Exit, RaisedBy, ChildOnly, signalVars
<1>6. CASE Arrive \/ Terminate
  BY <1>1, <1>6 DEF Arrive, Terminate, signalVars
<1>7. CASE ParentStep
  BY <1>1, <1>3, <1>4, <1>7 DEF ParentStep, ParentSetup, EpollWait, DispatchNone,
     Dispatch, ParentEndBatch, signalVars
<1>8. QED
  BY <1>1, <1>2, <1>5, <1>6, <1>7 DEF Next

\* The edge of the signal pipe stays armed, or reported, while there is
\* something unread: it is disarmed by the report and taken by the recv that
\* empties the pipe.  A batch is dropped only when no child is left.
LEMMA ArmedStep ==
    ASSUME TypeInv, Quiet, Next, Listening => Armed
    PROVE  (Listening => Armed)'
<1> SUFFICES ASSUME Listening', sigpipe' # <<>> PROVE ("sig" \in pready \cup ev \/ StopAfter(m_pid))'
  BY DEF Armed
<1>1. CASE Listening /\ UNCHANGED <<m_pid, sigpipe>> /\ pready \cup ev \subseteq pready' \cup ev'
  BY <1>1 DEF Armed, StopAfter
<1>2. CASE ParentSetup
  BY <1>2 DEF ParentSetup, Quiet, signalVars
<1>3. CASE EpollWait
  BY <1>3 DEF EpollWait, Listening, Armed, Quiet, Readable, StopAfter, signalVars
<1>4. CASE DispatchNone
  BY <1>4 DEF DispatchNone, StopAfter
<1>5. CASE RecvSignals
  BY <1>5 DEF RecvSignals
<1>6. CASE \E j : Dispatch(j)
  <2>1. Listening /\ UNCHANGED <<m_pid, sigpipe, pready>>
    BY <1>6 DEF Dispatch, InBatch, Listening, signalVars
  <2>2. "sig" \in ev => "sig" \in ev'
    BY <1>6 DEF Dispatch, NextEvent
  <2>3. QED
    BY <2>1, <2>2 DEF Armed, StopAfter
<1>7. CASE HandleChld
  <2>1. StopAfter(m_pid) => StopAfter(m_pid')
    BY <1>7 DEF HandleChld, StopAfter
  <2>2. QED
    BY <1>7, <2>1 DEF HandleChld, Listening, Armed, StopAfter
<1>8. CASE HandleTerm
  BY <1>1, <1>8 DEF HandleTerm, Listening, parentVars
<1>9. CASE ParentEndBatch
  BY <1>1, <1>9 DEF ParentEndBatch, Listening, signalVars
<1>10. CASE DeliverSignal
  BY <1>10 DEF DeliverSignal
<1>11. CASE Arrive \/ Terminate
  BY <1>1, <1>11 DEF Arrive, Terminate, Listening, signalVars
<1>12. CASE \E j \in Slots : ChildStep(j) \/ Crash(j)
  <2>1. UNCHANGED <<pstate, m_pid, sigpipe, pready, ev>>
    BY <1>12 DEF ChildStep, ChildSetup, ChildEpollWait, ChildRecvNote, ChildAccept,
       ChildSignal, ChildProcess, ChildEndBatch, Crash, ChildOnly, parentVars, signalVars
  <2>2. QED
    BY <1>1, <2>1 DEF Listening
<1>13. QED
  BY <1>2, <1>3, <1>4, <1>5, <1>6, <1>7, <1>8, <1>9, <1>10, <1>11, <1>12 DEF Next, ParentStep

LEMMA ChldStep == TypeInv /\ JoinInv /\ ChldInv /\ [Next]_vars => ChldInv'
<1> SUFFICES ASSUME TypeInv, JoinInv, ChldInv, [Next]_vars PROVE ChldInv'
  OBVIOUS
<1>1. Quiet'
  BY QuietStep DEF ChldInv
<1>2. CASE UNCHANGED vars
  BY <1>1, <1>2 DEF vars, parentVars, signalVars, ChldInv, Listening, Armed, Zombies,
     OnItsWay, StopAfter
<1>3. CASE Next
  <2>1. (Listening => Armed)'
    BY <1>3, ArmedStep DEF ChldInv
  <2>2. ASSUME Zombies' # {} PROVE (Listening => OnItsWay)' /\ pstate' # "setup"
    <3>1. PICK j \in Slots : child'[j].st = "zombie"
      BY <2>2 DEF Zombies
    <3>2. CASE child[j].st # "zombie"
      <4>1. Listening /\ "CHLD" \in pend'
        BY <1>3, <3>1, <3>2, NewZombie
      <4>2. pstate' # "setup"
        BY <1>3, <4>1, OthersKeepParent DEF Next, ParentStep, ParentSetup, EpollWait,
           DispatchNone, Dispatch, InBatch, RecvSignals, HandleChld, HandleTerm,
           ParentEndBatch, Terminate, Listening, parentVars
      <4>3. QED
        BY <4>1, <4>2 DEF OnItsWay
    <3>3. CASE child[j].st = "zombie"
      <4>1. pstate # "setup"
        BY <3>3 DEF ChldInv, Zombies
      <4>2. pstate' # "setup" /\ (Listening' => Listening)
        BY <1>3, <4>1, OthersKeepParent DEF Next, ParentStep, ParentSetup, EpollWait,
           DispatchNone, Dispatch, InBatch, RecvSignals, HandleChld, HandleTerm,
           ParentEndBatch, Terminate, Listening, parentVars
      <4>3. ~ HandleChld
        BY <3>1, <3>3 DEF HandleChld, Joined, Dead, Gone, Forked
      <4>4. Listening => OnItsWay
        BY <3>3 DEF ChldInv, Zombies
      <4>5. QED
        BY <1>3, <4>2, <4>3, <4>4, WayStep
    <3>4. QED
      BY <3>2, <3>3
  <2>3. QED
    BY <1>1, <2>1, <2>2 DEF ChldInv, Listening
<1>4. QED
  BY <1>2, <1>3

LEMMA ChldInit == Init => ChldInv
BY DEF Init, ChldInv, Quiet, Listening, Zombies, Forked

\* While a signalled zombie exists, its SIGCHLD is pending, or unread with an
\* edge that will wake the parent, or being handled.
THEOREM NoSigchldLost == Spec => []SigchldNotLost
<1>1. TypeInv /\ JoinInv /\ ChldInv => SigchldNotLost
  <2> SUFFICES ASSUME TypeInv, JoinInv, ChldInv, Listening,
                      NEW j \in Slots, child[j].st = "zombie"
               PROVE  "CHLD" \in pend \/ Unread("CHLD") \/ "CHLD" \in Range(signal)
    BY DEF SigchldNotLost
  <2>1. ~ StopAfter(m_pid)
    BY DEF StopAfter, JoinInv, ClearedAreJoined
  <2>2. OnItsWay /\ Armed
    BY DEF ChldInv, Zombies
  <2>3. "CHLD" \in Range(sigpipe) => sigpipe # <<>>
    BY DEF Range
  <2>4. QED
    BY <2>1, <2>2, <2>3 DEF OnItsWay, Armed, Unread
<1>2. QED
  BY <1>1, TypeInit, TypeStep, JoinInit, JoinStep, ChldInit, ChldStep, PTL DEF Spec

-----------------------------------------------------------------------------
(* Sums over the slots, which SumFunction defines by recursion on a set.   *)

LEMMA Least ==
    ASSUME NEW S, S \subseteq Nat, S # {}
    PROVE  \E m \in S : \A k \in S : m <= k
<1>1. PICK m \in S : \A k \in S : ~ (<<k, m>> \in OpToRel(<, Nat))
  BY NatLessThanWellFounded, WFMin
<1>2. ASSUME NEW k \in S
      PROVE  m <= k
  <2>1. k \in Nat /\ m \in Nat /\ ~ (k < m)
    BY <1>1 DEF OpToRel
  <2>2. QED
    BY <2>1
<1>3. QED
  BY <1>2

\* it sums f over every subset of S of at most n members.
SumsUpTo(it, f, S, n) ==
    it = [s \in {s \in SUBSET S : Cardinality(s) <= n} |->
            IF s = {} THEN 0
            ELSE LET x == CHOOSE x \in s : TRUE IN f[x] + it[s \ {x}]]

Sums(it, f, S) ==
    it = [s \in SUBSET S |->
            IF s = {} THEN 0
            ELSE LET x == CHOOSE x \in s : TRUE IN f[x] + it[s \ {x}]]

LEMMA SumsExist ==
    ASSUME NEW S, IsFiniteSet(S), NEW f
    PROVE  \E it : Sums(it, f, S)
<1> DEFINE Dom(n) == {s \in SUBSET S : Cardinality(s) <= n}
           Bad == {n \in Nat : ~ \E it : SumsUpTo(it, f, S, n)}
<1>1. \A s \in SUBSET S : IsFiniteSet(s) /\ Cardinality(s) \in Nat /\ Cardinality(s) <= Cardinality(S)
  BY FS_Subset, FS_CardinalityType
<1>2. \A s \in SUBSET S : \A x \in s : Cardinality(s \ {x}) = Cardinality(s) - 1
  BY <1>1, FS_RemoveElement
<1>3. Bad = {}
  <2> SUFFICES ASSUME Bad # {}
               PROVE  FALSE
    OBVIOUS
  <2>1. PICK n \in Bad : \A k \in Bad : n <= k
    <3> HIDE DEF Bad
    <3>1. Bad \subseteq Nat
      BY DEF Bad
    <3>2. QED
      BY <3>1, Least
  <2>2. CASE n = 0
    <3>1. \A s \in Dom(n) : s = {}
      BY <1>1, <2>2, FS_EmptySet
    <3> DEFINE it == [s \in Dom(n) |-> 0]
    <3>2. it = [s \in Dom(n) |->
                  IF s = {} THEN 0
                  ELSE LET x == CHOOSE x \in s : TRUE IN f[x] + it[s \ {x}]]
      BY <3>1
    <3>3. QED
      BY <2>1, <3>2 DEF SumsUpTo
  <2>3. CASE n # 0
    <3>1. n \in Nat /\ n - 1 \in Nat
      BY <2>1, <2>3
    <3>2. PICK g : SumsUpTo(g, f, S, n - 1)
      <4> HIDE DEF Bad
      <4>1. n - 1 \notin Bad
        BY <2>1, <3>1
      <4>2. QED
        BY <3>1, <4>1 DEF Bad
    <3> DEFINE h == [s \in Dom(n) |->
                       IF s = {} THEN 0
                       ELSE LET x == CHOOSE x \in s : TRUE IN f[x] + g[s \ {x}]]
    <3>3. \A u \in Dom(n - 1) :
            g[u] = IF u = {} THEN 0
                   ELSE LET x == CHOOSE x \in u : TRUE IN f[x] + g[u \ {x}]
      BY <3>2 DEF SumsUpTo
    <3>4. \A u \in Dom(n - 1) : u \in Dom(n) /\ h[u] = g[u]
      BY <1>1, <3>1, <3>3
    <3>5. ASSUME NEW s \in Dom(n), s # {}
          PROVE  LET x == CHOOSE x \in s : TRUE IN s \ {x} \in Dom(n - 1)
      <4> DEFINE x == CHOOSE x \in s : TRUE
      <4>1. x \in s
        BY <3>5
      <4> HIDE DEF x
      <4>2. Cardinality(s \ {x}) = Cardinality(s) - 1 /\ Cardinality(s) \in Nat
        BY <1>1, <1>2, <4>1
      <4>3. s \ {x} \in Dom(n - 1)
        BY <3>1, <4>2
      <4>4. QED
        BY <4>3 DEF x
    <3>6. ASSUME NEW s \in Dom(n)
          PROVE  h[s] = IF s = {} THEN 0
                        ELSE LET x == CHOOSE x \in s : TRUE IN f[x] + h[s \ {x}]
      <4>1. CASE s = {}
        BY <4>1
      <4>2. CASE s # {}
        <5> DEFINE x == CHOOSE x \in s : TRUE
        <5>1. h[s] = f[x] + g[s \ {x}]
          BY <4>2
        <5>2. s \ {x} \in Dom(n - 1)
          BY <3>5, <4>2
        <5> HIDE DEF h, x
        <5>3. h[s \ {x}] = g[s \ {x}]
          BY <3>4, <5>2
        <5>4. h[s] = f[x] + h[s \ {x}]
          BY <5>1, <5>3
        <5>5. QED
          BY <4>2, <5>4 DEF x
      <4>3. QED
        BY <4>1, <4>2
    <3>7. SumsUpTo(h, f, S, n)
      <4>1. h = [s \in Dom(n) |-> h[s]]
        OBVIOUS
      <4> HIDE DEF h
      <4>2. [s \in Dom(n) |-> h[s]]
              = [s \in Dom(n) |->
                   IF s = {} THEN 0
                   ELSE LET x == CHOOSE x \in s : TRUE IN f[x] + h[s \ {x}]]
        BY <3>6
      <4>3. QED
        BY <4>1, <4>2 DEF SumsUpTo
    <3>8. QED
      BY <2>1, <3>7
  <2>4. QED
    BY <2>2, <2>3
<1>4. PICK it : SumsUpTo(it, f, S, Cardinality(S))
  <2>1. Cardinality(S) \in Nat
    BY FS_CardinalityType
  <2>2. QED
    BY <1>3, <2>1
<1>5. {s \in SUBSET S : Cardinality(s) <= Cardinality(S)} = SUBSET S
  BY <1>1
<1>6. Sums(it, f, S)
  BY <1>4, <1>5 DEF Sums, SumsUpTo
<1>7. QED
  BY <1>6

\* What SumFunction returns is a sum.
LEMMA SumIs ==
    ASSUME NEW f, IsFiniteSet(DOMAIN f)
    PROVE  \E it : Sums(it, f, DOMAIN f) /\ SumFunction(f) = it[DOMAIN f]
<1>1. SumFunction(f) = (CHOOSE it : Sums(it, f, DOMAIN f))[DOMAIN f]
  BY Zenon DEF SumFunction, SumFunctionOnSet, FoldFunctionOnSet, MapThenFoldSet, Sums
<1>2. \E it : Sums(it, f, DOMAIN f)
  BY SumsExist
<1>3. QED
  BY <1>1, <1>2

\* A sum of numbers is one, and where no member but one has grown, and that one
\* by at most d, neither has the sum by more.
LEMMA SumAtMost ==
    ASSUME NEW S, IsFiniteSet(S), NEW f \in [S -> Nat], NEW g \in [S -> Nat],
           NEW j \in S, NEW d \in Int, g[j] <= f[j] + d,
           \A x \in S \ {j} : g[x] <= f[x]
    PROVE  /\ SumFunction(f) \in Nat /\ SumFunction(g) \in Nat
           /\ SumFunction(g) <= SumFunction(f) + d
<1>1. PICK a : Sums(a, f, S) /\ SumFunction(f) = a[S]
  BY SumIs
<1>2. PICK b : Sums(b, g, S) /\ SumFunction(g) = b[S]
  BY SumIs
<1>3. \A s \in SUBSET S : IsFiniteSet(s) /\ Cardinality(s) \in Nat
  BY FS_Subset, FS_CardinalityType
<1>4. \A s \in SUBSET S : \A x \in s : Cardinality(s \ {x}) = Cardinality(s) - 1
  BY <1>3, FS_RemoveElement
<1>5. /\ \A s \in SUBSET S : a[s] = IF s = {} THEN 0
                                    ELSE LET x == CHOOSE x \in s : TRUE IN f[x] + a[s \ {x}]
      /\ \A s \in SUBSET S : b[s] = IF s = {} THEN 0
                                    ELSE LET x == CHOOSE x \in s : TRUE IN g[x] + b[s \ {x}]
  BY <1>1, <1>2 DEF Sums
<1> DEFINE Right(s) == /\ a[s] \in Nat /\ b[s] \in Nat
                       /\ j \in s => b[s] <= a[s] + d
                       /\ j \notin s => b[s] <= a[s]
           Bad == {n \in Nat : \E s \in SUBSET S : Cardinality(s) = n /\ ~ Right(s)}
<1>6. Bad = {}
  <2> SUFFICES ASSUME Bad # {}
               PROVE  FALSE
    OBVIOUS
  <2>1. PICK n \in Bad : \A k \in Bad : n <= k
    <3> HIDE DEF Bad
    <3>1. Bad \subseteq Nat
      BY DEF Bad
    <3>2. QED
      BY <3>1, Least
  <2>2. PICK s \in SUBSET S : Cardinality(s) = n /\ ~ Right(s)
    BY <2>1
  <2>3. s # {}
    <3>1. a[{}] = 0 /\ b[{}] = 0
      BY <1>5
    <3>2. Right({})
      BY <3>1
    <3>3. QED
      BY <2>2, <3>2
  <2> DEFINE x == CHOOSE x \in s : TRUE
             r == s \ {x}
  <2>4. x \in s /\ a[s] = f[x] + a[r] /\ b[s] = g[x] + b[r]
    BY <1>5, <2>3
  <2> HIDE DEF x
  <2>5. r \in SUBSET S /\ Cardinality(r) \in Nat /\ Cardinality(r) = n - 1 /\ n \in Nat
    BY <1>3, <1>4, <2>1, <2>2, <2>4
  <2>6. Right(r)
    <3> HIDE DEF Right
    <3>1. Cardinality(r) \notin Bad
      <4> HIDE DEF Bad, r
      <4>1. QED
        BY <2>1, <2>5
    <3> HIDE DEF r
    <3>2. QED
      BY <2>5, <3>1
  <2>7. f[x] \in Nat /\ g[x] \in Nat /\ x \in S
    BY <2>4
  <2>8. j \in r <=> j \in s /\ j # x
    OBVIOUS
  <2> HIDE DEF r
  <2>9. CASE x = j
    BY <2>2, <2>4, <2>6, <2>7, <2>8, <2>9
  <2>10. CASE x # j
    <3>1. g[x] <= f[x]
      BY <2>7, <2>10
    <3>2. QED
      BY <2>2, <2>4, <2>6, <2>7, <2>8, <2>10, <3>1
  <2>11. QED
    BY <2>9, <2>10
<1>7. Right(S)
  <2>1. S \in SUBSET S /\ Cardinality(S) \in Nat
    BY <1>3
  <2> HIDE DEF Right
  <2>2. QED
    BY <1>6, <2>1
<1>8. QED
  BY <1>1, <1>2, <1>7


-----------------------------------------------------------------------------
(* Every notification has a waiting connection.                            *)

\* Unread ints in the pipes of the children c, and those about to accept.
Told(c) == SumFunction([j \in Slots |-> c[j].notes])
AcceptingOf(c) == {j \in Slots : c[j].st = "accept"}

\* Before run_parent watches the listening socket nobody was told anything: the
\* edge that it then gets is the first notification.
NothingTold ==
    pstate = "setup" =>
        /\ pready = {} /\ ev = {}
        /\ \A j \in Slots : child[j].notes = 0 /\ child[j].st # "accept"

BackedInv == NotificationsBacked /\ NothingTold

LEMMA SlotsFinite == IsFiniteSet(Slots) /\ 0 \in Slots
BY PoolSizeAssumption, FS_Interval DEF Slots

LEMMA ToldAtMost ==
    ASSUME NEW c \in [Slots -> Child], NEW c2 \in [Slots -> Child],
           NEW j \in Slots, NEW d \in Int, c2[j].notes <= c[j].notes + d,
           \A k \in Slots \ {j} : c2[k].notes <= c[k].notes
    PROVE  /\ Told(c) \in Nat /\ Told(c2) \in Nat
           /\ Told(c2) <= Told(c) + d
<1> DEFINE f == [k \in Slots |-> c[k].notes]
           g == [k \in Slots |-> c2[k].notes]
<1>1. f \in [Slots -> Nat] /\ g \in [Slots -> Nat]
  BY DEF Child
<1>2. g[j] <= f[j] + d /\ \A k \in Slots \ {j} : g[k] <= f[k]
  OBVIOUS
<1>3. Told(c) = SumFunction(f) /\ Told(c2) = SumFunction(g)
  BY DEF Told
<1> HIDE DEF f, g
<1>4. SumFunction(f) \in Nat /\ SumFunction(g) \in Nat /\ SumFunction(g) <= SumFunction(f) + d
  <2>1. IsFiniteSet(Slots) /\ j \in Slots /\ d \in Int
    BY SlotsFinite
  <2> HIDE DEF Slots
  <2>2. QED
    BY <1>1, <1>2, <2>1, SumAtMost
<1>5. QED
  BY <1>3, <1>4

\* Nobody was told anything when every pipe is empty.
LEMMA NoneTold ==
    ASSUME NEW c \in [Slots -> Child], \A j \in Slots : c[j].notes = 0
    PROVE  Told(c) = 0
<1> DEFINE f == [k \in Slots |-> c[k].notes]
<1>1. f = [k \in Slots |-> 0] /\ IsFiniteSet(DOMAIN f)
  BY SlotsFinite
<1>2. PICK a : Sums(a, f, Slots) /\ SumFunction(f) = a[Slots]
  <2>1. DOMAIN f = Slots
    OBVIOUS
  <2> HIDE DEF f
  <2>2. QED
    BY <1>1, <2>1, SumIs
<1>3. \A s \in SUBSET Slots : a[s] = IF s = {} THEN 0
                                     ELSE LET x == CHOOSE x \in s : TRUE IN f[x] + a[s \ {x}]
  BY <1>2 DEF Sums
<1>4. \A s \in SUBSET Slots : IsFiniteSet(s) /\ Cardinality(s) \in Nat
  BY SlotsFinite, FS_Subset, FS_CardinalityType
<1> DEFINE Off == {n \in Nat : \E s \in SUBSET Slots : Cardinality(s) = n /\ a[s] # 0}
<1>5. Off = {}
  <2> SUFFICES ASSUME Off # {}
               PROVE  FALSE
    OBVIOUS
  <2>1. PICK n \in Off : \A k \in Off : n <= k
    <3> HIDE DEF Off
    <3>1. Off \subseteq Nat
      BY DEF Off
    <3>2. QED
      BY <3>1, Least
  <2>2. PICK s \in SUBSET Slots : Cardinality(s) = n /\ a[s] # 0
    BY <2>1
  <2>3. s # {}
    BY <1>3, <2>2
  <2> DEFINE x == CHOOSE x \in s : TRUE
             r == s \ {x}
  <2>4. x \in s /\ a[s] = f[x] + a[r]
    BY <1>3, <2>3
  <2> HIDE DEF x
  <2>5. r \in SUBSET Slots /\ Cardinality(r) \in Nat /\ Cardinality(r) = n - 1 /\ n \in Nat
    BY <1>4, <2>1, <2>2, <2>4, FS_RemoveElement
  <2>6. a[r] = 0
    <3>1. Cardinality(r) \notin Off
      <4> HIDE DEF Off, r
      <4>1. QED
        BY <2>1, <2>5
    <3> HIDE DEF r
    <3>2. QED
      BY <2>5, <3>1
  <2>7. f[x] = 0
    BY <1>1, <2>4
  <2>8. QED
    BY <2>2, <2>4, <2>6, <2>7
<1>6. a[Slots] = 0
  BY <1>4, <1>5
<1>7. QED
  BY <1>2, <1>6 DEF Told

LEMMA AcceptingAtMost ==
    ASSUME NEW A \in SUBSET Slots, NEW B \in SUBSET Slots
    PROVE  /\ Cardinality(A) \in Nat /\ Cardinality(B) \in Nat
           /\ B \subseteq A => Cardinality(B) <= Cardinality(A)
           /\ \A j \in Slots : B \subseteq A \cup {j} => Cardinality(B) <= Cardinality(A) + 1
           /\ \A j \in A : B \subseteq A \ {j} => Cardinality(B) <= Cardinality(A) - 1
<1>1. IsFiniteSet(A) /\ IsFiniteSet(B) /\ Cardinality(A) \in Nat /\ Cardinality(B) \in Nat
  BY SlotsFinite, FS_Subset, FS_CardinalityType
<1>2. B \subseteq A => Cardinality(B) <= Cardinality(A)
  BY <1>1, FS_Subset
<1>3. ASSUME NEW j \in Slots, B \subseteq A \cup {j}
      PROVE  Cardinality(B) <= Cardinality(A) + 1
  <2>1. IsFiniteSet(A \cup {j}) /\ Cardinality(A \cup {j}) \in Nat
        /\ Cardinality(A \cup {j}) <= Cardinality(A) + 1
    <3>1. IsFiniteSet(A \cup {j})
          /\ Cardinality(A \cup {j}) = IF j \in A THEN Cardinality(A) ELSE Cardinality(A) + 1
      BY <1>1, FS_AddElement
    <3>2. QED
      BY <1>1, <3>1
  <2>2. Cardinality(B) <= Cardinality(A \cup {j})
    BY <1>3, <2>1, FS_Subset
  <2>3. QED
    BY <1>1, <2>1, <2>2
<1>4. ASSUME NEW j \in A, B \subseteq A \ {j}
      PROVE  Cardinality(B) <= Cardinality(A) - 1
  <2>1. IsFiniteSet(A \ {j}) /\ Cardinality(A \ {j}) = Cardinality(A) - 1
    BY <1>1, FS_RemoveElement
  <2>2. Cardinality(B) <= Cardinality(A \ {j})
    BY <1>4, <2>1, FS_Subset
  <2>3. QED
    BY <2>1, <2>2
<1>5. QED
  BY <1>1, <1>2, <1>3, <1>4

\* The edges of the listening socket that are armed or reported.
EdgesOf(p, e) == (IF "listen" \in p THEN 1 ELSE 0) + (IF "listen" \in e THEN 1 ELSE 0)

LEMMA EdgesAre ==
    \A p, e : Cardinality({"listen"} \cap p) + Cardinality({"listen"} \cap e) = EdgesOf(p, e)
<1>1. ASSUME NEW S
      PROVE  Cardinality({"listen"} \cap S) = IF "listen" \in S THEN 1 ELSE 0
  <2>1. CASE "listen" \in S
    <3>1. {"listen"} \cap S = {"listen"}
      BY <2>1
    <3>2. QED
      BY <2>1, <3>1, FS_Singleton
  <2>2. CASE "listen" \notin S
    <3>1. {"listen"} \cap S = {}
      BY <2>2
    <3>2. QED
      BY <2>2, <3>1, FS_EmptySet
  <2>3. QED
    BY <2>1, <2>2
<1>2. TAKE p, e
<1>3. Cardinality({"listen"} \cap p) = IF "listen" \in p THEN 1 ELSE 0
  BY <1>1
<1>4. Cardinality({"listen"} \cap e) = IF "listen" \in e THEN 1 ELSE 0
  BY <1>1
<1>5. QED
  BY <1>3, <1>4 DEF EdgesOf

\* What is on its way: ints, children about to accept, and edges.
OnWay(c, p, e) == Told(c) + Cardinality(AcceptingOf(c)) + EdgesOf(p, e)

LEMMA BackedIs ==
    /\ NotificationsBacked <=> OnWay(child, pready, ev) <= backlog
    /\ NotificationsBacked' <=> OnWay(child', pready', ev') <= backlog'
<1>1. NotificationsBacked <=> OnWay(child, pready, ev) <= backlog
  BY EdgesAre DEF NotificationsBacked, Edges, Accepting, OnWay, Told, AcceptingOf
<1>2. NotificationsBacked' <=> OnWay(child', pready', ev') <= backlog'
  BY EdgesAre DEF NotificationsBacked, Edges, Accepting, OnWay, Told, AcceptingOf
<1>3. QED
  BY <1>1, <1>2

\* A step after which no child has more to read and no other is about to accept.
FewerNotes ==
    \A k \in Slots : /\ child'[k].notes <= child[k].notes
                     /\ child'[k].st = "accept" => child[k].st = "accept"

LEMMA CountsType ==
    ASSUME NEW c \in [Slots -> Child], NEW p, NEW e
    PROVE  /\ Told(c) \in Nat /\ Cardinality(AcceptingOf(c)) \in Nat /\ EdgesOf(p, e) \in 0..2
<1>1. Told(c) \in Nat
  <2>1. \A k \in Slots : c[k].notes \in Nat /\ c[k].notes <= c[k].notes + 0
    BY DEF Child
  <2>2. \A k \in Slots \ {0} : c[k].notes <= c[k].notes
    BY <2>1
  <2>3. 0 \in Slots /\ 0 \in Int
    BY SlotsFinite
  <2>4. QED
    BY <2>1, <2>2, <2>3, ToldAtMost
<1>2. AcceptingOf(c) \in SUBSET Slots
  BY DEF AcceptingOf
<1>3. QED
  BY <1>1, <1>2, AcceptingAtMost DEF EdgesOf

LEMMA FewerStep ==
    ASSUME TypeInv, TypeInv', FewerNotes
    PROVE  /\ Told(child') <= Told(child)
           /\ Cardinality(AcceptingOf(child')) <= Cardinality(AcceptingOf(child))
<1>1. child \in [Slots -> Child] /\ child' \in [Slots -> Child]
  BY DEF TypeInv, TypeOK, ChildTypeOK
<1>2. Told(child') <= Told(child)
  <2>1. child'[0].notes <= child[0].notes + 0
    BY <1>1, SlotsFinite DEF FewerNotes, Child
  <2>2. \A k \in Slots \ {0} : child'[k].notes <= child[k].notes
    BY DEF FewerNotes
  <2>3. 0 \in Slots /\ 0 \in Int
    BY SlotsFinite
  <2>4. Told(child) \in Nat /\ Told(child') <= Told(child) + 0
    BY <1>1, <2>1, <2>2, <2>3, ToldAtMost
  <2>5. QED
    BY <2>4
<1>3. AcceptingOf(child') \subseteq AcceptingOf(child)
  BY DEF FewerNotes, AcceptingOf
<1>4. AcceptingOf(child) \in SUBSET Slots /\ AcceptingOf(child') \in SUBSET Slots
  BY DEF AcceptingOf
<1>5. QED
  BY <1>2, <1>3, <1>4, AcceptingAtMost

LEMMA QuieterStep ==
    ASSUME TypeInv, TypeInv', BackedInv, FewerNotes, backlog' = backlog,
           EdgesOf(pready', ev') <= EdgesOf(pready, ev),
           pstate' = "setup" => pstate = "setup" /\ pready' = pready /\ ev' = ev
    PROVE  BackedInv'
<1>1. child \in [Slots -> Child] /\ child' \in [Slots -> Child] /\ backlog \in Nat
  BY DEF TypeInv, TypeOK, ChildTypeOK, EnvTypeOK
<1>2. NotificationsBacked'
  <2>1. OnWay(child, pready, ev) <= backlog
    BY BackedIs DEF BackedInv
  <2>2. OnWay(child', pready', ev') <= backlog'
    BY <1>1, <2>1, CountsType, FewerStep DEF OnWay
  <2>3. QED
    BY <2>2, BackedIs
<1>3. NothingTold'
  <2>1. \A k \in Slots : child'[k].notes \in Nat
    BY <1>1 DEF Child
  <2>2. QED
    BY <2>1 DEF BackedInv, NothingTold, FewerNotes
<1>4. QED
  BY <1>2, <1>3 DEF BackedInv

\* The parent: only Dispatch tells a child, and uses up an edge to do it.
LEMMA ParentBackedStep ==
    ASSUME TypeInv, TypeInv', BackedInv, ParentStep
    PROVE  BackedInv'
<1>1. child \in [Slots -> Child] /\ child' \in [Slots -> Child] /\ backlog \in Nat
  BY DEF TypeInv, TypeOK, ChildTypeOK, EnvTypeOK
<1>2. OnWay(child, pready, ev) <= backlog /\ NothingTold
  BY BackedIs DEF BackedInv
<1>3. \A k \in Slots : child[k].notes \in Nat /\ child'[k].notes \in Nat
  BY <1>1 DEF Child
<1>4. CASE ParentSetup
  <2>1. /\ pstate = "setup" /\ pstate' = "wait" /\ child' = child /\ backlog' = backlog
        /\ pready' = (IF backlog > 0 THEN {"listen"} ELSE {}) /\ ev' = ev
    BY <1>4 DEF ParentSetup
  <2>2. Told(child) = 0 /\ ev = {}
    BY <1>1, <1>2, <2>1, NoneTold DEF NothingTold
  <2>3. Cardinality(AcceptingOf(child)) = 0
    <3>1. AcceptingOf(child) = {}
      BY <1>2, <2>1 DEF AcceptingOf, NothingTold
    <3>2. QED
      BY <3>1, FS_EmptySet
  <2>4. EdgesOf(pready', ev') <= backlog
    BY <1>1, <2>1, <2>2 DEF EdgesOf
  <2>5. OnWay(child', pready', ev') <= backlog'
    <3>1. Told(child') = 0 /\ Cardinality(AcceptingOf(child')) = 0
      BY <2>1, <2>2, <2>3
    <3>2. EdgesOf(pready', ev') \in 0..2
      BY <1>1, CountsType
    <3>3. QED
      BY <1>1, <2>1, <2>4, <3>1, <3>2 DEF OnWay
  <2>6. QED
    BY <2>1, <2>5, BackedIs DEF BackedInv, NothingTold
<1>5. CASE EpollWait
  <2>1. /\ pstate' = "loop" /\ child' = child /\ backlog' = backlog
        /\ pready' = {} /\ ev' \subseteq pready
    BY <1>5 DEF EpollWait
  <2>2. QED
    BY <1>3, <2>1, QuieterStep DEF FewerNotes, EdgesOf
<1>6. ASSUME NEW j \in Found, Dispatch(j)
      PROVE  BackedInv'
  <2>1. /\ "listen" \in ev /\ ev' = ev \ {"listen"} /\ pready' = pready /\ backlog' = backlog
        /\ pstate = "loop" /\ pstate' = pstate
        /\ child' = [k \in Slots |-> IF k = j THEN Notified(child[k]) ELSE child[k]]
    BY <1>6 DEF Dispatch, InBatch, NextEvent
  <2>2. \A k \in Slots : /\ child'[k].notes <= child[k].notes + (IF k = j THEN 1 ELSE 0)
                         /\ child'[k].st = child[k].st
    <3>1. ASSUME NEW k \in Slots
          PROVE  /\ child'[k].notes <= child[k].notes + (IF k = j THEN 1 ELSE 0)
                 /\ child'[k].st = child[k].st
      <4> DEFINE c == child[k]
      <4>1. c \in Child
        BY <1>1
      <4>2. Notified(c).notes <= c.notes + 1 /\ Notified(c).st = c.st
        BY <4>1 DEF Notified, Child
      <4>3. QED
        BY <1>3, <2>1, <4>2
    <3>2. QED
      BY <3>1
  <2>3. Told(child') <= Told(child) + 1
    <3>1. CASE j \in Slots
      <4>1. child'[j].notes <= child[j].notes + 1 /\ 1 \in Int
        BY <2>2, <3>1
      <4>2. \A k \in Slots \ {j} : child'[k].notes <= child[k].notes
        BY <1>3, <2>2
      <4>3. QED
        BY <1>1, <3>1, <4>1, <4>2, ToldAtMost
    <3>2. CASE j \notin Slots
      <4>1. FewerNotes
        BY <1>3, <2>2, <3>2 DEF FewerNotes
      <4>2. QED
        BY <1>1, <4>1, FewerStep, CountsType
    <3>3. QED
      BY <3>1, <3>2
  <2>4. AcceptingOf(child') = AcceptingOf(child)
    BY <2>2 DEF AcceptingOf
  <2>5. EdgesOf(pready', ev') = EdgesOf(pready, ev) - 1
    BY <2>1 DEF EdgesOf
  <2>6. OnWay(child', pready', ev') <= backlog'
    BY <1>1, <1>2, <2>1, <2>3, <2>4, <2>5, CountsType DEF OnWay
  <2>7. QED
    BY <2>1, <2>6, BackedIs DEF BackedInv, NothingTold
<1>7. CASE DispatchNone
  <2>1. /\ pstate = "loop" /\ pstate' \in {"loop", "hung"} /\ child' = child
        /\ backlog' = backlog /\ pready' = pready /\ ev' \subseteq ev
    BY <1>7 DEF DispatchNone, InBatch
  <2>2. QED
    BY <1>3, <2>1, QuieterStep DEF FewerNotes, EdgesOf
<1>8. CASE RecvSignals
  <2>1. /\ pstate = "loop" /\ pstate' = pstate /\ child' = child
        /\ backlog' = backlog /\ pready' = pready /\ ev' \subseteq ev
    BY <1>8 DEF RecvSignals, InBatch, NextEvent
  <2>2. QED
    BY <1>3, <2>1, QuieterStep DEF FewerNotes, EdgesOf
<1>9. CASE HandleChld
  <2>1. /\ pstate = "loop" /\ pstate' = pstate
        /\ child' = [j \in Slots |-> IF j \in Joined THEN Gone("reaped") ELSE child[j]]
        /\ backlog' = backlog /\ pready' = pready /\ ev' = ev
    BY <1>9 DEF HandleChld
  <2>2. Gone("reaped").notes = 0 /\ Gone("reaped").st = "reaped"
    BY DEF Gone, Forked
  <2>3. FewerNotes
    BY <1>3, <2>1, <2>2 DEF FewerNotes
  <2>4. EdgesOf(pready', ev') <= EdgesOf(pready, ev)
    BY <2>1 DEF EdgesOf
  <2>5. QED
    BY <2>1, <2>3, <2>4, QuieterStep
<1>10. CASE HandleTerm
  <2>1. /\ pstate = "loop" /\ pstate' = pstate
        /\ child' = [j \in Slots |-> IF m_pid[j] # None THEN Killed(child[j]) ELSE child[j]]
        /\ backlog' = backlog /\ pready' = pready /\ ev' = ev
    BY <1>10 DEF HandleTerm, parentVars
  <2>2. \A c \in Child : /\ Killed(c).notes <= c.notes
                         /\ Killed(c).st = "accept" => c.st = "accept"
    <3>1. Gone("zombie").notes = 0 /\ Gone("zombie").st = "zombie"
      BY DEF Gone, Forked
    <3>2. TAKE c \in Child
    <3>3. QED
      BY <3>1 DEF Killed, Child
  <2>3. FewerNotes
    BY <1>1, <1>3, <2>1, <2>2 DEF FewerNotes
  <2>4. EdgesOf(pready', ev') <= EdgesOf(pready, ev)
    BY <2>1 DEF EdgesOf
  <2>5. QED
    BY <2>1, <2>3, <2>4, QuieterStep
<1>11. CASE ParentEndBatch
  <2>1. /\ pstate = "loop" /\ pstate' # "setup" /\ child' = child
        /\ backlog' = backlog /\ pready' = pready /\ ev' = ev
    BY <1>11 DEF ParentEndBatch
  <2>2. QED
    BY <1>3, <2>1, QuieterStep DEF FewerNotes, EdgesOf
<1>12. QED
  BY <1>4, <1>5, <1>6, <1>7, <1>8, <1>9, <1>10, <1>11 DEF ParentStep

\* A child: to read an int is to be about to accept, and to accept takes a
\* connection, which is there.
LEMMA ChildBackedStep ==
    ASSUME TypeInv, TypeInv', BackedInv, NEW j \in Slots, ChildStep(j)
    PROVE  BackedInv'
<1> DEFINE c == child[j]
<1>1. child \in [Slots -> Child] /\ child' \in [Slots -> Child] /\ backlog \in Nat
  BY DEF TypeInv, TypeOK, ChildTypeOK, EnvTypeOK
<1>2. OnWay(child, pready, ev) <= backlog /\ NothingTold
  BY BackedIs DEF BackedInv
<1>3. \A k \in Slots : child[k].notes \in Nat /\ child'[k].notes \in Nat
  BY <1>1 DEF Child
<1>4. \A k \in Slots \ {j} : child'[k] = child[k]
  BY <1>1 DEF ChildStep, ChildSetup, ChildEpollWait, ChildRecvNote, ChildAccept,
     ChildSignal, ChildProcess, ChildEndBatch, Exit
<1>5. pstate' = pstate /\ pready' = pready /\ ev' = ev
  BY DEF ChildStep, ChildSetup, ChildEpollWait, ChildRecvNote, ChildAccept,
     ChildSignal, ChildProcess, ChildEndBatch, Exit, ChildOnly, parentVars
<1>6. CASE ChildRecvNote(j)
  <2>1. /\ c.st = "loop" /\ "pipe" \in c.ev /\ backlog' = backlog
        /\ child'[j].st = "accept" /\ child'[j].notes = c.notes - 1
    BY <1>1, <1>6 DEF ChildRecvNote, ChildInBatch, NotesLeft, Child
  <2>2. c.notes > 0
    BY <2>1 DEF TypeInv, ReportsHold, ReportHolds
  <2>3. pstate # "setup"
    BY <1>2, <2>2 DEF NothingTold
  <2>4. Told(child') <= Told(child) + (-1)
    <3>1. child'[j].notes <= child[j].notes + (-1) /\ -1 \in Int
      BY <1>3, <2>1
    <3>2. \A k \in Slots \ {j} : child'[k].notes <= child[k].notes
      BY <1>3, <1>4
    <3>3. QED
      BY <1>1, <3>1, <3>2, ToldAtMost
  <2>5. Cardinality(AcceptingOf(child')) <= Cardinality(AcceptingOf(child)) + 1
    <3>1. AcceptingOf(child') \subseteq AcceptingOf(child) \cup {j}
      BY <1>4 DEF AcceptingOf
    <3>2. AcceptingOf(child') \in SUBSET Slots /\ AcceptingOf(child) \in SUBSET Slots
      BY DEF AcceptingOf
    <3>3. QED
      BY <3>1, <3>2, AcceptingAtMost
  <2>6. OnWay(child', pready', ev') <= backlog'
    BY <1>1, <1>2, <1>5, <2>1, <2>4, <2>5, CountsType DEF OnWay
  <2>7. QED
    BY <1>5, <2>3, <2>6, BackedIs DEF BackedInv, NothingTold
<1>7. CASE ChildAccept(j)
  <2>1. /\ c.st = "accept" /\ backlog' >= backlog - 1
        /\ child'[j].st = "loop" /\ child'[j].notes = c.notes
    BY <1>1, <1>7 DEF ChildAccept, Child
  <2>2. pstate # "setup"
    BY <1>2, <2>1 DEF NothingTold
  <2>3. Told(child') <= Told(child)
    <3>1. FewerNotes
      BY <1>3, <1>4, <2>1 DEF FewerNotes
    <3>2. QED
      BY <3>1, FewerStep
  <2>4. Cardinality(AcceptingOf(child')) <= Cardinality(AcceptingOf(child)) - 1
    <3>1. AcceptingOf(child') \subseteq AcceptingOf(child) \ {j} /\ j \in AcceptingOf(child)
      BY <1>4, <2>1 DEF AcceptingOf
    <3>2. AcceptingOf(child') \in SUBSET Slots /\ AcceptingOf(child) \in SUBSET Slots
      BY DEF AcceptingOf
    <3>3. QED
      BY <3>1, <3>2, AcceptingAtMost
  <2>5. backlog' \in Nat
    BY DEF TypeInv, TypeOK, EnvTypeOK
  <2>6. OnWay(child', pready', ev') <= backlog'
    BY <1>1, <1>2, <1>5, <2>1, <2>3, <2>4, <2>5, CountsType DEF OnWay
  <2>7. QED
    BY <1>5, <2>2, <2>6, BackedIs DEF BackedInv, NothingTold
<1>8. ASSUME child'[j].notes <= c.notes, child'[j].st # "accept", backlog' = backlog
      PROVE  BackedInv'
  <2>1. FewerNotes
    BY <1>3, <1>4, <1>8 DEF FewerNotes
  <2>2. EdgesOf(pready', ev') <= EdgesOf(pready, ev)
    BY <1>5 DEF EdgesOf
  <2>3. QED
    BY <1>5, <1>8, <2>1, <2>2, QuieterStep
<1>9. CASE ChildSetup(j)
  <2>1. child'[j].notes = c.notes /\ child'[j].st = "wait" /\ backlog' = backlog
    BY <1>1, <1>9 DEF ChildSetup, Child
  <2>2. QED
    BY <1>3, <1>8, <2>1
<1>10. CASE ChildEpollWait(j)
  <2>1. PICK batch :
          child' = [child EXCEPT ![j].st = "loop", ![j].ev = batch, ![j].ready = {}]
    BY <1>10 DEF ChildEpollWait
  <2>2. child'[j] = [c EXCEPT !.st = "loop", !.ev = batch, !.ready = {}]
    BY <1>1, <2>1
  <2>3. child'[j].notes = c.notes /\ child'[j].st = "loop"
    BY <1>1, <2>2 DEF Child
  <2>4. backlog' = backlog
    BY <1>10 DEF ChildEpollWait
  <2>5. QED
    BY <1>3, <1>8, <2>3, <2>4
<1>11. CASE ChildSignal(j)
  <2>1. child'[j].notes = c.notes /\ child'[j].st = "loop" /\ backlog' = backlog
    BY <1>1, <1>11 DEF ChildSignal, ChildInBatch, Child
  <2>2. QED
    BY <1>3, <1>8, <2>1
<1>12. CASE ChildProcess(j)
  <2>1. child'[j].notes = c.notes /\ child'[j].st = "loop" /\ backlog' = backlog
    BY <1>1, <1>12 DEF ChildProcess, ChildInBatch, Child
  <2>2. QED
    BY <1>3, <1>8, <2>1
<1>13. CASE ChildEndBatch(j)
  <2>1. backlog' = backlog /\ child'[j] \in {Corpse, [c EXCEPT !.st = "wait"]}
    BY <1>1, <1>13 DEF ChildEndBatch, Exit
  <2>2. Corpse.notes = 0 /\ Corpse.st # "accept"
    BY DEF Corpse, Gone, Forked
  <2>3. c.notes \in Nat
    BY <1>1 DEF Child
  <2>4. CASE child'[j] = Corpse
    BY <1>8, <2>1, <2>2, <2>3, <2>4
  <2>5. CASE child'[j] = [c EXCEPT !.st = "wait"]
    <3>1. child'[j].notes = c.notes /\ child'[j].st = "wait"
      BY <1>1, <2>5 DEF Child
    <3>2. QED
      BY <1>8, <2>1, <2>3, <3>1
  <2>6. QED
    BY <2>1, <2>4, <2>5
<1>14. QED
  BY <1>6, <1>7, <1>9, <1>10, <1>11, <1>12, <1>13 DEF ChildStep

LEMMA EnvBackedStep ==
    ASSUME TypeInv, TypeInv', BackedInv,
           DeliverSignal \/ Arrive \/ Terminate \/ \E j \in Slots : Crash(j)
    PROVE  BackedInv'
<1>1. child \in [Slots -> Child] /\ child' \in [Slots -> Child] /\ backlog \in Nat
  BY DEF TypeInv, TypeOK, ChildTypeOK, EnvTypeOK
<1>2. OnWay(child, pready, ev) <= backlog /\ NothingTold
  BY BackedIs DEF BackedInv
<1>3. \A k \in Slots : child[k].notes \in Nat /\ child'[k].notes \in Nat
  BY <1>1 DEF Child
<1>4. CASE DeliverSignal
  <2>1. /\ pstate' = pstate /\ pstate # "setup" /\ child' = child
        /\ backlog' = backlog /\ pready' = pready \cup {"sig"} /\ ev' = ev
    BY <1>4 DEF DeliverSignal, Listening
  <2>2. QED
    BY <1>3, <2>1, QuieterStep DEF FewerNotes, EdgesOf
<1>5. CASE Arrive
  <2>1. /\ pstate' = pstate /\ child' = child /\ backlog' = backlog + 1 /\ ev' = ev
        /\ pready' \subseteq pready \cup {"listen"}
        /\ pstate = "setup" => pready' = pready
    BY <1>5 DEF Arrive, Listening
  <2>2. EdgesOf(pready', ev') <= EdgesOf(pready, ev) + 1
    BY <2>1 DEF EdgesOf
  <2>3. OnWay(child', pready', ev') <= backlog'
    BY <1>1, <1>2, <2>1, <2>2, CountsType DEF OnWay
  <2>4. QED
    BY <1>2, <2>1, <2>3, BackedIs DEF BackedInv, NothingTold
<1>6. CASE Terminate
  <2>1. /\ pstate' = "setup" => pstate = "setup"
        /\ child' = child /\ backlog' = backlog /\ pready' = pready /\ ev' = ev
    BY <1>6 DEF Terminate
  <2>2. QED
    BY <1>3, <2>1, QuieterStep DEF FewerNotes, EdgesOf
<1>7. ASSUME NEW j \in Slots, Crash(j)
      PROVE  BackedInv'
  <2>1. /\ pstate' = pstate /\ child' = [child EXCEPT ![j] = Corpse]
        /\ backlog' = backlog /\ pready' = pready /\ ev' = ev
    BY <1>7 DEF Crash, Exit, parentVars
  <2>2. Corpse.notes = 0 /\ Corpse.st # "accept"
    BY DEF Corpse, Gone, Forked
  <2>3. FewerNotes
    BY <1>1, <1>3, <2>1, <2>2 DEF FewerNotes
  <2>4. EdgesOf(pready', ev') <= EdgesOf(pready, ev)
    BY <2>1 DEF EdgesOf
  <2>5. QED
    BY <2>1, <2>3, <2>4, QuieterStep
<1>8. QED
  BY <1>4, <1>5, <1>6, <1>7

LEMMA BackedStep == TypeInv /\ BackedInv /\ [Next]_vars => BackedInv'
<1>1. SUFFICES ASSUME TypeInv, BackedInv, [Next]_vars
               PROVE  BackedInv'
  OBVIOUS
<1>2. TypeInv'
  BY <1>1, TypeStep
<1>3. CASE Next
  BY <1>1, <1>2, <1>3, ParentBackedStep, ChildBackedStep, EnvBackedStep DEF Next
<1>4. CASE UNCHANGED vars
  <2>1. /\ pstate' = pstate /\ pready' = pready /\ ev' = ev
        /\ child' = child /\ backlog' = backlog
    BY <1>4 DEF vars, parentVars
  <2>2. BackedInv' <=> BackedInv
    BY <2>1, BackedIs DEF BackedInv, NothingTold
  <2>3. QED
    BY <1>1, <2>2
<1>5. QED
  BY <1>1, <1>3, <1>4

LEMMA BackedInit == Init => BackedInv
<1>1. SUFFICES ASSUME Init
               PROVE  BackedInv
  OBVIOUS
<1>2. NothingTold
  BY <1>1 DEF Init, NothingTold, Forked
<1>3. child \in [Slots -> Child] /\ \A j \in Slots : child[j].notes = 0
  BY <1>1, TypeInit DEF Init, Forked, TypeInv, TypeOK, ChildTypeOK
<1>4. Told(child) = 0
  BY <1>3, NoneTold
<1>5. Cardinality(AcceptingOf(child)) = 0
  <2>1. AcceptingOf(child) = {}
    BY <1>1 DEF Init, AcceptingOf, Forked
  <2>2. QED
    BY <2>1, FS_EmptySet
<1>6. EdgesOf(pready, ev) = 0 /\ backlog = 0
  BY <1>1 DEF Init, EdgesOf
<1>7. QED
  BY <1>2, <1>4, <1>5, <1>6, BackedIs DEF BackedInv, OnWay

\* Every notification, wherever it is on its way from an edge of the listening
\* socket to the accept() of a child, has a connection of its own that waits.
THEOREM NotesBacked == Spec => []NotificationsBacked
<1>1. BackedInv => NotificationsBacked
  BY DEF BackedInv
<1>2. QED
  BY <1>1, TypeInit, TypeStep, BackedInit, BackedStep, PTL DEF Spec


=============================================================================
