----------------------------- MODULE TimeWheelProofs -----------------------------
(***************************************************************************)
(* Proofs about TimeWheel for any number of slots N, any tick interval SI  *)
(* and any set of timers: type correctness, and that the wheel implements  *)
(* TimerQueue.                                                             *)
(***************************************************************************)
EXTENDS TimeWheel, TLAPS

-----------------------------------------------------------------------------
(* Arithmetic of the wheel.                                                *)

LEMMA Modulo ==
    /\ \A x \in 0 .. N - 1 : x % N = x
    /\ \A x \in N .. 2 * N - 1 : x % N = x - N
    /\ \A x \in 1 .. N - 1 : (- x) % N = N - x
BY WheelAssumption

\* The distance from the hand at c to slot s, before and after the hand moves.
LEMMA Distance ==
    ASSUME NEW c \in Slots, NEW s \in Slots
    PROVE  /\ (s - c) % N \in 0 .. N - 1
           /\ (s - c) % N = 0 <=> s = c
           /\ (c + 1) % N \in Slots
           /\ s = c => (s - ((c + 1) % N)) % N = N - 1
           /\ s # c => (s - ((c + 1) % N)) % N = ((s - c) % N) - 1
<1>1. N \in Nat \ {0} /\ s \in 0 .. N - 1 /\ c \in 0 .. N - 1
  BY WheelAssumption DEF Slots
<1>2. (s - c) % N = IF s >= c THEN s - c ELSE s - c + N
  <2>1. CASE s >= c
    BY <1>1, <2>1, Modulo
  <2>2. CASE s < c
    <3>1. c - s \in 1 .. N - 1 /\ s - c = - (c - s)
      BY <1>1, <2>2
    <3>2. QED
      BY <1>1, <2>2, <3>1, Modulo
  <2>3. QED
    BY <1>1, <2>1, <2>2
<1>3. (c + 1) % N = IF c = N - 1 THEN 0 ELSE c + 1
  <2>1. CASE c = N - 1
    <3>1. N \in N .. 2 * N - 1
      BY <1>1
    <3>2. N % N = 0
      BY <1>1, <3>1, Modulo
    <3>3. QED
      BY <1>1, <2>1, <3>2
  <2>2. CASE c # N - 1
    BY <1>1, <2>2, Modulo
  <2>3. QED
    BY <2>1, <2>2
<1>4. (c + 1) % N \in Slots
  BY <1>1, <1>3 DEF Slots
<1>5. s = c => (s - ((c + 1) % N)) % N = N - 1
  <2>1. CASE c = N - 1
    BY <1>1, <1>3, <2>1, Modulo
  <2>2. CASE c # N - 1
    <3>1. c - (c + 1) = - 1 /\ 1 \in 1 .. N - 1
      BY <1>1, <2>2
    <3>2. QED
      BY <1>1, <1>3, <2>2, <3>1, Modulo
  <2>3. QED
    BY <2>1, <2>2
<1>6. s # c => (s - ((c + 1) % N)) % N = ((s - c) % N) - 1
  <2> SUFFICES ASSUME s # c PROVE (s - ((c + 1) % N)) % N = ((s - c) % N) - 1
    OBVIOUS
  <2>1. CASE c = N - 1
    <3>1. s % N = s
      BY <1>1, Modulo
    <3>2. QED
      BY <1>1, <1>2, <1>3, <2>1, <3>1
  <2>2. CASE c # N - 1 /\ s > c
    <3>1. s - (c + 1) \in 0 .. N - 1
      BY <1>1, <2>2
    <3>2. QED
      BY <1>1, <1>2, <1>3, <2>2, <3>1, Modulo
  <2>3. CASE c # N - 1 /\ s < c
    <3>1. c + 1 - s \in 1 .. N - 1 /\ s - (c + 1) = - (c + 1 - s)
      BY <1>1, <2>3
    <3>2. (s - (c + 1)) % N = N - (c + 1 - s)
      BY <3>1, Modulo
    <3>3. QED
      BY <1>1, <1>2, <1>3, <2>3, <3>2
  <2>4. QED
    BY <1>1, <2>1, <2>2, <2>3
<1>7. QED
  BY <1>1, <1>2, <1>4, <1>5, <1>6

\* A timer entered for k ticks: its slot exists, and its turns and the distance
\* of its slot add up to k.
LEMMA Entered ==
    ASSUME NEW k \in Nat, cur_slot \in Slots
    PROVE  /\ RotationOf(k) \in Nat
           /\ SlotOf(k) \in Slots
           /\ RotationOf(k) * N + ((SlotOf(k) - cur_slot) % N) = k
<1> DEFINE r == k % N
<1>1. N \in Nat \ {0} /\ cur_slot \in 0 .. N - 1 /\ r \in 0 .. N - 1
  BY WheelAssumption DEF Slots
<1>2. k \div N \in Nat /\ r = k - N * (k \div N)
  BY WheelAssumption
<1> HIDE DEF r
<1>3. (cur_slot + r) % N = IF cur_slot + r < N THEN cur_slot + r ELSE cur_slot + r - N
  <2>1. CASE cur_slot + r < N
    BY <1>1, <2>1, Modulo
  <2>2. CASE cur_slot + r >= N
    <3>1. PICK x \in N .. 2 * N - 1 : x = cur_slot + r
      BY <1>1, <2>2
    <3>2. x % N = x - N
      BY Modulo
    <3>3. QED
      BY <1>1, <2>2, <3>1, <3>2
  <2>3. QED
    BY <1>1, <2>1, <2>2
<1>4. (((cur_slot + r) % N) - cur_slot) % N = r
  <2>1. CASE cur_slot + r < N
    <3>1. ((cur_slot + r) % N) - cur_slot = r
      BY <1>1, <1>3, <2>1
    <3>2. QED
      BY <1>1, <3>1, Modulo
  <2>2. CASE cur_slot + r >= N /\ r # 0
    <3>1. PICK x \in 1 .. N - 1 : x = N - r
      BY <1>1, <2>2
    <3>2. ((cur_slot + r) % N) - cur_slot = - x
      BY <1>1, <1>3, <2>2, <3>1
    <3>3. (- x) % N = N - x
      BY Modulo
    <3>4. QED
      BY <1>1, <3>1, <3>2, <3>3
  <2>3. QED
    BY <1>1, <2>1, <2>2
<1>5. QED
  BY <1>1, <1>2, <1>3, <1>4 DEF RotationOf, SlotOf, Slots, r

-----------------------------------------------------------------------------
(* The invariant: each list holds the timers of its slot only, a walk only *)
(* happens in a tick, and the timer whose callback runs was walked past    *)
(* and is still linked.                                                    *)

InOwnSlot == \A s \in Slots : \A t \in tw_timer[s] : time_slot[t] = s
WalkInv ==
    /\ ~ ticking => todo = {} /\ cb = NoTimer
    /\ cb # NoTimer => cb \in tw_timer[cur_slot] \ todo
WheelInv == TypeOK /\ InOwnSlot /\ WalkInv

LEMMA TicksArePositive ==
    ASSUME NEW timeout \in Timeouts
    PROVE  TicksOf(timeout) \in Nat \ {0}
<1>1. timeout \in Nat /\ SI \in Nat \ {0}
  BY WheelAssumption
<1>2. CASE timeout < SI
  BY <1>2 DEF TicksOf
<1>3. CASE timeout >= SI
  <2>1. timeout \div SI \in Nat /\ timeout % SI = timeout - SI * (timeout \div SI)
    BY <1>1
  <2>2. timeout % SI < SI
    BY <1>1
  <2>3. timeout \div SI # 0
    BY <1>1, <1>3, <2>1, <2>2
  <2>4. QED
    BY <1>1, <1>3, <2>1, <2>3 DEF TicksOf
<1>4. QED
  BY <1>1, <1>2, <1>3

LEMMA WheelInit == Init => WheelInv
<1> SUFFICES ASSUME Init PROVE WheelInv
  OBVIOUS
<1>1. 0 \in Slots
  BY WheelAssumption DEF Slots
<1>2. cb \in Timer \cup {NoTimer} /\ nxt \in Timer \cup {NoTimer} /\ ticking \in BOOLEAN
  BY DEF Init
<1>3. tw_timer \in [Slots -> SUBSET Timer] /\ todo \subseteq tw_timer[cur_slot]
  BY <1>1 DEF Init
<1>4. /\ rotation \in [Timer -> Nat] /\ time_slot \in [Timer -> Slots]
      /\ asked \in [Timer -> Nat] /\ age \in [Timer -> Nat]
  BY <1>1 DEF Init
<1>5. QED
  BY <1>1, <1>2, <1>3, <1>4 DEF Init, WheelInv, TypeOK, InOwnSlot, WalkInv

\* Destroying a linked timer leaves every other where it was.
LEMMA Removed ==
    ASSUME WheelInv, NEW u \in Timer, Linked(u), Remove(u)
    PROVE  /\ tw_timer' \in [Slots -> SUBSET Timer]
           /\ rotation' \in [Timer -> Nat] /\ time_slot' \in [Timer -> Slots]
           /\ asked' \in [Timer -> Nat] /\ age' \in [Timer -> Nat]
           /\ \A s \in Slots : tw_timer'[s] = tw_timer[s] \ {u}
           /\ \A t \in Timer \ {u} : /\ rotation'[t] = rotation[t] /\ time_slot'[t] = time_slot[t]
                                    /\ asked'[t] = asked[t] /\ age'[t] = age[t]
           /\ InOwnSlot'
<1> USE DEF WheelInv, TypeOK
<1>1. 0 \in Slots
  BY WheelAssumption DEF Slots
<1>2. /\ tw_timer' \in [Slots -> SUBSET Timer]
      /\ rotation' \in [Timer -> Nat] /\ time_slot' \in [Timer -> Slots]
      /\ asked' \in [Timer -> Nat] /\ age' \in [Timer -> Nat]
  BY <1>1 DEF Remove
<1>3. \A s \in Slots : tw_timer'[s] = tw_timer[s] \ {u}
  BY DEF Remove, InOwnSlot
<1>4. \A t \in Timer \ {u} : /\ rotation'[t] = rotation[t] /\ time_slot'[t] = time_slot[t]
                           /\ asked'[t] = asked[t] /\ age'[t] = age[t]
  BY DEF Remove
<1>5. InOwnSlot'
  BY <1>3, <1>4 DEF InOwnSlot
<1>6. QED
  BY <1>2, <1>3, <1>4, <1>5

LEMMA WheelStep == WheelInv /\ [Next]_vars => WheelInv'
<1> SUFFICES ASSUME WheelInv, [Next]_vars PROVE WheelInv'
  OBVIOUS
<1> USE DEF WheelInv, TypeOK
<1>1. ASSUME NEW t \in Timer, NEW timeout \in Timeouts, add_timer(t, timeout) PROVE WheelInv'
  <2> DEFINE k == TicksOf(timeout)
  <2>1. k \in Nat /\ RotationOf(k) \in Nat /\ SlotOf(k) \in Slots
    BY TicksArePositive, Entered
  <2>2. \A s \in Slots : t \notin tw_timer[s]
    BY <1>1 DEF add_timer, Linked, InOwnSlot
  <2>3. TypeOK'
    BY <1>1, <2>1 DEF add_timer, tickVars
  <2>4. InOwnSlot'
    BY <1>1, <2>1, <2>2 DEF add_timer, InOwnSlot
  <2>5. WalkInv'
    BY <1>1, <2>1 DEF add_timer, tickVars, WalkInv
  <2>6. QED
    BY <2>3, <2>4, <2>5
<1>2. ASSUME NEW t \in Timer, del_timer(t) PROVE WheelInv'
  BY <1>2, Removed DEF del_timer, WalkInv
<1>3. CASE TickBegin
  <2>1. TypeOK'
    BY <1>3 DEF TickBegin, wheelVars
  <2>2. InOwnSlot' /\ WalkInv'
    BY <1>3 DEF TickBegin, wheelVars, InOwnSlot, WalkInv
  <2>3. QED
    BY <2>1, <2>2
<1>4. ASSUME NEW t \in Timer, Turn(t) PROVE WheelInv'
  BY <1>4 DEF Turn, TurnTaken, InOwnSlot, WalkInv
<1>5. ASSUME NEW t \in Timer, Expire(t) PROVE WheelInv'
  <2>1. nxt' \in Timer \cup {NoTimer}
    BY <1>5 DEF Expire
  <2>2. QED
    BY <1>5, <2>1 DEF Expire, wheelVars, InOwnSlot, WalkInv
<1>6. CASE CallbackReturn
  <2>1. cb \in Timer /\ Linked(cb) /\ cb \notin todo
    BY <1>6 DEF CallbackReturn, WalkInv, Linked, InOwnSlot
  <2>2. QED
    BY <1>6, <2>1, Removed DEF CallbackReturn, WalkInv
<1>7. CASE TickEnd
  <2>1. cur_slot' \in Slots
    BY <1>7, Distance DEF TickEnd
  <2>2. QED
    BY <1>7, <2>1 DEF TickEnd, InOwnSlot, WalkInv
<1>8. CASE UNCHANGED vars
  BY <1>8 DEF vars, wheelVars, tickVars, InOwnSlot, WalkInv
<1>9. QED
  BY <1>1, <1>2, <1>3, <1>4, <1>5, <1>6, <1>7, <1>8 DEF Next, tick

\* In every reachable state of the wheel the variables have their types: no slot
\* out of the array, no negative rotation, only linked timers left to walk.
THEOREM TypeCorrect == Spec => []TypeOK
<1>1. WheelInv => TypeOK
  BY DEF WheelInv
<1>2. QED
  BY <1>1, WheelInit, WheelStep, PTL DEF Spec

-----------------------------------------------------------------------------
(* The wheel implements the timer queue.  Each step is matched with the    *)
(* step of the queue it stands for.                                        *)

\* What the mapping says of a pending timer.
LEMMA LeftOf ==
    ASSUME WheelInv, NEW t \in Timer
    PROVE  /\ Linked(t) <=> \E s \in Slots : t \in tw_timer[s]
           /\ t \in todo => Linked(t) /\ time_slot[t] = cur_slot
           /\ (time_slot[t] - cur_slot) % N \in 0 .. N - 1
           /\ (time_slot[t] - cur_slot) % N = 0 <=> time_slot[t] = cur_slot
           /\ TicksLeft(t) \in Int
<1>1. time_slot[t] \in Slots /\ cur_slot \in Slots /\ rotation[t] \in Nat /\ N \in Nat
  BY WheelAssumption DEF WheelInv, TypeOK
<1>2. /\ (time_slot[t] - cur_slot) % N \in 0 .. N - 1
      /\ (time_slot[t] - cur_slot) % N = 0 <=> time_slot[t] = cur_slot
  BY <1>1, Distance
<1>3. Linked(t) <=> \E s \in Slots : t \in tw_timer[s]
  BY <1>1 DEF Linked, WheelInv, InOwnSlot
<1>4. t \in todo => Linked(t) /\ time_slot[t] = cur_slot
  BY <1>1, <1>3 DEF WheelInv, TypeOK, InOwnSlot
<1>5. TicksLeft(t) \in Int
  <2>1. rotation[t] * N \in Int
    BY <1>1
  <2>2. QED
    BY <1>1, <1>2, <2>1 DEF TicksLeft
<1>6. QED
  BY <1>2, <1>3, <1>4, <1>5

\* A timer that keeps its place, in a step that moves neither the hand nor the
\* walk past it, keeps its ticks.
LEMMA SamePlace ==
    ASSUME NEW t \in Timer, UNCHANGED <<cur_slot, ticking>>,
           rotation'[t] = rotation[t], time_slot'[t] = time_slot[t],
           t \in todo' <=> t \in todo
    PROVE  TicksLeft(t)' = TicksLeft(t)
BY DEF TicksLeft

LEMMA AddRefines ==
    ASSUME WheelInv, WheelInv', NEW t \in Timer, NEW timeout \in Timeouts, add_timer(t, timeout)
    PROVE  Queue!Add(t, TicksOf(timeout))
<1> DEFINE k == TicksOf(timeout)
<1>1. k \in Nat \ {0} /\ RotationOf(k) \in Nat /\ RotationOf(k) * N + ((SlotOf(k) - cur_slot) % N) = k
  BY TicksArePositive, Entered DEF WheelInv, TypeOK
<1>2. /\ rotation' = [rotation EXCEPT ![t] = RotationOf(k)]
      /\ time_slot' = [time_slot EXCEPT ![t] = SlotOf(k)]
      /\ tw_timer' = [tw_timer EXCEPT ![SlotOf(k)] = @ \cup {t}]
      /\ SlotOf(k) \in Slots /\ UNCHANGED <<cur_slot, ticking, todo, cb>>
      /\ ~ Linked(t)
  BY <1>1, Entered DEF add_timer, tickVars, WheelInv, TypeOK
<1> HIDE DEF k
<1>3. t # cb /\ t \notin todo
  BY <1>2, LeftOf, WheelAssumption DEF WheelInv, WalkInv, TypeOK
<1>4. \A u \in Timer : Linked(u)' <=> Linked(u) \/ u = t
  <2>1. time_slot'[t] = SlotOf(k) /\ t \in tw_timer'[SlotOf(k)]
    BY <1>2 DEF WheelInv, TypeOK
  <2>2. \A s \in Slots : \A u \in Timer \ {t} : u \in tw_timer'[s] <=> u \in tw_timer[s]
    BY <1>2 DEF WheelInv, TypeOK
  <2>3. \A u \in Timer \ {t} : time_slot'[u] = time_slot[u] /\ time_slot[u] \in Slots
    BY <1>2 DEF WheelInv, TypeOK
  <2>4. QED
    BY <2>1, <2>2, <2>3 DEF Linked
<1>5. Pending' = Pending \cup {t} /\ t \notin Pending
  BY <1>2, <1>3, <1>4 DEF Pending
<1>6. Due' = Due /\ t \notin Due
  BY <1>2, <1>3 DEF Due, WheelInv, TypeOK
<1>7. TicksLeft(t)' \in IF ticking THEN {k - 1, k - 1 + N} ELSE {k}
  <2>1. TicksLeft(t)' = k - (IF ticking THEN 1 ELSE 0)
                          + (IF ticking /\ SlotOf(k) = cur_slot THEN N ELSE 0)
    <3>1. rotation'[t] = RotationOf(k) /\ time_slot'[t] = SlotOf(k)
      BY <1>2 DEF WheelInv, TypeOK
    <3> DEFINE a == RotationOf(k) * N
               d == (SlotOf(k) - cur_slot) % N
    <3>2. TicksLeft(t)' = a + d - (IF ticking THEN 1 ELSE 0)
                            + (IF ticking /\ SlotOf(k) = cur_slot THEN N ELSE 0)
      <4>1. cur_slot' = cur_slot /\ (ticking' <=> ticking) /\ t \notin todo'
        BY <1>2, <1>3
      <4>2. CASE ticking
        BY <3>1, <4>1, <4>2 DEF TicksLeft
      <4>3. CASE ~ ticking
        BY <3>1, <4>1, <4>3 DEF TicksLeft
      <4>4. QED
        BY <4>2, <4>3
    <3>3. a \in Int /\ d \in Int /\ a + d = k
      <4>1. RotationOf(k) \in Nat /\ N \in Nat
        BY <1>1, WheelAssumption
      <4>2. d \in Int
        <5>1. SlotOf(k) \in Slots /\ cur_slot \in Slots
          BY <1>2 DEF WheelInv, TypeOK
        <5>2. d \in 0 .. N - 1
          BY <5>1, Distance
        <5>3. QED
          BY <5>2
      <4>3. a \in Int
        BY <4>1
      <4>4. QED
        BY <1>1, <4>2, <4>3
    <3> HIDE DEF a, d
    <3>4. QED
      BY <3>2, <3>3
  <2>2. QED
    BY <1>1, <2>1, WheelAssumption
<1>8. Left' = [Left EXCEPT ![t] = TicksLeft(t)']
  <2>1. \A u \in Timer \ {t} : TicksLeft(u)' = TicksLeft(u)
    BY <1>2, SamePlace DEF WheelInv, TypeOK
  <2>2. QED
    BY <1>5, <1>6, <2>1 DEF Left
<1>9. QED
  BY <1>2, <1>5, <1>6, <1>7, <1>8 DEF Queue!Add, k

LEMMA DeleteRefines ==
    ASSUME WheelInv, WheelInv', NEW t \in Timer, del_timer(t)
    PROVE  Queue!Delete(t)
<1>1. /\ Linked(t) /\ t # cb /\ Remove(t) /\ todo' = todo \ {t}
      /\ UNCHANGED <<cur_slot, ticking, cb>>
  BY DEF del_timer
<1>2. /\ \A s \in Slots : tw_timer'[s] = tw_timer[s] \ {t}
      /\ \A u \in Timer \ {t} : rotation'[u] = rotation[u] /\ time_slot'[u] = time_slot[u]
  BY <1>1, Removed
<1>3. \A u \in Timer : Linked(u)' <=> Linked(u) /\ u # t
  BY <1>2, LeftOf DEF Linked, WheelInv, TypeOK
<1>4. Pending' = Pending \ {t} /\ t \in Pending
  BY <1>1, <1>3 DEF Pending
<1>5. Due' = Due \ {t}
  BY <1>1, <1>2 DEF Due, WheelInv, TypeOK
<1>6. \A u \in Timer \ {t} : TicksLeft(u)' = TicksLeft(u)
  BY <1>1, <1>2, SamePlace
<1>7. Left' = [Left EXCEPT ![t] = 0]
  BY <1>4, <1>5, <1>6 DEF Left
<1>8. QED
  BY <1>1, <1>4, <1>5, <1>7 DEF Queue!Delete

LEMMA TickBeginRefines ==
    ASSUME WheelInv, WheelInv', TickBegin
    PROVE  Queue!TickBegin
<1>1. /\ ~ ticking /\ ticking' = TRUE /\ todo' = tw_timer[cur_slot]
      /\ UNCHANGED <<cur_slot, tw_timer, rotation, time_slot, cb>>
      /\ todo = {}
  BY DEF TickBegin, wheelVars, WheelInv, WalkInv
<1>2. Pending' = Pending
  BY <1>1 DEF Pending, Linked
<1>3. \A t \in Pending : (t \in Due' <=> rotation[t] = 0 /\ time_slot[t] = cur_slot)
  BY <1>1 DEF Pending, Due, Linked, WheelInv, TypeOK, InOwnSlot
<1>4. Due' \subseteq Pending /\ Due = {}
  BY <1>1, WheelAssumption DEF Due, Pending, Linked, WheelInv, TypeOK, InOwnSlot, WalkInv
<1>5. ASSUME NEW t \in Pending
      PROVE  /\ t \in Due' <=> Left[t] = 0
             /\ t \notin Due' => Left'[t] = Left[t] - 1
  <2> DEFINE turns == rotation[t] * N
             dist == (time_slot[t] - cur_slot) % N
  <2>1. t \in Timer /\ dist \in Nat /\ (dist = 0 <=> time_slot[t] = cur_slot)
    BY LeftOf, WheelAssumption DEF Pending
  <2>2. turns \in Nat /\ (turns = 0 <=> rotation[t] = 0)
    BY <2>1, WheelAssumption DEF WheelInv, TypeOK
  <2>3. Left[t] = turns + dist
    BY <1>1, <1>4, <2>1, <2>2 DEF Left, TicksLeft
  <2>4. t \in Due' <=> Left[t] = 0
    BY <1>3, <2>1, <2>2, <2>3
  <2>5. time_slot[t] = cur_slot => t \in todo'
    BY <1>1 DEF Pending, Linked
  <2>6. ASSUME t \notin Due' PROVE Left'[t] = Left[t] - 1
    <3>1. Left'[t] = TicksLeft(t)'
      BY <1>2, <2>1, <2>6 DEF Left
    <3>2. TicksLeft(t)' = turns + dist - 1 + 0
      BY <1>1, <2>5 DEF TicksLeft
    <3>3. QED
      BY <2>1, <2>2, <2>3, <3>1, <3>2
  <2>7. QED
    BY <2>4, <2>6
<1>6. Due' = {t \in Pending : Left[t] = 0}
  BY <1>4, <1>5
<1>7. Left' = [t \in Timer |-> IF Left[t] = 0 THEN 0 ELSE Left[t] - 1]
  <2>1. \A t \in Timer \ Pending : Left[t] = 0 /\ Left'[t] = 0
    BY <1>2 DEF Left
  <2>2. \A t \in Due' : Left'[t] = 0
    BY <1>4, <1>2 DEF Left, Pending
  <2>3. \A t \in Timer : Left'[t] = IF Left[t] = 0 THEN 0 ELSE Left[t] - 1
    BY <1>4, <1>5, <2>1, <2>2
  <2>4. QED
    BY <2>3 DEF Left
<1>8. QED
  BY <1>1, <1>2, <1>6, <1>7 DEF Queue!TickBegin

\* Taking a turn off exchanges one turn for the way round the wheel.
LEMMA TurnRefines ==
    ASSUME WheelInv, WheelInv', NEW t \in Timer, Turn(t)
    PROVE  UNCHANGED <<Pending, Left, Due, ticking>>
<1>1. /\ t \in todo /\ rotation[t] > 0 /\ rotation' = [rotation EXCEPT ![t] = @ - 1]
      /\ todo' = todo \ {t} /\ UNCHANGED <<cur_slot, tw_timer, time_slot, ticking, cb>>
  BY DEF Turn, TurnTaken
<1>2. Pending' = Pending /\ Due' = Due
  BY <1>1 DEF Pending, Due, Linked, WheelInv, TypeOK
<1>3. \A u \in Timer \ {t} : TicksLeft(u)' = TicksLeft(u)
  BY <1>1, SamePlace DEF WheelInv, TypeOK
<1>4. TicksLeft(t)' = TicksLeft(t)
  <2>1. ticking /\ ticking' /\ time_slot[t] = cur_slot
    BY <1>1, LeftOf DEF WheelInv, WalkInv
  <2>2. (time_slot[t] - cur_slot) % N = 0
    BY <2>1, LeftOf
  <2>3. TicksLeft(t) = rotation[t] * N + 0 - 1 + 0
    BY <1>1, <2>1, <2>2 DEF TicksLeft
  <2>4. TicksLeft(t)' = (rotation[t] - 1) * N + 0 - 1 + N
    BY <1>1, <2>1, <2>2 DEF TicksLeft, WheelInv, TypeOK
  <2>5. (rotation[t] - 1) * N + N = rotation[t] * N
    BY WheelAssumption DEF WheelInv, TypeOK
  <2>6. QED
    BY <2>3, <2>4, <2>5, WheelAssumption DEF WheelInv, TypeOK
<1>5. Left' = Left
  BY <1>2, <1>3, <1>4 DEF Left
<1>6. QED
  BY <1>1, <1>2, <1>5

LEMMA ExpireRefines ==
    ASSUME WheelInv, WheelInv', NEW t \in Timer, Expire(t)
    PROVE  Queue!Fire(t)
<1>1. /\ t \in todo /\ rotation[t] = 0 /\ cb = NoTimer /\ cb' = t /\ todo' = todo \ {t}
      /\ UNCHANGED <<cur_slot, tw_timer, rotation, time_slot, ticking>>
  BY DEF Expire, wheelVars
<1>2. t \in Due /\ Due' = Due \ {t} /\ Pending' = Pending \ {t}
  BY <1>1, WheelAssumption DEF Due, Pending, Linked
<1>3. Due \subseteq Pending
  BY <1>1, LeftOf, WheelAssumption DEF Due, Pending, WheelInv, TypeOK
<1>4. \A u \in Timer \ {t} : TicksLeft(u)' = TicksLeft(u)
  BY <1>1, SamePlace
<1>5. Left' = Left
  BY <1>2, <1>4 DEF Left
<1>6. QED
  BY <1>1, <1>2, <1>5 DEF Queue!Fire

LEMMA ReturnRefines ==
    ASSUME WheelInv, WheelInv', CallbackReturn
    PROVE  UNCHANGED <<Pending, Left, Due, ticking>>
<1> DEFINE u == cb
<1>1. /\ u \in Timer /\ Linked(u) /\ u \notin todo /\ Remove(u)
      /\ cb' = NoTimer /\ UNCHANGED <<cur_slot, ticking, todo>>
  BY DEF CallbackReturn, WheelInv, TypeOK, WalkInv, Linked, InOwnSlot
<1>2. /\ \A s \in Slots : tw_timer'[s] = tw_timer[s] \ {u}
      /\ \A t \in Timer \ {u} : rotation'[t] = rotation[t] /\ time_slot'[t] = time_slot[t]
  BY <1>1, Removed
<1>3. \A t \in Timer : Linked(t)' <=> Linked(t) /\ t # u
  BY <1>1, <1>2, LeftOf DEF Linked, WheelInv, TypeOK
<1>4. Pending' = Pending
  BY <1>1, <1>3, WheelAssumption DEF Pending
<1>5. Due' = Due
  <2>1. todo \subseteq Timer \ {u}
    BY <1>1 DEF WheelInv, TypeOK
  <2>2. QED
    BY <1>1, <1>2, <2>1 DEF Due
<1>6. \A t \in Timer \ {u} : TicksLeft(t)' = TicksLeft(t)
  BY <1>1, <1>2, SamePlace
<1>7. Left' = Left
  BY <1>4, <1>5, <1>6 DEF Left, Pending
<1>8. QED
  BY <1>1, <1>4, <1>5, <1>7

\* When the hand moves, every slot but the one it leaves comes nearer by one,
\* and that one becomes the farthest: what the ticks left already say.
LEMMA TickEndRefines ==
    ASSUME WheelInv, WheelInv', TickEnd
    PROVE  Queue!TickEnd
<1>1. /\ ticking /\ ticking' = FALSE /\ todo = {} /\ todo' = {} /\ cur_slot' = (cur_slot + 1) % N
      /\ UNCHANGED <<tw_timer, rotation, time_slot, cb>>
  BY DEF TickEnd
<1>2. Pending' = Pending /\ Due = {} /\ Due' = {}
  BY <1>1 DEF Pending, Due, Linked
<1>3. ASSUME NEW t \in Timer PROVE TicksLeft(t)' = TicksLeft(t)
  <2> DEFINE turns == rotation[t] * N
             dist == (time_slot[t] - cur_slot) % N
             dist1 == (time_slot[t] - ((cur_slot + 1) % N)) % N
  <2>1. /\ turns \in Nat /\ N \in Nat \ {0} /\ dist \in Nat
        /\ time_slot[t] \in Slots /\ cur_slot \in Slots
    BY LeftOf, WheelAssumption DEF WheelInv, TypeOK
  <2>2. TicksLeft(t) = turns + dist - 1 + (IF time_slot[t] = cur_slot THEN N ELSE 0)
    BY <1>1 DEF TicksLeft
  <2>3. TicksLeft(t)' = turns + dist1 - 0 + 0
    BY <1>1 DEF TicksLeft
  <2>4. CASE time_slot[t] = cur_slot
    <3>1. dist = 0 /\ dist1 = N - 1
      BY <2>1, <2>4, Distance
    <3> HIDE DEF turns, dist, dist1
    <3>2. QED
      BY <2>1, <2>2, <2>3, <2>4, <3>1
  <2>5. CASE time_slot[t] # cur_slot
    <3>1. dist1 = dist - 1
      BY <2>1, <2>5, Distance
    <3> HIDE DEF turns, dist, dist1
    <3>2. QED
      BY <2>1, <2>2, <2>3, <2>5, <3>1
  <2>6. QED
    BY <2>4, <2>5
<1>4. Left' = Left
  BY <1>2, <1>3 DEF Left
<1>5. QED
  BY <1>1, <1>2, <1>4 DEF Queue!TickEnd

LEMMA InitRefines == Init => Queue!Init
<1> SUFFICES ASSUME Init PROVE Queue!Init
  OBVIOUS
<1>1. Pending = {} /\ Due = {} /\ ticking = FALSE
  BY WheelAssumption DEF Init, Pending, Due, Linked, Slots
<1>2. Left = [t \in Timer |-> 0]
  BY <1>1 DEF Left
<1>3. QED
  BY <1>1, <1>2 DEF Queue!Init

LEMMA StepRefines == WheelInv /\ WheelInv' /\ [Next]_vars => [Queue!Next]_(Queue!vars)
<1> SUFFICES ASSUME WheelInv, WheelInv', [Next]_vars PROVE [Queue!Next]_(Queue!vars)
  OBVIOUS
<1>1. ASSUME NEW t \in Timer, NEW timeout \in Timeouts, add_timer(t, timeout) PROVE Queue!Next
  BY <1>1, AddRefines DEF Queue!Next
<1>2. ASSUME NEW t \in Timer, del_timer(t) PROVE Queue!Next
  BY <1>2, DeleteRefines DEF Queue!Next
<1>3. CASE TickBegin
  BY <1>3, TickBeginRefines DEF Queue!Next
<1>4. ASSUME NEW t \in Timer, Turn(t) PROVE UNCHANGED Queue!vars
  BY <1>4, TurnRefines DEF Queue!vars
<1>5. ASSUME NEW t \in Timer, Expire(t) PROVE Queue!Next
  BY <1>5, ExpireRefines DEF Queue!Next
<1>6. CASE CallbackReturn
  BY <1>6, ReturnRefines DEF Queue!vars
<1>7. CASE TickEnd
  BY <1>7, TickEndRefines DEF Queue!Next
<1>8. CASE UNCHANGED vars
  BY <1>8 DEF vars, wheelVars, tickVars, Queue!vars, Pending, Left, Due, TicksLeft, Linked
<1>9. QED
  BY <1>1, <1>2, <1>3, <1>4, <1>5, <1>6, <1>7, <1>8 DEF Next, tick

\* The wheel implements the timer queue, for every number of slots: each timer
\* fires in the tick it was set for, or, set by a callback for a multiple of N
\* ticks, one turn later; none is lost, fired twice or passed by.
THEOREM WheelImplementsQueue == Spec => ImplementsQueue
<1>1. Spec => []WheelInv
  BY WheelInit, WheelStep, PTL DEF Spec
<1>2. QED
  BY <1>1, InitRefines, StepRefines, PTL DEF Spec, ImplementsQueue, Queue!Spec

-----------------------------------------------------------------------------
(* The firing window, in calls of tick() since add_timer.  Idle or not, a  *)
(* pending timer is due after its age and its ticks left, plus the tick    *)
(* that fires it; this sum is fixed when the timer is set.                 *)

Window(t, a) == asked[t] <= a /\ a <= asked[t] + N
AgeInv ==
    \A t \in Timer :
      /\ t \in Pending \ Due => Window(t, age[t] + Left[t] + 1)
      /\ t \in Due \/ t = cb => Window(t, age[t])

LEMMA AgeStep == WheelInv /\ WheelInv' /\ AgeInv /\ [Next]_vars => AgeInv'
<1> SUFFICES ASSUME WheelInv, WheelInv', AgeInv, [Next]_vars, NEW u \in Timer
             PROVE  /\ (u \in Pending \ Due => Window(u, age[u] + Left[u] + 1))'
                    /\ (u \in Due \/ u = cb => Window(u, age[u]))'
  BY DEF AgeInv
<1> USE DEF AgeInv
<1>1. ASSUME NEW t \in Timer, NEW timeout \in Timeouts, add_timer(t, timeout)
      PROVE  AgeInv'
  <2> DEFINE k == TicksOf(timeout)
  <2>1. k \in Nat \ {0}
    BY TicksArePositive
  <2>2. Queue!Add(t, k)
    BY <1>1, AddRefines
  <2>3. /\ asked' = [asked EXCEPT ![t] = k] /\ age' = [age EXCEPT ![t] = 0] /\ cb' = cb
    BY <1>1 DEF add_timer, tickVars
  <2> HIDE DEF k
  <2>4. PICK n \in {k - 1, k - 1 + N, k} : Left' = [Left EXCEPT ![t] = n]
    BY <2>2 DEF Queue!Add
  <2>5. Pending' = Pending \cup {t} /\ Due' = Due /\ t \notin Pending
    BY <2>2 DEF Queue!Add
  <2>6. t # cb /\ Due \subseteq Pending
    BY <1>1, <2>5, LeftOf, WheelAssumption DEF add_timer, Due, Pending, WheelInv, WalkInv, TypeOK
  <2>7. asked'[t] = k /\ age'[t] = 0 /\ Left'[t] = n
    BY <2>3, <2>4 DEF WheelInv, TypeOK, Left
  <2>8. Window(t, age[t] + Left[t] + 1)'
    BY <2>1, <2>7, WheelAssumption DEF Window
  <2>9. \A v \in Timer \ {t} : asked'[v] = asked[v] /\ age'[v] = age[v] /\ Left'[v] = Left[v]
    BY <2>3, <2>4 DEF WheelInv, TypeOK, Left
  <2>10. QED
    BY <2>3, <2>5, <2>6, <2>8, <2>9 DEF Window
<1>2. ASSUME NEW t \in Timer, del_timer(t) PROVE AgeInv'
  <2>1. Queue!Delete(t) /\ cb' = cb
    BY <1>2, DeleteRefines DEF del_timer
  <2>2. \A v \in Timer \ {t} : asked'[v] = asked[v] /\ age'[v] = age[v]
    BY <1>2, Removed DEF del_timer
  <2>3. \A v \in Timer \ {t} : Left'[v] = Left[v]
    BY <2>1 DEF Queue!Delete, Left
  <2>4. t # cb /\ t \notin Pending' /\ Pending' \subseteq Pending /\ Due' = Due \ {t}
    BY <1>2, <2>1 DEF Queue!Delete, del_timer
  <2>5. QED
    BY <2>1, <2>2, <2>3, <2>4 DEF Window
<1>3. CASE TickBegin
  <2>1. Queue!TickBegin /\ cb' = cb /\ cb = NoTimer /\ Due = {} /\ UNCHANGED asked
    BY <1>3, TickBeginRefines, WheelAssumption DEF TickBegin, WheelInv, WalkInv, Due
  <2>2. u \in Pending => Window(u, age[u] + Left[u] + 1)
    BY <2>1
  <2>3. Pending' = Pending /\ Due' = {t \in Pending : Left[t] = 0}
    BY <2>1 DEF Queue!TickBegin
  <2>4. Left'[u] = IF Left[u] = 0 THEN 0 ELSE Left[u] - 1
    BY <2>1 DEF Queue!TickBegin
  <2>5. age[u] \in Nat /\ Left[u] \in Nat /\ asked[u] \in Nat /\ N \in Nat
    <3>1. ~ ticking /\ rotation[u] * N \in Nat /\ (time_slot[u] - cur_slot) % N \in Nat
      BY <1>3, LeftOf, WheelAssumption DEF TickBegin, WheelInv, TypeOK
    <3>2. TicksLeft(u) \in Nat
      BY <3>1 DEF TicksLeft
    <3>3. QED
      BY <3>2, WheelAssumption DEF Left, WheelInv, TypeOK
  <2>6. u \in Pending => age'[u] = age[u] + 1
    <3>1. u \in Pending => ~ Overdue(u)
      BY <2>2, <2>5 DEF Overdue, Window
    <3>2. QED
      BY <1>3, <3>1 DEF TickBegin, Pending
  <2>7. u \in Due' => Window(u, age[u])'
    BY <2>1, <2>2, <2>3, <2>5, <2>6 DEF Window
  <2>8. u \in Pending' \ Due' => Window(u, age[u] + Left[u] + 1)'
    BY <2>1, <2>2, <2>3, <2>4, <2>5, <2>6 DEF Window
  <2>9. QED
    BY <2>1, <2>7, <2>8, WheelAssumption
<1>4. ASSUME NEW t \in Timer, Turn(t) PROVE AgeInv'
  <2>1. UNCHANGED <<Pending, Left, Due, cb, asked, age>>
    BY <1>4, TurnRefines DEF Turn
  <2>2. QED
    BY <2>1 DEF Window
<1>5. ASSUME NEW t \in Timer, Expire(t) PROVE AgeInv'
  <2>1. Queue!Fire(t) /\ cb' = t /\ UNCHANGED <<asked, age>>
    BY <1>5, ExpireRefines DEF Expire
  <2>2. t \in Due /\ Due' \subseteq Due /\ Pending' \ Due' \subseteq Pending \ Due /\ UNCHANGED Left
    BY <2>1 DEF Queue!Fire
  <2>3. QED
    BY <2>1, <2>2 DEF Window
<1>6. CASE CallbackReturn
  <2>1. UNCHANGED <<Pending, Left, Due>> /\ cb' = NoTimer
    BY <1>6, ReturnRefines DEF CallbackReturn
  <2>2. cb \in Timer /\ Linked(cb) /\ cb \notin Pending /\ cb \notin Due
    BY <1>6 DEF CallbackReturn, WheelInv, TypeOK, WalkInv, Linked, InOwnSlot, Pending, Due
  <2>3. \A v \in Timer \ {cb} : asked'[v] = asked[v] /\ age'[v] = age[v]
    BY <1>6, <2>2, Removed DEF CallbackReturn
  <2>4. QED
    BY <2>1, <2>2, <2>3, WheelAssumption DEF Window
<1>7. CASE TickEnd
  <2>1. Queue!TickEnd /\ UNCHANGED <<cb, asked, age>>
    BY <1>7, TickEndRefines DEF TickEnd
  <2>2. QED
    BY <2>1 DEF Queue!TickEnd, Window
<1>8. CASE UNCHANGED vars
  BY <1>8 DEF vars, wheelVars, tickVars, Pending, Left, Due, TicksLeft, Linked, Window
<1>9. QED
  BY <1>1, <1>2, <1>3, <1>4, <1>5, <1>6, <1>7, <1>8 DEF Next, tick

LEMMA AgeInit == Init => AgeInv
BY WheelAssumption DEF Init, AgeInv, Pending, Due, Linked, Slots

LEMMA AgeAlways == Spec => [](WheelInv /\ AgeInv)
<1>1. Init => WheelInv /\ AgeInv
  BY WheelInit, AgeInit
<1>2. WheelInv /\ AgeInv /\ [Next]_vars => (WheelInv /\ AgeInv)'
  BY WheelStep, AgeStep
<1>3. QED
  BY <1>1, <1>2, PTL DEF Spec

\* No callback runs before the number of ticks its timer was set for.
THEOREM NoTimerEarly == Spec => []NeverEarly
<1>1. WheelInv /\ AgeInv => NeverEarly
  BY DEF AgeInv, NeverEarly, Window, WheelInv, TypeOK
<1>2. QED
  BY <1>1, AgeAlways, PTL

\* No timer stays in the wheel for more than a turn beyond its time.
THEOREM NoTimerForgotten == Spec => []AtMostOneTurnLate
<1>1. WheelInv /\ AgeInv => AtMostOneTurnLate
  <2> SUFFICES ASSUME WheelInv, AgeInv, NEW t \in Timer, Linked(t)
               PROVE  age[t] <= asked[t] + N
    BY DEF AtMostOneTurnLate
  <2>1. CASE t \in Due \/ t = cb
    BY <2>1 DEF AgeInv, Window
  <2>2. CASE t \notin Due /\ t # cb
    <3>1. t \in Pending \ Due
      BY <2>2 DEF Pending
    <3>2. age[t] + Left[t] + 1 <= asked[t] + N
      BY <3>1 DEF AgeInv, Window
    <3>3. Left[t] = TicksLeft(t) /\ TicksLeft(t) \in Int
      BY <3>1, LeftOf DEF Left
    <3>4. TicksLeft(t) >= -1
      <4>1. rotation[t] * N \in Nat /\ (time_slot[t] - cur_slot) % N \in Nat
        BY LeftOf, WheelAssumption DEF WheelInv, TypeOK
      <4>2. QED
        BY <4>1, WheelAssumption DEF TicksLeft
    <3>5. QED
      BY <3>2, <3>3, <3>4, WheelAssumption DEF WheelInv, TypeOK
  <2>3. QED
    BY <2>1, <2>2
<1>2. QED
  BY <1>1, AgeAlways, PTL

=============================================================================
