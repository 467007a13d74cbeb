------------------------------ MODULE TimeHeapProofs ------------------------------
(***************************************************************************)
(* Theorems about TimeHeap, for every set of timers, every capacity and    *)
(* every bound: its types, that no timer is lost or doubled, and that a    *)
(* tick deletes the timer whose callback it has run, unless the callback   *)
(* has added one that expires sooner.                                      *)
(***************************************************************************)
EXTENDS TimeHeap, TLAPS

-----------------------------------------------------------------------------
(* The contents of the heap, as a function f from the slots 0 .. n - 1: it *)
(* has each element of S once.                                             *)

Arranged(f, n, S) ==
    /\ \A i \in 0 .. n - 1 : f[i] \in S
    /\ \A i, k \in 0 .. n - 1 : f[i] = f[k] => i = k
    /\ \A t \in S : \E i \in 0 .. n - 1 : f[i] = t

\* An iteration of a sift exchanges two slots.
LEMMA Exchanged ==
    ASSUME NEW n \in Nat, NEW S, NEW f, NEW g, NEW a \in 0 .. n - 1, NEW b \in 0 .. n - 1,
           Arranged(f, n, S),
           g[a] = f[b], g[b] = f[a],
           \A i \in 0 .. n - 1 : i # a /\ i # b => g[i] = f[i]
    PROVE  Arranged(g, n, S)
<1>1. \A i \in 0 .. n - 1 : g[i] \in S
  BY DEF Arranged
<1>2. ASSUME NEW i \in 0 .. n - 1, NEW k \in 0 .. n - 1, g[i] = g[k]
      PROVE  i = k
  BY <1>2 DEF Arranged
<1>3. ASSUME NEW t \in S
      PROVE  \E i \in 0 .. n - 1 : g[i] = t
  <2>1. PICK i \in 0 .. n - 1 : f[i] = t
    BY DEF Arranged
  <2> QED BY <2>1
<1> QED BY <1>1, <1>2, <1>3 DEF Arranged

\* add_timer puts a new one behind the last slot.
LEMMA Added ==
    ASSUME NEW n \in Nat, NEW S, NEW f, NEW g, NEW t,
           Arranged(f, n, S), t \notin S,
           g[n] = t, \A i \in 0 .. n - 1 : g[i] = f[i]
    PROVE  Arranged(g, n + 1, S \cup {t})
<1>1. \A i \in 0 .. (n + 1) - 1 : i = n \/ i \in 0 .. n - 1
  OBVIOUS
<1>2. \A i \in 0 .. (n + 1) - 1 : g[i] \in S \cup {t}
  BY <1>1 DEF Arranged
<1>3. ASSUME NEW i \in 0 .. (n + 1) - 1, NEW k \in 0 .. (n + 1) - 1, g[i] = g[k]
      PROVE  i = k
  BY <1>1, <1>3 DEF Arranged
<1>4. ASSUME NEW u \in S \cup {t}
      PROVE  \E i \in 0 .. (n + 1) - 1 : g[i] = u
  <2>1. CASE u = t
    BY <2>1
  <2>2. CASE u \in S
    <3>1. PICK i \in 0 .. n - 1 : f[i] = u
      BY <2>2 DEF Arranged
    <3> QED BY <3>1
  <2> QED BY <2>1, <2>2
<1> QED BY <1>2, <1>3, <1>4 DEF Arranged

\* pop puts the last one in the place of the first.
LEMMA Popped ==
    ASSUME NEW n \in Nat, n > 0, NEW S, NEW f, NEW g,
           Arranged(f, n, S),
           n > 1 => g[0] = f[n - 1],
           \A i \in 1 .. n - 2 : g[i] = f[i]
    PROVE  Arranged(g, n - 1, S \ {f[0]})
<1>1. \A i \in 0 .. (n - 1) - 1 : (i = 0 /\ g[i] = f[n - 1] /\ n - 1 # 0) \/ (i # 0 /\ g[i] = f[i] /\ i # n - 1)
  OBVIOUS
<1>2. \A i \in 0 .. (n - 1) - 1 : g[i] \in S \ {f[0]}
  BY <1>1 DEF Arranged
<1>3. ASSUME NEW i \in 0 .. (n - 1) - 1, NEW k \in 0 .. (n - 1) - 1, g[i] = g[k]
      PROVE  i = k
  BY <1>1, <1>3 DEF Arranged
<1>4. ASSUME NEW u \in S \ {f[0]}
      PROVE  \E i \in 0 .. (n - 1) - 1 : g[i] = u
  <2>1. PICK i \in 0 .. n - 1 : f[i] = u
    BY DEF Arranged
  <2>2. i # 0
    BY <2>1
  <2>3. CASE i = n - 1
    <3>1. n > 1 /\ g[0] = u
      BY <2>1, <2>2, <2>3
    <3> QED BY <3>1
  <2>4. CASE i # n - 1
    <3>1. i \in 1 .. n - 2
      BY <2>2, <2>4
    <3> QED BY <3>1, <2>1
  <2> QED BY <2>3, <2>4
<1> QED BY <1>2, <1>3, <1>4 DEF Arranged

-----------------------------------------------------------------------------
(* The inductive invariant.                                                *)

Contents == [i \in Used |-> Entry(i)]

\* The constructor sifts nodes that are in use, and only then the heap is used.
HeapifyInv == heapify >= 0 => heapify < cur_size /\ ~ ticking /\ pc # "up"

\* While a callback runs, its timer is in the heap, and only a timer that the
\* callback has added and that expires sooner is at the root in its place.
AtRoot == Entry(0) = cb \/ (Entry(0) \in added /\ erpire[Entry(0)] < erpire[cb])

CallbackInv ==
    /\ cb = NoTimer => added = {}
    /\ cb # NoTimer =>
         /\ ticking /\ pc # "down" /\ cur_size > 0
         /\ cb \in set
         /\ AtRoot
         /\ pc = "up" => held \in added

HeapInv ==
    /\ TypeOK
    /\ Arranged(Contents, cur_size, set)
    /\ HeapifyInv
    /\ CallbackInv

LEMMA ContentsLost == Arranged(Contents, cur_size, set) => NoTimerLost
BY DEF Arranged, Contents, NoTimerLost, Used

\* The indices that sifts go to.
LEMMA ParentBelow ==
    ASSUME NEW i \in Nat, i > 0
    PROVE  Parent(i) \in 0 .. i - 1
BY DEF Parent

LEMMA ChildAbove ==
    ASSUME TypeOK, pos \in Used, HasChild(pos)
    PROVE  MinChild(pos) \in Used /\ MinChild(pos) # pos
<1>1. cur_size \in Nat /\ pos \in 0 .. cur_size - 1 /\ 2 * pos + 1 <= cur_size - 1
  BY HeapAssumption DEF TypeOK, HasChild, Used
<1>2. MinChild(pos) = 2 * pos + 1 \/ (MinChild(pos) = 2 * pos + 2 /\ 2 * pos + 1 < cur_size - 1)
  BY <1>1 DEF MinChild
<1> QED BY <1>1, <1>2 DEF Used

\* What is in the heap are timers.
LEMMA EntriesAreTimers ==
    ASSUME TypeOK, Arranged(Contents, cur_size, set)
    PROVE  /\ \A i \in Used : Entry(i) \in Timer /\ Entry(i) \in set
           /\ pc # "out" => held \in Timer /\ held \in set
<1>1. \A i \in Used : Entry(i) \in Timer /\ Entry(i) \in set
  BY DEF Arranged, Contents, Used, TypeOK
<1>2. pc # "out" => pos \in Used /\ Entry(pos) = held
  BY DEF TypeOK, Entry
<1> QED BY <1>1, <1>2

LEMMA InitHolds == Init => HeapInv
<1> SUFFICES ASSUME Init PROVE HeapInv
  OBVIOUS
<1> USE HeapAssumption
<1>1. PICK old \in [0 .. capacity - 1 -> Timer \cup {NoTimer}] :
         /\ \A i, k \in DOMAIN old : i < k =>
              \/ old[k] = NoTimer
              \/ old[i] # NoTimer /\ old[i] # old[k]
         /\ array = old
         /\ set = {old[i] : i \in DOMAIN old} \ {NoTimer}
  BY DEF Init
<1>2. /\ capacity \in Nat \ {0} /\ cur_size \in 0 .. capacity /\ pc = "out"
      /\ \A i \in 0 .. capacity - 1 : i < cur_size <=> array[i] # NoTimer
  BY DEF Init
<1>3. heapify \in -1 .. cur_size - 1 /\ (heapify >= 0 => heapify < cur_size)
  <2>1. CASE cur_size = 0
    BY <2>1, <1>2 DEF Init, Empty
  <2>2. CASE cur_size # 0
    <3>1. (cur_size - 1) \div 2 \in 0 .. cur_size - 1
      BY <1>2, <2>2
    <3>2. heapify = (cur_size - 1) \div 2
      BY <2>2 DEF Init, Empty
    <3> QED BY <1>2, <3>1, <3>2
  <2> QED BY <2>1, <2>2
<1>4. TypeOK
  <2>1. set \subseteq Timer
    BY <1>1
  <2>2. erpire \in [Timer -> Int]
    BY DEF Init
  <2>3. heapify \in -1 .. capacity - 1
    BY <1>2, <1>3
  <2> QED BY <1>1, <1>2, <2>1, <2>2, <2>3 DEF Init, TypeOK
<1>5. Arranged(Contents, cur_size, set)
  <2>1. \A i \in 0 .. cur_size - 1 : Contents[i] = array[i] /\ i \in 0 .. capacity - 1
    BY <1>2 DEF Contents, Entry, Used
  <2>2. \A i \in 0 .. cur_size - 1 : Contents[i] \in set
    BY <1>1, <1>2, <2>1
  <2>3. ASSUME NEW i \in 0 .. cur_size - 1, NEW k \in 0 .. cur_size - 1, Contents[i] = Contents[k]
        PROVE  i = k
    <3>1. array[i] = array[k] /\ array[i] # NoTimer /\ array[k] # NoTimer
      BY <1>2, <2>1, <2>3
    <3>2. ~ (i < k) /\ ~ (k < i)
      BY <1>1, <2>1, <3>1
    <3> QED BY <3>2, <1>2
  <2>4. ASSUME NEW t \in set
        PROVE  \E i \in 0 .. cur_size - 1 : Contents[i] = t
    <3>1. PICK i \in 0 .. capacity - 1 : array[i] = t /\ t # NoTimer
      BY <1>1
    <3>2. i < cur_size
      BY <1>2, <3>1
    <3> QED BY <1>2, <2>1, <3>1, <3>2
  <2> QED BY <2>2, <2>3, <2>4 DEF Arranged
<1>6. HeapifyInv /\ CallbackInv
  BY <1>2, <1>3 DEF Init, HeapifyInv, CallbackInv
<1> QED BY <1>4, <1>5, <1>6 DEF HeapInv

-----------------------------------------------------------------------------
(* The steps of a sift.                                                    *)

LEMMA SiftUpHolds == HeapInv /\ SiftUp => HeapInv'
<1> SUFFICES ASSUME HeapInv, SiftUp PROVE HeapInv'
  OBVIOUS
<1> DEFINE par == Parent(pos)
<1>1. TypeOK /\ Arranged(Contents, cur_size, set)
  BY DEF HeapInv
<1>2. cur_size \in Nat /\ pos \in Used /\ pos \in 0 .. cur_size - 1 /\ pos > 0 /\ pos \in Nat /\ pc = "up"
  BY <1>1, HeapAssumption DEF TypeOK, SiftUp, Used
<1>3. par \in 0 .. pos - 1 /\ par \in Used /\ par # pos
  BY <1>2, ParentBelow DEF Used
<1>4. array \in [0 .. capacity - 1 -> Timer \cup {NoTimer}] /\ cur_size <= capacity /\ capacity \in Nat
  BY <1>1, HeapAssumption DEF TypeOK
<1>5. /\ array' = [array EXCEPT ![pos] = array[par]]
      /\ pos' = par /\ pc' = pc /\ held' = held /\ cur_size' = cur_size /\ set' = set
      /\ capacity' = capacity /\ erpire' = erpire /\ cancelled' = cancelled
      /\ heapify' = heapify /\ ticking' = ticking /\ cur' = cur /\ cb' = cb /\ added' = added /\ now' = now /\ made' = made
  BY DEF SiftUp, tickVars
<1>6. Used' = Used
  BY <1>5 DEF Used
<1>7. TypeOK'
  <2>1. array' \in [0 .. capacity - 1 -> Timer \cup {NoTimer}]
    BY <1>2, <1>3, <1>4, <1>5
  <2> QED BY <1>1, <1>2, <1>3, <1>5, <1>6, <2>1 DEF TypeOK
<1>8. \A i \in Used : Contents'[i] = IF i = pos THEN Contents[par]
                                     ELSE IF i = par THEN Contents[pos] ELSE Contents[i]
  <2>1. \A i \in Used : Contents'[i] = IF i = par THEN held ELSE array'[i]
    BY <1>2, <1>5, <1>6 DEF Contents, Entry
  <2>2. \A i \in Used : Contents[i] = IF i = pos THEN held ELSE array[i]
    BY <1>2 DEF Contents, Entry
  <2>3. \A i \in Used : i \in 0 .. capacity - 1
    BY <1>2, <1>4 DEF Used
  <2>4. \A i \in Used : array'[i] = IF i = pos THEN array[par] ELSE array[i]
    BY <2>3, <1>4, <1>5
  <2> QED BY <1>2, <1>3, <2>1, <2>2, <2>4
<1>9. Arranged(Contents, cur_size, set)'
  <2>1. Arranged(Contents', cur_size, set)
    BY <1>1, <1>2, <1>3, <1>8, Exchanged DEF Used
  <2> QED BY <2>1, <1>5 DEF Arranged
<1>10. HeapifyInv'
  BY <1>5 DEF HeapInv, HeapifyInv
<1>11. CallbackInv'
  <2>1. CASE cb = NoTimer
    BY <2>1, <1>5 DEF HeapInv, CallbackInv
  <2>2. CASE cb # NoTimer
    <3>1. /\ ticking /\ pc # "down" /\ cur_size > 0 /\ cb \in set /\ held \in added
          /\ Entry(0) = array[0]
          /\ array[0] = cb \/ (array[0] \in added /\ erpire[array[0]] < erpire[cb])
      BY <2>2, <1>2 DEF HeapInv, CallbackInv, AtRoot, Entry
    <3>2. CASE par # 0
      <4>1. Entry(0)' = array[0]
        BY <3>2, <1>2, <1>4, <1>5 DEF Entry
      <4> QED BY <2>2, <3>1, <4>1, <1>2, <1>5 DEF CallbackInv, AtRoot
    <3>3. CASE par = 0
      <4>1. Entry(0)' = held
        BY <3>3, <1>2, <1>5 DEF Entry
      <4>2. 0 \in Used /\ array[0] \in Timer /\ cb \in Timer /\ held \in Timer
        BY <1>1, <1>2, <3>1, EntriesAreTimers DEF TypeOK, Used
      <4>3. erpire[held] < erpire[array[0]]
        BY <3>3 DEF SiftUp, Before
      <4>4. erpire[held] < erpire[cb]
        BY <3>1, <4>2, <4>3, <1>1 DEF TypeOK
      <4> QED BY <2>2, <3>1, <4>1, <4>4, <1>2, <1>5 DEF CallbackInv, AtRoot
    <3> QED BY <3>2, <3>3
  <2> QED BY <2>1, <2>2
<1> QED BY <1>7, <1>9, <1>10, <1>11 DEF HeapInv

LEMMA SiftDownHolds == HeapInv /\ SiftDown => HeapInv'
<1> SUFFICES ASSUME HeapInv, SiftDown PROVE HeapInv'
  OBVIOUS
<1> DEFINE child == MinChild(pos)
<1>1. TypeOK /\ Arranged(Contents, cur_size, set)
  BY DEF HeapInv
<1>2. cur_size \in Nat /\ pos \in Used /\ pos \in 0 .. cur_size - 1 /\ pos \in Nat /\ pc = "down"
  BY <1>1, HeapAssumption DEF TypeOK, SiftDown, Used
<1>3. child \in Used /\ child \in 0 .. cur_size - 1 /\ child # pos
  BY <1>1, <1>2, ChildAbove DEF Used, SiftDown
<1>4. array \in [0 .. capacity - 1 -> Timer \cup {NoTimer}] /\ cur_size <= capacity /\ capacity \in Nat
  BY <1>1, HeapAssumption DEF TypeOK
<1>5. /\ array' = [array EXCEPT ![pos] = array[child]]
      /\ pos' = child /\ pc' = pc /\ held' = held /\ cur_size' = cur_size /\ set' = set
      /\ capacity' = capacity /\ erpire' = erpire /\ cancelled' = cancelled
      /\ heapify' = heapify /\ ticking' = ticking /\ cur' = cur /\ cb' = cb /\ added' = added /\ now' = now /\ made' = made
  BY DEF SiftDown, tickVars
<1>6. Used' = Used
  BY <1>5 DEF Used
<1>7. TypeOK'
  <2>1. array' \in [0 .. capacity - 1 -> Timer \cup {NoTimer}]
    BY <1>2, <1>3, <1>4, <1>5
  <2> QED BY <1>1, <1>2, <1>3, <1>5, <1>6, <2>1 DEF TypeOK
<1>8. \A i \in Used : Contents'[i] = IF i = pos THEN Contents[child]
                                     ELSE IF i = child THEN Contents[pos] ELSE Contents[i]
  <2>1. \A i \in Used : Contents'[i] = IF i = child THEN held ELSE array'[i]
    BY <1>2, <1>5, <1>6 DEF Contents, Entry
  <2>2. \A i \in Used : Contents[i] = IF i = pos THEN held ELSE array[i]
    BY <1>2 DEF Contents, Entry
  <2>3. \A i \in Used : i \in 0 .. capacity - 1
    BY <1>2, <1>4 DEF Used
  <2>4. \A i \in Used : array'[i] = IF i = pos THEN array[child] ELSE array[i]
    BY <2>3, <1>4, <1>5
  <2> QED BY <1>2, <1>3, <2>1, <2>2, <2>4
<1>9. Arranged(Contents, cur_size, set)'
  <2>1. Arranged(Contents', cur_size, set)
    BY <1>1, <1>2, <1>3, <1>8, Exchanged DEF Used
  <2> QED BY <2>1, <1>5 DEF Arranged
<1>10. HeapifyInv'
  BY <1>5 DEF HeapInv, HeapifyInv
<1>11. cb = NoTimer
  BY <1>2 DEF HeapInv, CallbackInv
<1>12. CallbackInv'
  BY <1>5, <1>11 DEF HeapInv, CallbackInv
<1> QED BY <1>7, <1>9, <1>10, <1>12 DEF HeapInv

\* The held timer is written into the hole: the contents stay as they are.
LEMMA PlacedHolds ==
    ASSUME HeapInv, pc # "out",
           array' = [array EXCEPT ![pos] = held], SiftEnds,
           heapify' \in -1 .. heapify,
           UNCHANGED <<capacity, cur_size, tickVars, erpire, cancelled, now, made, set>>
    PROVE  HeapInv'
<1>1. TypeOK /\ Arranged(Contents, cur_size, set)
  BY DEF HeapInv
<1>2. cur_size \in Nat /\ pos \in Used /\ pos \in 0 .. cur_size - 1 /\ heapify \in -1 .. capacity - 1
  BY <1>1, HeapAssumption DEF TypeOK, Used
<1>3. held \in Timer
  BY <1>1, EntriesAreTimers
<1>4. array \in [0 .. capacity - 1 -> Timer \cup {NoTimer}] /\ cur_size <= capacity /\ capacity \in Nat
  BY <1>1, HeapAssumption DEF TypeOK
<1>5. /\ pos' = 0 /\ pc' = "out" /\ held' = NoTimer /\ cur_size' = cur_size /\ set' = set
      /\ capacity' = capacity /\ erpire' = erpire /\ cancelled' = cancelled
      /\ ticking' = ticking /\ cur' = cur /\ cb' = cb /\ added' = added /\ now' = now /\ made' = made
  BY DEF SiftEnds, tickVars
<1>6. Used' = Used
  BY <1>5 DEF Used
<1>7. TypeOK'
  <2>1. array' \in [0 .. capacity - 1 -> Timer \cup {NoTimer}]
    BY <1>2, <1>3, <1>4
  <2>2. heapify' \in -1 .. capacity - 1
    BY <1>2, <1>4
  <2> QED BY <1>1, <1>2, <1>5, <1>6, <2>1, <2>2 DEF TypeOK
<1>8. \A i \in Used : Entry(i)' = Entry(i)
  <2>1. \A i \in Used : i \in 0 .. capacity - 1
    BY <1>2, <1>4 DEF Used
  <2> QED BY <2>1, <1>2, <1>4, <1>5 DEF Entry
<1>9. Arranged(Contents, cur_size, set)'
  <2>1. Contents' = Contents
    BY <1>6, <1>8 DEF Contents
  <2> QED BY <2>1, <1>1, <1>5
<1>10. HeapifyInv'
  BY <1>2, <1>5, <1>4 DEF HeapInv, HeapifyInv
<1>11. CallbackInv'
  <2>1. CASE cb = NoTimer
    BY <2>1, <1>5 DEF HeapInv, CallbackInv
  <2>2. CASE cb # NoTimer
    <3>1. ticking /\ cur_size > 0 /\ cb \in set /\ AtRoot
      BY <2>2 DEF HeapInv, CallbackInv
    <3>2. Entry(0)' = Entry(0)
      BY <3>1, <1>2, <1>8 DEF Used
    <3> QED BY <2>2, <3>1, <3>2, <1>5 DEF CallbackInv, AtRoot
  <2> QED BY <2>1, <2>2
<1> QED BY <1>7, <1>9, <1>10, <1>11 DEF HeapInv

LEMMA SiftUpEndsHolds == HeapInv /\ SiftUpEnds => HeapInv'
<1> SUFFICES ASSUME HeapInv, SiftUpEnds PROVE HeapInv'
  OBVIOUS
<1>1. heapify' = heapify /\ heapify \in Int /\ heapify >= -1
  BY HeapAssumption DEF SiftUpEnds, HeapInv, TypeOK
<1>2. heapify' \in -1 .. heapify
  BY <1>1
<1> QED BY <1>2, PlacedHolds DEF SiftUpEnds

LEMMA SiftDownEndsHolds == HeapInv /\ SiftDownEnds => HeapInv'
<1> SUFFICES ASSUME HeapInv, SiftDownEnds PROVE HeapInv'
  OBVIOUS
<1>1. heapify \in Int /\ heapify >= -1 /\ heapify' = IF heapify >= 0 THEN heapify - 1 ELSE heapify
  BY HeapAssumption DEF SiftDownEnds, HeapInv, TypeOK
<1>2. heapify' \in -1 .. heapify
  BY <1>1
<1> QED BY <1>2, PlacedHolds DEF SiftDownEnds

LEMMA HeapifyHolds == HeapInv /\ Heapify => HeapInv'
<1> SUFFICES ASSUME HeapInv, Heapify PROVE HeapInv'
  OBVIOUS
<1>1. TypeOK /\ Arranged(Contents, cur_size, set)
  BY DEF HeapInv
<1>2. /\ heapify \in Nat /\ heapify < cur_size /\ cur_size \in Nat /\ heapify \in Used
      /\ ~ ticking /\ cb = NoTimer /\ pc = "out"
  BY HeapAssumption DEF HeapInv, TypeOK, HeapifyInv, CallbackInv, Heapify, Used
<1>3. /\ pc' = "down" /\ pos' = heapify /\ held' = array[heapify]
      /\ array' = array /\ cur_size' = cur_size /\ set' = set
      /\ capacity' = capacity /\ erpire' = erpire /\ cancelled' = cancelled
      /\ heapify' = heapify /\ ticking' = ticking /\ cur' = cur /\ cb' = cb /\ added' = added /\ now' = now /\ made' = made
  BY DEF Heapify, SiftStarts, heapVars, tickVars
<1>4. Used' = Used
  BY <1>3 DEF Used
<1>5. held' \in Timer
  BY <1>1, <1>2, <1>3, EntriesAreTimers DEF Entry
<1>6. TypeOK'
  BY <1>1, <1>2, <1>3, <1>4, <1>5 DEF TypeOK
<1>7. Contents' = Contents
  BY <1>2, <1>3, <1>4 DEF Contents, Entry
<1>8. Arranged(Contents, cur_size, set)'
  BY <1>1, <1>3, <1>7
<1>9. HeapifyInv' /\ CallbackInv'
  BY <1>2, <1>3 DEF HeapInv, HeapifyInv, CallbackInv
<1> QED BY <1>6, <1>8, <1>9 DEF HeapInv

-----------------------------------------------------------------------------
(* The calls of the heap's user.                                           *)

\* A timer that is made is not in the heap.
LEMMA MakeHolds ==
    ASSUME HeapInv, NEW t \in Timer, NEW timeout \in Timeouts, heap_timer(t, timeout)
    PROVE  HeapInv'
<1>1. TypeOK /\ Arranged(Contents, cur_size, set)
  BY DEF HeapInv
<1>2. /\ t \notin set /\ now + timeout \in Int
      /\ erpire' = [erpire EXCEPT ![t] = now + timeout] /\ made' = made \cup {t}
      /\ UNCHANGED <<heapVars, siftVars, tickVars, cancelled, heapify, now, set>>
  BY <1>1, HeapAssumption DEF heap_timer, TypeOK
<1>3. TypeOK'
  <2>1. erpire' \in [Timer -> Int]
    BY <1>1, <1>2 DEF TypeOK
  <2>2. made' \subseteq Timer \ set' /\ added' \subseteq set'
    BY <1>1, <1>2 DEF TypeOK, tickVars
  <2> QED BY <1>1, <1>2, <2>1, <2>2 DEF TypeOK, Used, heapVars, siftVars, tickVars
<1>4. Contents' = Contents /\ Entry(0)' = Entry(0) /\ cur_size' = cur_size /\ set' = set
  BY <1>2 DEF Contents, Entry, Used, heapVars, siftVars
<1>5. Arranged(Contents, cur_size, set)'
  BY <1>1, <1>4
<1>6. HeapifyInv'
  BY <1>2 DEF HeapInv, HeapifyInv, heapVars, siftVars, tickVars
<1>7. CallbackInv'
  <2>1. CASE cb = NoTimer
    BY <2>1, <1>2 DEF HeapInv, CallbackInv, tickVars
  <2>2. CASE cb # NoTimer
    <3>1. /\ ticking /\ pc # "down" /\ cur_size > 0 /\ cb \in set /\ AtRoot
          /\ pc = "up" => held \in added
      BY <2>2 DEF HeapInv, CallbackInv
    <3>2. 0 \in Used /\ Entry(0) \in set
      BY <1>1, <3>1, EntriesAreTimers DEF TypeOK, Used
    <3>3. erpire'[cb] = erpire[cb] /\ erpire'[Entry(0)] = erpire[Entry(0)]
      BY <1>1, <1>2, <3>1, <3>2 DEF TypeOK
    <3>4. AtRoot'
      BY <1>2, <1>4, <3>1, <3>3 DEF AtRoot, tickVars
    <3> QED BY <2>2, <3>1, <3>4, <1>2 DEF CallbackInv, heapVars, siftVars, tickVars
  <2> QED BY <2>1, <2>2
<1> QED BY <1>3, <1>5, <1>6, <1>7 DEF HeapInv

LEMMA AddHolds ==
    ASSUME HeapInv, NEW t \in Timer, add_timer(t)
    PROVE  HeapInv'
<1>1. TypeOK /\ Arranged(Contents, cur_size, set)
  BY DEF HeapInv
<1>2. /\ cur_size \in Nat /\ capacity \in Nat \ {0} /\ cur_size <= capacity
      /\ array \in [0 .. capacity - 1 -> Timer \cup {NoTimer}]
      /\ pc = "out" /\ heapify = -1 /\ t \in made /\ t \notin set
  BY <1>1, HeapAssumption DEF TypeOK, add_timer, Callable
<1>3. /\ pc' = "up" /\ pos' = cur_size /\ held' = t /\ cur_size' = cur_size + 1
      /\ set' = set \cup {t} /\ made' = made \ {t} /\ erpire' = erpire
      /\ added' = IF cb = NoTimer THEN {} ELSE added \cup {t}
      /\ cancelled' = cancelled /\ heapify' = heapify
      /\ ticking' = ticking /\ cur' = cur /\ cb' = cb /\ now' = now
  BY DEF add_timer, SiftStarts
<1>5. /\ capacity' \in Nat \ {0} /\ capacity' >= capacity /\ cur_size + 1 <= capacity'
      /\ array' \in [0 .. capacity' - 1 -> Timer \cup {NoTimer}]
      /\ \A i \in 0 .. cur_size - 1 : array'[i] = array[i]
  <2>1. CASE Full
    <3>1. PICK wild \in Timer \cup {NoTimer} : array' = Grown(wild)
      BY <2>1 DEF add_timer
    <3>2. capacity' = 2 * capacity
      BY <2>1 DEF add_timer
    <3>3. array' \in [0 .. 2 * capacity - 1 -> Timer \cup {NoTimer}]
      BY <1>2, <3>1 DEF Grown
    <3>4. \A i \in 0 .. cur_size - 1 : array'[i] = array[i]
      BY <1>2, <3>1 DEF Grown
    <3> QED BY <1>2, <3>2, <3>3, <3>4
  <2>2. CASE ~ Full
    BY <1>2, <2>2 DEF add_timer, Full
  <2> QED BY <2>1, <2>2
<1>6. TypeOK'
  <2>1. made' \subseteq Timer \ set' /\ added' \subseteq set'
    BY <1>1, <1>3 DEF TypeOK
  <2>2. cur_size' \in 0 .. capacity' /\ pos' \in Nat /\ pos' \in Used'
    BY <1>2, <1>3, <1>5 DEF Used
  <2>3. heapify' \in -1 .. capacity' - 1
    <3>1. ASSUME NEW c \in Nat
          PROVE  -1 \in -1 .. c - 1
      OBVIOUS
    <3>2. capacity' \in Nat
      BY <1>5
    <3>3. heapify' = -1
      BY <1>2, <1>3
    <3> QED BY <3>1, <3>2, <3>3
  <2>4. cancelled' \subseteq set' /\ set' \subseteq Timer
    BY <1>1, <1>3 DEF TypeOK
  <2> QED BY <1>1, <1>3, <1>5, <2>1, <2>2, <2>3, <2>4 DEF TypeOK
<1>7. \A i \in 0 .. cur_size - 1 : Contents'[i] = Contents[i]
  <2>1. TAKE i \in 0 .. cur_size - 1
  <2>2. i \in 0 .. cur_size' - 1 /\ i # pos'
    BY <2>1, <1>2, <1>3
  <2>3. Contents'[i] = array'[i]
    BY <2>2 DEF Contents, Entry, Used
  <2>4. Contents[i] = array[i]
    BY <2>1, <1>2 DEF Contents, Entry, Used
  <2> QED BY <2>1, <2>3, <2>4, <1>5
<1>8. Contents'[cur_size] = t
  BY <1>2, <1>3 DEF Contents, Entry, Used
<1>9. Arranged(Contents, cur_size, set)'
  <2>1. Arranged(Contents', cur_size + 1, set \cup {t})
    BY <1>1, <1>2, <1>7, <1>8, Added
  <2> QED BY <2>1, <1>3
<1>10. HeapifyInv'
  BY <1>2, <1>3 DEF HeapifyInv
<1>11. CallbackInv'
  <2>1. CASE cb = NoTimer
    BY <2>1, <1>3 DEF HeapInv, CallbackInv
  <2>2. CASE cb # NoTimer
    <3>1. ticking /\ cur_size > 0 /\ cb \in set /\ AtRoot
      BY <2>2 DEF HeapInv, CallbackInv
    <3>2. Entry(0)' = Entry(0)
      <4>1. 0 \in 0 .. cur_size - 1 /\ 0 # pos'
        BY <3>1, <1>2, <1>3
      <4>2. array'[0] = array[0]
        BY <4>1, <1>5
      <4> QED BY <4>1, <4>2, <1>2 DEF Entry
    <3>3. AtRoot' /\ held' \in added'
      BY <2>2, <3>1, <3>2, <1>3 DEF AtRoot
    <3> QED BY <1>2, <1>3, <3>1, <3>3 DEF CallbackInv
  <2> QED BY <2>1, <2>2
<1> QED BY <1>6, <1>9, <1>10, <1>11 DEF HeapInv

\* Steps that change neither the contents nor what a callback relies on.
LEMMA DelHolds ==
    ASSUME HeapInv, NEW t \in Timer, del_timer(t)
    PROVE  HeapInv'
<1>1. /\ cancelled' = cancelled \cup {t} /\ t \in set
      /\ UNCHANGED <<heapVars, siftVars, tickVars, erpire, heapify, now, made, set>>
  BY DEF del_timer
<1>2. TypeOK'
  BY <1>1 DEF HeapInv, TypeOK, Used, heapVars, siftVars, tickVars
<1>3. Contents' = Contents /\ Entry(0)' = Entry(0) /\ cur_size' = cur_size /\ set' = set
  BY <1>1 DEF Contents, Entry, Used, heapVars, siftVars
<1>4. Arranged(Contents, cur_size, set)'
  BY <1>3 DEF HeapInv
<1>5. HeapifyInv' /\ CallbackInv'
  BY <1>1, <1>3 DEF HeapInv, HeapifyInv, CallbackInv, AtRoot, heapVars, siftVars, tickVars
<1> QED BY <1>2, <1>4, <1>5 DEF HeapInv

LEMMA PopRootHolds ==
    ASSUME HeapInv, PopRoot, pc = "out", heapify = -1, cur_size > 0,
           cb' = NoTimer, added' = {}, ticking' = ticking, cur' = cur
    PROVE  HeapInv'
<1>1. TypeOK /\ Arranged(Contents, cur_size, set)
  BY DEF HeapInv
<1>2. /\ cur_size \in Nat /\ capacity \in Nat \ {0} /\ cur_size <= capacity
      /\ array \in [0 .. capacity - 1 -> Timer \cup {NoTimer}]
  BY <1>1, HeapAssumption DEF TypeOK
<1>3. /\ set' = set \ {array[0]} /\ erpire' = [erpire EXCEPT ![array[0]] = 0]
      /\ cancelled' = cancelled \ {array[0]}
      /\ array' = [array EXCEPT ![0] = array[cur_size - 1]]
      /\ cur_size' = cur_size - 1 /\ capacity' = capacity /\ heapify' = heapify /\ now' = now /\ made' = made
  BY DEF PopRoot, LastElement
<1>4. cur_size = 1 => pc' = "out" /\ pos' = pos /\ held' = held
  BY DEF PopRoot, siftVars
<1>5. cur_size # 1 => pc' = "down" /\ pos' = 0 /\ held' = array[cur_size - 1]
  BY DEF PopRoot, SiftStarts, LastElement
<1>6. \A i \in 0 .. cur_size - 1 : i \in Used /\ Contents[i] = array[i] /\ array[i] \in Timer
  <2>1. \A i \in 0 .. cur_size - 1 : i \in Used /\ Contents[i] = array[i] /\ Entry(i) = array[i]
    BY DEF Contents, Entry, Used
  <2> QED BY <1>1, <2>1, EntriesAreTimers
<1>7. TypeOK'
  <2>1. 0 \in 0 .. cur_size - 1 /\ cur_size - 1 \in 0 .. cur_size - 1
    BY <1>2
  <2>2. array' \in [0 .. capacity - 1 -> Timer \cup {NoTimer}]
    BY <1>2, <1>3, <1>6, <2>1
  <2>3. erpire' \in [Timer -> Int]
    <3>1. erpire \in [Timer -> Int] /\ 0 \in Int
      BY <1>1 DEF TypeOK
    <3>2. [erpire EXCEPT ![array[0]] = 0] \in [Timer -> Int]
      BY <3>1
    <3> QED BY <3>2, <1>3
  <2>4. cancelled' \subseteq set' /\ set' \subseteq Timer /\ made' \subseteq Timer \ set' /\ added' \subseteq set'
    <3>1. cancelled \subseteq set /\ set \subseteq Timer /\ made \subseteq Timer \ set
      BY <1>1 DEF TypeOK
    <3>2. set' \subseteq set /\ cancelled' \subseteq set'
      BY <1>3, <3>1
    <3> QED BY <1>3, <3>1, <3>2
  <2>5. cur_size' \in 0 .. capacity'
    BY <1>2, <1>3
  <2>6. CASE cur_size = 1
    BY <2>2, <2>3, <2>4, <2>5, <2>6, <1>1, <1>3, <1>4 DEF TypeOK
  <2>7. CASE cur_size # 1
    <3>1. pos' \in Used' /\ held' \in Timer
      BY <2>1, <2>7, <1>2, <1>3, <1>5, <1>6 DEF Used
    <3> QED BY <2>2, <2>3, <2>4, <2>5, <2>7, <3>1, <1>1, <1>3, <1>5 DEF TypeOK
  <2> QED BY <2>6, <2>7
<1>8. Arranged(Contents, cur_size, set)'
  <2>1. cur_size > 1 => Contents'[0] = Contents[cur_size - 1]
    <3>1. cur_size > 1 => 0 \in Used' /\ cur_size - 1 \in 0 .. cur_size - 1
      BY <1>2, <1>3 DEF Used
    <3> QED BY <3>1, <1>2, <1>5, <1>6 DEF Contents, Entry
  <2>2. ASSUME NEW i \in 1 .. cur_size - 2
        PROVE  Contents'[i] = Contents[i]
    <3>1. i \in Used' /\ i \in 0 .. cur_size - 1 /\ i \in 0 .. capacity - 1 /\ i # 0 /\ cur_size # 1
      BY <1>2, <1>3 DEF Used
    <3>2. array'[i] = array[i]
      BY <3>1, <1>2, <1>3
    <3>3. Contents'[i] = array'[i]
      BY <3>1, <1>5 DEF Contents, Entry
    <3> QED BY <3>1, <3>2, <3>3, <1>6
  <2>3. set' = set \ {Contents[0]}
    BY <1>2, <1>3, <1>6
  <2>4. Arranged(Contents', cur_size - 1, set \ {Contents[0]})
    BY <1>1, <1>2, <2>1, <2>2, Popped
  <2> QED BY <2>3, <2>4, <1>3
<1>9. HeapifyInv'
  BY <1>3 DEF HeapifyInv
<1>10. CallbackInv'
  BY <1>3 DEF HeapInv, CallbackInv
<1> QED BY <1>7, <1>8, <1>9, <1>10 DEF HeapInv

-----------------------------------------------------------------------------
(* The steps of a tick, and all steps together.                            *)

LEMMA TickStepHolds ==
    ASSUME HeapInv,
           UNCHANGED <<heapVars, siftVars, erpire, cancelled, heapify, made, set>>,
           TickBegin \/ Fire \/ TickEnd \/ Clock
    PROVE  HeapInv'
<1>1. TypeOK /\ Arranged(Contents, cur_size, set)
  BY DEF HeapInv
<1>2. Contents' = Contents /\ Entry(0)' = Entry(0) /\ cur_size' = cur_size /\ set' = set
  BY DEF Contents, Entry, Used, heapVars, siftVars
<1>3. Arranged(Contents, cur_size, set)'
  BY <1>1, <1>2
<1>4. cur \in Nat /\ now \in Nat
  BY <1>1 DEF TypeOK
<1>5. CASE TickBegin
  <2>1. ticking' = TRUE /\ cur' = now /\ cb' = cb /\ added' = added /\ now' = now /\ heapify = -1 /\ ~ ticking
    BY <1>5 DEF TickBegin
  <2>2. TypeOK'
    BY <1>1, <2>1 DEF TypeOK, Used, heapVars, siftVars
  <2>3. HeapifyInv' /\ CallbackInv'
    BY <1>4, <2>1 DEF HeapInv, HeapifyInv, CallbackInv, AtRoot, heapVars, siftVars
  <2> QED BY <1>3, <2>2, <2>3 DEF HeapInv
<1>6. CASE Fire
  <2>1. /\ cb' = array[0] /\ added' = {} /\ ticking' = ticking /\ cur' = cur /\ now' = now
        /\ ticking /\ pc = "out" /\ cur_size # 0 /\ erpire[array[0]] <= cur
    BY <1>6 DEF Fire, AtHead, Empty
  <2>2. cur_size \in Nat /\ cur_size > 0 /\ Entry(0) = array[0] /\ array[0] \in Timer /\ array[0] \in set
    <3>1. cur_size \in Nat /\ cur_size > 0
      BY <1>1, <2>1, HeapAssumption DEF TypeOK
    <3>2. 0 \in Used /\ Entry(0) = array[0]
      BY <2>1, <3>1 DEF Entry, Used
    <3> QED BY <1>1, <3>1, <3>2, EntriesAreTimers
  <2>3. TypeOK'
    BY <1>1, <2>1, <2>2 DEF TypeOK, Used, heapVars, siftVars
  <2>4. HeapifyInv'
    BY <2>1 DEF HeapInv, HeapifyInv, heapVars, siftVars
  <2>5. CallbackInv'
    BY <1>2, <2>1, <2>2 DEF HeapInv, CallbackInv, AtRoot, heapVars, siftVars
  <2> QED BY <1>3, <2>3, <2>4, <2>5 DEF HeapInv
<1>7. CASE TickEnd
  <2>1. ticking' = FALSE /\ cur' = 0 /\ cb' = cb /\ added' = added /\ now' = now /\ cb = NoTimer
    BY <1>7 DEF TickEnd, AtHead
  <2>2. TypeOK'
    BY <1>1, <2>1 DEF TypeOK, Used, heapVars, siftVars
  <2>3. HeapifyInv' /\ CallbackInv'
    BY <2>1 DEF HeapInv, HeapifyInv, CallbackInv, AtRoot, heapVars, siftVars
  <2> QED BY <1>3, <2>2, <2>3 DEF HeapInv
<1>8. CASE Clock
  <2>1. now' = now + 1 /\ ticking' = ticking /\ cur' = cur /\ cb' = cb /\ added' = added
    BY <1>8 DEF Clock, tickVars
  <2>2. TypeOK'
    BY <1>1, <2>1 DEF TypeOK, Used, heapVars, siftVars
  <2>3. HeapifyInv'
    BY <2>1 DEF HeapInv, HeapifyInv, heapVars, siftVars
  <2>4. CallbackInv'
    BY <1>2, <1>4, <2>1 DEF HeapInv, CallbackInv, AtRoot, heapVars, siftVars
  <2> QED BY <1>3, <2>2, <2>3, <2>4 DEF HeapInv
<1> QED BY <1>5, <1>6, <1>7, <1>8

LEMMA StepHolds == HeapInv /\ [Next]_vars => HeapInv'
<1> SUFFICES ASSUME HeapInv, [Next]_vars PROVE HeapInv'
  OBVIOUS
<1>1. CASE \E t \in Timer : \/ \E timeout \in Timeouts : heap_timer(t, timeout)
                            \/ add_timer(t)
                            \/ del_timer(t)
  BY <1>1, MakeHolds, AddHolds, DelHolds
<1>2. ASSUME PopRoot, pc = "out", cur_size # 0, heapify = -1,
             cb' = NoTimer, added' = {}, ticking' = ticking, cur' = cur
      PROVE  HeapInv'
  <2>1. cur_size > 0
    BY <1>2, HeapAssumption DEF HeapInv, TypeOK
  <2> QED BY <1>2, <2>1, PopRootHolds
<1>3. CASE pop
  <2>1. cb = NoTimer /\ added = {}
    BY <1>3 DEF pop, HeapInv, CallbackInv
  <2> QED BY <1>2, <1>3, <2>1 DEF pop, Callable, Empty, tickVars
<1>4. ticking => heapify = -1
  BY HeapAssumption DEF HeapInv, HeapifyInv, TypeOK
<1>5. CASE CallbackReturns
  <2>1. ticking /\ cur_size # 0
    BY <1>5 DEF CallbackReturns, HeapInv, CallbackInv
  <2> QED BY <1>2, <1>4, <1>5, <2>1 DEF CallbackReturns
<1>6. CASE DropCancelled
  <2>1. cb = NoTimer /\ added = {}
    BY <1>6 DEF DropCancelled, AtHead, HeapInv, CallbackInv
  <2> QED BY <1>2, <1>4, <1>6, <2>1 DEF DropCancelled, AtHead, Empty, tickVars
<1>7. CASE TickBegin \/ Fire \/ TickEnd \/ Clock
  BY <1>7, TickStepHolds DEF TickBegin, Fire, TickEnd, Clock
<1>8. CASE sift
  BY <1>8, HeapifyHolds, SiftUpHolds, SiftUpEndsHolds, SiftDownHolds, SiftDownEndsHolds DEF sift
<1>9. CASE UNCHANGED vars
  <2>1. Contents' = Contents /\ Entry(0)' = Entry(0)
    BY <1>9 DEF Contents, Entry, Used, vars, heapVars, siftVars
  <2>2. TypeOK'
    BY <1>9 DEF HeapInv, TypeOK, Used, vars, heapVars, siftVars, tickVars
  <2>3. Arranged(Contents, cur_size, set)'
    BY <1>9, <2>1 DEF HeapInv, vars, heapVars
  <2>4. HeapifyInv' /\ CallbackInv'
    BY <1>9, <2>1 DEF HeapInv, HeapifyInv, CallbackInv, AtRoot, vars, heapVars, siftVars, tickVars
  <2> QED BY <2>2, <2>3, <2>4 DEF HeapInv
<1> QED BY <1>1, <1>3, <1>5, <1>6, <1>7, <1>8, <1>9 DEF Next, tick

LEMMA Invariance == Spec => []HeapInv
BY InitHolds, StepHolds, PTL DEF Spec

\* Types, and that a sift stays inside the part of the array that is in use.
THEOREM TypeCorrect == Spec => []TypeOK
<1>1. HeapInv => TypeOK
  BY DEF HeapInv
<1> QED BY <1>1, Invariance, PTL

\* Adding with or without growing, sifting (in whatever order the heap is) and
\* popping keep every timer, and each once.
THEOREM NoneLost == Spec => []NoTimerLost
<1>1. HeapInv => NoTimerLost
  BY ContentsLost DEF HeapInv
<1> QED BY <1>1, Invariance, PTL

\* The pop at the end of a callback deletes the timer that was fired, unless
\* the callback has added one that expires sooner: the exception of line 197 is
\* the only one, for timers made at any time and with any timeout.
THEOREM FiredStays == Spec => []FiredUnlessSooner
<1>1. HeapInv => FiredUnlessSooner
  BY DEF HeapInv, CallbackInv, AtRoot, FiredUnlessSooner
<1> QED BY <1>1, Invariance, PTL

=============================================================================
