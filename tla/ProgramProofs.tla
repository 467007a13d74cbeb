----------------------------- MODULE ProgramProofs -----------------------------
(***************************************************************************)
(* Theorems about MCPrograms: the list of lst_timer.h under the program    *)
(* that its comments describe, ServerTest8, and the four small programs,   *)
(* for any number of timers, descriptors, signals and connections.         *)
(***************************************************************************)
EXTENDS MCPrograms, FiniteSetTheorems, SequenceTheorems, WellFoundedInduction, TLAPS

-----------------------------------------------------------------------------
(* The walk along the list.                                                *)

\* A set of numbers has a least one, and so what holds of a number whenever it
\* holds of those below holds of all.
LEMMA Least ==
    ASSUME NEW S, S \subseteq Nat, S # {}
    PROVE  \E m \in S : \A k \in S : m <= k
<1>1. PICK m \in S : \A k \in S : ~ (<<k, m>> \in OpToRel(<, Nat))
  BY NatLessThanWellFounded, WFMin
<1>2. \A k \in S : m <= k
  <2>1. TAKE k \in S
  <2>2. k \in Nat /\ m \in Nat /\ ~ (k < m)
    BY <1>1 DEF OpToRel
  <2> QED
    BY <2>2
<1>3. QED
  BY <1>2

\* One step of a walk in the memory m.
Step(m, p) == IF p \in m.live THEN m.next[p] ELSE NULL

\* f is the walk from b, k steps long.
Walks(f, m, b, k) == f = [n \in 0 .. k |-> IF n = 0 THEN b ELSE Step(m, f[n - 1])]

LEMMA SameCardinality == \A S : List!Cardinality(S) = Cardinality(S)
BY DEF List!Cardinality, Cardinality

\* A function that is defined by recursion on 0 .. k exists.
LEMMA WalkExists ==
    ASSUME NEW m, NEW b, NEW k \in Nat
    PROVE  \E f : Walks(f, m, b, k)
<1> DEFINE Bad == {j \in Nat : ~ \E f : Walks(f, m, b, j)}
<1>1. SUFFICES ASSUME Bad # {}
               PROVE  FALSE
  OBVIOUS
<1>2. PICK j \in Bad : \A n \in Bad : j <= n
  BY <1>1, Least
<1>3. CASE j = 0
  <2> DEFINE f == [n \in 0 .. 0 |-> b]
  <2>1. f = [n \in 0 .. 0 |-> IF n = 0 THEN b ELSE Step(m, f[n - 1])]
    OBVIOUS
  <2>2. Walks(f, m, b, j)
    BY <1>3, <2>1 DEF Walks
  <2>3. QED
    BY <1>2, <2>2
<1>4. CASE j # 0
  <2>1. j \in Nat /\ j - 1 \in Nat
    BY <1>4
  <2>2. PICK f : Walks(f, m, b, j - 1)
    <3>1. j - 1 \notin Bad
      <4> HIDE DEF Bad
      <4>1. QED
        BY <1>2, <2>1
    <3>2. QED
      BY <2>1, <3>1
  <2> DEFINE g == [n \in 0 .. j |-> IF n = j THEN Step(m, f[j - 1]) ELSE f[n]]
  <2>3. \A n \in 0 .. j - 1 : f[n] = IF n = 0 THEN b ELSE Step(m, f[n - 1])
    BY <2>2 DEF Walks
  <2>4. \A n \in 0 .. j : g[n] = IF n = 0 THEN b ELSE Step(m, g[n - 1])
    <3>1. TAKE n \in 0 .. j
    <3>2. CASE n = 0
      BY <1>4, <2>1, <2>3, <3>2
    <3>3. CASE n # 0
      <4>1. n - 1 \in 0 .. j - 1 /\ n - 1 \in 0 .. j /\ n - 1 # j
        BY <2>1, <3>1, <3>3
      <4>2. g[n - 1] = f[n - 1]
        BY <4>1
      <4>3. CASE n = j
        BY <3>3, <4>2, <4>3
      <4>4. CASE n # j
        <5>1. n \in 0 .. j - 1
          BY <2>1, <3>1, <4>4
        <5>2. QED
          BY <2>3, <3>3, <4>2, <4>4, <5>1
      <4>5. QED
        BY <4>3, <4>4
    <3>4. QED
      BY <3>2, <3>3
  <2>5. Walks(g, m, b, j)
    BY <2>4 DEF Walks
  <2>6. QED
    BY <1>2, <2>5
<1>5. QED
  BY <1>3, <1>4

LEMMA WalkIs ==
    ASSUME NEW m, NEW b, Cardinality(Timer) \in Nat
    PROVE  /\ DOMAIN List!Walk(m, b) = 0 .. Cardinality(Timer) + 1
           /\ List!Walk(m, b)[0] = b
           /\ \A n \in 0 .. Cardinality(Timer) :
                  List!Walk(m, b)[n + 1] = Step(m, List!Walk(m, b)[n])
<1> DEFINE K == Cardinality(Timer) + 1
<1>1. K \in Nat
  OBVIOUS
<1>2. \E f : Walks(f, m, b, K)
  BY <1>1, WalkExists
<1>3. List!Walk(m, b) = CHOOSE f : Walks(f, m, b, K)
  BY SameCardinality, Zenon DEF List!Walk, Step, Walks
<1> DEFINE at == List!Walk(m, b)
<1>4. at = [n \in 0 .. K |-> IF n = 0 THEN b ELSE Step(m, at[n - 1])]
  BY <1>2, <1>3 DEF Walks
<1> HIDE DEF at
<1>5. /\ DOMAIN at = 0 .. K
      /\ \A n \in 0 .. K : at[n] = IF n = 0 THEN b ELSE Step(m, at[n - 1])
  BY <1>4
<1>6. ASSUME NEW n \in 0 .. Cardinality(Timer)
      PROVE  at[n + 1] = Step(m, at[n])
  <2>1. n + 1 \in 0 .. K /\ n + 1 # 0 /\ (n + 1) - 1 = n
    OBVIOUS
  <2>2. QED
    BY <1>5, <2>1
<1>7. at[0] = b /\ DOMAIN at = 0 .. Cardinality(Timer) + 1
  BY <1>1, <1>5
<1>8. QED
  BY <1>6, <1>7 DEF at

-----------------------------------------------------------------------------
(* The order of the list.                                                  *)

\* The timers of S are those of the list, each in its place: places, next and
\* prev agree, but that prev may be the timer itself, and no time is before that
\* of an earlier place.
Placed(m, S, pos) ==
    /\ pos \in [S -> 1 .. Cardinality(S)]
    /\ S = {} => m.head = NULL
    /\ S # {} => /\ m.head \in S /\ pos[m.head] = 1
                 /\ m.tail \in S /\ pos[m.tail] = Cardinality(S)
    /\ \A u \in S : \/ pos[u] = Cardinality(S) /\ m.next[u] = NULL
                    \/ /\ m.next[u] \in S /\ pos[m.next[u]] = pos[u] + 1
                       /\ m.prev[m.next[u]] \in {u, m.next[u]}
    /\ \A u \in S \ {m.head} : \E v \in S : m.next[v] = u
    /\ \A u, v \in S : pos[u] = pos[v] => u = v
    /\ \A u, v \in S : pos[u] <= pos[v] => m.erpire[u] <= m.erpire[v]

\* In m2, t is in the place k of the timers S, which are placed in m.
PutAt(m, S, pos, t, k, m2) ==
    /\ m2.head = IF k = 1 THEN t ELSE m.head
    /\ m2.tail = IF k = Cardinality(S) + 1 THEN t ELSE m.tail
    /\ \A u \in S : m2.next[u] = IF pos[u] = k - 1 THEN t ELSE m.next[u]
    /\ \/ k = Cardinality(S) + 1 /\ m2.next[t] = NULL
       \/ k # Cardinality(S) + 1 /\ m2.next[t] \in S /\ pos[m2.next[t]] = k
    /\ \A u \in S : m2.prev[u] = IF pos[u] = k THEN t ELSE m.prev[u]
    /\ \A u \in S : pos[u] = k - 1 => m2.prev[t] \in {u, t}
    /\ k # 1 => \E u \in S : pos[u] = k - 1
    /\ \A u \in S : m2.erpire[u] = m.erpire[u] /\ m.erpire[u] \in Nat
    /\ m2.erpire[t] \in Nat
    /\ \A u \in S : /\ pos[u] < k => m.erpire[u] <= m2.erpire[t]
                    /\ pos[u] >= k => m2.erpire[t] <= m.erpire[u]

\* When t is put in a place, every later timer moves on by one.
LEMMA Insert ==
    ASSUME NEW S, IsFiniteSet(S), NEW t, t \notin S, NULL \notin S, t # NULL,
           NEW m, NEW pos, Placed(m, S, pos), NEW m2,
           NEW k \in 1 .. Cardinality(S) + 1, PutAt(m, S, pos, t, k, m2)
    PROVE  \E pos2 : Placed(m2, S \cup {t}, pos2)
<1> USE DEF PutAt
<1> DEFINE T == S \cup {t}
           pos2 == [u \in T |-> IF u = t THEN k ELSE IF pos[u] < k THEN pos[u] ELSE pos[u] + 1]
<1>1. /\ Cardinality(S) \in Nat /\ Cardinality(T) = Cardinality(S) + 1
      /\ S # {} => Cardinality(S) # 0
  BY FS_AddElement, FS_CardinalityType, FS_EmptySet
<1>2. \A u \in S : pos[u] \in 1 .. Cardinality(S)
  BY DEF Placed
<1>3. \A u \in S : pos2[u] = IF pos[u] < k THEN pos[u] ELSE pos[u] + 1
  OBVIOUS
<1>4. pos2[t] = k
  OBVIOUS
<1>5. pos2 \in [T -> 1 .. Cardinality(T)]
  BY <1>1, <1>2
<1> HIDE DEF pos2
<1>6. m2.head \in T /\ pos2[m2.head] = 1
  <2>1. CASE k = 1
    BY <1>4, <2>1
  <2>2. CASE k # 1
    <3>1. S # {}
      BY <2>2
    <3>2. m.head \in S /\ pos[m.head] = 1 /\ m2.head = m.head
      BY <2>2, <3>1 DEF Placed
    <3>3. QED
      BY <1>1, <1>3, <2>2, <3>2
  <2>3. QED
    BY <2>1, <2>2
<1>7. m2.tail \in T /\ pos2[m2.tail] = Cardinality(T)
  <2>1. CASE k = Cardinality(S) + 1
    BY <1>1, <1>4, <2>1
  <2>2. CASE k # Cardinality(S) + 1
    <3>1. S # {}
      BY <2>2
    <3>2. m.tail \in S /\ pos[m.tail] = Cardinality(S) /\ m2.tail = m.tail
      BY <2>2, <3>1 DEF Placed
    <3>3. QED
      BY <1>1, <1>3, <2>2, <3>2
  <2>3. QED
    BY <2>1, <2>2
<1>8. ASSUME NEW u \in T
      PROVE  \/ pos2[u] = Cardinality(T) /\ m2.next[u] = NULL
             \/ /\ m2.next[u] \in T /\ pos2[m2.next[u]] = pos2[u] + 1
                /\ m2.prev[m2.next[u]] \in {u, m2.next[u]}
  <2>1. CASE u = t
    <3>1. CASE k = Cardinality(S) + 1
      BY <1>1, <1>4, <2>1, <3>1
    <3>2. CASE k # Cardinality(S) + 1
      <4>1. m2.next[t] \in S /\ pos[m2.next[t]] = k
        BY <3>2
      <4>2. pos2[m2.next[t]] = k + 1 /\ m2.prev[m2.next[t]] = t
        BY <1>3, <4>1
      <4>3. QED
        BY <1>4, <2>1, <4>1, <4>2
    <3>3. QED
      BY <3>1, <3>2
  <2>2. CASE u \in S /\ pos[u] = k - 1
    BY <1>2, <1>3, <1>4, <2>2
  <2>3. CASE u \in S /\ pos[u] # k - 1
    <3>1. m2.next[u] = m.next[u] /\ pos[u] \in 1 .. Cardinality(S)
      BY <1>2, <2>3
    <3>2. CASE pos[u] = Cardinality(S) /\ m.next[u] = NULL
      BY <1>1, <1>3, <2>3, <3>1, <3>2
    <3>3. CASE /\ m.next[u] \in S /\ pos[m.next[u]] = pos[u] + 1
               /\ m.prev[m.next[u]] \in {u, m.next[u]}
      <4>1. pos[m.next[u]] # k
        BY <2>3, <3>1, <3>3
      <4>2. m2.prev[m.next[u]] = m.prev[m.next[u]]
        BY <3>3, <4>1
      <4>3. pos2[m.next[u]] = pos2[u] + 1
        BY <1>1, <1>3, <2>3, <3>1, <3>3
      <4>4. QED
        BY <3>1, <3>3, <4>2, <4>3
    <3>4. QED
      BY <2>3, <3>2, <3>3 DEF Placed
  <2>4. QED
    BY <2>1, <2>2, <2>3
<1>9. ASSUME NEW u \in T \ {m2.head}
      PROVE  \E v \in T : m2.next[v] = u
  <2>1. CASE u = t
    BY <1>9, <2>1
  <2>2. CASE u # t /\ pos[u] = k
    <3>1. k # Cardinality(S) + 1
      BY <1>1, <1>2, <2>2
    <3>2. m2.next[t] = u
      BY <2>2, <3>1 DEF Placed
    <3>3. QED
      BY <3>2
  <2>3. CASE u # t /\ pos[u] # k
    <3>1. u # m.head
      BY <1>9, <2>3 DEF Placed
    <3>2. PICK v \in S : m.next[v] = u
      BY <2>3, <3>1 DEF Placed
    <3>3. pos[u] = pos[v] + 1
      BY <2>3, <3>2 DEF Placed
    <3>4. pos[v] # k - 1
      BY <1>2, <2>3, <3>3
    <3>5. QED
      BY <3>2, <3>4
  <2>4. QED
    BY <2>2, <2>1, <2>3
<1>10. ASSUME NEW u \in T, NEW v \in T, pos2[u] = pos2[v]
       PROVE  u = v
  <2>1. CASE u \in S /\ v \in S
    <3>1. pos[u] = pos[v]
      BY <1>2, <1>3, <1>10, <2>1
    <3>2. QED
      BY <2>1, <3>1 DEF Placed
  <2>2. CASE u = t \/ v = t
    BY <1>2, <1>3, <1>4, <1>10, <2>2
  <2>3. QED
    BY <2>1, <2>2
<1>11. ASSUME NEW u \in T, NEW v \in T, pos2[u] <= pos2[v]
       PROVE  m2.erpire[u] <= m2.erpire[v]
  <2>1. CASE u = t /\ v = t
    BY <2>1
  <2>2. CASE u = t /\ v \in S
    BY <1>2, <1>3, <1>4, <1>11, <2>2
  <2>3. CASE u \in S /\ v = t
    <3>1. u \in S /\ pos[u] < k
      BY <1>2, <1>3, <1>4, <1>11, <2>3
    <3>2. m.erpire[u] <= m2.erpire[t] /\ m2.erpire[u] = m.erpire[u]
      BY <3>1
    <3>3. QED
      BY <2>3, <3>2
  <2>4. CASE u \in S /\ v \in S
    <3>1. pos[u] <= pos[v]
      BY <1>2, <1>3, <1>11, <2>4
    <3>2. QED
      BY <2>4, <3>1 DEF Placed
  <2>5. QED
    BY <2>1, <2>2, <2>3, <2>4
<1>12. Placed(m2, T, pos2)
  BY <1>5, <1>6, <1>7, <1>8, <1>9, <1>10, <1>11 DEF Placed
<1>13. QED
  BY <1>12

\* In m2, t is taken out of the timers S of m.
TakenFrom(m, S, t, m2) ==
    /\ m2.head = IF m.head = t THEN m.next[t] ELSE m.head
    /\ m.tail # t => m2.tail = m.tail
    /\ m.tail = t /\ m.head # t => m2.tail \in S /\ m.next[m2.tail] = t
    /\ \A u \in S \ {t} :
         /\ m2.next[u] = IF m.next[u] = t THEN m.next[t] ELSE m.next[u]
         /\ u # m.next[t] => m2.prev[u] = m.prev[u]
         /\ m.next[u] = t /\ m.next[t] # NULL => m2.prev[m.next[t]] = u
         /\ m2.erpire[u] = m.erpire[u]

\* When t is taken out, every later timer moves up by one.
LEMMA Remove ==
    ASSUME NEW S, IsFiniteSet(S), NULL \notin S, NEW t \in S,
           NEW m, NEW pos, Placed(m, S, pos), NEW m2, TakenFrom(m, S, t, m2)
    PROVE  \E pos2 : Placed(m2, S \ {t}, pos2)
<1> USE DEF TakenFrom
<1> DEFINE T == S \ {t}
           pos2 == [u \in T |-> IF pos[u] < pos[t] THEN pos[u] ELSE pos[u] - 1]
           N == Cardinality(S)
<1>1. N \in Nat \ {0} /\ Cardinality(T) = N - 1 /\ IsFiniteSet(T)
  BY FS_RemoveElement, FS_CardinalityType, FS_EmptySet
<1> HIDE DEF N
<1>2. \A u \in S : pos[u] \in 1 .. N
  BY DEF Placed, N
<1>3. \A u \in T : pos2[u] = IF pos[u] < pos[t] THEN pos[u] ELSE pos[u] - 1
  OBVIOUS
<1>4. \A u \in T : pos[u] # pos[t]
  BY DEF Placed
<1>5. pos2 \in [T -> 1 .. Cardinality(T)]
  <2>1. \A u \in T : pos2[u] \in 1 .. N - 1
    BY <1>1, <1>2, <1>3, <1>4
  <2>2. QED
    BY <1>1, <2>1
<1> HIDE DEF pos2
<1>a. /\ m.head \in S /\ pos[m.head] = 1 /\ m.tail \in S /\ pos[m.tail] = N
      /\ \A u \in S : \/ pos[u] = N /\ m.next[u] = NULL
                      \/ /\ m.next[u] \in S /\ pos[m.next[u]] = pos[u] + 1
                         /\ m.prev[m.next[u]] \in {u, m.next[u]}
      /\ \A u \in S \ {m.head} : \E v \in S : m.next[v] = u
      /\ \A u, v \in S : pos[u] = pos[v] => u = v
  BY DEF Placed, N
<1>6. CASE T = {}
  <2>1. S = {t} /\ m.head = t
    BY <1>6, <1>a
  <2>2. m.next[t] = NULL
    BY <1>2, <1>a, <2>1
  <2>3. m2.head = NULL
    BY <2>1, <2>2
  <2>4. Placed(m2, T, pos2)
    BY <1>5, <1>6, <2>3 DEF Placed
  <2>5. QED
    BY <2>4
<1>7. CASE T # {}
  <2>1. N - 1 # 0
    BY <1>1, <1>7, FS_EmptySet
  <2>2. m2.head \in T /\ pos2[m2.head] = 1
    <3>1. CASE m.head = t
      <4>1. m.next[t] \in S /\ pos[m.next[t]] = 2 /\ m2.head = m.next[t]
        BY <1>1, <1>a, <2>1, <3>1
      <4>2. QED
        BY <1>3, <1>a, <3>1, <4>1
    <3>2. CASE m.head # t
      <4>1. m2.head \in T /\ pos[m2.head] = 1
        BY <1>a, <3>2
      <4>2. QED
        BY <1>2, <1>3, <1>4, <4>1
    <3>3. QED
      BY <3>1, <3>2
  <2>3. m2.tail \in T /\ pos2[m2.tail] = Cardinality(T)
    <3>1. CASE m.tail = t
      <4>1. m.head # t
        BY <1>1, <1>a, <2>1, <3>1
      <4>2. m2.tail \in S /\ m.next[m2.tail] = t
        BY <3>1, <4>1
      <4>3. pos[t] = N /\ pos[t] = pos[m2.tail] + 1
        BY <1>a, <3>1, <4>2
      <4>4. m2.tail \in T /\ pos[m2.tail] = N - 1 /\ pos[m2.tail] < pos[t]
        BY <1>1, <1>2, <4>2, <4>3
      <4>5. QED
        BY <1>1, <1>3, <4>4
    <3>2. CASE m.tail # t
      <4>1. m2.tail \in T /\ pos[m2.tail] = N
        BY <1>a, <3>2
      <4>2. QED
        BY <1>1, <1>2, <1>3, <1>4, <4>1
    <3>3. QED
      BY <3>1, <3>2
  <2>4. ASSUME NEW u \in T
        PROVE  \/ pos2[u] = Cardinality(T) /\ m2.next[u] = NULL
               \/ /\ m2.next[u] \in T /\ pos2[m2.next[u]] = pos2[u] + 1
                  /\ m2.prev[m2.next[u]] \in {u, m2.next[u]}
    <3>0. u \in S /\ pos[u] \in 1 .. N /\ pos[t] \in 1 .. N /\ pos[u] # pos[t]
          /\ pos2[u] = IF pos[u] < pos[t] THEN pos[u] ELSE pos[u] - 1
      BY <1>2, <1>3, <1>4
    <3>1. CASE m.next[u] = t
      <4>1. pos[t] = pos[u] + 1 /\ m2.next[u] = m.next[t]
        BY <1>a, <3>0, <3>1
      <4>2. CASE pos[t] = N /\ m.next[t] = NULL
        BY <1>1, <3>0, <4>1, <4>2
      <4>3. CASE m.next[t] \in S /\ pos[m.next[t]] = pos[t] + 1
        <5>1. m.next[t] \in T /\ pos2[m.next[t]] = pos[t]
          BY <1>3, <3>0, <4>3
        <5>2. m2.prev[m.next[t]] = u
          BY <3>1, <4>3
        <5>3. QED
          BY <3>0, <4>1, <5>1, <5>2
      <4>4. QED
        BY <1>a, <4>2, <4>3
    <3>2. CASE m.next[u] # t
      <4>1. m2.next[u] = m.next[u]
        BY <3>2
      <4>2. CASE pos[u] = N /\ m.next[u] = NULL
        BY <1>1, <3>0, <4>1, <4>2
      <4>3. CASE /\ m.next[u] \in S /\ pos[m.next[u]] = pos[u] + 1
                 /\ m.prev[m.next[u]] \in {u, m.next[u]}
        <5>1. m.next[u] \in T /\ m.next[u] # m.next[t]
          <6>1. m.next[t] \in S => pos[m.next[t]] = pos[t] + 1
            BY <1>a
          <6>2. QED
            BY <3>0, <3>2, <4>3, <6>1
        <5>2. m2.prev[m.next[u]] = m.prev[m.next[u]]
          BY <5>1
        <5>3. pos2[m.next[u]] = pos2[u] + 1
          BY <1>2, <1>3, <1>4, <3>0, <4>3, <5>1
        <5>4. QED
          BY <4>1, <4>3, <5>1, <5>2, <5>3
      <4>4. QED
        BY <1>a, <3>0, <4>2, <4>3
    <3>3. QED
      BY <3>1, <3>2
  <2>5. ASSUME NEW u \in T \ {m2.head}
        PROVE  \E v \in T : m2.next[v] = u
    <3>1. CASE u = m.next[t]
      <4>1. t # m.head
        BY <2>5, <3>1
      <4>2. PICK v \in S : m.next[v] = t
        BY <1>a, <4>1
      <4>3. v # t
        BY <1>2, <1>a, <4>2
      <4>4. QED
        BY <3>1, <4>2, <4>3
    <3>2. CASE u # m.next[t]
      <4>1. u # m.head
        BY <2>5
      <4>2. PICK v \in S : m.next[v] = u
        BY <1>a, <4>1
      <4>3. QED
        BY <3>2, <4>2
    <3>3. QED
      BY <3>1, <3>2
  <2>6. \A u, v \in T : pos2[u] = pos2[v] => u = v
    BY <1>2, <1>3, <1>4, <1>a
  <2>7. ASSUME NEW u \in T, NEW v \in T, pos2[u] <= pos2[v]
        PROVE  m2.erpire[u] <= m2.erpire[v]
    <3>1. pos[u] <= pos[v]
      BY <1>2, <1>3, <1>4, <2>7
    <3>2. QED
      BY <3>1 DEF Placed
  <2>8. Placed(m2, T, pos2)
    BY <1>5, <1>7, <2>2, <2>3, <2>4, <2>5, <2>6, <2>7 DEF Placed
  <2>9. QED
    BY <2>8
<1>8. QED
  BY <1>6, <1>7

-----------------------------------------------------------------------------
(* The walk along a list in order, and the search.                         *)

\* The walk from a timer of the list meets the timers of the next places, and
\* then nothing.
Meets(m, S, pos, b) ==
    /\ \A n \in 0 .. Cardinality(Timer) + 1 :
         \/ List!Walk(m, b)[n] = NULL
         \/ List!Walk(m, b)[n] \in S /\ pos[List!Walk(m, b)[n]] = pos[b] + n
    /\ \A n \in 1 .. Cardinality(Timer) + 1 :
         List!Walk(m, b)[n] # NULL =>
           /\ List!Walk(m, b)[n - 1] \in S
           /\ List!Walk(m, b)[n] = m.next[List!Walk(m, b)[n - 1]]
    /\ List!Walk(m, b)[Cardinality(Timer) + 1] = NULL

LEMMA WalkMeets ==
    ASSUME NEW S, S \subseteq Timer, NEW m, NEW pos, Placed(m, S, pos),
           S \subseteq m.live, NULL \notin m.live, NEW b \in S
    PROVE  Meets(m, S, pos, b)
<1> DEFINE at == List!Walk(m, b)
           K == Cardinality(Timer)
           IsMet(n) == at[n] = NULL \/ (at[n] \in S /\ pos[at[n]] = pos[b] + n)
           Bad == {n \in 0 .. K + 1 : ~ IsMet(n)}
<1>1. K \in Nat /\ IsFiniteSet(S) /\ Cardinality(S) \in Nat /\ Cardinality(S) <= K
  BY TimerAssumption, FS_CardinalityType, FS_Subset
<1>2. /\ at[0] = b
      /\ \A n \in 0 .. K : at[n + 1] = Step(m, at[n])
  BY <1>1, WalkIs
<1> HIDE DEF at, K
<1>3. \A u \in S : pos[u] \in 1 .. Cardinality(S)
  BY DEF Placed
<1>4. ASSUME NEW n \in 0 .. K, IsMet(n)
      PROVE  /\ IsMet(n + 1)
             /\ at[n + 1] # NULL => at[n] \in S /\ at[n + 1] = m.next[at[n]]
  <2>1. at[n + 1] = Step(m, at[n])
    BY <1>2
  <2>2. CASE at[n] = NULL
    BY <2>1, <2>2 DEF Step
  <2>3. CASE at[n] \in S /\ pos[at[n]] = pos[b] + n
    <3>1. at[n + 1] = m.next[at[n]]
      BY <2>1, <2>3 DEF Step
    <3>2. \/ m.next[at[n]] = NULL
          \/ m.next[at[n]] \in S /\ pos[m.next[at[n]]] = pos[at[n]] + 1
      BY <2>3 DEF Placed
    <3>3. pos[b] \in Nat
      BY <1>3
    <3>4. QED
      BY <2>3, <3>1, <3>2, <3>3
  <2>4. QED
    BY <1>4, <2>2, <2>3
<1>5. Bad = {}
  <2> SUFFICES ASSUME Bad # {}
               PROVE  FALSE
    OBVIOUS
  <2>1. PICK n \in Bad : \A k \in Bad : n <= k
    <3>1. Bad \subseteq Nat
      OBVIOUS
    <3> HIDE DEF Bad
    <3>2. QED
      BY <3>1, Least
  <2>2. n # 0
    BY <1>2, <1>3, <2>1
  <2>3. n \in Nat /\ n - 1 \in 0 .. K /\ (n - 1) + 1 = n
    BY <1>1, <2>1, <2>2
  <2>4. IsMet(n - 1)
    <3>1. n - 1 \notin Bad
      <4> HIDE DEF Bad
      <4>1. QED
        BY <2>1, <2>3
    <3>2. n - 1 \in 0 .. K + 1
      BY <1>1, <2>3
    <3>3. QED
      BY <3>1, <3>2
  <2> HIDE DEF IsMet
  <2>5. IsMet(n)
    BY <1>4, <2>3, <2>4
  <2>6. QED
    BY <2>1, <2>5
<1>6. ASSUME NEW n \in 0 .. K + 1
      PROVE  IsMet(n)
  BY <1>5
<1>7. ASSUME NEW n \in 1 .. K + 1, at[n] # NULL
      PROVE  at[n - 1] \in S /\ at[n] = m.next[at[n - 1]]
  <2>1. n - 1 \in 0 .. K /\ n - 1 \in 0 .. K + 1 /\ (n - 1) + 1 = n
    BY <1>1
  <2>2. IsMet(n - 1)
    BY <1>6, <2>1
  <2>3. QED
    BY <1>4, <1>7, <2>1, <2>2
<1>8. at[K + 1] = NULL
  <2>1. K + 1 \in 0 .. K + 1
    BY <1>1
  <2>2. IsMet(K + 1)
    BY <1>6, <2>1
  <2>3. pos[b] \in Nat /\ pos[b] >= 1
    BY <1>3
  <2>4. ~ (at[K + 1] \in S /\ pos[at[K + 1]] = pos[b] + (K + 1))
    BY <1>1, <1>3, <2>3
  <2>5. QED
    BY <2>2, <2>4
<1>9. QED
  BY <1>6, <1>7, <1>8 DEF at, K, Meets

\* The walk from the head meets all of the list.
LEMMA WalkMeetsAll ==
    ASSUME NEW m, NEW pos, m.live \subseteq Timer, Placed(m, m.live, pos)
    PROVE  {List!Walk(m, m.head)[n] : n \in 0 .. Cardinality(Timer)} \ {NULL} = m.live
<1> DEFINE at == List!Walk(m, m.head)
           K == Cardinality(Timer)
           S == m.live
<1>1. K \in Nat /\ IsFiniteSet(S) /\ Cardinality(S) \in Nat /\ Cardinality(S) <= K
      /\ NULL \notin S
  BY TimerAssumption, FS_CardinalityType, FS_Subset
<1>2. /\ at[0] = m.head
      /\ \A n \in 0 .. K : at[n + 1] = Step(m, at[n])
  BY <1>1, WalkIs
<1>3. CASE S = {}
  <2>1. \A n \in 0 .. K : at[n] = NULL
    <3>1. m.head = NULL
      BY <1>3 DEF Placed
    <3>2. ASSUME NEW n \in 0 .. K
          PROVE  at[n] = NULL
      <4>1. CASE n = 0
        BY <1>2, <3>1, <4>1
      <4>2. CASE n # 0
        <5>1. n - 1 \in 0 .. K /\ (n - 1) + 1 = n
          BY <1>1, <4>2
        <5>2. at[n] = Step(m, at[n - 1])
          BY <1>2, <5>1
        <5>3. QED
          BY <1>3, <5>2 DEF Step
      <4>3. QED
        BY <4>1, <4>2
    <3>3. QED
      BY <3>2
  <2>2. QED
    BY <1>3, <2>1
<1>4. CASE S # {}
  <2>1. m.head \in S /\ pos[m.head] = 1
    BY <1>4 DEF Placed
  <2>2. \A n \in 0 .. K + 1 : at[n] = NULL \/ (at[n] \in S /\ pos[at[n]] = 1 + n)
    <3>1. S \subseteq Timer /\ Placed(m, S, pos) /\ S \subseteq m.live
          /\ NULL \notin m.live /\ m.head \in S
      BY <1>1, <2>1
    <3> HIDE DEF S, at
    <3>2. Meets(m, S, pos, m.head)
      BY <3>1, WalkMeets
    <3>3. QED
      BY <2>1, <3>2 DEF Meets, at, S
  <2> HIDE DEF at, K
  <2>3. \A u \in S : pos[u] \in 1 .. Cardinality(S)
    BY DEF Placed
  <2> DEFINE Bad == {n \in 0 .. Cardinality(S) - 1 : at[n] = NULL}
  <2>4. Bad = {}
    <3> SUFFICES ASSUME Bad # {}
                 PROVE  FALSE
      OBVIOUS
    <3>1. Bad \subseteq Nat
      BY <1>1
    <3>2. PICK n \in Bad : \A k \in Bad : n <= k
      <4> HIDE DEF Bad
      <4>1. QED
        BY <3>1, Least
    <3>3. n # 0
      BY <1>1, <1>2, <2>1, <3>2
    <3>4. /\ n \in Nat /\ n <= Cardinality(S) - 1
          /\ n - 1 \in 0 .. Cardinality(S) - 1 /\ n - 1 \in 0 .. K /\ n - 1 \in 0 .. K + 1
          /\ (n - 1) + 1 = n
      BY <1>1, <3>2, <3>3
    <3>5. at[n - 1] # NULL
      <4>1. n - 1 \notin Bad
        <5> HIDE DEF Bad
        <5>1. QED
          BY <3>2, <3>4
      <4>2. QED
        BY <3>4, <4>1
    <3>6. at[n - 1] \in S /\ pos[at[n - 1]] = n
      BY <2>2, <3>4, <3>5
    <3>7. at[n] = m.next[at[n - 1]]
      BY <1>2, <3>4, <3>6 DEF Step
    <3>8. pos[at[n - 1]] # Cardinality(S)
      BY <1>1, <3>4, <3>6
    <3>9. m.next[at[n - 1]] \in S
      BY <3>6, <3>8 DEF Placed
    <3>10. QED
      BY <1>1, <3>2, <3>7, <3>9
  <2>5. ASSUME NEW u \in S
        PROVE  \E n \in 0 .. K : at[n] = u
    <3>1. /\ pos[u] \in Nat /\ pos[u] - 1 \in 0 .. Cardinality(S) - 1
          /\ pos[u] - 1 \in 0 .. K /\ pos[u] - 1 \in 0 .. K + 1
          /\ 1 + (pos[u] - 1) = pos[u]
      BY <1>1, <2>3
    <3>2. at[pos[u] - 1] # NULL
      BY <2>4, <3>1
    <3>3. at[pos[u] - 1] \in S /\ pos[at[pos[u] - 1]] = pos[u]
      BY <2>2, <3>1, <3>2
    <3>4. at[pos[u] - 1] = u
      BY <3>3 DEF Placed
    <3>5. QED
      BY <3>1, <3>4
  <2>6. \A n \in 0 .. K : at[n] = NULL \/ at[n] \in S
    BY <1>1, <2>2
  <2>7. QED
    BY <1>1, <2>5, <2>6 DEF at, K
<1>5. QED
  BY <1>3, <1>4

-----------------------------------------------------------------------------
(* The operations on a list in order.                                      *)

\* The timers that are not deleted are those of the list, in order; the others
\* are blank.
Ordered(m) ==
    /\ \E pos : Placed(m, m.live, pos)
    /\ \A u \in Timer \ m.live : m.next[u] = NULL

\* An operation on the memory m ends the program with a null pointer, or leaves
\* the timers and their times as they are, in order.
Kept(r, m) ==
    \/ r.fault = "null"
    \/ r.fault = "none" /\ r.live = m.live /\ r.erpire = m.erpire /\ Ordered(r)

\* t is linked between two neighbours whose times are around its own.
LEMMA LinkedBetweenKept ==
    ASSUME NEW T, T \subseteq Nat, NEW m \in List!Memory(T), m.fault = "none",
           NEW t \in m.live, NEW pos, Placed(m, m.live \ {t}, pos),
           \A u \in Timer \ m.live : m.next[u] = NULL,
           NEW p \in m.live \ {t}, NEW q \in m.live \ {t}, m.next[p] = q,
           m.erpire[p] <= m.erpire[t], m.erpire[t] < m.erpire[q]
    PROVE  Kept(List!LinkedBetween(m, p, t, q), m)
<1> DEFINE S == m.live \ {t}
           r == List!LinkedBetween(m, p, t, q)
<1>1. /\ m.live \subseteq Timer /\ m.next \in [Timer -> Timer \cup {NULL}]
      /\ m.prev \in [Timer -> Timer \cup {NULL}] /\ m.erpire \in [Timer -> T]
      /\ IsFiniteSet(S) /\ NULL \notin S /\ t # NULL /\ NULL \notin Timer
      /\ Cardinality(S) \in Nat
  BY TimerAssumption, FS_Subset, FS_CardinalityType DEF List!Memory, List!Pointer
<1>2. /\ r.head = m.head /\ r.tail = m.tail /\ r.erpire = m.erpire
      /\ r.live = m.live /\ r.fault = "none"
      /\ r.next = [m.next EXCEPT ![p] = t, ![t] = q]
      /\ r.prev = [m.prev EXCEPT ![t] = t, ![q] = t]
  BY DEF List!LinkedBetween, List!Memory
<1> HIDE DEF r, S
<1>3. /\ p \in S /\ q \in S /\ t \notin S /\ S \subseteq Timer /\ t \in Timer
      /\ m.live = S \cup {t} /\ Placed(m, S, pos) /\ m.next[p] = q
  BY <1>1 DEF S
<1>4. /\ \A u \in S : r.next[u] = IF u = p THEN t ELSE m.next[u]
      /\ r.next[t] = q
      /\ \A u \in S : r.prev[u] = IF u = q THEN t ELSE m.prev[u]
      /\ r.prev[t] = t
  BY <1>1, <1>2, <1>3
<1>5. /\ pos[q] = pos[p] + 1
      /\ \A u \in S : pos[u] \in 1 .. Cardinality(S)
      /\ \A u, v \in S : pos[u] = pos[v] => u = v
      /\ \A u, v \in S : pos[u] <= pos[v] => m.erpire[u] <= m.erpire[v]
  <2>1. p \in S /\ m.next[p] = q /\ q # NULL
    BY <1>1, <1>3
  <2>2. QED
    BY <1>3, <2>1 DEF Placed
<1> DEFINE k == pos[q]
<1>6. k \in 2 .. Cardinality(S) /\ k \in 1 .. Cardinality(S) + 1 /\ k # 1 /\ k # Cardinality(S) + 1
  BY <1>1, <1>3, <1>5
<1>7. \A u \in S : /\ pos[u] = k - 1 <=> u = p
                   /\ pos[u] = k <=> u = q
  BY <1>3, <1>5
<1>8. \A u \in S : m.erpire[u] \in Nat
  BY <1>1, <1>3
<1>9. m.erpire[t] \in Nat /\ m.erpire[p] \in Nat /\ m.erpire[q] \in Nat
  BY <1>1, <1>3
<1>10. ASSUME NEW u \in S
       PROVE  /\ pos[u] < k => m.erpire[u] <= m.erpire[t]
              /\ pos[u] >= k => m.erpire[t] <= m.erpire[u]
  <2>1. pos[u] \in Nat /\ pos[p] \in Nat /\ m.erpire[u] \in Nat
    BY <1>3, <1>5, <1>8
  <2>2. ASSUME pos[u] < k
        PROVE  m.erpire[u] <= m.erpire[t]
    <3>1. pos[u] <= pos[p]
      BY <1>5, <2>1, <2>2
    <3>2. m.erpire[u] <= m.erpire[p]
      BY <1>3, <1>5, <3>1
    <3>3. QED
      BY <1>9, <2>1, <3>2
  <2>3. ASSUME pos[u] >= k
        PROVE  m.erpire[t] <= m.erpire[u]
    <3>1. m.erpire[q] <= m.erpire[u]
      BY <1>3, <1>5, <1>6, <2>1, <2>3
    <3>2. QED
      BY <1>9, <2>1, <3>1
  <2>4. QED
    BY <2>2, <2>3
<1> HIDE DEF k
<1>11. \E pos2 : Placed(r, S \cup {t}, pos2)
  <2>1. /\ r.head = IF k = 1 THEN t ELSE m.head
        /\ r.tail = IF k = Cardinality(S) + 1 THEN t ELSE m.tail
        /\ \A u \in S : r.next[u] = IF pos[u] = k - 1 THEN t ELSE m.next[u]
        /\ \A u \in S : r.prev[u] = IF pos[u] = k THEN t ELSE m.prev[u]
        /\ \A u \in S : pos[u] = k - 1 => r.prev[t] \in {u, t}
    BY <1>2, <1>4, <1>6, <1>7
  <2>2. k # Cardinality(S) + 1 /\ r.next[t] \in S /\ pos[r.next[t]] = k
    BY <1>3, <1>4, <1>6 DEF k
  <2>3. k # 1 => \E u \in S : pos[u] = k - 1
    BY <1>3, <1>7
  <2>4. /\ \A u \in S : r.erpire[u] = m.erpire[u] /\ m.erpire[u] \in Nat
        /\ r.erpire[t] \in Nat
        /\ \A u \in S : /\ pos[u] < k => m.erpire[u] <= r.erpire[t]
                        /\ pos[u] >= k => r.erpire[t] <= m.erpire[u]
    BY <1>2, <1>8, <1>9, <1>10
  <2>5. /\ IsFiniteSet(S) /\ t \notin S /\ NULL \notin S /\ t # NULL /\ Placed(m, S, pos)
        /\ k \in 1 .. Cardinality(S) + 1
    BY <1>1, <1>3, <1>6
  <2>6. QED
    <3>1. PutAt(m, S, pos, t, k, r)
      BY <2>1, <2>2, <2>3, <2>4 DEF PutAt
    <3>2. QED
      BY <2>5, <3>1, Insert
<1>12. \A u \in Timer \ r.live : r.next[u] = NULL
  BY <1>1, <1>2, <1>3
<1>13. QED
  BY <1>2, <1>3, <1>11, <1>12 DEF Kept, Ordered, r

\* The search that begins at a timer that is not later than t finds t's place,
\* or reaches the end and follows the null pointer there.
LEMMA InsertedKept ==
    ASSUME NEW T, T \subseteq Nat, NEW m \in List!Memory(T), m.fault = "none",
           NEW t \in m.live, NEW pos, Placed(m, m.live \ {t}, pos),
           \A u \in Timer \ m.live : m.next[u] = NULL,
           NEW b \in m.live \ {t}, m.erpire[b] <= m.erpire[t]
    PROVE  Kept(List!Inserted(m, t, b), m)
<1> DEFINE S == m.live \ {t}
           at == List!Walk(m, b)
           K == Cardinality(Timer)
           stops == {n \in DOMAIN at \ {0} : List!StopsHere(m, t, at[n])}
<1>1. /\ K \in Nat /\ S \subseteq Timer /\ NULL \notin m.live /\ S \subseteq m.live
      /\ m.live \subseteq Timer /\ m.erpire \in [Timer -> T] /\ NULL \notin Timer
  BY TimerAssumption, FS_CardinalityType DEF List!Memory
<1>2. DOMAIN at = 0 .. K + 1 /\ at[0] = b
  BY <1>1, WalkIs
<1>3. /\ \A n \in 0 .. K + 1 : at[n] = NULL \/ (at[n] \in S /\ pos[at[n]] = pos[b] + n)
      /\ \A n \in 1 .. K + 1 :
            at[n] # NULL => at[n - 1] \in S /\ at[n] = m.next[at[n - 1]]
      /\ at[K + 1] = NULL
  <2>1. Placed(m, S, pos) /\ b \in S
    OBVIOUS
  <2> HIDE DEF S, at, K
  <2>2. Meets(m, S, pos, b)
    BY <1>1, <2>1, WalkMeets
  <2>3. QED
    BY <2>2 DEF Meets, at, K
<1>a. List!Inserted(m, t, b) =
        IF stops = {} THEN List!Fails(m, "endless")
        ELSE LET n == CHOOSE n \in stops : \A j \in stops : n <= j
             IN List!Through(m, {at[n - 1], at[n]}, List!LinkedBetween(m, at[n - 1], t, at[n]))
  BY DEF List!Inserted
<1> HIDE DEF at, K
<1>4. K + 1 \in stops
  BY <1>1, <1>2, <1>3 DEF List!StopsHere
<1>5. stops \subseteq 1 .. K + 1
  BY <1>1, <1>2
<1> HIDE DEF stops
<1> DEFINE n == CHOOSE n \in stops : \A j \in stops : n <= j
<1>6. n \in stops /\ \A j \in stops : n <= j
  <2>1. stops \subseteq Nat /\ stops # {}
    BY <1>4, <1>5
  <2>2. \E j \in stops : \A j2 \in stops : j <= j2
    BY <2>1, Least
  <2>3. QED
    BY <2>2
<1>7. List!Inserted(m, t, b)
        = List!Through(m, {at[n - 1], at[n]}, List!LinkedBetween(m, at[n - 1], t, at[n]))
  BY <1>4, <1>a
<1> HIDE DEF n
<1>8. n \in 1 .. K + 1 /\ n - 1 \in 0 .. K + 1 /\ n \in 0 .. K + 1
  BY <1>1, <1>5, <1>6
<1>9. CASE at[n] = NULL
  <2>1. List!Inserted(m, t, b).fault = "null"
    BY <1>7, <1>9 DEF List!Through, List!Fails, List!Memory
  <2>2. QED
    BY <2>1 DEF Kept
<1>10. CASE at[n] # NULL
  <2> DEFINE p == at[n - 1]
             q == at[n]
  <2>1. p \in S /\ q \in S /\ m.next[p] = q
    BY <1>3, <1>8, <1>10
  <2>2. m.erpire[t] < m.erpire[q]
    BY <1>1, <1>6, <2>1 DEF stops, List!StopsHere
  <2>3. m.erpire[p] <= m.erpire[t]
    <3>1. CASE n = 1
      BY <1>2, <3>1
    <3>2. CASE n # 1
      <4>1. n - 1 \notin stops /\ n - 1 \in DOMAIN at \ {0}
        BY <1>1, <1>2, <1>6, <1>8, <3>2
      <4>2. ~ (m.erpire[t] < m.erpire[p])
        BY <1>1, <2>1, <4>1 DEF stops, List!StopsHere
      <4>3. m.erpire[t] \in Nat /\ m.erpire[p] \in Nat
        BY <1>1, <2>1
      <4>4. QED
        BY <4>2, <4>3
    <3>3. QED
      BY <3>1, <3>2
  <2>4. p # NULL /\ q # NULL /\ p \in m.live /\ q \in m.live
    BY <1>1, <2>1
  <2> HIDE DEF p, q
  <2>5. List!Inserted(m, t, b) = List!LinkedBetween(m, p, t, q)
    BY <1>7, <2>4 DEF p, q, List!Through
  <2>6. Kept(List!LinkedBetween(m, p, t, q), m)
    BY <2>1, <2>2, <2>3, LinkedBetweenKept
  <2>7. QED
    BY <2>5, <2>6
<1>11. QED
  BY <1>9, <1>10


\* A new timer is put before the first, after the last, or where the search ends;
\* in a list that a tick has emptied the null pointer is followed.
LEMMA AddedKept ==
    ASSUME NEW T, T \subseteq Nat, NEW m \in List!Memory(T), m.fault = "none", Ordered(m),
           NEW t \in Timer \ m.live, NEW time \in T
    PROVE  Kept(List!Added(List!New(m, t, time), t), List!New(m, t, time))
<1> DEFINE S == m.live
           n == List!New(m, t, time)
           r == List!Added(n, t)
<1> SUFFICES Kept(r, n)
  OBVIOUS
<1>1. /\ S \subseteq Timer /\ IsFiniteSet(S) /\ NULL \notin S /\ t # NULL /\ NULL \notin Timer
      /\ Cardinality(S) \in Nat /\ (S = {} <=> Cardinality(S) = 0)
      /\ m.next \in [Timer -> Timer \cup {NULL}] /\ m.prev \in [Timer -> Timer \cup {NULL}]
      /\ m.erpire \in [Timer -> T]
  BY TimerAssumption, FS_Subset, FS_CardinalityType, FS_EmptySet DEF List!Memory, List!Pointer
<1>2. /\ n \in List!Memory(T) /\ n.fault = "none" /\ n.live = S \cup {t}
      /\ n.head = m.head /\ n.tail = m.tail /\ n.next = m.next /\ n.prev = m.prev
      /\ n.erpire = [m.erpire EXCEPT ![t] = time]
  BY DEF List!New, List!Memory
<1> HIDE DEF n
<1>3. /\ \A u \in S : n.erpire[u] = m.erpire[u] /\ n.erpire[u] \in Nat
      /\ n.erpire[t] = time /\ time \in Nat
      /\ n.live \ {t} = S /\ t \in n.live
  BY <1>1, <1>2
<1>4. PICK pos : Placed(m, S, pos)
  BY DEF Ordered
<1>5. Placed(n, S, pos)
  BY <1>2, <1>3, <1>4 DEF Placed
<1>6. \A u \in Timer \ n.live : n.next[u] = NULL
  BY <1>2 DEF Ordered
<1>7. n.next[t] = NULL
  BY <1>2 DEF Ordered
<1>8. \A u \in S : pos[u] \in 1 .. Cardinality(S)
  BY <1>5 DEF Placed
<1>9. ASSUME r.fault = "none", r.live = n.live, r.erpire = n.erpire,
             \A u \in Timer \ n.live : r.next[u] = n.next[u],
             NEW k \in 1 .. Cardinality(S) + 1, PutAt(n, S, pos, t, k, r)
      PROVE  Kept(r, n)
  <2> HIDE DEF r, S
  <2>1. t \notin S
    BY DEF S
  <2>2. \E pos2 : Placed(r, S \cup {t}, pos2)
    BY <1>1, <1>5, <1>9, <2>1, Insert
  <2>3. QED
    BY <1>2, <1>6, <1>9, <2>2 DEF Kept, Ordered
<1>10. CASE n.head = NULL /\ n.tail = NULL
  <2>1. S = {} /\ Cardinality(S) = 0
    BY <1>1, <1>5, <1>10 DEF Placed
  <2>2. r = [n EXCEPT !.head = t, !.tail = t]
    BY <1>10 DEF List!Added
  <2>3. /\ r.head = t /\ r.tail = t /\ r.next = n.next /\ r.prev = n.prev
        /\ r.erpire = n.erpire /\ r.live = n.live /\ r.fault = "none"
    BY <1>2, <2>2 DEF List!Memory
  <2> HIDE DEF r, S
  <2>4. PutAt(n, S, pos, t, 1, r)
    BY <1>3, <1>7, <2>1, <2>3 DEF PutAt
  <2>5. QED
    BY <1>9, <2>1, <2>3, <2>4
<1>11. CASE n.head = NULL /\ n.tail # NULL
  <2>1. r.fault = "null"
    BY <1>2, <1>11 DEF List!Added, List!Through, List!Fails, List!Memory
  <2>2. QED
    BY <2>1 DEF Kept
<1>12. CASE n.head # NULL
  <2>1. /\ S # {} /\ n.head \in S /\ n.tail \in S /\ n.tail # NULL
        /\ pos[n.head] = 1 /\ pos[n.tail] = Cardinality(S)
        /\ n.head \in n.live /\ n.tail \in n.live
    BY <1>1, <1>2, <1>5, <1>12 DEF Placed
  <2>2. CASE n.erpire[t] < n.erpire[n.head]
    <3>1. r = [n EXCEPT !.next[t] = n.head, !.prev[n.head] = t, !.head = t]
      BY <1>12, <2>1, <2>2 DEF List!Added, List!Through
    <3>2. /\ r.head = t /\ r.tail = n.tail /\ r.next = [n.next EXCEPT ![t] = n.head]
          /\ r.prev = [n.prev EXCEPT ![n.head] = t]
          /\ r.erpire = n.erpire /\ r.live = n.live /\ r.fault = "none"
      BY <1>2, <3>1 DEF List!Memory
    <3> HIDE DEF r
    <3>3. /\ t \in Timer /\ t \notin S /\ \A u \in S : u \in Timer
      BY <1>1
    <3> HIDE DEF S
    <3>4. /\ r.next[t] = n.head /\ \A u \in S : r.next[u] = n.next[u]
          /\ \A u \in S : r.prev[u] = IF u = n.head THEN t ELSE n.prev[u]
      BY <1>1, <1>2, <3>2, <3>3
    <3>5. \A u \in S : pos[u] = 1 <=> u = n.head
      BY <1>5, <2>1 DEF Placed
    <3>6. ASSUME NEW u \in S
          PROVE  n.erpire[t] <= n.erpire[u]
      <4>1. n.erpire[n.head] <= n.erpire[u]
        BY <1>5, <1>8, <2>1 DEF Placed
      <4>2. QED
        BY <1>3, <2>1, <2>2, <4>1
    <3>7. /\ \A u \in S : pos[u] >= 1 /\ ~ (pos[u] < 1) /\ pos[u] # 0
          /\ 1 # Cardinality(S) + 1 /\ 1 - 1 = 0 /\ 1 \in 1 .. Cardinality(S) + 1
      BY <1>1, <1>8, <2>1
    <3>8. PutAt(n, S, pos, t, 1, r)
      BY <1>3, <2>1, <3>2, <3>4, <3>5, <3>6, <3>7 DEF PutAt
    <3>9. \A u \in Timer \ n.live : r.next[u] = n.next[u]
      BY <1>1, <1>2, <1>3, <3>2
    <3>10. QED
      BY <1>9, <3>2, <3>7, <3>8, <3>9
  <2>3. CASE ~ (n.erpire[t] < n.erpire[n.head]) /\ n.erpire[t] > n.erpire[n.tail]
    <3>1. r = [n EXCEPT !.next = [@ EXCEPT ![n.tail] = t, ![t] = NULL],
                        !.prev[t] = n.tail, !.tail = t]
      BY <1>12, <2>1, <2>3 DEF List!Added, List!Through
    <3>2. /\ r.head = n.head /\ r.tail = t
          /\ r.next = [n.next EXCEPT ![n.tail] = t, ![t] = NULL]
          /\ r.prev = [n.prev EXCEPT ![t] = n.tail]
          /\ r.erpire = n.erpire /\ r.live = n.live /\ r.fault = "none"
      BY <1>2, <3>1 DEF List!Memory
    <3> HIDE DEF r
    <3> DEFINE k == Cardinality(S) + 1
    <3>3. /\ t \in Timer /\ t \notin S /\ \A u \in S : u \in Timer
      BY <1>1
    <3> HIDE DEF S
    <3>4. /\ r.next[t] = NULL /\ \A u \in S : r.next[u] = IF u = n.tail THEN t ELSE n.next[u]
          /\ \A u \in S : r.prev[u] = n.prev[u]
          /\ r.prev[t] = n.tail
      BY <1>1, <1>2, <3>2, <3>3
    <3>5. \A u \in S : pos[u] = Cardinality(S) <=> u = n.tail
      BY <1>5, <2>1 DEF Placed
    <3>6. ASSUME NEW u \in S
          PROVE  n.erpire[u] <= n.erpire[t]
      <4>1. n.erpire[u] <= n.erpire[n.tail]
        BY <1>5, <1>8, <2>1 DEF Placed
      <4>2. QED
        BY <1>3, <2>1, <2>3, <4>1
    <3>7. /\ \A u \in S : pos[u] < k /\ ~ (pos[u] >= k) /\ pos[u] # k
          /\ k # 1 /\ k - 1 = Cardinality(S) /\ k \in 1 .. Cardinality(S) + 1
      BY <1>1, <1>8, <2>1
    <3>8. k = Cardinality(S) + 1
      OBVIOUS
    <3> HIDE DEF k
    <3>9. PutAt(n, S, pos, t, k, r)
      BY <1>3, <2>1, <3>2, <3>4, <3>5, <3>6, <3>7, <3>8 DEF PutAt
    <3>10. \A u \in Timer \ n.live : r.next[u] = n.next[u]
      BY <1>1, <1>2, <1>3, <2>1, <3>2
    <3>11. QED
      BY <1>9, <3>2, <3>7, <3>9, <3>10
  <2>4. CASE ~ (n.erpire[t] < n.erpire[n.head]) /\ ~ (n.erpire[t] > n.erpire[n.tail])
    <3>1. r = List!Inserted(n, t, n.head)
      BY <1>12, <2>1, <2>4 DEF List!Added, List!Through
    <3>2. n.erpire[n.head] <= n.erpire[t] /\ n.head \in n.live \ {t}
      BY <1>3, <2>1, <2>4
    <3>3. Placed(n, n.live \ {t}, pos)
      BY <1>3, <1>5
    <3>4. QED
      <4> HIDE DEF r
      <4>1. n \in List!Memory(T) /\ n.fault = "none" /\ t \in n.live
            /\ \A u \in Timer \ n.live : n.next[u] = NULL
        BY <1>2, <1>3, <1>6
      <4>2. Kept(List!Inserted(n, t, n.head), n)
        BY <3>2, <3>3, <4>1, InsertedKept
      <4>3. QED
        BY <3>1, <4>2
  <2>5. QED
    BY <2>2, <2>3, <2>4
<1>13. QED
  BY <1>10, <1>11, <1>12


\* The outcome of taking t off the list: the others stay as they were, in order,
\* and t is not deleted yet.
TakenOff(r, m, t) ==
    /\ r.fault = "none" /\ r.live = m.live /\ r.erpire = m.erpire
    /\ \E pos : Placed(r, m.live \ {t}, pos)
    /\ \A u \in Timer \ m.live : r.next[u] = m.next[u]

\* What is known of a timer t of a list in order.
LEMMA Neighbours ==
    ASSUME NEW T, NEW m \in List!Memory(T), NEW pos, Placed(m, m.live, pos), NEW t \in m.live
    PROVE  /\ m.live \subseteq Timer /\ IsFiniteSet(m.live) /\ NULL \notin Timer
           /\ NULL \notin m.live /\ t # NULL
           /\ m.head \in m.live /\ m.tail \in m.live
           /\ (m.next[t] = NULL) <=> (m.tail = t)
           /\ t # m.tail => m.next[t] \in m.live \ {t} /\ pos[m.next[t]] = pos[t] + 1
           /\ \A u \in m.live : m.next[u] = t => m.next[u] # m.head /\ pos[t] = pos[u] + 1
           /\ t # m.head /\ m.prev[t] # t =>
                /\ m.prev[t] \in m.live \ {t} /\ m.next[m.prev[t]] = t
                /\ \A u \in m.live : m.next[u] = t => u = m.prev[t]
           /\ t = m.head /\ t = m.tail => m.live = {t}
<1> DEFINE S == m.live
<1>1. /\ S \subseteq Timer /\ IsFiniteSet(S) /\ NULL \notin Timer /\ NULL \notin S
      /\ t # NULL /\ S # {} /\ Cardinality(S) \in Nat /\ t \in S
  BY TimerAssumption, FS_Subset, FS_CardinalityType DEF List!Memory
<1>2. /\ m.head \in S /\ pos[m.head] = 1 /\ m.tail \in S /\ pos[m.tail] = Cardinality(S)
      /\ \A u \in S : \/ pos[u] = Cardinality(S) /\ m.next[u] = NULL
                      \/ /\ m.next[u] \in S /\ pos[m.next[u]] = pos[u] + 1
                         /\ m.prev[m.next[u]] \in {u, m.next[u]}
      /\ \A u \in S \ {m.head} : \E v \in S : m.next[v] = u
      /\ \A u, v \in S : pos[u] = pos[v] => u = v
      /\ \A u \in S : pos[u] \in 1 .. Cardinality(S)
  BY <1>1 DEF Placed
<1> HIDE DEF S
<1>3. (m.next[t] = NULL) <=> (m.tail = t)
  BY <1>1, <1>2
<1>4. t # m.tail => m.next[t] \in S \ {t} /\ pos[m.next[t]] = pos[t] + 1
  BY <1>1, <1>2
<1>5. \A u \in S : m.next[u] = t => m.next[u] # m.head /\ pos[t] = pos[u] + 1
  BY <1>1, <1>2
<1>6. ASSUME t # m.head, m.prev[t] # t
      PROVE  /\ m.prev[t] \in S \ {t} /\ m.next[m.prev[t]] = t
             /\ \A u \in S : m.next[u] = t => u = m.prev[t]
  <2>1. PICK v \in S : m.next[v] = t
    BY <1>1, <1>2, <1>6
  <2>2. \A u \in S : m.next[u] = t => u = m.prev[t]
    BY <1>1, <1>2, <1>6
  <2>3. v = m.prev[t]
    BY <2>1, <2>2
  <2>4. QED
    BY <1>6, <2>1, <2>2, <2>3
<1>7. ASSUME t = m.head, t = m.tail
      PROVE  S = {t}
  <2>1. Cardinality(S) = 1
    BY <1>2, <1>7
  <2>2. \A u \in S : pos[u] = 1
    BY <1>2, <2>1
  <2>3. QED
    BY <1>1, <1>2, <1>7, <2>2
<1>8. QED
  BY <1>1, <1>2, <1>3, <1>4, <1>5, <1>6, <1>7 DEF S

LEMMA HeadTakenOff ==
    ASSUME NEW T, NEW m \in List!Memory(T), m.fault = "none", NEW pos,
           Placed(m, m.live, pos), NEW t \in m.live, t = m.head, t # m.tail
    PROVE  TakenOff(List!HeadTaken(m, t), m, t)
<1> DEFINE r == List!HeadTaken(m, t)
           S == m.live
           q == m.next[t]
<1>1. /\ S \subseteq Timer /\ IsFiniteSet(S) /\ NULL \notin S /\ q \in S \ {t} /\ q # NULL
      /\ \A u \in S : m.next[u] # t
      /\ m.next \in [Timer -> Timer \cup {NULL}] /\ m.prev \in [Timer -> Timer \cup {NULL}]
  BY Neighbours DEF List!Memory, List!Pointer
<1>2. r = [m EXCEPT !.head = q, !.prev[q] = NULL, !.next[t] = NULL]
  BY <1>1 DEF List!HeadTaken, List!Through
<1>3. /\ r.head = q /\ r.tail = m.tail /\ r.next = [m.next EXCEPT ![t] = NULL]
      /\ r.prev = [m.prev EXCEPT ![q] = NULL]
      /\ r.erpire = m.erpire /\ r.live = m.live /\ r.fault = "none"
  BY <1>2 DEF List!Memory
<1> HIDE DEF r
<1>4. /\ \A u \in S \ {t} : r.next[u] = m.next[u]
      /\ \A u \in S \ {t} : u # q => r.prev[u] = m.prev[u]
      /\ \A u \in Timer \ S : r.next[u] = m.next[u]
  BY <1>1, <1>3
<1>5. TakenFrom(m, S, t, r)
  BY <1>1, <1>3, <1>4 DEF TakenFrom
<1>6. \E pos2 : Placed(r, S \ {t}, pos2)
  <2> HIDE DEF S
  <2>1. t \in S /\ Placed(m, S, pos)
    BY DEF S
  <2>2. QED
    BY <1>1, <1>5, <2>1, Remove
<1>7. TakenOff(r, m, t)
  BY <1>3, <1>4, <1>6 DEF TakenOff
<1>8. QED
  BY <1>7 DEF r

LEMMA TailTakenOff ==
    ASSUME NEW T, NEW m \in List!Memory(T), m.fault = "none", NEW pos,
           Placed(m, m.live, pos), NEW t \in m.live, t # m.head, t = m.tail, m.prev[t] # t
    PROVE  TakenOff(List!TailTaken(m, t), m, t)
<1> DEFINE r == List!TailTaken(m, t)
           S == m.live
           p == m.prev[t]
<1>1. /\ S \subseteq Timer /\ IsFiniteSet(S) /\ NULL \notin S /\ p \in S \ {t} /\ p # NULL
      /\ m.next[p] = t /\ m.next[t] = NULL
      /\ \A u \in S : m.next[u] = t => u = p
      /\ m.next \in [Timer -> Timer \cup {NULL}] /\ m.prev \in [Timer -> Timer \cup {NULL}]
  BY Neighbours DEF List!Memory, List!Pointer
<1>2. r = [m EXCEPT !.tail = p, !.next[p] = NULL, !.prev[t] = NULL]
  BY <1>1 DEF List!TailTaken, List!Through
<1>3. /\ r.head = m.head /\ r.tail = p /\ r.next = [m.next EXCEPT ![p] = NULL]
      /\ r.prev = [m.prev EXCEPT ![t] = NULL]
      /\ r.erpire = m.erpire /\ r.live = m.live /\ r.fault = "none"
  BY <1>2 DEF List!Memory
<1> HIDE DEF r
<1>4. /\ \A u \in S \ {t} : r.next[u] = IF m.next[u] = t THEN m.next[t] ELSE m.next[u]
      /\ \A u \in S \ {t} : r.prev[u] = m.prev[u]
      /\ \A u \in Timer \ S : r.next[u] = m.next[u]
  BY <1>1, <1>3
<1>5. TakenFrom(m, S, t, r)
  BY <1>1, <1>3, <1>4 DEF TakenFrom
<1>6. \E pos2 : Placed(r, S \ {t}, pos2)
  <2> HIDE DEF S
  <2>1. t \in S /\ Placed(m, S, pos)
    BY DEF S
  <2>2. QED
    BY <1>1, <1>5, <2>1, Remove
<1>7. TakenOff(r, m, t)
  BY <1>3, <1>4, <1>6 DEF TakenOff
<1>8. QED
  BY <1>7 DEF r

LEMMA UnlinkedOff ==
    ASSUME NEW T, NEW m \in List!Memory(T), m.fault = "none", NEW pos,
           Placed(m, m.live, pos), NEW t \in m.live, t # m.head, t # m.tail, m.prev[t] # t
    PROVE  TakenOff(List!Unlinked(m, t), m, t)
<1> DEFINE r == List!Unlinked(m, t)
           S == m.live
           p == m.prev[t]
           q == m.next[t]
<1>1. /\ S \subseteq Timer /\ IsFiniteSet(S) /\ NULL \notin S /\ p \in S \ {t} /\ p # NULL
      /\ q \in S \ {t} /\ q # NULL
      /\ m.next[p] = t
      /\ \A u \in S : m.next[u] = t => u = p
      /\ m.next \in [Timer -> Timer \cup {NULL}] /\ m.prev \in [Timer -> Timer \cup {NULL}]
  BY Neighbours DEF List!Memory, List!Pointer
<1>2. r = [m EXCEPT !.next[p] = q, !.prev[q] = p]
  BY <1>1 DEF List!Unlinked, List!Through
<1>3. /\ r.head = m.head /\ r.tail = m.tail /\ r.next = [m.next EXCEPT ![p] = q]
      /\ r.prev = [m.prev EXCEPT ![q] = p]
      /\ r.erpire = m.erpire /\ r.live = m.live /\ r.fault = "none"
  BY <1>2 DEF List!Memory
<1> HIDE DEF r
<1>4. /\ \A u \in S \ {t} : r.next[u] = IF m.next[u] = t THEN q ELSE m.next[u]
      /\ \A u \in S \ {t} : u # q => r.prev[u] = m.prev[u]
      /\ \A u \in S \ {t} : m.next[u] = t => r.prev[q] = u
      /\ \A u \in Timer \ S : r.next[u] = m.next[u]
  BY <1>1, <1>3
<1>5. TakenFrom(m, S, t, r)
  BY <1>1, <1>3, <1>4 DEF TakenFrom
<1>6. \E pos2 : Placed(r, S \ {t}, pos2)
  <2> HIDE DEF S
  <2>1. t \in S /\ Placed(m, S, pos)
    BY DEF S
  <2>2. QED
    BY <1>1, <1>5, <2>1, Remove
<1>7. TakenOff(r, m, t)
  BY <1>3, <1>4, <1>6 DEF TakenOff
<1>8. QED
  BY <1>7 DEF r


-----------------------------------------------------------------------------
(* Every operation leaves a memory of the same type, in order or not.      *)

LEMMA ThroughType ==
    ASSUME NEW T, NEW m \in List!Memory(T), NEW P, NEW r,
           NULL \notin P /\ P \subseteq m.live => r \in List!Memory(T)
    PROVE  List!Through(m, P, r) \in List!Memory(T)
<1>1. List!Fails(m, "null") \in List!Memory(T) /\ List!Fails(m, "deleted") \in List!Memory(T)
  BY DEF List!Fails, List!Memory, List!Fault
<1>2. QED
  BY <1>1 DEF List!Through

LEMMA LinksType ==
    ASSUME NEW T, NEW m \in List!Memory(T), NEW p \in Timer, NEW q \in Timer, NEW t \in Timer
    PROVE  /\ List!LinkedBetween(m, p, t, q) \in List!Memory(T)
           /\ [m EXCEPT !.next[t] = q, !.prev[q] = t, !.head = t] \in List!Memory(T)
           /\ [m EXCEPT !.next = [@ EXCEPT ![p] = t, ![t] = NULL],
                        !.prev[t] = p, !.tail = t] \in List!Memory(T)
           /\ [m EXCEPT !.head = t, !.tail = t] \in List!Memory(T)
           /\ [m EXCEPT !.head = NULL, !.tail = NULL] \in List!Memory(T)
           /\ [m EXCEPT !.next[p] = q, !.prev[q] = p] \in List!Memory(T)
           /\ [m EXCEPT !.head = q, !.prev[q] = NULL, !.next[t] = NULL] \in List!Memory(T)
           /\ [m EXCEPT !.tail = p, !.next[p] = NULL, !.prev[t] = NULL] \in List!Memory(T)
<1>1. List!LinkedBetween(m, p, t, q) \in List!Memory(T)
  BY DEF List!Memory, List!Pointer, List!LinkedBetween
<1>2. /\ [m EXCEPT !.next[t] = q, !.prev[q] = t, !.head = t] \in List!Memory(T)
      /\ [m EXCEPT !.next = [@ EXCEPT ![p] = t, ![t] = NULL],
                   !.prev[t] = p, !.tail = t] \in List!Memory(T)
  BY DEF List!Memory, List!Pointer
<1>3. /\ [m EXCEPT !.head = t, !.tail = t] \in List!Memory(T)
      /\ [m EXCEPT !.head = NULL, !.tail = NULL] \in List!Memory(T)
      /\ [m EXCEPT !.next[p] = q, !.prev[q] = p] \in List!Memory(T)
  BY DEF List!Memory, List!Pointer
<1>4. /\ [m EXCEPT !.head = q, !.prev[q] = NULL, !.next[t] = NULL] \in List!Memory(T)
      /\ [m EXCEPT !.tail = p, !.next[p] = NULL, !.prev[t] = NULL] \in List!Memory(T)
  BY DEF List!Memory, List!Pointer
<1>5. QED
  BY <1>1, <1>2, <1>3, <1>4

LEMMA FreedType ==
    ASSUME NEW T, 0 \in T, NEW m \in List!Memory(T), NEW t \in Timer
    PROVE  List!Freed(m, t) \in List!Memory(T)
BY DEF List!Memory, List!Pointer, List!Freed

LEMMA NewType ==
    ASSUME NEW T, NEW m \in List!Memory(T), NEW t \in Timer, NEW time \in T
    PROVE  /\ List!New(m, t, time) \in List!Memory(T)
           /\ [m EXCEPT !.erpire[t] = time] \in List!Memory(T)
BY DEF List!Memory, List!Pointer, List!New

LEMMA OffType ==
    ASSUME NEW T, NEW m \in List!Memory(T), NEW t \in Timer
    PROVE  /\ List!HeadTaken(m, t) \in List!Memory(T)
           /\ List!TailTaken(m, t) \in List!Memory(T)
           /\ List!Unlinked(m, t) \in List!Memory(T)
<1>1. m.live \subseteq Timer
  BY DEF List!Memory
<1>2. List!HeadTaken(m, t) \in List!Memory(T)
  <2> DEFINE q == m.next[t]
             r == [m EXCEPT !.head = q, !.prev[q] = NULL, !.next[t] = NULL]
  <2>1. {q} \subseteq m.live => r \in List!Memory(T)
    BY <1>1, LinksType
  <2>2. List!HeadTaken(m, t) = List!Through(m, {q}, r)
    BY DEF List!HeadTaken
  <2> HIDE DEF q, r
  <2>3. QED
    BY <2>1, <2>2, ThroughType
<1>3. List!TailTaken(m, t) \in List!Memory(T)
  <2> DEFINE p == m.prev[t]
             r == [m EXCEPT !.tail = p, !.next[p] = NULL, !.prev[t] = NULL]
  <2>1. {p} \subseteq m.live => r \in List!Memory(T)
    BY <1>1, LinksType
  <2>2. List!TailTaken(m, t) = List!Through(m, {p}, r)
    BY DEF List!TailTaken
  <2> HIDE DEF p, r
  <2>3. QED
    BY <2>1, <2>2, ThroughType
<1>4. List!Unlinked(m, t) \in List!Memory(T)
  <2> DEFINE p == m.prev[t]
             q == m.next[t]
             r == [m EXCEPT !.next[p] = q, !.prev[q] = p]
  <2>1. {p, q} \subseteq m.live => r \in List!Memory(T)
    BY <1>1, LinksType
  <2>2. List!Unlinked(m, t) = List!Through(m, {p, q}, r)
    BY DEF List!Unlinked
  <2> HIDE DEF p, q, r
  <2>3. QED
    BY <2>1, <2>2, ThroughType
<1>5. QED
  BY <1>2, <1>3, <1>4

LEMMA InsertedType ==
    ASSUME NEW T, NEW m \in List!Memory(T), NEW t \in Timer, NEW b
    PROVE  /\ List!Inserted(m, t, b) \in List!Memory(T)
           /\ List!Inserted(m, t, b).fault = "none" =>
                m.erpire[t] < m.erpire[List!Inserted(m, t, b).next[t]]
<1> DEFINE at == List!Walk(m, b)
           stops == {n \in DOMAIN at \ {0} : List!StopsHere(m, t, at[n])}
           n == CHOOSE n \in stops : \A j \in stops : n <= j
           p == at[n - 1]
           q == at[n]
           r == List!Inserted(m, t, b)
<1>1. m.live \subseteq Timer
  BY DEF List!Memory
<1>2. List!Inserted(m, t, b) =
        IF stops = {} THEN List!Fails(m, "endless")
        ELSE List!Through(m, {p, q}, List!LinkedBetween(m, p, t, q))
  BY DEF List!Inserted
<1>3. CASE stops = {}
  <2>1. r = List!Fails(m, "endless")
    BY <1>2, <1>3
  <2> HIDE DEF r
  <2>2. r \in List!Memory(T) /\ r.fault = "endless"
    BY <2>1 DEF List!Fails, List!Memory, List!Fault
  <2>3. QED
    BY <2>2 DEF r
<1>4. CASE stops # {}
  <2>0. stops \subseteq Nat /\ n \in stops
    <3>1. DOMAIN at = 0 .. Cardinality(Timer) + 1 /\ Cardinality(Timer) \in Nat
      BY TimerAssumption, FS_CardinalityType, WalkIs
    <3> HIDE DEF at
    <3>2. stops \subseteq Nat
      BY <3>1
    <3> HIDE DEF stops
    <3>3. \E j \in stops : \A k \in stops : j <= k
      BY <1>4, <3>2, Least
    <3>4. QED
      BY <3>2, <3>3
  <2>1. r = List!Through(m, {p, q}, List!LinkedBetween(m, p, t, q))
    BY <1>2, <1>4
  <2>2. q \in m.live => m.erpire[t] < m.erpire[q]
    <3> HIDE DEF at, n
    <3>1. List!StopsHere(m, t, q)
      BY <2>0
    <3>2. QED
      BY <3>1 DEF List!StopsHere
  <2> HIDE DEF r, q, p
  <2>3. {p, q} \subseteq m.live => List!LinkedBetween(m, p, t, q) \in List!Memory(T)
    BY <1>1, LinksType
  <2>4. r \in List!Memory(T)
    BY <2>1, <2>3, ThroughType
  <2>5. ASSUME r.fault = "none"
        PROVE  m.erpire[t] < m.erpire[r.next[t]]
    <3>1. {p, q} \subseteq m.live /\ r = List!LinkedBetween(m, p, t, q)
      BY <2>1, <2>5 DEF List!Through, List!Fails, List!Memory
    <3>2. r.next = [m.next EXCEPT ![p] = t, ![t] = q] /\ m.next \in [Timer -> Timer \cup {NULL}]
      BY <3>1 DEF List!LinkedBetween, List!Memory, List!Pointer
    <3>3. r.next[t] = q
      BY <3>2
    <3>4. QED
      BY <2>2, <3>1, <3>3
  <2>6. QED
    BY <2>4, <2>5 DEF r
<1>5. QED
  BY <1>3, <1>4

LEMMA AddedType ==
    ASSUME NEW T, NEW m \in List!Memory(T), NEW t \in Timer
    PROVE  List!Added(m, t) \in List!Memory(T)
<1> DEFINE front == [m EXCEPT !.next[t] = m.head, !.prev[m.head] = t, !.head = t]
           back == [m EXCEPT !.next = [@ EXCEPT ![m.tail] = t, ![t] = NULL],
                             !.prev[t] = m.tail, !.tail = t]
           far == List!Through(m, {m.tail}, IF m.erpire[t] > m.erpire[m.tail] THEN back
                                             ELSE List!Inserted(m, t, m.head))
<1>1. m.live \subseteq Timer
  BY DEF List!Memory
<1>2. [m EXCEPT !.head = t, !.tail = t] \in List!Memory(T)
  BY LinksType
<1>3. {m.head} \subseteq m.live => front \in List!Memory(T)
  BY <1>1, LinksType
<1>4. {m.tail} \subseteq m.live => back \in List!Memory(T)
  BY <1>1, LinksType
<1>5. List!Inserted(m, t, m.head) \in List!Memory(T)
  BY InsertedType
<1>6. List!Added(m, t) = IF m.head = NULL /\ m.tail = NULL THEN [m EXCEPT !.head = t, !.tail = t]
                         ELSE List!Through(m, {m.head}, IF m.erpire[t] < m.erpire[m.head]
                                                        THEN front ELSE far)
  BY DEF List!Added
<1> HIDE DEF front, back
<1>7. far \in List!Memory(T)
  BY <1>4, <1>5, ThroughType
<1> HIDE DEF far
<1>8. List!Through(m, {m.head}, IF m.erpire[t] < m.erpire[m.head] THEN front ELSE far)
        \in List!Memory(T)
  BY <1>3, <1>7, ThroughType
<1>9. QED
  BY <1>2, <1>6, <1>8

LEMMA AdjustedType ==
    ASSUME NEW T, NEW m \in List!Memory(T), NEW t \in Timer
    PROVE  List!Adjusted(m, t) \in List!Memory(T)
<1> DEFINE out == IF t = m.head THEN List!HeadTaken(m, t) ELSE List!Unlinked(m, t)
           moved == IF out.fault # "none" THEN out ELSE List!Inserted(out, t, m.next[t])
           far == List!Through(m, {m.next[t]}, IF m.erpire[t] < m.erpire[m.next[t]]
                                               THEN m ELSE moved)
<1>1. out \in List!Memory(T)
  BY OffType
<1> HIDE DEF out
<1>2. moved \in List!Memory(T)
  BY <1>1, InsertedType
<1>3. List!Adjusted(m, t) = List!Through(m, {t}, IF m.tail = t THEN m ELSE far)
  BY DEF List!Adjusted, out
<1> HIDE DEF moved
<1>4. far \in List!Memory(T)
  BY <1>2, ThroughType
<1> HIDE DEF far
<1>5. QED
  BY <1>3, <1>4, ThroughType

LEMMA DeletedType ==
    ASSUME NEW T, 0 \in T, NEW m \in List!Memory(T), NEW t \in Timer
    PROVE  List!Deleted(m, t) \in List!Memory(T)
<1> DEFINE out == CASE t = m.head /\ t = m.tail -> [m EXCEPT !.head = NULL, !.tail = NULL]
                    [] t = m.head /\ t # m.tail -> List!HeadTaken(m, t)
                    [] t # m.head /\ t = m.tail -> List!TailTaken(m, t)
                    [] OTHER -> List!Unlinked(m, t)
           done == IF out.fault # "none" THEN out ELSE List!Freed(out, t)
<1>1. out \in List!Memory(T)
  <2>1. [m EXCEPT !.head = NULL, !.tail = NULL] \in List!Memory(T)
    BY LinksType
  <2>2. /\ List!HeadTaken(m, t) \in List!Memory(T) /\ List!TailTaken(m, t) \in List!Memory(T)
        /\ List!Unlinked(m, t) \in List!Memory(T)
    BY OffType
  <2>3. QED
    BY <2>1, <2>2
<1>2. List!Deleted(m, t) = List!Through(m, {t}, done)
  BY DEF List!Deleted
<1> HIDE DEF out
<1>3. done \in List!Memory(T)
  BY <1>1, FreedType
<1> HIDE DEF done
<1>4. QED
  BY <1>2, <1>3, ThroughType

LEMMA ExpiredType ==
    ASSUME NEW T, 0 \in T, NEW m \in List!Memory(T), m.head \in Timer
    PROVE  List!Expired(m) \in List!Memory(T)
<1> DEFINE q == m.next[m.head]
           out == [m EXCEPT !.head = q]
           last == List!Freed(out, m.head)
           next == List!Freed([out EXCEPT !.prev[q] = NULL], m.head)
<1>1. q \in Timer \cup {NULL} /\ m.live \subseteq Timer
  BY DEF List!Memory, List!Pointer
<1>2. out \in List!Memory(T) /\ [out EXCEPT !.prev[q] = NULL] \in List!Memory(T)
  BY <1>1 DEF List!Memory, List!Pointer
<1>3. last \in List!Memory(T) /\ next \in List!Memory(T)
  BY <1>2, FreedType
<1>4. List!Expired(m) = IF q = NULL THEN last ELSE List!Through(m, {q}, next)
  BY DEF List!Expired
<1> HIDE DEF q, last, next
<1>5. QED
  BY <1>3, <1>4, ThroughType


-----------------------------------------------------------------------------
(* The rest of the operations on a list in order.                          *)

\* All timers but t are in order.
OrderedBut(m, t) ==
    /\ \E pos : Placed(m, m.live \ {t}, pos)
    /\ \A u \in Timer \ m.live : m.next[u] = NULL

\* To delete a timer that is taken off leaves the others in order.
LEMMA FreedOrdered ==
    ASSUME NEW T, NEW m \in List!Memory(T), NEW t \in m.live, OrderedBut(m, t)
    PROVE  /\ List!Freed(m, t).fault = m.fault
           /\ List!Freed(m, t).live = m.live \ {t}
           /\ List!Freed(m, t).head = m.head
           /\ List!Freed(m, t).tail = m.tail
           /\ \A u \in m.live \ {t} : List!Freed(m, t).erpire[u] = m.erpire[u]
           /\ Ordered(List!Freed(m, t))
<1> USE DEF OrderedBut
<1> DEFINE r == List!Freed(m, t)
           S == m.live \ {t}
<1>1. /\ r.fault = m.fault /\ r.live = S /\ r.head = m.head /\ r.tail = m.tail
      /\ r.next = [m.next EXCEPT ![t] = NULL] /\ r.prev = [m.prev EXCEPT ![t] = NULL]
      /\ r.erpire = [m.erpire EXCEPT ![t] = 0]
  BY DEF List!Freed, List!Memory
<1>2. /\ m.live \subseteq Timer
      /\ m.next \in [Timer -> Timer \cup {NULL}] /\ m.prev \in [Timer -> Timer \cup {NULL}]
      /\ m.erpire \in [Timer -> T]
  BY DEF List!Memory, List!Pointer
<1> HIDE DEF r
<1>3. /\ \A u \in S : /\ r.next[u] = m.next[u] /\ r.prev[u] = m.prev[u]
                      /\ r.erpire[u] = m.erpire[u]
      /\ \A u \in Timer \ S : r.next[u] = NULL
  BY <1>1, <1>2
<1>4. PICK pos : Placed(m, S, pos)
  OBVIOUS
<1> HIDE DEF S
<1>5. Placed(r, S, pos)
  <2>1. /\ pos \in [S -> 1 .. Cardinality(S)]
        /\ S = {} => r.head = NULL
        /\ S # {} => /\ r.head \in S /\ pos[r.head] = 1
                     /\ r.tail \in S /\ pos[r.tail] = Cardinality(S)
    BY <1>1, <1>4 DEF Placed
  <2>2. \A u \in S : \/ pos[u] = Cardinality(S) /\ r.next[u] = NULL
                     \/ /\ r.next[u] \in S /\ pos[r.next[u]] = pos[u] + 1
                        /\ r.prev[r.next[u]] \in {u, r.next[u]}
    BY <1>3, <1>4 DEF Placed
  <2>3. /\ \A u \in S \ {r.head} : \E v \in S : r.next[v] = u
        /\ \A u, v \in S : pos[u] = pos[v] => u = v
        /\ \A u, v \in S : pos[u] <= pos[v] => r.erpire[u] <= r.erpire[v]
    BY <1>1, <1>3, <1>4 DEF Placed
  <2>4. QED
    BY <2>1, <2>2, <2>3 DEF Placed
<1>6. Ordered(r)
  BY <1>1, <1>3, <1>5 DEF Ordered
<1>7. QED
  BY <1>1, <1>3, <1>6 DEF r, S

\* A timer whose prev is right is deleted from the list and no other.
LEMMA DeletedKept ==
    ASSUME NEW T, 0 \in T, NEW m \in List!Memory(T), m.fault = "none", Ordered(m),
           NEW t \in m.live, m.prev[t] # t
    PROVE  LET r == List!Deleted(m, t)
           IN /\ r.fault = "none" /\ r.live = m.live \ {t} /\ Ordered(r)
              /\ r.live = {} => r.tail = NULL
<1> DEFINE out == CASE t = m.head /\ t = m.tail -> [m EXCEPT !.head = NULL, !.tail = NULL]
                    [] t = m.head /\ t # m.tail -> List!HeadTaken(m, t)
                    [] t # m.head /\ t = m.tail -> List!TailTaken(m, t)
                    [] OTHER -> List!Unlinked(m, t)
<1>1. PICK pos : Placed(m, m.live, pos)
  BY DEF Ordered
<1>2. /\ m.live \subseteq Timer /\ IsFiniteSet(m.live) /\ NULL \notin m.live /\ t # NULL
      /\ m.head \in m.live /\ m.tail \in m.live
      /\ t = m.head /\ t = m.tail => m.live = {t}
  BY <1>1, Neighbours
<1>3. out \in List!Memory(T)
  <2>1. t \in Timer
    BY <1>2
  <2>2. /\ [m EXCEPT !.head = NULL, !.tail = NULL] \in List!Memory(T)
        /\ List!HeadTaken(m, t) \in List!Memory(T) /\ List!TailTaken(m, t) \in List!Memory(T)
        /\ List!Unlinked(m, t) \in List!Memory(T)
    BY <2>1, LinksType, OffType
  <2>3. QED
    BY <2>2
<1>4. TakenOff(out, m, t) /\ (t = m.head /\ t = m.tail => out.tail = NULL)
  <2>1. CASE t = m.head /\ t = m.tail
    <3>1. out = [m EXCEPT !.head = NULL, !.tail = NULL] /\ m.live = {t}
      BY <1>2, <2>1
    <3>2. /\ out.head = NULL /\ out.tail = NULL /\ out.fault = "none" /\ out.live = m.live
          /\ out.erpire = m.erpire /\ out.next = m.next /\ m.live \ {t} = {}
      BY <3>1 DEF List!Memory
    <3> HIDE DEF out
    <3>3. Placed(out, {}, [u \in {} |-> 1])
      BY <3>2 DEF Placed
    <3>4. QED
      BY <3>2, <3>3 DEF TakenOff
  <2>2. CASE t = m.head /\ t # m.tail
    <3>1. out = List!HeadTaken(m, t)
      BY <2>2
    <3> HIDE DEF out
    <3>2. QED
      BY <1>1, <2>2, <3>1, HeadTakenOff
  <2>3. CASE t # m.head /\ t = m.tail
    <3>1. out = List!TailTaken(m, t)
      BY <2>3
    <3> HIDE DEF out
    <3>2. QED
      BY <1>1, <2>3, <3>1, TailTakenOff
  <2>4. CASE t # m.head /\ t # m.tail
    <3>1. out = List!Unlinked(m, t)
      BY <2>4
    <3> HIDE DEF out
    <3>2. QED
      BY <1>1, <2>4, <3>1, UnlinkedOff
  <2>5. QED
    BY <2>1, <2>2, <2>3, <2>4
<1>5. List!Deleted(m, t) = IF out.fault # "none" THEN out ELSE List!Freed(out, t)
  BY <1>2 DEF List!Deleted, List!Through
<1> HIDE DEF out
<1>6. List!Deleted(m, t) = List!Freed(out, t)
  BY <1>4, <1>5 DEF TakenOff
<1>7. /\ out.fault = "none" /\ out.live = m.live /\ t \in out.live
      /\ OrderedBut(out, t)
  BY <1>4 DEF TakenOff, Ordered, OrderedBut
<1>8. /\ List!Freed(out, t).fault = "none" /\ List!Freed(out, t).live = m.live \ {t}
      /\ List!Freed(out, t).tail = out.tail /\ Ordered(List!Freed(out, t))
  BY <1>3, <1>7, FreedOrdered
<1>9. m.live \ {t} = {} => t = m.head /\ t = m.tail
  BY <1>2
<1>10. QED
  BY <1>4, <1>6, <1>8, <1>9

\* A timer that is put off is left where it is or put in its new place; else its
\* prev was the timer itself, and the memory changes.
LEMMA AdjustedKept ==
    ASSUME NEW T, T \subseteq Nat, NEW m \in List!Memory(T), m.fault = "none", Ordered(m),
           NEW t \in m.live, NEW time \in T, time >= m.erpire[t]
    PROVE  LET later == [m EXCEPT !.erpire[t] = time]
               r == List!Adjusted(later, t)
           IN Kept(r, later) \/ (m.prev[t] = t /\ r # later)
<1> DEFINE later == [m EXCEPT !.erpire[t] = time]
           r == List!Adjusted(later, t)
           S == m.live
           b == m.next[t]
<1> SUFFICES Kept(r, later) \/ (m.prev[t] = t /\ r # later)
  OBVIOUS
<1>1. PICK pos : Placed(m, S, pos)
  BY DEF Ordered
<1>2. /\ S \subseteq Timer /\ IsFiniteSet(S) /\ NULL \notin S /\ t # NULL
      /\ m.head \in S /\ m.tail \in S /\ t \in S /\ t \in Timer
      /\ t # m.tail => b \in S \ {t} /\ pos[b] = pos[t] + 1
      /\ m.erpire \in [Timer -> T]
  BY <1>1, Neighbours DEF List!Memory
<1>3. /\ later \in List!Memory(T)
      /\ later.fault = "none" /\ later.live = S /\ later.head = m.head /\ later.tail = m.tail
      /\ later.next = m.next /\ later.prev = m.prev
      /\ later.erpire = [m.erpire EXCEPT ![t] = time]
  BY <1>2, NewType DEF List!Memory
<1> HIDE DEF later
<1>4. /\ \A u \in S \ {t} : later.erpire[u] = m.erpire[u]
      /\ \A u \in S : m.erpire[u] \in Nat
      /\ later.erpire[t] = time /\ time \in Nat
  BY <1>2, <1>3
<1>5. \A u \in Timer \ S : later.next[u] = NULL
  BY <1>3 DEF Ordered
<1>6. \A u \in S : pos[u] \in 1 .. Cardinality(S)
  BY <1>1 DEF Placed
<1>7. ASSUME t = m.tail \/ time < m.erpire[b]
      PROVE  Kept(r, later)
  <2>1. r = later
    BY <1>2, <1>3, <1>4, <1>7 DEF List!Adjusted, List!Through
  <2> HIDE DEF r
  <2>2. ASSUME NEW u \in S, NEW v \in S, pos[u] <= pos[v]
        PROVE  later.erpire[u] <= later.erpire[v]
    <3>1. m.erpire[u] <= m.erpire[v]
      BY <1>1, <2>2 DEF Placed
    <3>2. CASE v = t
      BY <1>4, <3>1, <3>2
    <3>3. CASE v # t /\ u # t
      BY <1>4, <3>1, <3>3
    <3>4. CASE v # t /\ u = t
      <4>1. pos[t] # pos[v]
        BY <1>1, <1>2, <3>4 DEF Placed
      <4>2. pos[t] < pos[v]
        BY <1>2, <1>6, <2>2, <3>4, <4>1
      <4>3. t # m.tail
        BY <1>1, <1>2, <1>6, <4>2 DEF Placed
      <4>4. b \in S /\ pos[b] <= pos[v]
        BY <1>2, <1>6, <4>2, <4>3
      <4>5. m.erpire[b] <= m.erpire[v]
        BY <1>1, <4>4 DEF Placed
      <4>6. QED
        BY <1>4, <1>7, <3>4, <4>3, <4>4, <4>5
    <3>5. QED
      BY <3>2, <3>3, <3>4
  <2> HIDE DEF S
  <2>3. Placed(later, S, pos)
    BY <1>1, <1>3, <2>2 DEF Placed
  <2>4. QED
    BY <1>3, <1>5, <2>1, <2>3 DEF Kept, Ordered
<1>8. ASSUME t # m.tail, ~ (time < m.erpire[b])
      PROVE  Kept(r, later) \/ (m.prev[t] = t /\ r # later)
  <2> DEFINE out == IF t = later.head THEN List!HeadTaken(later, t) ELSE List!Unlinked(later, t)
  <2>1. b \in S /\ b # t /\ b # NULL /\ later.next[t] = b /\ later.erpire[b] = m.erpire[b]
    BY <1>2, <1>3, <1>4, <1>8
  <2>2. r = IF out.fault # "none" THEN out ELSE List!Inserted(out, t, b)
    BY <1>2, <1>3, <1>4, <1>8, <2>1 DEF List!Adjusted, List!Through
  <2>3. out \in List!Memory(T)
    BY <1>2, <1>3, OffType
  <2> HIDE DEF r
  <2>4. ASSUME TakenOff(out, later, t)
        PROVE  Kept(r, later)
    <3> HIDE DEF out
    <3>1. /\ out.fault = "none" /\ out.live = S /\ out.erpire = later.erpire
          /\ \E pos2 : Placed(out, out.live \ {t}, pos2)
          /\ \A u \in Timer \ out.live : out.next[u] = NULL
      BY <1>3, <1>5, <2>4 DEF TakenOff
    <3>2. r = List!Inserted(out, t, b)
      BY <2>2, <3>1
    <3>3. t \in out.live /\ b \in out.live \ {t} /\ out.erpire[b] <= out.erpire[t]
      BY <1>2, <1>4, <1>8, <2>1, <3>1
    <3>4. Kept(r, out)
      BY <2>3, <3>1, <3>2, <3>3, InsertedKept
    <3>5. QED
      BY <1>3, <3>1, <3>4 DEF Kept
  <2>5. ASSUME NEW o, TakenOff(o, m, t), out.head = o.head, out.tail = o.tail,
               out.next = o.next, out.prev = o.prev, out.live = o.live,
               out.fault = o.fault, out.erpire = later.erpire
        PROVE  TakenOff(out, later, t)
    <3> HIDE DEF out
    <3>1. PICK pos2 : Placed(o, S \ {t}, pos2)
      BY <2>5 DEF TakenOff
    <3>2. \A u \in S \ {t} : out.erpire[u] = o.erpire[u]
      BY <1>4, <2>5 DEF TakenOff
    <3> DEFINE S2 == S \ {t}
    <3>3. Placed(o, S2, pos2) /\ \A u \in S2 : out.erpire[u] = o.erpire[u]
      BY <3>1, <3>2
    <3> HIDE DEF S2
    <3>4. Placed(out, S2, pos2)
      BY <2>5, <3>3 DEF Placed
    <3>5. Placed(out, S \ {t}, pos2)
      BY <3>4 DEF S2
    <3>6. QED
      BY <1>3, <2>5, <3>5 DEF TakenOff
  <2>6. CASE t = m.head
    <3> DEFINE o == List!HeadTaken(m, t)
    <3>1. TakenOff(o, m, t)
      BY <1>1, <1>8, <2>6, HeadTakenOff
    <3>2. o = [m EXCEPT !.head = b, !.prev[b] = NULL, !.next[t] = NULL]
      BY <1>2, <2>1 DEF List!HeadTaken, List!Through
    <3>3. out = [later EXCEPT !.head = b, !.prev[b] = NULL, !.next[t] = NULL]
      BY <1>3, <2>1, <2>6 DEF List!HeadTaken, List!Through
    <3> HIDE DEF o, out
    <3>4. /\ out.head = o.head /\ out.tail = o.tail /\ out.next = o.next /\ out.prev = o.prev
          /\ out.live = o.live /\ out.fault = o.fault /\ out.erpire = later.erpire
      BY <1>3, <3>2, <3>3 DEF List!Memory
    <3>5. QED
      BY <2>4, <2>5, <3>1, <3>4
  <2>7. CASE t # m.head /\ m.prev[t] # t
    <3> DEFINE o == List!Unlinked(m, t)
               p == m.prev[t]
    <3>1. TakenOff(o, m, t) /\ p \in S /\ p # NULL
      <4>1. TakenOff(o, m, t)
        BY <1>1, <1>8, <2>7, UnlinkedOff
      <4>2. p \in S \ {t}
        BY <1>1, <2>7, Neighbours
      <4>3. QED
        BY <1>2, <4>1, <4>2
    <3>2. o = [m EXCEPT !.next[p] = b, !.prev[b] = p]
      BY <2>1, <3>1 DEF List!Unlinked, List!Through
    <3>3. out = [later EXCEPT !.next[p] = b, !.prev[b] = p]
      BY <1>3, <2>1, <2>7, <3>1 DEF List!Unlinked, List!Through
    <3> HIDE DEF o, out
    <3>4. /\ out.head = o.head /\ out.tail = o.tail /\ out.next = o.next /\ out.prev = o.prev
          /\ out.live = o.live /\ out.fault = o.fault /\ out.erpire = later.erpire
      BY <1>3, <3>2, <3>3 DEF List!Memory
    <3>5. QED
      BY <2>4, <2>5, <3>1, <3>4
  <2>8. CASE t # m.head /\ m.prev[t] = t
    <3>1. SUFFICES ASSUME r = later
                   PROVE  FALSE
      BY <2>8
    <3>2. out = [later EXCEPT !.next[t] = b, !.prev[b] = t]
      BY <1>2, <1>3, <2>1, <2>8 DEF List!Unlinked, List!Through
    <3>3. out.fault = "none" /\ out.erpire = later.erpire
      BY <1>3, <3>2 DEF List!Memory
    <3> HIDE DEF out
    <3>4. r = List!Inserted(out, t, b)
      BY <2>2, <3>3
    <3>5. r.fault = "none" /\ r.next[t] = b
      BY <1>3, <2>1, <3>1
    <3>6. out.erpire[t] < out.erpire[b]
      BY <1>2, <2>3, <3>4, <3>5, InsertedType
    <3>7. QED
      BY <1>4, <1>8, <2>1, <3>3, <3>6
  <2>9. QED
    BY <2>6, <2>7, <2>8
<1>9. QED
  BY <1>7, <1>8

\* tick() takes the first timer off.
LEMMA ExpiredKept ==
    ASSUME NEW T, 0 \in T, NEW m \in List!Memory(T), m.fault = "none", Ordered(m),
           m.head # NULL
    PROVE  /\ m.head \in m.live
           /\ List!Expired(m).fault = "none"
           /\ List!Expired(m).live = m.live \ {m.head}
           /\ \A u \in m.live \ {m.head} : List!Expired(m).erpire[u] = m.erpire[u]
           /\ List!Expired(m).live = {} => List!Expired(m).head = NULL
           /\ Ordered(List!Expired(m))
<1> DEFINE S == m.live
           t == m.head
           q == m.next[t]
           r == List!Expired(m)
<1>1. PICK pos : Placed(m, S, pos)
  BY DEF Ordered
<1>2. t \in S
  BY <1>1 DEF Placed
<1>3. /\ S \subseteq Timer /\ IsFiniteSet(S) /\ NULL \notin S /\ m.tail \in S /\ t \in Timer
      /\ (q = NULL) <=> (m.tail = t)
      /\ q # NULL => q \in S \ {t}
      /\ \A u \in S : m.next[u] # t
      /\ m.tail = t => S = {t}
      /\ m.next \in [Timer -> Timer \cup {NULL}] /\ m.prev \in [Timer -> Timer \cup {NULL}]
  <2>1. /\ S \subseteq Timer /\ IsFiniteSet(S) /\ NULL \notin S /\ m.tail \in S
        /\ (q = NULL) <=> (m.tail = t)
        /\ t # m.tail => q \in S \ {t}
        /\ m.tail = t => S = {t}
    BY <1>1, <1>2, Neighbours
  <2>2. \A u \in S : m.next[u] # t
    <3>1. \A u \in S : pos[u] \in 1 .. Cardinality(S)
      BY <1>1 DEF Placed
    <3>2. pos[t] = 1
      BY <1>1, <1>2 DEF Placed
    <3>3. \A u \in S : m.next[u] = t => pos[t] = pos[u] + 1
      BY <1>1, <1>2, Neighbours
    <3>4. QED
      BY <3>1, <3>2, <3>3
  <2>3. QED
    BY <1>2, <2>1, <2>2 DEF List!Memory, List!Pointer
<1>4. PICK out \in List!Memory(T) :
        /\ r = List!Freed(out, t)
        /\ out.fault = "none" /\ out.live = S /\ out.erpire = m.erpire /\ out.head = q
        /\ out.tail = m.tail /\ out.next = m.next
        /\ \A u \in Timer : u # q => out.prev[u] = m.prev[u]
  <2> DEFINE o == [m EXCEPT !.head = q]
             o2 == [o EXCEPT !.prev[q] = NULL]
  <2>1. CASE q = NULL
    <3>1. r = List!Freed(o, t)
      BY <2>1 DEF List!Expired
    <3>2. /\ o \in List!Memory(T) /\ o.fault = "none" /\ o.live = S /\ o.erpire = m.erpire
          /\ o.head = q /\ o.tail = m.tail /\ o.next = m.next /\ o.prev = m.prev
      BY <2>1 DEF List!Memory, List!Pointer
    <3> HIDE DEF o, r
    <3>3. QED
      BY <3>1, <3>2
  <2>2. CASE q # NULL
    <3>1. r = List!Freed(o2, t)
      BY <1>3, <2>2 DEF List!Expired, List!Through
    <3>2. /\ o2 \in List!Memory(T) /\ o2.fault = "none" /\ o2.live = S /\ o2.erpire = m.erpire
          /\ o2.head = q /\ o2.tail = m.tail /\ o2.next = m.next
          /\ o2.prev = [m.prev EXCEPT ![q] = NULL]
      BY <1>3, <2>2 DEF List!Memory, List!Pointer
    <3>3. \A u \in Timer : u # q => o2.prev[u] = m.prev[u]
      BY <1>3, <3>2
    <3> HIDE DEF o2, r
    <3>4. QED
      BY <3>1, <3>2, <3>3
  <2>3. QED
    BY <2>1, <2>2
<1> HIDE DEF r
<1>5. TakenFrom(m, S, t, out)
  BY <1>2, <1>3, <1>4 DEF TakenFrom
<1>6. OrderedBut(out, t)
  <2>1. \E pos2 : Placed(out, S \ {t}, pos2)
    <3> HIDE DEF S, t
    <3>1. QED
      BY <1>1, <1>2, <1>3, <1>5, Remove
  <2>2. QED
    BY <1>4, <2>1 DEF OrderedBut, Ordered
<1>7. /\ r.fault = "none" /\ r.live = S \ {t} /\ r.head = q
      /\ \A u \in S \ {t} : r.erpire[u] = m.erpire[u]
      /\ Ordered(r)
  <2> HIDE DEF S, t, q
  <2>1. t \in out.live
    BY <1>2, <1>4
  <2>2. QED
    BY <1>4, <1>6, <2>1, FreedOrdered
<1>8. S \ {t} = {} => q = NULL
  BY <1>2, <1>3
<1>9. QED
  BY <1>2, <1>7, <1>8 DEF r


-----------------------------------------------------------------------------
(* The program that the comments of lst_timer.h describe.                  *)

\* While no timer put in by a search was moved or deleted: the only fault is a
\* null pointer, the list is in order, its tail is null when it is empty unless
\* a tick emptied it, and a tick has fired no timer later than one that is left.
ListInv ==
    /\ List!TypeOK
    /\ ~ spoiled => l.fault \in {"none", "null"}
    /\ ~ spoiled /\ List!Running =>
         /\ Ordered(l)
         /\ l.live = {} /\ ~ emptied => l.tail = NULL
         /\ ticking => \A u \in l.live : fired <= l.erpire[u]

LEMMA TimeIs == List!Time \subseteq Nat /\ 0 \in List!Time
BY BoundAssumption DEF List!Time

\* In a list in order, the first timer is the one of the least time.
LEMMA FirstIsLeast ==
    ASSUME NEW m, Ordered(m), NULL \notin m.live, IsFiniteSet(m.live)
    PROVE  /\ m.head # NULL <=> m.live # {}
           /\ m.head # NULL => /\ m.head \in m.live
                               /\ \A u \in m.live : m.erpire[m.head] <= m.erpire[u]
<1>1. PICK pos : Placed(m, m.live, pos)
  BY DEF Ordered
<1>2. \A u \in m.live : pos[u] \in 1 .. Cardinality(m.live) /\ Cardinality(m.live) \in Nat
  BY <1>1, FS_CardinalityType DEF Placed
<1>3. m.live # {} => m.head \in m.live /\ \A u \in m.live : pos[m.head] <= pos[u]
  BY <1>1, <1>2 DEF Placed
<1>4. QED
  BY <1>1, <1>3 DEF Placed

LEMMA ListInit == List!Init => ListInv
<1>1. SUFFICES ASSUME List!Init
               PROVE  ListInv
  OBVIOUS
<1>2. List!TypeOK
  <2>1. List!EmptyList \in List!Memory(List!Time)
    BY TimeIs DEF List!EmptyList, List!Memory, List!Pointer, List!Fault
  <2>2. QED
    BY <1>1, <2>1, TimeIs DEF List!Init, List!TypeOK
<1>3. /\ l.live = {} /\ l.head = NULL /\ l.tail = NULL /\ l.fault = "none"
      /\ \A u \in Timer : l.next[u] = NULL
      /\ ~ ticking
  BY <1>1 DEF List!Init, List!EmptyList
<1>4. Placed(l, {}, [u \in {} |-> 1])
  BY <1>3 DEF Placed
<1>5. QED
  BY <1>2, <1>3, <1>4 DEF ListInv, Ordered

LEMMA AddStep ==
    ASSUME ListInv, NEW t \in Timer, NEW time \in List!Time, List!add_timer(t, time)
    PROVE  ListInv'
<1> DEFINE n == List!New(l, t, time)
<1>1. /\ l.fault = "none" /\ ~ ticking /\ t \notin l.live /\ l' = List!Added(n, t)
      /\ now' = now /\ ticking' = ticking /\ fired' = fired
      /\ emptied' = emptied /\ spoiled' = spoiled
  BY DEF List!add_timer, List!Idle, List!Running
<1>2. l \in List!Memory(List!Time)
  BY DEF ListInv, List!TypeOK
<1>3. n \in List!Memory(List!Time) /\ n.live = l.live \cup {t}
  <2>1. n \in List!Memory(List!Time)
    BY <1>2, NewType
  <2>2. n.live = l.live \cup {t}
    BY <1>2 DEF List!New, List!Memory
  <2>3. QED
    BY <2>1, <2>2
<1>4. l' \in List!Memory(List!Time)
  BY <1>1, <1>3, AddedType
<1>5. List!TypeOK'
  BY <1>1, <1>4 DEF ListInv, List!TypeOK
<1>6. ASSUME ~ spoiled
      PROVE  Kept(l', n)
  <2>1. Ordered(l) /\ t \in Timer \ l.live
    BY <1>1, <1>6 DEF ListInv, List!Running
  <2>2. Kept(List!Added(n, t), n)
    BY <1>1, <1>2, <2>1, TimeIs, AddedKept
  <2>3. QED
    BY <1>1, <2>2
<1> HIDE DEF n
<1>7. QED
  BY <1>1, <1>3, <1>5, <1>6 DEF ListInv, Kept, List!Running

LEMMA AdjustStep ==
    ASSUME ListInv, NEW t \in Timer, NEW time \in List!Time, List!adjust(t, time)
    PROVE  ListInv'
<1> DEFINE later == [l EXCEPT !.erpire[t] = time]
<1>1. /\ l.fault = "none" /\ ~ ticking /\ t \in l.live /\ time >= l.erpire[t]
      /\ l' = List!Adjusted(later, t)
      /\ now' = now /\ ticking' = ticking /\ fired' = fired
      /\ emptied' = emptied
      /\ spoiled' = (spoiled \/ (l.prev[t] = t /\ l' # later))
  BY DEF List!adjust, List!Idle, List!Running, List!SelfLinked
<1>2. l \in List!Memory(List!Time) /\ spoiled \in BOOLEAN
  BY DEF ListInv, List!TypeOK
<1>3. later \in List!Memory(List!Time) /\ later.live = l.live
  BY <1>2, NewType DEF List!Memory
<1>4. l' \in List!Memory(List!Time)
  BY <1>1, <1>3, AdjustedType
<1>5. List!TypeOK'
  BY <1>1, <1>4 DEF ListInv, List!TypeOK
<1>6. ASSUME ~ spoiled'
      PROVE  Kept(l', later)
  <2>1. Ordered(l)
    BY <1>1, <1>6 DEF ListInv, List!Running
  <2>2. Kept(List!Adjusted(later, t), later)
          \/ (l.prev[t] = t /\ List!Adjusted(later, t) # later)
    BY <1>1, <1>2, <2>1, TimeIs, AdjustedKept
  <2>3. QED
    BY <1>1, <1>6, <2>2
<1> HIDE DEF later
<1>7. QED
  BY <1>1, <1>3, <1>5, <1>6 DEF ListInv, Kept, List!Running

LEMMA DeleteStep ==
    ASSUME ListInv, NEW t \in Timer, List!del_timer(t)
    PROVE  ListInv'
<1>1. /\ l.fault = "none" /\ ~ ticking /\ t \in l.live
      /\ l' = List!Deleted(l, t)
      /\ now' = now /\ ticking' = ticking /\ fired' = fired
      /\ emptied' = emptied
      /\ spoiled' = (spoiled \/ l.prev[t] = t)
  BY DEF List!del_timer, List!Idle, List!Running, List!SelfLinked
<1>2. l \in List!Memory(List!Time) /\ spoiled \in BOOLEAN
  BY DEF ListInv, List!TypeOK
<1>3. l' \in List!Memory(List!Time)
  BY <1>1, <1>2, TimeIs, DeletedType
<1>4. List!TypeOK'
  BY <1>1, <1>2, <1>3 DEF ListInv, List!TypeOK
<1>5. ASSUME ~ spoiled'
      PROVE  l'.fault = "none" /\ Ordered(l') /\ (l'.live = {} => l'.tail = NULL)
  <2>1. Ordered(l) /\ l.prev[t] # t
    BY <1>1, <1>5 DEF ListInv, List!Running
  <2> DEFINE r == List!Deleted(l, t)
  <2>2. r.fault = "none" /\ Ordered(r) /\ (r.live = {} => r.tail = NULL)
    BY <1>1, <1>2, <2>1, TimeIs, DeletedKept
  <2>3. QED
    BY <1>1, <2>2
<1>6. QED
  BY <1>1, <1>4, <1>5 DEF ListInv, List!Running

LEMMA FireStep ==
    ASSUME ListInv, List!TickFire
    PROVE  /\ ListInv'
           /\ List!FiresInOrder /\ List!LeavesNoneDue
<1>1. /\ l.fault = "none" /\ ticking /\ l.head # NULL
      /\ l' = List!Through(l, {l.head}, List!Expired(l))
      /\ fired' = l.erpire[l.head]
      /\ emptied' = (emptied \/ l'.head = NULL)
      /\ now' = now /\ ticking' = ticking /\ spoiled' = spoiled
  BY DEF List!TickFire, List!Running
<1>2. /\ l \in List!Memory(List!Time) /\ l.head \in Timer /\ fired \in List!Time
      /\ l.erpire \in [Timer -> List!Time] /\ l.live \subseteq Timer
  BY <1>1 DEF ListInv, List!TypeOK, List!Memory, List!Pointer
<1>3. l' \in List!Memory(List!Time)
  <2>1. List!Expired(l) \in List!Memory(List!Time)
    BY <1>2, TimeIs, ExpiredType
  <2>2. List!Through(l, {l.head}, List!Expired(l)) \in List!Memory(List!Time)
    BY <1>2, <2>1, ThroughType
  <2>3. QED
    BY <1>1, <2>2
<1>4. List!TypeOK'
  BY <1>1, <1>2, <1>3 DEF ListInv, List!TypeOK
<1>5. ASSUME ~ spoiled
      PROVE  /\ l'.fault = "none" /\ Ordered(l')
             /\ l'.live = {} => l'.head = NULL
             /\ \A u \in l'.live : l.erpire[l.head] <= l'.erpire[u]
             /\ fired <= l.erpire[l.head]
  <2>1. Ordered(l) /\ \A u \in l.live : fired <= l.erpire[u]
    BY <1>1, <1>5 DEF ListInv, List!Running
  <2> DEFINE r == List!Expired(l)
  <2>2. /\ l.head \in l.live /\ r.fault = "none" /\ r.live = l.live \ {l.head}
        /\ \A u \in l.live \ {l.head} : r.erpire[u] = l.erpire[u]
        /\ r.live = {} => r.head = NULL
        /\ Ordered(r)
    BY <1>1, <1>2, <2>1, TimeIs, ExpiredKept
  <2> HIDE DEF r
  <2>3. l' = r
    BY <1>1, <2>2 DEF List!Through, r
  <2>4. \A u \in l.live : l.erpire[l.head] <= l.erpire[u]
    <3>1. NULL \notin l.live /\ IsFiniteSet(l.live)
      BY <1>2, TimerAssumption, FS_Subset
    <3>2. QED
      BY <1>1, <2>1, <3>1, FirstIsLeast
  <2>5. QED
    BY <2>1, <2>2, <2>3, <2>4
<1>6. ListInv'
  BY <1>1, <1>4, <1>5 DEF ListInv, List!Running
<1>7. fired' >= fired \/ spoiled
  BY <1>1, <1>2, <1>5, TimeIs
<1>8. QED
  BY <1>1, <1>6, <1>7 DEF List!FiresInOrder, List!LeavesNoneDue

\* A step of the program keeps the invariant, and is one that the tick's
\* properties allow.
LEMMA ListStep ==
    ASSUME ListInv, List!Next
    PROVE  /\ ListInv'
           /\ List!FiresInOrder /\ List!LeavesNoneDue
<1>1. CASE \E t \in Timer : \E time \in List!Time : List!add_timer(t, time)
  <2>1. ~ ticking
    BY <1>1 DEF List!add_timer, List!Idle
  <2>2. QED
    BY <1>1, <2>1, AddStep DEF List!FiresInOrder, List!LeavesNoneDue
<1>2. CASE \E t \in Timer : \E time \in List!Time : List!adjust(t, time)
  <2>1. ~ ticking
    BY <1>2 DEF List!adjust, List!Idle
  <2>2. QED
    BY <1>2, <2>1, AdjustStep DEF List!FiresInOrder, List!LeavesNoneDue
<1>3. CASE \E t \in Timer : List!del_timer(t)
  <2>1. ~ ticking
    BY <1>3 DEF List!del_timer, List!Idle
  <2>2. QED
    BY <1>3, <2>1, DeleteStep DEF List!FiresInOrder, List!LeavesNoneDue
<1>4. CASE List!TickBegin
  <2>1. /\ ~ ticking /\ ticking' = TRUE /\ fired' = 0
        /\ l' = l /\ now' = now /\ emptied' = emptied /\ spoiled' = spoiled
    BY <1>4 DEF List!TickBegin, List!Idle
  <2>2. List!TypeOK'
    BY <2>1, TimeIs DEF ListInv, List!TypeOK
  <2>3. \A u \in l.live : 0 <= l.erpire[u]
    <3>1. l.live \subseteq Timer /\ l.erpire \in [Timer -> List!Time]
      BY DEF ListInv, List!TypeOK, List!Memory
    <3>2. QED
      BY <3>1, BoundAssumption DEF List!Time
  <2>4. QED
    BY <2>1, <2>2, <2>3 DEF ListInv, List!Running, List!FiresInOrder, List!LeavesNoneDue
<1>5. CASE List!TickFire
  BY <1>5, FireStep
<1>6. CASE List!TickEnd
  <2>1. /\ l.fault = "none" /\ ticking /\ ticking' = FALSE /\ fired' = 0
        /\ l.head # NULL => l.head \in l.live /\ ~ (l.erpire[l.head] <= now)
        /\ l' = l /\ now' = now /\ emptied' = emptied /\ spoiled' = spoiled
    BY <1>6 DEF List!TickEnd, List!Running, List!IsDue
  <2>2. List!TypeOK'
    BY <2>1, TimeIs DEF ListInv, List!TypeOK
  <2>3. ListInv'
    BY <2>1, <2>2 DEF ListInv, List!Running
  <2>4. ASSUME ~ spoiled, NEW u \in l.live
        PROVE  l.erpire[u] > now
    <3>1. /\ Ordered(l) /\ NULL \notin l.live /\ IsFiniteSet(l.live)
          /\ now \in Nat /\ \A v \in l.live : l.erpire[v] \in Nat
      BY <2>1, <2>4, TimerAssumption, TimeIs, FS_Subset
         DEF ListInv, List!Running, List!TypeOK, List!Memory
    <3>2. l.head # NULL /\ l.head \in l.live /\ l.erpire[l.head] <= l.erpire[u]
      BY <2>4, <3>1, FirstIsLeast
    <3>3. l.erpire[l.head] \in Nat /\ l.erpire[u] \in Nat
      BY <2>4, <3>1, <3>2
    <3>4. QED
      BY <2>1, <3>1, <3>2, <3>3
  <2>5. List!FiresInOrder /\ List!LeavesNoneDue
    BY <2>1, <2>4 DEF List!FiresInOrder, List!LeavesNoneDue
  <2>6. QED
    BY <2>3, <2>5
<1>7. CASE List!Clock
  <2>1. /\ ~ ticking /\ now < MaxTime /\ now' = now + 1
        /\ l' = l /\ ticking' = ticking /\ fired' = fired
        /\ emptied' = emptied /\ spoiled' = spoiled
    BY <1>7 DEF List!Clock, List!Idle
  <2>2. List!TypeOK'
    BY <2>1, BoundAssumption DEF ListInv, List!TypeOK, List!Time
  <2>3. QED
    BY <2>1, <2>2 DEF ListInv, List!Running, List!FiresInOrder, List!LeavesNoneDue
<1>8. QED
  BY <1>1, <1>2, <1>3, <1>4, <1>5, <1>6, <1>7 DEF List!Next

LEMMA ListInvImplies == ListInv => List!ListSound
<1>1. SUFFICES ASSUME ListInv
               PROVE  List!ListSound
  OBVIOUS
<1>2. List!TypeOK /\ List!DeletedNotFollowed
  BY <1>1 DEF ListInv, List!DeletedNotFollowed
<1>3. ASSUME List!Sound
      PROVE  /\ List!Chain = l.live
             /\ \A t \in l.live : l.next[t] # NULL =>
                  l.next[t] # t /\ l.erpire[t] <= l.erpire[l.next[t]]
             /\ \A t \in l.live : l.next[t] # NULL => l.prev[l.next[t]] \in {t, l.next[t]}
             /\ \A t \in l.live : (l.next[t] = NULL) <=> (l.tail = t)
             /\ ~ emptied => (l.head = NULL <=> l.tail = NULL)
  <2>1. /\ l \in List!Memory(List!Time) /\ Ordered(l)
        /\ l.live = {} /\ ~ emptied => l.tail = NULL
    BY <1>1, <1>3 DEF ListInv, List!TypeOK, List!Sound, List!Running
  <2>2. PICK pos : Placed(l, l.live, pos)
    BY <2>1 DEF Ordered
  <2>3. l.live \subseteq Timer /\ NULL \notin l.live
    BY <2>1, TimerAssumption DEF List!Memory
  <2>4. List!Chain = l.live
    BY <2>2, <2>3, WalkMeetsAll, SameCardinality DEF List!Chain
  <2>5. ASSUME NEW t \in l.live
        PROVE  /\ (l.next[t] = NULL) <=> (l.tail = t)
               /\ l.next[t] # NULL => /\ l.next[t] # t
                                      /\ l.erpire[t] <= l.erpire[l.next[t]]
                                      /\ l.prev[l.next[t]] \in {t, l.next[t]}
    <3>1. /\ (l.next[t] = NULL) <=> (l.tail = t)
          /\ t # l.tail => l.next[t] \in l.live \ {t} /\ pos[l.next[t]] = pos[t] + 1
      <4>1. l \in List!Memory(List!Time) /\ Placed(l, l.live, pos) /\ t \in l.live
        BY <2>1, <2>2, <2>5
      <4>2. (l.next[t] = NULL) <=> (l.tail = t)
        BY <4>1, Neighbours
      <4>3. t # l.tail => l.next[t] \in l.live \ {t} /\ pos[l.next[t]] = pos[t] + 1
        BY <4>1, Neighbours
      <4>4. QED
        BY <4>2, <4>3
    <3>2. pos[t] \in 1 .. Cardinality(l.live)
      BY <2>2, <2>5 DEF Placed
    <3>3. ASSUME l.next[t] # NULL
          PROVE  l.erpire[t] <= l.erpire[l.next[t]] /\ l.prev[l.next[t]] \in {t, l.next[t]}
      <4>1. l.next[t] \in l.live /\ pos[t] <= pos[l.next[t]]
        BY <3>1, <3>2, <3>3
      <4>2. QED
        BY <2>2, <2>5, <3>3, <4>1 DEF Placed
    <3>4. QED
      BY <3>1, <3>3
  <2>6. ~ emptied => (l.head = NULL <=> l.tail = NULL)
    BY <2>1, <2>2, <2>3 DEF Placed
  <2>7. QED
    BY <2>4, <2>5, <2>6
<1>4. List!ChainIsSorted /\ List!BackLinks
  BY <1>3 DEF List!ChainIsSorted, List!BackLinks
<1>5. QED
  BY <1>2, <1>4 DEF List!ListSound

-----------------------------------------------------------------------------
(* The list's programs.                                                   *)

Inv == program = "list" => ListInv

\* Of the list's programs, the one that the comments describe keeps the inductive
\* invariant of the list.
THEOREM Inductive == Spec => []Inv
<1>1. Init => Inv
  BY ListInit DEF Init, Inv
<1>2. Inv /\ [Next]_vars => Inv'
  <2>1. SUFFICES ASSUME Inv, [Next]_vars
                 PROVE  Inv'
    OBVIOUS
  <2>2. CASE Next
    <3>1. program' = program /\ (program = "list" => List!Next)
      BY <2>2 DEF Next, InList, InIdle, InSignal, InEcho, InStress, InConnect
    <3>2. QED
      BY <2>1, <3>1, ListStep DEF Inv
  <2>3. CASE UNCHANGED vars
    <3>1. /\ program' = program /\ l' = l /\ now' = now /\ ticking' = ticking
          /\ fired' = fired /\ emptied' = emptied /\ spoiled' = spoiled
      BY <2>3 DEF vars, timerVars, listVars
    <3>2. QED
      BY <2>1, <3>1 DEF Inv, ListInv, List!TypeOK, List!Running
  <2>4. QED
    BY <2>1, <2>2, <2>3
<1>3. QED
  BY <1>1, <1>2, PTL DEF Spec

\* The walk from the head meets every timer that was added and not deleted, in
\* the order of their times, and no deleted timer is followed, until a timer put
\* in by a search is moved or deleted.
THEOREM InOrder == Spec => []ListSound
<1>1. Inv => ListSound
  BY ListInvImplies DEF Inv, ListSound
<1>2. QED
  BY <1>1, Inductive, PTL

\* Until a timer put in by a search is moved or deleted, tick() fires in the order
\* of time, and leaves no timer that is due.
THEOREM Ticks == Spec => TicksInOrder
<1>1. Inv /\ [Next]_vars =>
        /\ [program = "list" => List!FiresInOrder]_<<l, listVars>>
        /\ [program = "list" => List!LeavesNoneDue]_<<l, listVars>>
  <2>1. SUFFICES ASSUME Inv, [Next]_vars
                 PROVE  /\ [program = "list" => List!FiresInOrder]_<<l, listVars>>
                        /\ [program = "list" => List!LeavesNoneDue]_<<l, listVars>>
    OBVIOUS
  <2>2. CASE Next
    <3>1. program = "list" => List!Next
      BY <2>2 DEF Next, InList, InIdle, InSignal, InEcho, InStress, InConnect
    <3>2. program = "list" => List!FiresInOrder /\ List!LeavesNoneDue
      BY <2>1, <3>1, ListStep DEF Inv
    <3>3. QED
      BY <3>2
  <2>3. CASE UNCHANGED vars
    BY <2>3 DEF vars, timerVars
  <2>4. QED
    BY <2>1, <2>2, <2>3
<1>2. QED
  BY <1>1, Inductive, PTL DEF Spec, TicksInOrder

-----------------------------------------------------------------------------
(* ServerTest8.  The operations of the list are the same operators there.  *)

LEMMA SameOps ==
    /\ Idle!EmptyList = List!EmptyList
    /\ \A T : Idle!Memory(T) = List!Memory(T)
    /\ \A m, t, time : Idle!New(m, t, time) = List!New(m, t, time)
    /\ \A m, t : Idle!Added(m, t) = List!Added(m, t)
    /\ \A m, t : Idle!Adjusted(m, t) = List!Adjusted(m, t)
    /\ \A m, t : Idle!Deleted(m, t) = List!Deleted(m, t)
<1>1. Idle!EmptyList = List!EmptyList
  BY DEF Idle!EmptyList, List!EmptyList
<1>2. \A T : Idle!Memory(T) = List!Memory(T)
  BY DEF Idle!Memory, List!Memory, Idle!Pointer, List!Pointer, Idle!Fault, List!Fault
<1>3. \A m, t, time : Idle!New(m, t, time) = List!New(m, t, time)
  BY DEF Idle!New, List!New
<1>4. \A m, t, b : Idle!Inserted(m, t, b) = List!Inserted(m, t, b)
  BY DEF Idle!Inserted, List!Inserted, Idle!Walk, List!Walk, Idle!StopsHere,
         List!StopsHere, Idle!Through, List!Through, Idle!Fails, List!Fails,
         Idle!LinkedBetween, List!LinkedBetween, Idle!Cardinality, List!Cardinality
<1>5. \A m, P, r : Idle!Through(m, P, r) = List!Through(m, P, r)
  BY DEF Idle!Through, List!Through, Idle!Fails, List!Fails
<1>6. \A m, t : /\ Idle!HeadTaken(m, t) = List!HeadTaken(m, t)
                /\ Idle!TailTaken(m, t) = List!TailTaken(m, t)
                /\ Idle!Unlinked(m, t) = List!Unlinked(m, t)
                /\ Idle!Freed(m, t) = List!Freed(m, t)
  BY <1>5 DEF Idle!HeadTaken, List!HeadTaken, Idle!TailTaken, List!TailTaken,
              Idle!Unlinked, List!Unlinked, Idle!Freed, List!Freed
<1>7. \A m, t : Idle!Added(m, t) = List!Added(m, t)
  BY <1>4, <1>5 DEF Idle!Added, List!Added
<1>8. \A m, t : Idle!Adjusted(m, t) = List!Adjusted(m, t)
  BY <1>4, <1>5, <1>6 DEF Idle!Adjusted, List!Adjusted
<1>9. \A m, t : Idle!Deleted(m, t) = List!Deleted(m, t)
  BY <1>5, <1>6 DEF Idle!Deleted, List!Deleted
<1>10. QED
  BY <1>1, <1>2, <1>3, <1>7, <1>8, <1>9


-----------------------------------------------------------------------------
(* The list of ServerTest8 has no timer put in by a search: its links agree *)
(* in both directions, and its times grow.                                  *)

Neighbourly(m, u) ==
    /\ m.prev[u] = NULL <=> m.head = u
    /\ m.next[u] = NULL <=> m.tail = u
    /\ m.next[u] # NULL => /\ m.next[u] \in m.live /\ m.prev[m.next[u]] = u
                           /\ m.erpire[u] < m.erpire[m.next[u]]
    /\ m.prev[u] # NULL => m.prev[u] \in m.live /\ m.next[m.prev[u]] = u

Linked(m) ==
    /\ m.head = NULL <=> m.live = {}
    /\ m.tail = NULL <=> m.live = {}
    /\ m.live # {} => m.head \in m.live /\ m.tail \in m.live
    /\ \A u \in Timer \ m.live : m.next[u] = NULL /\ m.prev[u] = NULL
    /\ \A u \in m.live : Neighbourly(m, u)

\* No timer is later than time.
NoneAfter(m, time) == \A u \in m.live : m.erpire[u] <= time

LEMMA MemoryFields ==
    ASSUME NEW T, T \subseteq Nat, NEW m \in List!Memory(T)
    PROVE  /\ m.live \subseteq Timer /\ NULL \notin m.live /\ NULL \notin Timer
           /\ \A u \in Timer : m.erpire[u] \in Nat
           /\ m.next \in [Timer -> Timer \cup {NULL}]
           /\ m.prev \in [Timer -> Timer \cup {NULL}]
           /\ m.erpire \in [Timer -> T]
BY TimerAssumption DEF List!Memory, List!Pointer

\* A head that is the tail too is the only timer: of the others the one of the least
\* time would have an earlier one before it.
LEMMA Lone ==
    ASSUME NEW T, T \subseteq Nat, NEW m \in List!Memory(T), Linked(m),
           m.head = m.tail, m.head # NULL
    PROVE  m.live = {m.head}
<1> DEFINE t == m.head
           Others == m.live \ {t}
           Times == {m.erpire[u] : u \in Others}
<1>0. /\ m.live \subseteq Timer /\ NULL \notin m.live
      /\ \A u \in Timer : m.erpire[u] \in Nat
  BY MemoryFields
<1>1. t \in m.live
  BY DEF Linked
<1>2. SUFFICES ASSUME Others # {}
               PROVE  FALSE
  BY <1>1
<1>3. Times \subseteq Nat /\ Times # {}
  BY <1>0, <1>2
<1>4. PICK e \in Times : \A k \in Times : e <= k
  <2> HIDE DEF Times
  <2> QED
    BY <1>3, Least
<1>5. PICK u \in Others : e = m.erpire[u]
  BY <1>4
<1>6. m.prev[u] # NULL /\ m.prev[u] \in m.live /\ m.next[m.prev[u]] = u
  BY <1>5 DEF Linked, Neighbourly
<1>7. m.prev[u] # t
  BY <1>0, <1>1, <1>5, <1>6 DEF Linked, Neighbourly
<1>8. m.erpire[m.prev[u]] < m.erpire[u]
  BY <1>0, <1>5, <1>6 DEF Linked, Neighbourly
<1>9. m.erpire[m.prev[u]] \in Times
  BY <1>6, <1>7
<1>10. m.erpire[m.prev[u]] \in Nat /\ m.erpire[u] \in Nat
  BY <1>0, <1>5, <1>6
<1>11. QED
  BY <1>4, <1>5, <1>8, <1>9, <1>10

\* A search for the place of a timer that is not earlier than any other runs off the
\* end of the list (line 209).
LEMMA SearchFails ==
    ASSUME NEW T, T \subseteq Nat, NEW m \in List!Memory(T), NEW t \in Timer, NEW b,
           NoneAfter(m, m.erpire[t])
    PROVE  List!Inserted(m, t, b).fault # "none"
<1> DEFINE at == List!Walk(m, b)
           stops == {n \in DOMAIN at \ {0} : List!StopsHere(m, t, at[n])}
           n == CHOOSE n \in stops : \A k \in stops : n <= k
<1>1. \A what : List!Fails(m, what).fault = what
  BY DEF List!Fails, List!Memory
<1>2. CASE stops = {}
  BY <1>1, <1>2 DEF List!Inserted
<1>3. CASE stops # {}
  <2>1. Cardinality(Timer) \in Nat
    BY TimerAssumption, FS_CardinalityType
  <2>2. stops \subseteq Nat
    BY <2>1, WalkIs
  <2>3. n \in stops
    <3> HIDE DEF stops
    <3> QED
      BY <1>3, <2>2, Least
  <2>4. at[n] \notin m.live
    <3>1. List!StopsHere(m, t, at[n])
      BY <2>3
    <3>2. m.live \subseteq Timer /\ \A u \in Timer : m.erpire[u] \in Nat
      BY MemoryFields
    <3> HIDE DEF at, n
    <3>3. QED
      BY <3>1, <3>2 DEF List!StopsHere, NoneAfter
  <2>5. List!Inserted(m, t, b) =
          List!Through(m, {at[n - 1], at[n]}, List!LinkedBetween(m, at[n - 1], t, at[n]))
    BY <1>3 DEF List!Inserted
  <2>6. List!Inserted(m, t, b) \in {List!Fails(m, "null"), List!Fails(m, "deleted")}
    BY <2>4, <2>5 DEF List!Through
  <2>7. QED
    BY <1>1, <2>6
<1>4. QED
  BY <1>2, <1>3


\* A timer that is later than all others goes to the end; one of the same time as the
\* last ends the program.
LEMMA AddedLinked ==
    ASSUME NEW T, T \subseteq Nat, NEW m \in List!Memory(T), m.fault = "none", Linked(m),
           NEW t \in Timer \ m.live, NEW time \in T, NoneAfter(m, time),
           NEW r, r = List!Added(List!New(m, t, time), t), r.fault = "none"
    PROVE  Linked(r) /\ r.live = m.live \cup {t} /\ NoneAfter(r, time)
<1> DEFINE n == List!New(m, t, time)
<1>1. /\ m.live \subseteq Timer /\ NULL \notin m.live /\ NULL \notin Timer
      /\ \A u \in Timer : m.erpire[u] \in Nat
      /\ m.next \in [Timer -> Timer \cup {NULL}] /\ m.prev \in [Timer -> Timer \cup {NULL}]
      /\ m.erpire \in [Timer -> T]
  BY MemoryFields
<1>2. /\ n \in List!Memory(T) /\ n.head = m.head /\ n.tail = m.tail /\ n.fault = "none"
      /\ n.next = m.next /\ n.prev = m.prev /\ n.live = m.live \cup {t}
      /\ n.erpire = [m.erpire EXCEPT ![t] = time]
  <2>1. n \in List!Memory(T)
    BY NewType
  <2>2. QED
    BY <2>1 DEF List!New, List!Memory
<1>3. /\ n.erpire[t] = time /\ time \in Nat
      /\ \A u \in m.live : n.erpire[u] = m.erpire[u]
  BY <1>1, <1>2
<1>4. NoneAfter(n, time)
  BY <1>2, <1>3 DEF NoneAfter
<1> HIDE DEF n
<1>5. CASE m.live = {}
  <2>1. r = [n EXCEPT !.head = t, !.tail = t]
    BY <1>2, <1>5 DEF List!Added, Linked, n
  <2>2. /\ r.head = t /\ r.tail = t /\ r.live = {t} /\ r.erpire = n.erpire
        /\ r.next = m.next /\ r.prev = m.prev
    BY <1>2, <1>5, <2>1 DEF List!Memory
  <2>3. m.next[t] = NULL /\ m.prev[t] = NULL
    BY DEF Linked
  <2>4. Linked(r)
    BY <1>1, <1>5, <2>2, <2>3 DEF Linked, Neighbourly
  <2>5. QED
    BY <1>4, <1>5, <1>2, <2>2, <2>4 DEF NoneAfter
<1>6. CASE m.live # {}
  <2> DEFINE z == m.tail
             back == [n EXCEPT !.next = [@ EXCEPT ![z] = t, ![t] = NULL],
                               !.prev[t] = z, !.tail = t]
             far == IF n.erpire[t] > n.erpire[z] THEN back ELSE List!Inserted(n, t, n.head)
  <2>1. m.head \in m.live /\ z \in m.live /\ z # t
    BY <1>6 DEF Linked
  <2>2. ~ (n.erpire[t] < n.erpire[m.head]) /\ n.erpire[z] \in Nat
    <3>1. m.erpire[m.head] \in Nat /\ m.erpire[m.head] <= time
      BY <1>1, <2>1 DEF NoneAfter
    <3>2. QED
      BY <1>1, <1>3, <2>1, <3>1
  <2>3. r = far
    BY <1>1, <1>2, <2>1, <2>2 DEF List!Added, List!Through, n
  <2>4. List!Inserted(n, t, n.head).fault # "none"
    <3>1. NoneAfter(n, n.erpire[t])
      BY <1>3, <1>4
    <3>2. QED
      BY <1>2, <3>1, SearchFails
  <2>5. n.erpire[t] > n.erpire[z] /\ r = back
    BY <2>3, <2>4
  <2>6. /\ r.head = m.head /\ r.tail = t /\ r.live = m.live \cup {t} /\ r.erpire = n.erpire
        /\ r.next = [m.next EXCEPT ![z] = t, ![t] = NULL]
        /\ r.prev = [m.prev EXCEPT ![t] = z]
    BY <1>2, <2>5 DEF List!Memory
  <2>7. /\ r.next[t] = NULL /\ r.next[z] = t /\ r.prev[t] = z
        /\ \A u \in Timer \ {t, z} : r.next[u] = m.next[u]
        /\ \A u \in Timer \ {t} : r.prev[u] = m.prev[u]
    BY <1>1, <2>1, <2>6
  <2>8. \A u \in m.live \ {z} : Neighbourly(r, u)
    <3>1. TAKE u \in m.live \ {z}
    <3>2. Neighbourly(m, u) /\ u \in Timer \ {t, z} /\ m.next[u] # NULL
      BY <1>1 DEF Linked, Neighbourly
    <3>3. m.next[u] \in m.live /\ m.prev[u] # z
      BY <1>1, <2>1, <3>2 DEF Linked, Neighbourly
    <3>4. /\ r.next[u] = m.next[u] /\ r.prev[u] = m.prev[u]
          /\ r.prev[m.next[u]] = m.prev[m.next[u]]
          /\ r.erpire[u] = m.erpire[u] /\ r.erpire[m.next[u]] = m.erpire[m.next[u]]
      BY <1>1, <1>3, <2>6, <2>7, <3>2, <3>3
    <3>5. m.prev[u] # NULL => r.next[m.prev[u]] = m.next[m.prev[u]]
      BY <1>1, <2>7, <3>2, <3>3 DEF Neighbourly
    <3>6. QED
      BY <1>1, <2>1, <2>6, <3>2, <3>3, <3>4, <3>5 DEF Neighbourly
  <2>9. Neighbourly(r, z)
    <3>1. Neighbourly(m, z) /\ m.next[z] = NULL /\ m.prev[z] # z
      BY <1>1, <2>1 DEF Linked, Neighbourly
    <3>2. r.prev[z] = m.prev[z] /\ (m.prev[z] # NULL => r.next[m.prev[z]] = z)
      BY <1>1, <2>1, <2>7, <3>1 DEF Neighbourly
    <3>3. QED
      BY <1>1, <2>1, <2>5, <2>6, <2>7, <3>1, <3>2 DEF Neighbourly
  <2>10. Neighbourly(r, t)
    BY <1>1, <2>1, <2>6, <2>7 DEF Neighbourly
  <2>11. \A u \in Timer \ r.live : r.next[u] = NULL /\ r.prev[u] = NULL
    BY <2>1, <2>6, <2>7 DEF Linked
  <2>12. Linked(r)
    BY <1>1, <2>1, <2>6, <2>8, <2>9, <2>10, <2>11 DEF Linked
  <2>13. NoneAfter(r, time)
    BY <1>2, <1>4, <2>6 DEF NoneAfter
  <2>14. QED
    BY <2>6, <2>12, <2>13
<1>7. QED
  BY <1>5, <1>6

\* A timer put off to the latest time is the last one already, or ends the program.
LEMMA PutOffLinked ==
    ASSUME NEW T, T \subseteq Nat, NEW m \in List!Memory(T), m.fault = "none", Linked(m),
           NEW t \in m.live, NEW time \in T, NoneAfter(m, time),
           NEW r, r = List!Adjusted([m EXCEPT !.erpire[t] = time], t), r.fault = "none"
    PROVE  Linked(r) /\ r.live = m.live /\ NoneAfter(r, time)
<1> DEFINE n == [m EXCEPT !.erpire[t] = time]
<1>1. /\ m.live \subseteq Timer /\ NULL \notin m.live /\ NULL \notin Timer
      /\ \A u \in Timer : m.erpire[u] \in Nat
      /\ m.next \in [Timer -> Timer \cup {NULL}] /\ m.prev \in [Timer -> Timer \cup {NULL}]
      /\ m.erpire \in [Timer -> T] /\ time \in Nat
  BY MemoryFields
<1>2. /\ n \in List!Memory(T) /\ n.head = m.head /\ n.tail = m.tail /\ n.fault = "none"
      /\ n.next = m.next /\ n.prev = m.prev /\ n.live = m.live
      /\ n.erpire = [m.erpire EXCEPT ![t] = time]
  <2>1. n \in List!Memory(T)
    BY <1>1, NewType
  <2>2. QED
    BY <2>1 DEF List!Memory
<1>3. /\ n.erpire[t] = time
      /\ \A u \in m.live \ {t} : n.erpire[u] = m.erpire[u]
  BY <1>1, <1>2
<1>4. NoneAfter(n, time)
  BY <1>1, <1>2, <1>3 DEF NoneAfter
<1>5. r = List!Adjusted(n, t)
  OBVIOUS
<1> HIDE DEF n
<1>6. CASE m.tail = t
  <2>1. r = n
    BY <1>1, <1>2, <1>5, <1>6 DEF List!Adjusted, List!Through
  <2>2. \A u \in m.live : Neighbourly(n, u)
    <3>1. TAKE u \in m.live
    <3>2. Neighbourly(m, u) /\ m.next[t] = NULL
      BY <1>6 DEF Linked, Neighbourly
    <3>3. CASE u = t
      BY <1>2, <3>2, <3>3 DEF Neighbourly
    <3>4. CASE u # t
      <4>1. m.next[u] # NULL => /\ n.erpire[u] = m.erpire[u]
                                /\ m.erpire[m.next[u]] <= n.erpire[m.next[u]]
                                /\ n.erpire[m.next[u]] \in Nat /\ n.erpire[u] \in Nat
        BY <1>1, <1>3, <3>2, <3>4 DEF Neighbourly, NoneAfter
      <4>2. m.next[u] # NULL => n.erpire[u] < n.erpire[m.next[u]]
        BY <1>1, <3>2, <4>1 DEF Neighbourly
      <4>3. QED
        BY <1>2, <3>2, <4>2 DEF Neighbourly
    <3>5. QED
      BY <3>3, <3>4
  <2>3. Linked(n)
    BY <1>2, <2>2 DEF Linked
  <2>4. QED
    BY <1>2, <1>4, <2>1, <2>3
<1>7. CASE m.tail # t
  <2> DEFINE q == m.next[t]
             out == IF t = n.head THEN List!HeadTaken(n, t) ELSE List!Unlinked(n, t)
  <2>1. q # NULL /\ q \in m.live
    BY <1>7 DEF Linked, Neighbourly
  <2>2. ~ (n.erpire[t] < n.erpire[q])
    <3>1. n.erpire[q] <= time /\ n.erpire[q] \in Nat
      BY <1>1, <1>2, <1>3, <1>4, <2>1 DEF NoneAfter
    <3>2. QED
      BY <1>1, <1>3, <3>1
  <2>3. r = IF out.fault # "none" THEN out ELSE List!Inserted(out, t, q)
    BY <1>1, <1>2, <1>5, <1>7, <2>1, <2>2 DEF List!Adjusted, List!Through
  <2>4. out \in List!Memory(T)
    BY <1>1, <1>2, OffType
  <2>5. out.live = n.live /\ out.erpire = n.erpire
    BY <1>2 DEF List!HeadTaken, List!Unlinked, List!Through, List!Fails, List!Memory
  <2>6. List!Inserted(out, t, q).fault # "none"
    <3>1. NoneAfter(out, out.erpire[t])
      BY <1>3, <1>4, <2>5 DEF NoneAfter
    <3> HIDE DEF out
    <3>2. QED
      BY <1>1, <2>4, <3>1, SearchFails
  <2>7. QED
    BY <2>3, <2>6
<1>8. QED
  BY <1>6, <1>7


\* r is m without t, whose neighbours are linked to each other.
Without(m, t, r) ==
    /\ r.live = m.live \ {t}
    /\ r.head = (IF m.head = t THEN m.next[t] ELSE m.head)
    /\ r.tail = (IF m.tail = t THEN m.prev[t] ELSE m.tail)
    /\ \A u \in m.live \ {t} :
         /\ r.next[u] = (IF m.next[u] = t THEN m.next[t] ELSE m.next[u])
         /\ r.prev[u] = (IF m.prev[u] = t THEN m.prev[t] ELSE m.prev[u])
         /\ r.erpire[u] = m.erpire[u]
    /\ \A u \in Timer \ r.live : r.next[u] = NULL /\ r.prev[u] = NULL

LEMMA WithoutLinked ==
    ASSUME NEW T, T \subseteq Nat, NEW m \in List!Memory(T), Linked(m),
           NEW t \in m.live, NEW r, Without(m, t, r)
    PROVE  Linked(r)
<1>1. /\ m.live \subseteq Timer /\ NULL \notin m.live /\ NULL \notin Timer
      /\ \A u \in Timer : m.erpire[u] \in Nat
  BY MemoryFields
<1>2. Neighbourly(m, t) /\ \A u \in m.live : Neighbourly(m, u)
  BY DEF Linked
<1>3. m.next[t] # t /\ m.prev[t] # t
  BY <1>1, <1>2 DEF Neighbourly
<1>4. \A u \in m.live : /\ m.next[u] = t <=> m.prev[t] = u
                        /\ m.prev[u] = t <=> m.next[t] = u
  BY <1>1, <1>2 DEF Neighbourly
<1>5. ASSUME NEW u \in m.live \ {t}
      PROVE  Neighbourly(r, u)
  <2>1. Neighbourly(m, u)
    BY <1>2
  <2>2. /\ r.next[u] = (IF m.next[u] = t THEN m.next[t] ELSE m.next[u])
        /\ r.prev[u] = (IF m.prev[u] = t THEN m.prev[t] ELSE m.prev[u])
        /\ r.erpire[u] = m.erpire[u]
    BY DEF Without
  <2>3. r.prev[u] = NULL <=> r.head = u
    BY <1>1, <1>2, <1>4, <2>1, <2>2 DEF Without, Neighbourly
  <2>4. r.next[u] = NULL <=> r.tail = u
    BY <1>1, <1>2, <1>4, <2>1, <2>2 DEF Without, Neighbourly
  <2>5. r.next[u] # NULL => /\ r.next[u] \in r.live /\ r.prev[r.next[u]] = u
                            /\ r.erpire[u] < r.erpire[r.next[u]]
    <3>1. SUFFICES ASSUME r.next[u] # NULL
                   PROVE  /\ r.next[u] \in r.live /\ r.prev[r.next[u]] = u
                          /\ r.erpire[u] < r.erpire[r.next[u]]
      OBVIOUS
    <3>2. CASE m.next[u] = t
      <4> DEFINE q == m.next[t]
      <4>1. r.next[u] = q /\ q # NULL /\ q \in m.live \ {t} /\ m.prev[q] = t /\ m.prev[t] = u
        BY <1>2, <1>3, <1>4, <2>2, <3>1, <3>2 DEF Neighbourly
      <4>2. r.prev[q] = u /\ r.erpire[q] = m.erpire[q]
        BY <4>1 DEF Without
      <4>3. m.erpire[u] < m.erpire[t] /\ m.erpire[t] < m.erpire[q]
        BY <1>1, <1>2, <2>1, <3>2, <4>1 DEF Neighbourly
      <4>4. m.erpire[u] \in Nat /\ m.erpire[t] \in Nat /\ m.erpire[q] \in Nat
        BY <1>1, <4>1
      <4>5. QED
        BY <2>2, <4>1, <4>2, <4>3, <4>4 DEF Without
    <3>3. CASE m.next[u] # t
      <4> DEFINE q == m.next[u]
      <4>1. r.next[u] = q /\ q \in m.live \ {t} /\ m.prev[q] = u /\ m.erpire[u] < m.erpire[q]
        BY <2>1, <2>2, <3>1, <3>3 DEF Neighbourly
      <4>2. r.prev[q] = u /\ r.erpire[q] = m.erpire[q]
        BY <4>1 DEF Without
      <4>3. QED
        BY <2>2, <4>1, <4>2 DEF Without
    <3>4. QED
      BY <3>2, <3>3
  <2>6. r.prev[u] # NULL => r.prev[u] \in r.live /\ r.next[r.prev[u]] = u
    <3>1. SUFFICES ASSUME r.prev[u] # NULL
                   PROVE  r.prev[u] \in r.live /\ r.next[r.prev[u]] = u
      OBVIOUS
    <3>2. CASE m.prev[u] = t
      <4>1. /\ r.prev[u] = m.prev[t] /\ m.prev[t] \in m.live \ {t} /\ m.next[m.prev[t]] = t
            /\ m.next[t] = u
        BY <1>2, <1>3, <1>4, <2>2, <3>1, <3>2 DEF Neighbourly
      <4>2. QED
        BY <4>1 DEF Without
    <3>3. CASE m.prev[u] # t
      <4>1. r.prev[u] = m.prev[u] /\ m.prev[u] \in m.live \ {t} /\ m.next[m.prev[u]] = u
        BY <2>1, <2>2, <3>1, <3>3 DEF Neighbourly
      <4>2. QED
        BY <4>1 DEF Without
    <3>4. QED
      BY <3>2, <3>3
  <2>7. QED
    BY <2>3, <2>4, <2>5, <2>6 DEF Neighbourly
<1>6. r.live # {} => r.head \in r.live /\ r.tail \in r.live
  <2>1. SUFFICES ASSUME m.live # {t}
                 PROVE  r.head \in r.live /\ r.tail \in r.live
    BY DEF Without
  <2>2. m.head # m.tail /\ m.head \in m.live /\ m.tail \in m.live
    BY <1>1, <2>1, Lone DEF Linked
  <2>3. r.head \in r.live
    BY <1>2, <1>3, <2>2 DEF Without, Neighbourly
  <2>4. r.tail \in r.live
    BY <1>2, <1>3, <2>2 DEF Without, Neighbourly
  <2>5. QED
    BY <2>3, <2>4
<1>7. r.live = {} => r.head = NULL /\ r.tail = NULL
  <2>1. SUFFICES ASSUME m.live = {t}
                 PROVE  r.head = NULL /\ r.tail = NULL
    BY DEF Without
  <2>2. m.head = t /\ m.tail = t
    BY <2>1 DEF Linked
  <2>3. m.next[t] = NULL /\ m.prev[t] = NULL
    BY <1>2, <2>2 DEF Neighbourly
  <2>4. QED
    BY <2>2, <2>3 DEF Without
<1>8. \A u \in r.live : Neighbourly(r, u)
  BY <1>5 DEF Without
<1>9. NULL \notin r.live /\ \A u \in Timer \ r.live : r.next[u] = NULL /\ r.prev[u] = NULL
  BY <1>1 DEF Without
<1>10. QED
  BY <1>6, <1>7, <1>8, <1>9 DEF Linked

\* What del_timer() does to the list before it frees the timer, in each of its cases.
TakesOut(m, t, o) ==
    /\ o.fault = "none"
    /\ o = [m EXCEPT !.head = o.head, !.tail = o.tail, !.next = o.next, !.prev = o.prev]
    /\ o.next \in [Timer -> Timer \cup {NULL}] /\ o.prev \in [Timer -> Timer \cup {NULL}]
    /\ o.head = (IF m.head = t THEN m.next[t] ELSE m.head)
    /\ o.tail = (IF m.tail = t THEN m.prev[t] ELSE m.tail)
    /\ \A u \in Timer \ {t} :
         /\ o.next[u] = (IF u = m.prev[t] THEN m.next[t] ELSE m.next[u])
         /\ o.prev[u] = (IF u = m.next[t] THEN m.prev[t] ELSE m.prev[u])

\* del_timer() takes a timer out of such a list, wherever it is.
LEMMA DeletedLinked ==
    ASSUME NEW T, T \subseteq Nat, NEW m \in List!Memory(T), m.fault = "none", Linked(m),
           NEW t \in m.live, NEW r, r = List!Deleted(m, t)
    PROVE  r.fault = "none" /\ Without(m, t, r)
<1>1. /\ m.live \subseteq Timer /\ NULL \notin m.live /\ NULL \notin Timer
      /\ \A u \in Timer : m.erpire[u] \in Nat
      /\ m.next \in [Timer -> Timer \cup {NULL}] /\ m.prev \in [Timer -> Timer \cup {NULL}]
      /\ m.erpire \in [Timer -> T]
  BY MemoryFields
<1>2. Neighbourly(m, t) /\ \A u \in m.live : Neighbourly(m, u)
  BY DEF Linked
<1>3. \A u \in m.live : /\ m.next[u] = t <=> m.prev[t] = u
                        /\ m.prev[u] = t <=> m.next[t] = u
  BY <1>1, <1>2 DEF Neighbourly
<1>4. m.next[t] # t /\ m.prev[t] # t
  BY <1>1, <1>2 DEF Neighbourly
<1> DEFINE out == CASE t = m.head /\ t = m.tail -> [m EXCEPT !.head = NULL, !.tail = NULL]
                    [] t = m.head /\ t # m.tail -> List!HeadTaken(m, t)
                    [] t # m.head /\ t = m.tail -> List!TailTaken(m, t)
                    [] OTHER -> List!Unlinked(m, t)
           p == m.prev[t]
           q == m.next[t]
<1>5. r = IF out.fault # "none" THEN out ELSE List!Freed(out, t)
  BY <1>1 DEF List!Deleted, List!Through
\* What is freed afterwards is t alone.
<1>6. ASSUME NEW o, out = o, TakesOut(m, t, o)
      PROVE  r.fault = "none" /\ Without(m, t, r)
  <2>1. r = List!Freed(o, t)
    BY <1>5, <1>6 DEF TakesOut
  <2>2. o.live = m.live /\ o.erpire = m.erpire /\ o.fault = "none"
    BY <1>6 DEF List!Memory, TakesOut
  <2>3. /\ r.live = m.live \ {t} /\ r.head = o.head /\ r.tail = o.tail /\ r.fault = "none"
        /\ r.next = [o.next EXCEPT ![t] = NULL] /\ r.prev = [o.prev EXCEPT ![t] = NULL]
        /\ r.erpire = [m.erpire EXCEPT ![t] = 0]
    BY <1>6, <2>1, <2>2 DEF List!Freed, List!Memory, TakesOut
  <2>4. /\ r.next[t] = NULL /\ r.prev[t] = NULL
        /\ \A u \in Timer \ {t} : /\ r.next[u] = o.next[u] /\ r.prev[u] = o.prev[u]
                                  /\ r.erpire[u] = m.erpire[u]
    BY <1>1, <1>6, <2>3 DEF TakesOut
  <2>5. \A u \in m.live \ {t} :
          /\ r.next[u] = (IF m.next[u] = t THEN m.next[t] ELSE m.next[u])
          /\ r.prev[u] = (IF m.prev[u] = t THEN m.prev[t] ELSE m.prev[u])
          /\ r.erpire[u] = m.erpire[u]
    BY <1>1, <1>3, <1>6, <2>4 DEF TakesOut
  <2>6. \A u \in Timer \ r.live : r.next[u] = NULL /\ r.prev[u] = NULL
    <3>1. TAKE u \in Timer \ r.live
    <3>2. CASE u = t
      BY <2>4, <3>2
    <3>3. CASE u # t
      <4>1. u \notin m.live /\ m.next[u] = NULL /\ m.prev[u] = NULL
        BY <2>3, <3>3 DEF Linked
      <4>2. u # p /\ u # q
        BY <1>1, <1>2, <4>1 DEF Neighbourly
      <4>3. QED
        BY <1>6, <2>4, <3>3, <4>1, <4>2 DEF TakesOut
    <3>4. QED
      BY <3>2, <3>3
  <2>7. QED
    BY <1>6, <2>3, <2>5, <2>6 DEF Without, TakesOut
<1>7. CASE t = m.head /\ t = m.tail
  <2> DEFINE o == [m EXCEPT !.head = NULL, !.tail = NULL]
  <2>1. p = NULL /\ q = NULL
    BY <1>2, <1>7 DEF Neighbourly
  <2>2. out = o
    BY <1>7
  <2>3. /\ o.head = NULL /\ o.tail = NULL /\ o.next = m.next /\ o.prev = m.prev
        /\ o.fault = "none"
        /\ o = [m EXCEPT !.head = o.head, !.tail = o.tail, !.next = o.next, !.prev = o.prev]
    BY DEF List!Memory
  <2> HIDE DEF o
  <2>4. /\ o.next \in [Timer -> Timer \cup {NULL}] /\ o.prev \in [Timer -> Timer \cup {NULL}]
        /\ \A u \in Timer \ {t} :
             /\ o.next[u] = (IF u = p THEN q ELSE m.next[u])
             /\ o.prev[u] = (IF u = q THEN p ELSE m.prev[u])
    BY <1>1, <2>1, <2>3
  <2>5. TakesOut(m, t, o)
    BY <1>7, <2>1, <2>3, <2>4 DEF TakesOut
  <2> HIDE DEF out
  <2>6. QED
    BY <1>6, <2>2, <2>5
<1>8. CASE t = m.head /\ t # m.tail
  <2> DEFINE o == [m EXCEPT !.head = q, !.prev[q] = NULL, !.next[t] = NULL]
  <2>1. p = NULL /\ q \in m.live
    BY <1>2, <1>8 DEF Neighbourly
  <2>2. out = o
    BY <1>1, <1>8, <2>1 DEF List!HeadTaken, List!Through
  <2>3. /\ o.head = q /\ o.tail = m.tail /\ o.fault = "none"
        /\ o.next = [m.next EXCEPT ![t] = NULL] /\ o.prev = [m.prev EXCEPT ![q] = NULL]
        /\ o = [m EXCEPT !.head = o.head, !.tail = o.tail, !.next = o.next, !.prev = o.prev]
    BY DEF List!Memory
  <2> HIDE DEF o
  <2>4. /\ o.next \in [Timer -> Timer \cup {NULL}] /\ o.prev \in [Timer -> Timer \cup {NULL}]
        /\ \A u \in Timer \ {t} :
             /\ o.next[u] = (IF u = p THEN q ELSE m.next[u])
             /\ o.prev[u] = (IF u = q THEN p ELSE m.prev[u])
    BY <1>1, <2>1, <2>3
  <2>5. TakesOut(m, t, o)
    BY <1>1, <1>8, <2>1, <2>3, <2>4 DEF TakesOut
  <2> HIDE DEF out
  <2>6. QED
    BY <1>6, <2>2, <2>5
<1>9. CASE t # m.head /\ t = m.tail
  <2> DEFINE o == [m EXCEPT !.tail = p, !.next[p] = NULL, !.prev[t] = NULL]
  <2>1. q = NULL /\ p \in m.live
    BY <1>2, <1>9 DEF Neighbourly
  <2>2. out = o
    BY <1>1, <1>9, <2>1 DEF List!TailTaken, List!Through
  <2>3. /\ o.head = m.head /\ o.tail = p /\ o.fault = "none"
        /\ o.next = [m.next EXCEPT ![p] = NULL] /\ o.prev = [m.prev EXCEPT ![t] = NULL]
        /\ o = [m EXCEPT !.head = o.head, !.tail = o.tail, !.next = o.next, !.prev = o.prev]
    BY DEF List!Memory
  <2> HIDE DEF o
  <2>4. /\ o.next \in [Timer -> Timer \cup {NULL}] /\ o.prev \in [Timer -> Timer \cup {NULL}]
        /\ \A u \in Timer \ {t} :
             /\ o.next[u] = (IF u = p THEN q ELSE m.next[u])
             /\ o.prev[u] = (IF u = q THEN p ELSE m.prev[u])
    BY <1>1, <2>1, <2>3
  <2>5. TakesOut(m, t, o)
    BY <1>1, <1>9, <2>1, <2>3, <2>4 DEF TakesOut
  <2> HIDE DEF out
  <2>6. QED
    BY <1>6, <2>2, <2>5
<1>10. CASE t # m.head /\ t # m.tail
  <2> DEFINE o == [m EXCEPT !.next[p] = q, !.prev[q] = p]
  <2>1. q \in m.live /\ p \in m.live
    BY <1>2, <1>10 DEF Neighbourly
  <2>2. out = o
    BY <1>1, <1>10, <2>1 DEF List!Unlinked, List!Through
  <2>3. /\ o.head = m.head /\ o.tail = m.tail /\ o.fault = "none"
        /\ o.next = [m.next EXCEPT ![p] = q] /\ o.prev = [m.prev EXCEPT ![q] = p]
        /\ o = [m EXCEPT !.head = o.head, !.tail = o.tail, !.next = o.next, !.prev = o.prev]
    BY DEF List!Memory
  <2> HIDE DEF o
  <2>4. /\ o.next \in [Timer -> Timer \cup {NULL}] /\ o.prev \in [Timer -> Timer \cup {NULL}]
        /\ \A u \in Timer \ {t} :
             /\ o.next[u] = (IF u = p THEN q ELSE m.next[u])
             /\ o.prev[u] = (IF u = q THEN p ELSE m.prev[u])
    BY <1>1, <2>1, <2>3
  <2>5. TakesOut(m, t, o)
    BY <1>1, <1>10, <2>1, <2>3, <2>4 DEF TakesOut
  <2> HIDE DEF out
  <2>6. QED
    BY <1>6, <2>2, <2>5
<1>11. QED
  BY <1>7, <1>8, <1>9, <1>10

-----------------------------------------------------------------------------
(* The server around the list.                                             *)

\* The timers of the connections O, one for each, are the list.
Fits(m, f, O) ==
    /\ m.live = {f[fd] : fd \in O}
    /\ \A fd1, fd2 \in O : f[fd1] = f[fd2] => fd1 = fd2

\* There is a free descriptor for every connection that waits: the clients open
\* no more than there are descriptors.
Counted ==
    /\ \A k \in DOMAIN backlog : backlog[k].open
    /\ Cardinality(Idle!Open) + Len(backlog) <= arrived

\* The connections that still have the timer they were given.
Timed == Idle!Open \ deprived

\* A server that runs met no fault, and its list is that of those connections.
Listed ==
    /\ deprived \subseteq Idle!Open
    /\ Idle!Running =>
         /\ l.fault = "none"
         /\ Linked(l) /\ NoneAfter(l, Idle!Deadline) /\ Fits(l, timer, Timed)

IdleInv == Idle!TypeOK /\ Counted /\ Listed

Bound == Idle!Max({Room} \cup {MaxClients + 2})

LEMMA BoundIs == Bound \in Nat /\ Bound >= Room /\ Bound >= MaxClients + 2
<1>1. Room \in Nat /\ MaxClients + 2 \in Nat
  BY BoundAssumption
<1>2. Bound = CHOOSE x \in {Room, MaxClients + 2} : \A y \in {Room, MaxClients + 2} : x >= y
  <2>1. {Room} \cup {MaxClients + 2} = {Room, MaxClients + 2}
    OBVIOUS
  <2>2. QED
    BY <2>1 DEF Bound, Idle!Max
<1>3. \E x \in {Room, MaxClients + 2} : \A y \in {Room, MaxClients + 2} : x >= y
  BY <1>1
<1>4. QED
  BY <1>1, <1>2, <1>3

LEMMA IdleTimes ==
    /\ Idle!Time \subseteq Nat /\ 0 \in Idle!Time
    /\ Idle!TypeOK => Idle!Deadline \in Idle!Time
BY BoundAssumption DEF Idle!Time, Idle!TypeOK, Idle!Deadline

LEMMA Sources ==
    /\ IsFiniteSet(Idle!Source) /\ Cardinality(Idle!Source) <= MaxClients + 2
    /\ IsFiniteSet(Idle!Fd) /\ Cardinality(Idle!Fd) = MaxClients
    /\ Idle!Fd \subseteq Int /\ Idle!Fd \subseteq Idle!Source
    /\ Idle!lfd \in Idle!Source /\ Idle!pipe \in Idle!Source
<1>1. MaxClients \in Nat
  BY BoundAssumption
<1>2. /\ IsFiniteSet(1 .. 2 + MaxClients) /\ Cardinality(1 .. 2 + MaxClients) = 2 + MaxClients
      /\ IsFiniteSet(3 .. 2 + MaxClients) /\ Cardinality(3 .. 2 + MaxClients) = MaxClients
  BY <1>1, FS_Interval
<1>3. Idle!Source \subseteq 1 .. 2 + MaxClients
  BY <1>1 DEF Idle!Source, Idle!lfd, Idle!pipe, Idle!Fd
<1>4. IsFiniteSet(Idle!Source) /\ Cardinality(Idle!Source) <= MaxClients + 2
  <2>1. /\ IsFiniteSet(Idle!Source)
        /\ Cardinality(Idle!Source) <= Cardinality(1 .. 2 + MaxClients)
    BY <1>2, <1>3, FS_Subset
  <2>2. QED
    BY <1>1, <1>2, <2>1, FS_CardinalityType
<1>5. QED
  BY <1>1, <1>2, <1>4 DEF Idle!Source, Idle!Fd

\* The batch that epoll_wait() returns has every descriptor at most once.
LEMMA Batch ==
    ASSUME NEW S, S \subseteq Idle!Source, NEW polled \in Idle!SetToSeqs(S)
    PROVE  polled \in Seq(Idle!Source) /\ Len(polled) \in Nat /\ Len(polled) <= MaxClients + 2
<1>1. IsFiniteSet(S) /\ Cardinality(S) <= MaxClients + 2 /\ Cardinality(S) \in Nat
  <2>1. /\ IsFiniteSet(S) /\ Cardinality(S) <= Cardinality(Idle!Source)
        /\ Cardinality(S) \in Nat /\ Cardinality(Idle!Source) \in Nat
    BY Sources, FS_Subset, FS_CardinalityType
  <2>2. QED
    BY <2>1, Sources, BoundAssumption
<1>2. Idle!Cardinality(S) = Cardinality(S)
  BY DEF Idle!Cardinality, Cardinality
<1>3. polled \in [1 .. Cardinality(S) -> S]
  BY <1>2 DEF Idle!SetToSeqs
<1>4. QED
  BY <1>1, <1>3

\* An iteration that does not end the program met no fault.
LEMMA Iteration ==
    ASSUME Idle!TypeOK, NEW m \in Idle!Memory(Idle!Time), NEW n \in -1 .. Bound,
           Idle!Goes(m, n)
    PROVE  /\ l' = m /\ epet' = epet /\ i' \in Nat /\ ret' \in -1 .. Bound
           /\ pc' \in {"wait", "round", "crashed", "undefined"}
           /\ Idle!Running' => m.fault = "none"
<1>0. 0 \in -1 .. Bound
  BY BoundIs
<1>1. m.fault \in {"none", "null", "deleted", "endless"}
  BY DEF Idle!Memory, Idle!Fault
<1>2. QED
  BY <1>0, <1>1 DEF Idle!Goes, Idle!TypeOK, Idle!Running

LEMMA IdleInit == Idle!Init => IdleInv
<1>1. SUFFICES ASSUME Idle!Init
               PROVE  IdleInv
  OBVIOUS
<1>2. /\ MaxTime \in Nat /\ MaxSent \in Nat /\ MaxClients \in Nat /\ Bound \in Nat
      /\ 0 \in Idle!Time
  BY BoundAssumption, BoundIs, IdleTimes
<1>3. Idle!EmptyList \in Idle!Memory(Idle!Time)
  BY <1>2 DEF Idle!EmptyList, Idle!Memory, Idle!Pointer, Idle!Fault
<1>4. Idle!TypeOK
  <2>1. epet \in Seq(Idle!Source) /\ backlog \in Seq(Idle!Socket)
    BY <1>1, EmptySeq DEF Idle!Init
  <2>2. timer \in [Idle!Fd -> Idle!Pointer] /\ sock \in [Idle!Fd -> Idle!Socket]
    BY <1>1 DEF Idle!Init, Idle!Pointer, Idle!Socket, Idle!Fresh
  <2>3. ret \in -1 .. Bound
    BY <1>1, <1>2 DEF Idle!Init
  <2>4. /\ pc = "wait" /\ l \in Idle!Memory(Idle!Time) /\ i \in Nat
        /\ ready \subseteq Idle!Source /\ signals \in BOOLEAN /\ deprived \subseteq Idle!Fd
        /\ now \in 0 .. MaxTime /\ arrived \in 0 .. MaxClients /\ sent \in 0 .. MaxSent
    <3>1. /\ pc = "wait" /\ l = Idle!EmptyList /\ i = 0 /\ ready = {}
          /\ signals = FALSE /\ deprived = {} /\ now = 0 /\ arrived = 0 /\ sent = 0
      BY <1>1, Zenon DEF Idle!Init
    <3>2. l \in Idle!Memory(Idle!Time) /\ ready \subseteq Idle!Source
      BY <1>3, <3>1
    <3>3. /\ i \in Nat /\ now \in 0 .. MaxTime /\ arrived \in 0 .. MaxClients
          /\ sent \in 0 .. MaxSent
      BY <1>2, <3>1
    <3>4. signals \in BOOLEAN /\ deprived \subseteq Idle!Fd
      BY <3>1
    <3>5. QED
      BY <3>1, <3>2, <3>3, <3>4, Zenon
  <2>5. QED
    BY <2>1, <2>2, <2>3, <2>4 DEF Idle!TypeOK, Bound
<1>5. Idle!Open = {}
  BY <1>1 DEF Idle!Init, Idle!Open, Idle!Fresh
<1>6. Counted
  BY <1>1, <1>5, FS_EmptySet DEF Idle!Init, Counted
<1>7. Listed
  BY <1>1, <1>5 DEF Idle!Init, Listed, Timed, Idle!EmptyList, Linked, NoneAfter, Fits
<1>8. QED
  BY <1>4, <1>6, <1>7 DEF IdleInv

\* A step of which the list and the connections know nothing.
LEMMA Aside ==
    ASSUME IdleInv, Idle!TypeOK', Idle!Running' => Idle!Running, l' = l, timer' = timer,
           sock' = sock, backlog' = backlog, now' = now, arrived' = arrived, deprived' = deprived
    PROVE  IdleInv'
<1>1. Idle!Open' = Idle!Open
  BY DEF Idle!Open
<1>2. Counted'
  BY <1>1 DEF IdleInv, Counted
<1>3. Listed'
  BY <1>1 DEF IdleInv, Listed, Timed, Idle!Deadline
<1>4. QED
  BY <1>2, <1>3 DEF IdleInv

LEMMA WaitStep == IdleInv /\ Idle!epoll_wait => IdleInv'
<1>1. SUFFICES ASSUME IdleInv, Idle!epoll_wait
               PROVE  IdleInv'
  OBVIOUS
<1>2. Idle!TypeOK
  BY <1>1 DEF IdleInv
<1> DEFINE S == {s \in ready : Idle!Readable(s)}
<1>3. S \subseteq Idle!Source /\ epet \in Seq(Idle!Source)
  BY <1>2 DEF Idle!TypeOK
<1>4. PICK polled \in Idle!SetToSeqs(S) :
        /\ epet' = polled \o SubSeq(epet, Len(polled) + 1, Len(epet))
        /\ ret' = Len(polled)
  BY <1>1 DEF Idle!epoll_wait
<1>5. polled \in Seq(Idle!Source) /\ Len(polled) \in Nat /\ Len(polled) <= MaxClients + 2
  <2> HIDE DEF S
  <2> QED
    BY <1>3, <1>4, Batch
<1>6. epet' \in Seq(Idle!Source)
  <2>1. SubSeq(epet, Len(polled) + 1, Len(epet)) \in Seq(Idle!Source)
    <3>1. \A n \in Len(polled) + 1 .. Len(epet) : epet[n] \in Idle!Source
      BY <1>3, <1>5, ElementOfSeq
    <3>2. Len(polled) + 1 \in Int /\ Len(epet) \in Int
      BY <1>3, <1>5
    <3>3. QED
      BY <3>1, <3>2, SubSeqProperties
  <2>2. QED
    BY <1>4, <1>5, <2>1, ConcatProperties
<1>7. ret' \in -1 .. Bound
  BY <1>4, <1>5, BoundIs, BoundAssumption
<1>8. /\ pc' = "round" /\ pc = "wait" /\ i' = 0 /\ ready' = {}
      /\ UNCHANGED <<l, timer, sock, backlog, signals, now, arrived, sent, deprived>>
  BY <1>1 DEF Idle!epoll_wait
<1>9. Idle!TypeOK'
  BY <1>2, <1>6, <1>7, <1>8 DEF Idle!TypeOK, Bound
<1>10. QED
  BY <1>1, <1>8, <1>9, Aside DEF Idle!Running

LEMMA NoneStep == IdleInv /\ Idle!AcceptNone => IdleInv'
<1>1. SUFFICES ASSUME IdleInv, Idle!AcceptNone
               PROVE  IdleInv'
  OBVIOUS
<1>2. /\ pc' = "wait" /\ pc = "round" /\ i' = 0 /\ ret' = 0
      /\ UNCHANGED <<l, timer, epet, deprived,
                     ready, sock, backlog, signals, now, arrived, sent>>
  BY <1>1 DEF Idle!AcceptNone, Idle!At
<1>3. Idle!TypeOK'
  <2>1. 0 \in -1 .. Bound
    BY BoundIs
  <2>2. QED
    BY <1>1, <1>2, <2>1 DEF IdleInv, Idle!TypeOK, Bound
<1>4. QED
  BY <1>1, <1>2, <1>3, Aside DEF Idle!Running

LEMMA PipeStep == IdleInv /\ Idle!PipeAsConnection => IdleInv'
<1>1. SUFFICES ASSUME IdleInv, Idle!PipeAsConnection
               PROVE  IdleInv'
  OBVIOUS
<1>2. /\ pc = "round"
      /\ UNCHANGED <<timer, deprived, ready, sock, backlog, now, arrived, sent>>
  BY <1>1 DEF Idle!PipeAsConnection, Idle!At
<1>3. Idle!TypeOK /\ l \in Idle!Memory(Idle!Time) /\ -1 \in -1 .. Bound
  BY <1>1, BoundIs DEF IdleInv, Idle!TypeOK
<1>4. CASE signals
  <2>1. pc' = "crashed" /\ signals' = FALSE /\ UNCHANGED <<l, epet, i, ret>>
    BY <1>1, <1>4 DEF Idle!PipeAsConnection
  <2>2. Idle!TypeOK'
    BY <1>2, <1>3, <2>1 DEF Idle!TypeOK
  <2>3. QED
    BY <1>1, <1>2, <2>1, <2>2, Aside DEF Idle!Running
<1>5. CASE ~ signals
  <2>1. Idle!Goes(l, -1) /\ signals' = signals
    BY <1>1, <1>5 DEF Idle!PipeAsConnection
  <2>2. /\ l' = l /\ epet' = epet /\ i' \in Nat /\ ret' \in -1 .. Bound
        /\ pc' \in {"wait", "round", "crashed", "undefined"}
    BY <1>3, <2>1, Iteration
  <2>3. Idle!TypeOK'
    BY <1>2, <1>3, <2>1, <2>2 DEF Idle!TypeOK, Bound
  <2>4. QED
    BY <1>1, <1>2, <2>2, <2>3, Aside DEF Idle!Running
<1>6. QED
  BY <1>4, <1>5

LEMMA UnwrittenStep == IdleInv /\ Idle!Unwritten => IdleInv'
<1>1. SUFFICES ASSUME IdleInv, Idle!Unwritten
               PROVE  IdleInv'
  OBVIOUS
<1>2. /\ pc = "round"
      /\ UNCHANGED <<timer, deprived, ready, sock, backlog, signals, now, arrived, sent>>
  BY <1>1 DEF Idle!Unwritten
<1>3. Idle!TypeOK /\ l \in Idle!Memory(Idle!Time) /\ ret \in -1 .. Bound
  BY <1>1 DEF IdleInv, Idle!TypeOK, Bound
<1>4. CASE pc' = "undefined" /\ UNCHANGED <<l, epet, i, ret>>
  <2>1. Idle!TypeOK'
    BY <1>2, <1>3, <1>4 DEF Idle!TypeOK
  <2>2. QED
    BY <1>1, <1>2, <1>4, <2>1, Aside DEF Idle!Running
<1>5. CASE Idle!Goes(l, ret)
  <2>1. /\ l' = l /\ epet' = epet /\ i' \in Nat /\ ret' \in -1 .. Bound
        /\ pc' \in {"wait", "round", "crashed", "undefined"}
    BY <1>3, <1>5, Iteration
  <2>2. Idle!TypeOK'
    BY <1>2, <1>3, <2>1 DEF Idle!TypeOK, Bound
  <2>3. QED
    BY <1>1, <1>2, <2>1, <2>2, Aside DEF Idle!Running
<1>6. QED
  BY <1>1, <1>4, <1>5 DEF Idle!Unwritten

LEMMA ConnectStep == IdleInv /\ Idle!Connect => IdleInv'
<1>1. SUFFICES ASSUME IdleInv, Idle!Connect
               PROVE  IdleInv'
  OBVIOUS
<1> DEFINE new == [Idle!Fresh EXCEPT !.open = TRUE]
<1>2. /\ arrived < MaxClients /\ arrived' = arrived + 1
      /\ backlog' = Append(backlog, new) /\ ready' = ready \cup {Idle!lfd}
      /\ UNCHANGED <<pc, l, timer, epet, i, ret, deprived, sock, signals, now, sent>>
  BY <1>1 DEF Idle!Connect, Idle!serverVars
<1>3. new \in Idle!Socket /\ new.open
  BY DEF Idle!Fresh, Idle!Socket
<1>4. Idle!TypeOK /\ Counted /\ Listed /\ backlog \in Seq(Idle!Socket)
  BY <1>1 DEF IdleInv, Idle!TypeOK
<1> HIDE DEF new
<1>5. /\ backlog' \in Seq(Idle!Socket) /\ Len(backlog') = Len(backlog) + 1
      /\ \A k \in 1 .. Len(backlog) : backlog'[k] = backlog[k]
      /\ backlog'[Len(backlog) + 1] = new
  BY <1>2, <1>3, <1>4, AppendProperties
<1>6. Idle!TypeOK'
  <2>1. arrived' \in 0 .. MaxClients /\ ready' \subseteq Idle!Source
    BY <1>2, <1>4, Sources, BoundAssumption DEF Idle!TypeOK
  <2>2. QED
    BY <1>2, <1>4, <1>5, <2>1 DEF Idle!TypeOK
<1>7. Idle!Open' = Idle!Open
  BY <1>2 DEF Idle!Open
<1>8. Counted'
  <2>1. \A k \in DOMAIN backlog' : backlog'[k].open
    <3>1. TAKE k \in DOMAIN backlog'
    <3>2. k \in 1 .. Len(backlog) + 1 /\ Len(backlog) \in Nat
      BY <1>4, <1>5
    <3>3. QED
      BY <1>3, <1>4, <1>5, <3>2 DEF Counted
  <2>2. Cardinality(Idle!Open) \in Nat
    BY Sources, FS_Subset, FS_CardinalityType DEF Idle!Open
  <2>3. Len(backlog) \in Nat /\ arrived \in Nat
    BY <1>4 DEF Idle!TypeOK
  <2>4. QED
    BY <1>2, <1>4, <1>5, <1>7, <2>1, <2>2, <2>3 DEF Counted
<1>9. Listed'
  BY <1>2, <1>4, <1>7 DEF Listed, Timed, Idle!Running, Idle!Deadline
<1>10. QED
  BY <1>6, <1>8, <1>9 DEF IdleInv

\* Whatever a client does, the connection stays open.
LEMMA Acting ==
    ASSUME Idle!TypeOK, NEW x \in Idle!Socket, NEW s \in Idle!Acts(x)
    PROVE  /\ s \in Idle!Socket /\ s.open = x.open
           /\ (IF s.end = "no" THEN sent + 1 ELSE sent) \in 0 .. MaxSent
<1>1. Sizes \subseteq Nat /\ MaxSent \in Nat /\ sent \in 0 .. MaxSent
  BY BoundAssumption DEF Idle!TypeOK
<1>2. CASE s \in {[x EXCEPT !.bytes = @ + n] : n \in IF sent < MaxSent THEN Sizes ELSE {}}
  <2>1. PICK n \in IF sent < MaxSent THEN Sizes ELSE {} : s = [x EXCEPT !.bytes = @ + n]
    BY <1>2
  <2>2. n \in Nat /\ sent < MaxSent
    BY <1>1, <2>1
  <2>3. QED
    BY <1>1, <2>1, <2>2 DEF Idle!Socket
<1>3. CASE s = [x EXCEPT !.end = "left"]
  BY <1>1, <1>3 DEF Idle!Socket
<1>4. CASE s = [x EXCEPT !.end = "reset"]
  BY <1>1, <1>4 DEF Idle!Socket
<1>5. QED
  BY <1>2, <1>3, <1>4 DEF Idle!Acts

LEMMA ClientStep == IdleInv /\ Idle!Client => IdleInv'
<1>1. SUFFICES ASSUME IdleInv, Idle!Client
               PROVE  IdleInv'
  OBVIOUS
<1>2. /\ Idle!TypeOK /\ Counted /\ Listed /\ backlog \in Seq(Idle!Socket)
      /\ sock \in [Idle!Fd -> Idle!Socket] /\ Idle!Open \subseteq Idle!Fd
  BY <1>1 DEF IdleInv, Idle!TypeOK, Idle!Open
<1>3. UNCHANGED <<pc, l, timer, epet, i, ret, deprived, signals, now, arrived>>
  BY <1>1 DEF Idle!Client, Idle!serverVars
<1>4. SUFFICES /\ Idle!TypeOK' /\ Idle!Open' = Idle!Open
               /\ Len(backlog') = Len(backlog) /\ \A k \in DOMAIN backlog' : backlog'[k].open
  <2>1. Counted'
    BY <1>2, <1>3, <1>4 DEF Counted
  <2>2. Listed'
    BY <1>2, <1>3, <1>4 DEF Listed, Timed, Idle!Running, Idle!Deadline
  <2>3. QED
    BY <1>4, <2>1, <2>2 DEF IdleInv
<1>5. CASE \E fd \in Idle!Open : \E s \in Idle!Acts(sock[fd]) :
             /\ sock' = [sock EXCEPT ![fd] = s] /\ ready' = ready \cup {fd}
             /\ sent' = (IF s.end = "no" THEN sent + 1 ELSE sent)
             /\ backlog' = backlog
  <2>0. PICK fd \in Idle!Open : \E s \in Idle!Acts(sock[fd]) :
             /\ sock' = [sock EXCEPT ![fd] = s] /\ ready' = ready \cup {fd}
             /\ sent' = (IF s.end = "no" THEN sent + 1 ELSE sent)
             /\ backlog' = backlog
    BY <1>5
  <2>1. PICK s \in Idle!Acts(sock[fd]) :
             /\ sock' = [sock EXCEPT ![fd] = s] /\ ready' = ready \cup {fd}
             /\ sent' = (IF s.end = "no" THEN sent + 1 ELSE sent)
             /\ backlog' = backlog
    BY <2>0
  <2>2. fd \in Idle!Fd /\ sock[fd] \in Idle!Socket
    BY <1>2
  <2>3. s \in Idle!Socket /\ s.open = sock[fd].open /\ sent' \in 0 .. MaxSent
    BY <1>2, <2>1, <2>2, Acting
  <2>4. sock' \in [Idle!Fd -> Idle!Socket] /\ ready' \subseteq Idle!Source
    BY <1>2, <2>1, <2>2, <2>3, Sources DEF Idle!TypeOK
  <2>5. Idle!TypeOK'
    BY <1>2, <1>3, <2>1, <2>3, <2>4 DEF Idle!TypeOK
  <2>6. Idle!Open' = Idle!Open
    BY <1>2, <2>1, <2>2, <2>3 DEF Idle!Open
  <2>7. QED
    BY <1>2, <2>1, <2>5, <2>6 DEF Counted
<1>6. CASE \E k \in DOMAIN backlog : \E s \in Idle!Acts(backlog[k]) :
             /\ backlog' = [backlog EXCEPT ![k] = s]
             /\ sent' = (IF s.end = "no" THEN sent + 1 ELSE sent)
             /\ UNCHANGED <<sock, ready>>
  <2>0. PICK k \in DOMAIN backlog : \E s \in Idle!Acts(backlog[k]) :
             /\ backlog' = [backlog EXCEPT ![k] = s]
             /\ sent' = (IF s.end = "no" THEN sent + 1 ELSE sent)
             /\ UNCHANGED <<sock, ready>>
    BY <1>6
  <2>1. PICK s \in Idle!Acts(backlog[k]) :
             /\ backlog' = [backlog EXCEPT ![k] = s]
             /\ sent' = (IF s.end = "no" THEN sent + 1 ELSE sent)
             /\ UNCHANGED <<sock, ready>>
    BY <2>0
  <2>2. k \in 1 .. Len(backlog) /\ backlog[k] \in Idle!Socket
    BY <1>2, ElementOfSeq
  <2>3. s \in Idle!Socket /\ s.open = backlog[k].open /\ sent' \in 0 .. MaxSent
    BY <1>2, <2>1, <2>2, Acting
  <2>4. /\ backlog' \in Seq(Idle!Socket) /\ Len(backlog') = Len(backlog)
        /\ \A n \in 1 .. Len(backlog) : backlog'[n] = IF n = k THEN s ELSE backlog[n]
    BY <1>2, <2>1, <2>2, <2>3, ExceptSeq
  <2>5. Idle!TypeOK'
    BY <1>2, <1>3, <2>1, <2>3, <2>4 DEF Idle!TypeOK
  <2>6. Idle!Open' = Idle!Open
    BY <2>1 DEF Idle!Open
  <2>7. \A n \in DOMAIN backlog' : backlog'[n].open
    BY <1>2, <2>2, <2>3, <2>4 DEF Counted
  <2>8. QED
    BY <2>4, <2>5, <2>6, <2>7
<1>7. QED
  BY <1>1, <1>5, <1>6 DEF Idle!Client

LEMMA ClockStep == IdleInv /\ Idle!Clock => IdleInv'
<1>1. SUFFICES ASSUME IdleInv, Idle!Clock
               PROVE  IdleInv'
  OBVIOUS
<1>2. /\ now < MaxTime /\ now' = now + 1
      /\ UNCHANGED <<pc, l, timer, epet, i, ret, deprived, sock, backlog, arrived, sent>>
  BY <1>1 DEF Idle!Clock, Idle!serverVars
<1>3. Idle!TypeOK /\ Counted /\ Listed /\ l \in Idle!Memory(Idle!Time)
  BY <1>1 DEF IdleInv, Idle!TypeOK
<1>4. signals' \in BOOLEAN /\ ready' \subseteq Idle!Source
  BY <1>1, <1>3, Sources DEF Idle!Clock, Idle!Signalled, Idle!TypeOK
<1>5. Idle!TypeOK'
  <2>1. now' \in 0 .. MaxTime
    BY <1>2, <1>3, BoundAssumption DEF Idle!TypeOK
  <2>2. QED
    BY <1>2, <1>3, <1>4, <2>1 DEF Idle!TypeOK
<1>6. Idle!Open' = Idle!Open
  BY <1>2 DEF Idle!Open
<1>7. Counted'
  BY <1>2, <1>3, <1>6 DEF Counted
<1>8. NoneAfter(l, Idle!Deadline) => NoneAfter(l, Idle!Deadline')
  <2>1. /\ Idle!Deadline \in Nat /\ Idle!Deadline' = Idle!Deadline + 1
    BY <1>2, <1>3, BoundAssumption DEF Idle!Deadline, Idle!TypeOK
  <2>2. \A u \in l.live : l.erpire[u] \in Nat
    <3>1. l \in List!Memory(Idle!Time)
      BY <1>3, SameOps
    <3>2. l.live \subseteq Timer /\ \A u \in Timer : l.erpire[u] \in Nat
      BY <3>1, IdleTimes, MemoryFields
    <3>3. QED
      BY <3>2
  <2>3. QED
    BY <2>1, <2>2 DEF NoneAfter
<1>9. Listed'
  BY <1>2, <1>3, <1>6, <1>8 DEF Listed, Timed, Idle!Running
<1>10. QED
  BY <1>5, <1>7, <1>9 DEF IdleInv

LEMMA TerminateStep == IdleInv /\ Idle!Terminate => IdleInv'
<1>1. SUFFICES ASSUME IdleInv, Idle!Terminate
               PROVE  IdleInv'
  OBVIOUS
<1>2. /\ signals' = TRUE /\ ready' = ready \cup {Idle!pipe}
      /\ UNCHANGED <<pc, l, timer, epet, i, ret, deprived, sock, backlog, now, arrived, sent>>
  BY <1>1 DEF Idle!Terminate, Idle!Signalled, Idle!serverVars
<1>3. ready' \subseteq Idle!Source
  BY <1>1, <1>2, Sources DEF IdleInv, Idle!TypeOK
<1>4. Idle!TypeOK'
  BY <1>1, <1>2, <1>3 DEF IdleInv, Idle!TypeOK
<1>5. QED
  BY <1>1, <1>2, <1>4, Aside DEF Idle!Running

\* Accepting a connection: the lowest free descriptor, and the timer that is
\* later than all others.
LEMMA FreeFd ==
    ASSUME IdleInv, backlog # <<>>
    PROVE  /\ Idle!NewFd \in Idle!Fd /\ Idle!NewFd \notin Idle!Open
           /\ IsFiniteSet(Idle!Open) /\ Cardinality(Idle!Open) \in Nat
<1>1. /\ IsFiniteSet(Idle!Open) /\ Cardinality(Idle!Open) \in Nat /\ Idle!Open \subseteq Idle!Fd
  BY Sources, FS_Subset, FS_CardinalityType DEF Idle!Open
<1>2. Len(backlog) \in Nat /\ Len(backlog) # 0
  <2>1. backlog \in Seq(Idle!Socket)
    BY DEF IdleInv, Idle!TypeOK
  <2>2. QED
    BY <2>1
<1>3. Cardinality(Idle!Open) < MaxClients
  BY <1>1, <1>2, BoundAssumption DEF IdleInv, Counted, Idle!TypeOK
<1>4. Idle!Fd \ Idle!Open # {}
  <2>1. SUFFICES ASSUME Idle!Fd = Idle!Open
                 PROVE  FALSE
    BY <1>1
  <2>2. QED
    BY <1>1, <1>3, <2>1, Sources, BoundAssumption
<1>5. Idle!Fd \ Idle!Open \subseteq Nat
  BY BoundAssumption DEF Idle!Fd
<1>6. \E x \in Idle!Fd \ Idle!Open : \A y \in Idle!Fd \ Idle!Open : x =< y
  BY <1>4, <1>5, Least
<1>7. Idle!NewFd \in Idle!Fd \ Idle!Open
  BY <1>6 DEF Idle!NewFd, Idle!Min
<1>8. QED
  BY <1>1, <1>7

LEMMA AcceptStep == IdleInv /\ Idle!Accept => IdleInv'
<1>1. SUFFICES ASSUME IdleInv, Idle!Accept
               PROVE  IdleInv'
  OBVIOUS
<1> DEFINE fd == Idle!NewFd
           new == Head(backlog)
<1>2. /\ Idle!TypeOK /\ Counted /\ Listed /\ backlog \in Seq(Idle!Socket)
      /\ timer \in [Idle!Fd -> Idle!Pointer] /\ sock \in [Idle!Fd -> Idle!Socket]
      /\ l \in Idle!Memory(Idle!Time) /\ ret \in -1 .. Bound
      /\ arrived \in Nat
  <2>1. Idle!TypeOK /\ Counted /\ Listed
    BY <1>1 DEF IdleInv
  <2>2. /\ backlog \in Seq(Idle!Socket) /\ l \in Idle!Memory(Idle!Time)
        /\ timer \in [Idle!Fd -> Idle!Pointer] /\ sock \in [Idle!Fd -> Idle!Socket]
    BY <2>1 DEF Idle!TypeOK
  <2>3. ret \in -1 .. Bound
    BY <2>1 DEF Idle!TypeOK, Bound
  <2>4. arrived \in Nat
    <3>1. arrived \in 0 .. MaxClients
      BY <2>1 DEF Idle!TypeOK
    <3>2. QED
      BY <3>1, BoundAssumption
  <2>5. QED
    BY <2>1, <2>2, <2>3, <2>4
<1>3. /\ backlog # <<>> /\ pc = "round"
      /\ backlog' = Tail(backlog)
      /\ UNCHANGED <<signals, now, arrived, sent, deprived>>
  BY <1>1 DEF Idle!Accept, Idle!At
<1>4. fd \in Idle!Fd /\ fd \notin Idle!Open
      /\ IsFiniteSet(Idle!Open) /\ Cardinality(Idle!Open) \in Nat
  BY <1>1, <1>3, FreeFd
<1>5. PICK t \in Timer \ l.live :
         /\ timer' = [timer EXCEPT ![fd] = t]
         /\ sock' = [sock EXCEPT ![fd] = new]
         /\ ready' = ready \cup (IF new.bytes > 0 \/ new.end # "no" THEN {fd} ELSE {})
         /\ Idle!Goes(Idle!Added(Idle!New(l, t, Idle!Deadline), t), ret)
  BY <1>1 DEF Idle!Accept
<1> HIDE DEF fd
<1>6. /\ new \in Idle!Socket /\ new.open
      /\ backlog' \in Seq(Idle!Socket) /\ Len(backlog') = Len(backlog) - 1
      /\ \A n \in 1 .. Len(backlog') : backlog'[n] = backlog[n + 1]
  <2>1. /\ new \in Idle!Socket
        /\ backlog' \in Seq(Idle!Socket) /\ Len(backlog') = Len(backlog) - 1
        /\ \A n \in 1 .. Len(backlog') : backlog'[n] = backlog[n + 1]
    BY <1>2, <1>3, HeadTailProperties
  <2>2. 1 \in DOMAIN backlog /\ new = backlog[1]
    BY <1>2, <1>3
  <2>3. QED
    BY <1>2, <2>1, <2>2 DEF Counted
<1> HIDE DEF new
<1> DEFINE m == List!New(l, t, Idle!Deadline)
           r == List!Added(m, t)
<1>7. /\ Idle!Deadline \in Idle!Time /\ l \in List!Memory(Idle!Time)
      /\ r \in Idle!Memory(Idle!Time) /\ Idle!Goes(r, ret)
  <2>1. Idle!Deadline \in Idle!Time /\ l \in List!Memory(Idle!Time)
    BY <1>2, SameOps, IdleTimes
  <2>2. m \in List!Memory(Idle!Time)
    BY <1>5, <2>1, NewType
  <2> HIDE DEF m
  <2>3. r \in List!Memory(Idle!Time)
    BY <1>5, <2>2, AddedType
  <2>4. r = Idle!Added(Idle!New(l, t, Idle!Deadline), t)
    BY SameOps DEF m
  <2>5. QED
    BY <1>5, <2>1, <2>3, <2>4, SameOps
<1> HIDE DEF r
<1>8. /\ l' = r /\ epet' = epet /\ i' \in Nat /\ ret' \in -1 .. Bound
      /\ pc' \in {"wait", "round", "crashed", "undefined"}
      /\ Idle!Running' => r.fault = "none"
  BY <1>2, <1>7, Iteration
<1>9. Idle!TypeOK'
  <2>1. timer' \in [Idle!Fd -> Idle!Pointer] /\ sock' \in [Idle!Fd -> Idle!Socket]
    BY <1>2, <1>4, <1>5, <1>6 DEF Idle!Pointer
  <2>2. ready' \subseteq Idle!Source
    BY <1>2, <1>4, <1>5, Sources DEF Idle!TypeOK
  <2>3. QED
    BY <1>2, <1>3, <1>6, <1>7, <1>8, <2>1, <2>2 DEF Idle!TypeOK, Bound
<1>10. Idle!Open' = Idle!Open \cup {fd}
  BY <1>2, <1>4, <1>5, <1>6 DEF Idle!Open
<1>11. Counted'
  <2>1. \A n \in DOMAIN backlog' : backlog'[n].open
    <3>1. TAKE n \in DOMAIN backlog'
    <3>2. n \in 1 .. Len(backlog') /\ n + 1 \in DOMAIN backlog
      BY <1>2, <1>6
    <3>3. QED
      BY <1>2, <1>6, <3>2 DEF Counted
  <2>2. Cardinality(Idle!Open') = Cardinality(Idle!Open) + 1
    BY <1>4, <1>10, FS_AddElement
  <2>3. Len(backlog) \in Nat
    BY <1>2
  <2>4. QED
    BY <1>2, <1>3, <1>4, <1>6, <2>1, <2>2, <2>3 DEF Counted
<1>12. ASSUME Idle!Running'
       PROVE  Linked(r) /\ NoneAfter(r, Idle!Deadline) /\ Fits(r, timer', Timed')
  <2>1. /\ l.fault = "none" /\ Linked(l) /\ NoneAfter(l, Idle!Deadline)
        /\ Fits(l, timer, Timed)
    BY <1>2, <1>3 DEF Listed, Idle!Running
  <2>0. Timed' = Timed \cup {fd} /\ Timed \subseteq Idle!Open
    BY <1>2, <1>3, <1>4, <1>10 DEF Timed, Listed
  <2>2. Linked(r) /\ r.live = l.live \cup {t} /\ NoneAfter(r, Idle!Deadline)
    BY <1>5, <1>7, <1>8, <1>12, <2>1, IdleTimes, AddedLinked DEF r
  <2>3. timer'[fd] = t /\ \A g \in Idle!Open : timer'[g] = timer[g] /\ g # fd
    BY <1>2, <1>4, <1>5 DEF Idle!Open
  <2>4. Fits(r, timer', Timed')
    BY <1>5, <2>0, <2>1, <2>2, <2>3 DEF Fits
  <2>5. QED
    BY <2>2, <2>4
<1>13. Idle!Deadline' = Idle!Deadline
  BY <1>3 DEF Idle!Deadline
<1>14. Listed'
  <2>1. deprived' \subseteq Idle!Open'
    BY <1>2, <1>3, <1>10 DEF Listed
  <2>2. QED
    BY <1>8, <1>12, <1>13, <2>1 DEF Listed
<1>15. QED
  BY <1>9, <1>11, <1>14 DEF IdleInv

\* A connection is closed, with its timer if it has one.
LEMMA GoneType ==
    ASSUME Idle!TypeOK, NEW fd \in Idle!Fd
    PROVE  Idle!TimerGone(fd) \in Idle!Memory(Idle!Time)
<1>1. /\ l \in Idle!Memory(Idle!Time) /\ l \in List!Memory(Idle!Time)
      /\ timer[fd] \in Timer \cup {NULL}
  BY SameOps DEF Idle!TypeOK, Idle!Pointer
<1>2. CASE timer[fd] = NULL
  BY <1>1, <1>2 DEF Idle!TimerGone
<1>3. CASE timer[fd] # NULL
  <2>1. List!Deleted(l, timer[fd]) \in List!Memory(Idle!Time)
    BY <1>1, <1>3, IdleTimes, DeletedType
  <2>2. QED
    BY <1>3, <2>1, SameOps DEF Idle!TimerGone
<1>4. QED
  BY <1>2, <1>3

LEMMA Closed ==
    ASSUME IdleInv, NEW fd \in Idle!Fd, NEW n \in -1 .. Bound, pc = "round",
           Idle!CloseConnection(fd, n),
           UNCHANGED <<timer, backlog, signals, now, arrived, sent>>
    PROVE  IdleInv'
<1> DEFINE r == Idle!TimerGone(fd)
<1>1. /\ Idle!TypeOK /\ Counted /\ Listed
      /\ timer \in [Idle!Fd -> Idle!Pointer] /\ sock \in [Idle!Fd -> Idle!Socket]
      /\ l \in Idle!Memory(Idle!Time) /\ l \in List!Memory(Idle!Time)
  <2>1. Idle!TypeOK /\ Counted /\ Listed
    BY DEF IdleInv
  <2>2. QED
    BY <2>1, SameOps DEF Idle!TypeOK
<1>2. /\ sock' = [sock EXCEPT ![fd] = Idle!Fresh] /\ ready' = ready \ {fd}
      /\ Idle!Goes(r, n)
  BY DEF Idle!CloseConnection
<1>3. r \in Idle!Memory(Idle!Time)
  BY <1>1, GoneType
<1> HIDE DEF r
<1>4. /\ l' = r /\ epet' = epet /\ i' \in Nat /\ ret' \in -1 .. Bound
      /\ pc' \in {"wait", "round", "crashed", "undefined"}
      /\ Idle!Running' => r.fault = "none"
  BY <1>1, <1>2, <1>3, Iteration
<1>5. Idle!TypeOK'
  <2>1. sock' \in [Idle!Fd -> Idle!Socket]
    BY <1>1, <1>2 DEF Idle!Fresh, Idle!Socket
  <2>2. ready' \subseteq Idle!Source
    BY <1>1, <1>2 DEF Idle!TypeOK
  <2>3. deprived' \subseteq Idle!Fd
    BY <1>1 DEF Idle!TypeOK, Idle!CloseConnection, Idle!Sharing, Idle!Open
  <2>4. QED
    BY <1>1, <1>3, <1>4, <2>1, <2>2, <2>3 DEF Idle!TypeOK, Bound
<1>6. Idle!Open' = Idle!Open \ {fd}
  BY <1>1, <1>2 DEF Idle!Open, Idle!Fresh
<1>7. Counted'
  <2>1. IsFiniteSet(Idle!Open) /\ Cardinality(Idle!Open) \in Nat
    BY Sources, FS_Subset, FS_CardinalityType DEF Idle!Open
  <2>2. Cardinality(Idle!Open') <= Cardinality(Idle!Open) /\ Cardinality(Idle!Open') \in Nat
    <3>1. /\ IsFiniteSet(Idle!Open')
          /\ Cardinality(Idle!Open') = IF fd \in Idle!Open THEN Cardinality(Idle!Open) - 1
                                       ELSE Cardinality(Idle!Open)
      BY <1>6, <2>1, FS_RemoveElement
    <3>2. Cardinality(Idle!Open') \in Nat
      BY <3>1, FS_CardinalityType
    <3>3. QED
      BY <2>1, <3>1, <3>2
  <2>3. Len(backlog) \in Nat /\ arrived \in Nat
    BY <1>1, BoundAssumption DEF Idle!TypeOK
  <2>4. QED
    BY <1>1, <2>1, <2>2, <2>3 DEF Counted
<1> DEFINE t == timer[fd]
<1>12. deprived' \subseteq Idle!Open'
  BY <1>1, <1>6 DEF Listed, Idle!CloseConnection, Idle!Sharing, Idle!Open
<1>13. Idle!Running => Timed' = {g \in Timed : timer[g] # t}
  <2>1. SUFFICES ASSUME Idle!Running
                 PROVE  Timed' = {g \in Timed : timer[g] # t}
    OBVIOUS
  <2>2. Fits(l, timer, Timed)
    BY <1>1, <2>1 DEF Listed
  <2>3. CASE sock[fd].open /\ fd \notin deprived
    <3>1. fd \in Timed /\ Timed' = Timed \ {fd}
      BY <1>6, <2>3 DEF Timed, Idle!Open, Idle!CloseConnection
    <3>2. QED
      BY <2>2, <3>1 DEF Fits
  <2>4. CASE ~ (sock[fd].open /\ fd \notin deprived)
    <3>1. deprived' = (deprived \ {fd}) \cup Idle!Sharing(fd) /\ fd \notin Timed
      BY <2>4 DEF Timed, Idle!Open, Idle!CloseConnection
    <3>2. QED
      BY <1>6, <3>1 DEF Timed, Idle!Sharing
  <2>5. QED
    BY <2>3, <2>4
<1>8. ASSUME Idle!Running'
      PROVE  Linked(r) /\ NoneAfter(r, Idle!Deadline) /\ Fits(r, timer, Timed')
  <2>1. /\ l.fault = "none" /\ Linked(l) /\ NoneAfter(l, Idle!Deadline)
        /\ Fits(l, timer, Timed) /\ Timed' = {g \in Timed : timer[g] # t}
    BY <1>1, <1>13 DEF Listed, Idle!Running
  <2>2. CASE t = NULL
    <3>1. r = l
      BY <2>2 DEF Idle!TimerGone, r
    <3>2. NULL \notin l.live
      BY <1>1, TimerAssumption DEF List!Memory
    <3>3. Timed' = Timed
      BY <2>1, <2>2, <3>2 DEF Fits
    <3>4. QED
      BY <2>1, <3>1, <3>3
  <2>3. CASE t # NULL
    <3>1. r = List!Deleted(l, t)
      BY <2>3, SameOps DEF Idle!TimerGone, r
    <3>2. t \in l.live
      <4>1. SUFFICES ASSUME t \notin l.live
                     PROVE  FALSE
        OBVIOUS
      <4>2. List!Deleted(l, t) = List!Fails(l, "deleted")
        BY <2>3, <4>1 DEF List!Deleted, List!Through
      <4>3. List!Fails(l, "deleted").fault = "deleted"
        BY <1>1 DEF List!Fails, List!Memory
      <4>4. QED
        BY <1>4, <1>8, <3>1, <4>2, <4>3
    <3> HIDE DEF t
    <3>3. Without(l, t, r)
      BY <1>1, <1>4, <1>8, <2>1, <3>1, <3>2, IdleTimes, DeletedLinked
    <3>4. Linked(r)
      BY <1>1, <2>1, <3>2, <3>3, IdleTimes, WithoutLinked
    <3>5. r.live = l.live \ {t} /\ \A u \in r.live : r.erpire[u] = l.erpire[u]
      BY <3>3 DEF Without
    <3>6. NoneAfter(r, Idle!Deadline)
      BY <2>1, <3>5 DEF NoneAfter
    <3>7. Fits(r, timer, Timed')
      BY <2>1, <3>5 DEF Fits
    <3>8. QED
      BY <3>4, <3>6, <3>7
  <2>4. QED
    BY <2>2, <2>3
<1>9. Idle!Deadline' = Idle!Deadline
  BY DEF Idle!Deadline
<1>10. Listed'
  BY <1>4, <1>8, <1>9, <1>12 DEF Listed
<1>11. QED
  BY <1>5, <1>7, <1>10 DEF IdleInv

LEMMA StrayStep ==
    ASSUME IdleInv, NEW fd \in Idle!Fd, Idle!ReceiveStray(fd)
    PROVE  IdleInv'
<1>1. /\ pc = "round" /\ Idle!CloseConnection(fd, -1)
      /\ UNCHANGED <<timer, backlog, signals, now, arrived, sent>>
  BY DEF Idle!ReceiveStray, Idle!At
<1>2. -1 \in -1 .. Bound
  BY BoundIs
<1>3. QED
  BY <1>1, <1>2, Closed

\* A connection's timer is put off, for what was received.
LEMMA PutOffType ==
    ASSUME Idle!TypeOK, NEW fd \in Idle!Fd
    PROVE  Idle!TimerPutOff(fd) \in Idle!Memory(Idle!Time)
<1> DEFINE t == timer[fd]
           n == [l EXCEPT !.erpire[t] = Idle!Deadline]
<1>1. /\ l \in List!Memory(Idle!Time) /\ t \in Timer \cup {NULL}
      /\ Idle!Deadline \in Idle!Time
  BY SameOps, IdleTimes DEF Idle!TypeOK, Idle!Pointer
<1>2. Idle!TimerPutOff(fd) = List!Adjusted(n, t)
  BY SameOps DEF Idle!TimerPutOff
<1> HIDE DEF t
<1>3. CASE t \in Timer
  <2>1. n \in List!Memory(Idle!Time)
    BY <1>1, <1>3, NewType
  <2> HIDE DEF n
  <2>2. QED
    BY <1>2, <1>3, <2>1, SameOps, AdjustedType
<1>4. CASE t = NULL
  <2>1. n \in List!Memory(Idle!Time)
    BY <1>1, <1>4, TimerAssumption DEF List!Memory
  <2> HIDE DEF n
  <2>2. List!Adjusted(n, t) = List!Fails(n, "null")
    BY <1>4 DEF List!Adjusted, List!Through
  <2>3. List!Fails(n, "null") \in List!Memory(Idle!Time)
    BY <2>1 DEF List!Fails, List!Memory, List!Fault
  <2>4. QED
    BY <1>2, <2>2, <2>3, SameOps
<1>5. QED
  BY <1>1, <1>3, <1>4

LEMMA DataStep ==
    ASSUME IdleInv, NEW fd \in Idle!Fd, Idle!At(fd), sock[fd].open,
           sock' = [sock EXCEPT ![fd].bytes = @ - Idle!Received(fd)],
           Idle!Goes(Idle!TimerPutOff(fd), Idle!Received(fd)),
           UNCHANGED <<ready, timer, deprived, backlog, signals, now, arrived, sent>>
    PROVE  IdleInv'
<1> DEFINE r == Idle!TimerPutOff(fd)
<1>1. /\ Idle!TypeOK /\ Counted /\ Listed
      /\ timer \in [Idle!Fd -> Idle!Pointer] /\ sock \in [Idle!Fd -> Idle!Socket]
      /\ l \in Idle!Memory(Idle!Time) /\ l \in List!Memory(Idle!Time)
      /\ Idle!Deadline \in Idle!Time
  <2>1. Idle!TypeOK /\ Counted /\ Listed
    BY DEF IdleInv
  <2>2. QED
    BY <2>1, SameOps, IdleTimes DEF Idle!TypeOK
<1>2. /\ Idle!Received(fd) \in Nat /\ Idle!Received(fd) <= Room
      /\ Idle!Received(fd) <= sock[fd].bytes /\ sock[fd].bytes \in Nat
  <2>1. sock[fd].bytes \in Nat /\ Room \in Nat
    BY <1>1, BoundAssumption DEF Idle!Socket
  <2>2. QED
    BY <2>1 DEF Idle!Received
<1>3. Idle!Received(fd) \in -1 .. Bound
  BY <1>2, BoundIs, BoundAssumption
<1>4. r \in Idle!Memory(Idle!Time)
  BY <1>1, PutOffType
<1> HIDE DEF r
<1>5. /\ l' = r /\ epet' = epet /\ i' \in Nat /\ ret' \in -1 .. Bound
      /\ pc' \in {"wait", "round", "crashed", "undefined"}
      /\ Idle!Running' => r.fault = "none"
  BY <1>1, <1>3, <1>4, Iteration DEF r
<1>6. sock' \in [Idle!Fd -> Idle!Socket] /\ \A g \in Idle!Fd : sock'[g].open = sock[g].open
  <2>1. sock[fd].bytes - Idle!Received(fd) \in Nat
    BY <1>2
  <2>2. sock' = [sock EXCEPT ![fd] =
                  [sock[fd] EXCEPT !.bytes = sock[fd].bytes - Idle!Received(fd)]]
    OBVIOUS
  <2> HIDE DEF Idle!Received
  <2>3. [sock[fd] EXCEPT !.bytes = sock[fd].bytes - Idle!Received(fd)] \in Idle!Socket
    BY <1>1, <2>1 DEF Idle!Socket
  <2>4. [sock[fd] EXCEPT !.bytes = sock[fd].bytes - Idle!Received(fd)].open = sock[fd].open
    BY <1>1 DEF Idle!Socket
  <2>5. QED
    BY <1>1, <2>2, <2>3, <2>4
<1>7. Idle!TypeOK'
  BY <1>1, <1>4, <1>5, <1>6 DEF Idle!TypeOK, Bound
<1>8. Idle!Open' = Idle!Open
  BY <1>6 DEF Idle!Open
<1>9. Counted'
  BY <1>1, <1>8 DEF Counted
<1>10. ASSUME Idle!Running'
       PROVE  Linked(r) /\ NoneAfter(r, Idle!Deadline) /\ Fits(r, timer, Timed)
  <2>1. /\ l.fault = "none" /\ Linked(l) /\ NoneAfter(l, Idle!Deadline)
        /\ Fits(l, timer, Timed)
    BY <1>1 DEF Listed, Idle!Running, Idle!At
  <2> DEFINE t == timer[fd]
             later == [l EXCEPT !.erpire[t] = Idle!Deadline]
  <2>3. r = List!Adjusted(later, t)
    BY SameOps DEF Idle!TimerPutOff, r
  <2>2. t \in l.live
    <3>1. SUFFICES ASSUME t \notin l.live
                   PROVE  FALSE
      OBVIOUS
    <3>2. later.live = l.live
      BY <1>1 DEF List!Memory
    <3>3. List!Adjusted(later, t) \in {List!Fails(later, "null"), List!Fails(later, "deleted")}
      BY <3>1, <3>2 DEF List!Adjusted, List!Through
    <3>4. \A what : List!Fails(later, what).fault = what
      BY <1>1 DEF List!Fails, List!Memory
    <3>5. QED
      BY <1>5, <1>10, <2>3, <3>3, <3>4
  <2> HIDE DEF t
  <2>4. Linked(r) /\ r.live = l.live /\ NoneAfter(r, Idle!Deadline)
    BY <1>1, <1>5, <1>10, <2>1, <2>2, <2>3, IdleTimes, PutOffLinked
  <2>5. QED
    BY <2>1, <2>4 DEF Fits
<1>11. Idle!Deadline' = Idle!Deadline
  BY DEF Idle!Deadline
<1>12. Listed'
  <2>1. Timed' = Timed /\ deprived' \subseteq Idle!Open'
    BY <1>1, <1>8 DEF Timed, Listed
  <2>2. QED
    BY <1>5, <1>8, <1>10, <1>11, <2>1 DEF Listed
<1>13. QED
  BY <1>7, <1>9, <1>12 DEF IdleInv

LEMMA ReceiveStep ==
    ASSUME IdleInv, NEW fd \in Idle!Fd, Idle!Receive(fd)
    PROVE  IdleInv'
<1>1. /\ Idle!At(fd) /\ pc = "round" /\ sock[fd].open
      /\ UNCHANGED <<timer, backlog, signals, now, arrived, sent>>
  BY DEF Idle!Receive, Idle!At
<1>2. Idle!TypeOK /\ l \in Idle!Memory(Idle!Time)
  BY DEF IdleInv, Idle!TypeOK
<1>3. -1 \in -1 .. Bound /\ 0 \in -1 .. Bound
  BY BoundIs
<1>4. CASE /\ sock' = [sock EXCEPT ![fd].bytes = @ - Idle!Received(fd)]
           /\ Idle!Goes(Idle!TimerPutOff(fd), Idle!Received(fd))
           /\ UNCHANGED <<ready, deprived>>
  BY <1>1, <1>4, DataStep
<1>5. CASE Idle!Goes(l, -1) /\ UNCHANGED <<sock, ready, deprived>>
  <2>1. /\ l' = l /\ epet' = epet /\ i' \in Nat /\ ret' \in -1 .. Bound
        /\ pc' \in {"wait", "round", "crashed", "undefined"}
    BY <1>2, <1>3, <1>5, Iteration
  <2>2. Idle!TypeOK'
    BY <1>1, <1>2, <1>5, <2>1 DEF Idle!TypeOK, Bound
  <2>3. QED
    BY <1>1, <1>5, <2>1, <2>2, Aside DEF Idle!Running
<1>6. CASE Idle!CloseConnection(fd, IF sock[fd].end = "left" THEN 0 ELSE -1)
  <2>1. (IF sock[fd].end = "left" THEN 0 ELSE -1) \in -1 .. Bound
    BY <1>3
  <2>2. QED
    BY <1>1, <1>2, <1>6, <2>1, Closed
<1>7. QED
  BY <1>4, <1>5, <1>6 DEF Idle!Receive

LEMMA IdleStep == IdleInv /\ Idle!Next => IdleInv'
<1>1. SUFFICES ASSUME IdleInv, Idle!Next
               PROVE  IdleInv'
  OBVIOUS
<1>2. CASE Idle!epoll_wait
  BY <1>1, <1>2, WaitStep
<1>3. CASE Idle!Accept
  BY <1>1, <1>3, AcceptStep
<1>4. CASE Idle!AcceptNone
  BY <1>1, <1>4, NoneStep
<1>5. CASE Idle!PipeAsConnection
  BY <1>1, <1>5, PipeStep
<1>6. CASE Idle!Unwritten
  BY <1>1, <1>6, UnwrittenStep
<1>7. ASSUME NEW fd \in Idle!Fd, Idle!Receive(fd)
      PROVE  IdleInv'
  BY <1>1, <1>7, ReceiveStep
<1>8. ASSUME NEW fd \in Idle!Fd, Idle!ReceiveStray(fd)
      PROVE  IdleInv'
  BY <1>1, <1>8, StrayStep
<1>9. CASE Idle!Connect
  BY <1>1, <1>9, ConnectStep
<1>10. CASE Idle!Client
  BY <1>1, <1>10, ClientStep
<1>11. CASE Idle!Clock
  BY <1>1, <1>11, ClockStep
<1>12. CASE Idle!Terminate
  BY <1>1, <1>12, TerminateStep
<1>13. QED
  BY <1>1, <1>2, <1>3, <1>4, <1>5, <1>6, <1>7, <1>8, <1>9, <1>10, <1>11, <1>12
     DEF Idle!Next, Idle!Server

LEMMA IdleInvImplies ==
    IdleInv => Idle!TypeOK /\ Idle!ListMatchesConnections
<1>1. SUFFICES ASSUME IdleInv, Idle!Running
               PROVE  Idle!ListMatchesConnections
  BY DEF IdleInv, Idle!ListMatchesConnections
<1>2. Linked(l) /\ Fits(l, timer, Idle!Open \ deprived)
  BY <1>1 DEF IdleInv, Listed, Timed
<1>3. QED
  BY <1>2 DEF Idle!ListMatchesConnections, Linked, Neighbourly, Fits

\* What is kept of ServerTest8.
IdleKept == program = "idle" => IdleInv

\* While ServerTest8 runs, its list is linked both ways, one timer later than the
\* other, whatever left-over entries name; it has a timer of its own for every open
\* connection and no other, but for the connections that such an entry, or the end
\* of a connection without a timer, has deprived of theirs.
THEOREM Matches == Spec => []ListMatchesConnections
<1>1. Init => IdleKept
  BY IdleInit DEF Init, IdleKept
<1>2. IdleKept /\ [Next]_vars => IdleKept'
  <2>1. SUFFICES ASSUME IdleKept, [Next]_vars
                 PROVE  IdleKept'
    OBVIOUS
  <2>2. CASE Next
    <3>1. program' = program /\ (program = "idle" => Idle!Next)
      BY <2>2 DEF Next, InList, InIdle, InSignal, InEcho, InStress, InConnect
    <3>2. QED
      BY <2>1, <3>1, IdleStep DEF IdleKept
  <2>3. CASE UNCHANGED vars
    <3>1. /\ program' = program
          /\ UNCHANGED <<l, now, pc, timer, epet, i, ret, ready, sock, backlog, signals,
                         arrived, sent, deprived>>
      BY <2>3 DEF vars, timerVars, loopVars, arrayVars
    <3>2. IdleInv => IdleInv'
      <4>1. SUFFICES ASSUME IdleInv
                     PROVE  IdleInv'
        OBVIOUS
      <4>2. Idle!TypeOK'
        BY <3>1, <4>1 DEF IdleInv, Idle!TypeOK
      <4>3. QED
        BY <3>1, <4>1, <4>2, Aside DEF Idle!Running
    <3>3. QED
      BY <2>1, <3>1, <3>2 DEF IdleKept
  <2>4. QED
    BY <2>1, <2>2, <2>3
<1>3. IdleKept => ListMatchesConnections
  BY IdleInvImplies DEF IdleKept, ListMatchesConnections
<1>4. QED
  BY <1>1, <1>2, <1>3, PTL DEF Spec

-----------------------------------------------------------------------------
(* The small programs.  Their batches are orders of a set: each of its     *)
(* members is there, and once.                                             *)

Different(s) == \A m, n \in DOMAIN s : s[m] = s[n] => m = n

\* The orders of the set S.
Orders(S) == {f \in [1 .. Cardinality(S) -> S] : Different(f)}

LEMMA SameOrders ==
    \A S : /\ Signal!SetToSeqs(S) = Orders(S)
           /\ Echo!SetToSeqs(S) = Orders(S)
           /\ Stress!SetToSeqs(S) = Orders(S)
<1>1. \A S : /\ Signal!Cardinality(S) = Cardinality(S)
             /\ Echo!Cardinality(S) = Cardinality(S)
             /\ Stress!Cardinality(S) = Cardinality(S)
  BY DEF Signal!Cardinality, Echo!Cardinality, Stress!Cardinality, Cardinality
<1>2. TAKE S
<1>3. Orders(S) = {f \in [1 .. Cardinality(S) -> S] :
                     \A m, n \in 1 .. Cardinality(S) : m # n => f[m] # f[n]}
  BY DEF Orders, Different
<1>4. QED
  BY <1>1, <1>3 DEF Signal!SetToSeqs, Echo!SetToSeqs, Stress!SetToSeqs

LEMMA OrderIs ==
    ASSUME NEW S, IsFiniteSet(S), NEW f \in Orders(S)
    PROVE  /\ f \in Seq(S) /\ Len(f) \in Nat /\ DOMAIN f = 1 .. Len(f)
           /\ Different(f)
           /\ \A n \in 1 .. Len(f) : f[n] \in S
<1>1. Cardinality(S) \in Nat
  BY FS_CardinalityType
<1>2. QED
  BY <1>1 DEF Orders

\* The descriptors of ServerTest7 and ServerTest5.
LEMMA Descriptors ==
    \A S : S \subseteq {1, 2} \cup 3 .. 2 + MaxClients => IsFiniteSet(S)
<1>1. IsFiniteSet(1 .. 2 + MaxClients)
  BY BoundAssumption, FS_Interval
<1>2. {1, 2} \cup 3 .. 2 + MaxClients \subseteq 1 .. 2 + MaxClients
  BY BoundAssumption
<1>3. QED
  BY <1>1, <1>2, FS_Subset

-----------------------------------------------------------------------------
(* ServerTest7.                                                            *)

\* The array names nothing twice, and a connection waits for an entry of the
\* listening socket that the round has still to come to.
SignalInv ==
    /\ Signal!TypeOK /\ Signal!AssertHolds
    /\ Different(epet)
    /\ \A n \in DOMAIN epet :
         pc = "round" /\ i < n /\ epet[n] = Signal!lfd => backlog > 0

LEMMA SignalInit == Signal!Init => SignalInv
<1>1. SUFFICES ASSUME Signal!Init
               PROVE  SignalInv
  OBVIOUS
<1>2. /\ pc = "wait" /\ stop_server = FALSE /\ epet = <<>> /\ i = 0 /\ ret = 0
      /\ ready = {} /\ backlog = 0 /\ accepted = 0 /\ signals = <<>>
      /\ arrived = 0 /\ raised = 0
  BY <1>1, Zenon DEF Signal!Init
<1>3. 0 \in 0 .. MaxClients /\ 0 \in 0 .. MaxSignals
  BY BoundAssumption, SmallAssumption
<1>4. Signal!TypeOK
  <2>1. /\ epet \in Seq({Signal!lfd, Signal!pipe} \cup Signal!Fd) /\ signals \in Seq(Signal!Signal)
        /\ stop_server \in BOOLEAN
    BY <1>2, EmptySeq
  <2>2. /\ i \in Nat /\ ret \in Nat /\ backlog \in Nat /\ accepted \in Nat
        /\ backlog + accepted = arrived
        /\ arrived \in 0 .. MaxClients /\ raised \in 0 .. MaxSignals
    BY <1>2, <1>3
  <2>3. /\ pc \in {"wait", "round", "ended", "aborted"}
        /\ ready \subseteq {Signal!lfd, Signal!pipe} \cup Signal!Fd
    BY <1>2
  <2>4. QED
    BY <2>1, <2>2, <2>3, Zenon DEF Signal!TypeOK
<1>5. QED
  BY <1>2, <1>4 DEF SignalInv, Signal!AssertHolds, Different

LEMMA SignalWaits == SignalInv /\ Signal!epoll_wait => SignalInv'
<1>1. SUFFICES ASSUME SignalInv, Signal!epoll_wait
               PROVE  SignalInv'
  OBVIOUS
<1> DEFINE S == Signal!Reported
<1>2. Signal!TypeOK /\ S \subseteq {Signal!lfd, Signal!pipe} \cup Signal!Fd
  BY <1>1 DEF SignalInv, Signal!TypeOK, Signal!Reported
<1>3. IsFiniteSet(S)
  BY <1>2, Descriptors DEF Signal!lfd, Signal!pipe, Signal!Fd
<1>4. /\ epet' \in Orders(S) /\ ret' = Len(epet') /\ ready' = {} /\ i' = 0 /\ pc' = "round"
      /\ UNCHANGED <<stop_server, backlog, accepted, signals, arrived, raised>>
  BY <1>1, SameOrders DEF Signal!epoll_wait, Signal!Batch
<1>5. /\ epet' \in Seq(S) /\ Len(epet') \in Nat /\ DOMAIN epet' = 1 .. Len(epet')
      /\ Different(epet') /\ \A n \in 1 .. Len(epet') : epet'[n] \in S
  <2> HIDE DEF S
  <2> QED
    BY <1>3, <1>4, OrderIs
<1>6. epet' \in Seq({Signal!lfd, Signal!pipe} \cup Signal!Fd)
  BY <1>2, <1>5
<1>7. Signal!TypeOK'
  BY <1>2, <1>4, <1>5, <1>6 DEF Signal!TypeOK
<1>8. \A n \in DOMAIN epet' : epet'[n] = Signal!lfd => backlog' > 0
  BY <1>4, <1>5 DEF Signal!Reported, Signal!Readable, Signal!lfd, Signal!pipe
<1>9. QED
  BY <1>4, <1>5, <1>7, <1>8 DEF SignalInv, Signal!AssertHolds

\* The rest of a round, with as many connections that wait.
LEMMA SignalRound ==
    ASSUME SignalInv, Signal!TypeOK', pc = "round", pc' \in {"wait", "ended"} \/ i' = i + 1,
           pc' # "aborted", epet' = epet,
           \/ backlog' = backlog
           \/ /\ i < Len(epet) /\ epet[i + 1] = Signal!lfd /\ i' = i + 1
    PROVE  SignalInv'
<1>1. i \in Nat /\ epet \in Seq({Signal!lfd, Signal!pipe} \cup Signal!Fd)
  BY DEF SignalInv, Signal!TypeOK
<1>2. ASSUME NEW n \in DOMAIN epet, pc' = "round", i' < n, epet[n] = Signal!lfd
      PROVE  backlog' > 0
  <2>1. n \in Nat /\ i' = i + 1 /\ i < n
    BY <1>1, <1>2
  <2>2. ~ (i < Len(epet) /\ epet[i + 1] = Signal!lfd)
    <3>1. ASSUME i < Len(epet), epet[i + 1] = Signal!lfd
          PROVE  FALSE
      <4>1. i + 1 \in DOMAIN epet
        BY <1>1, <3>1
      <4>2. i + 1 = n
        BY <1>2, <3>1, <4>1 DEF SignalInv, Different
      <4>3. QED
        BY <1>1, <1>2, <2>1, <4>2
    <3>2. QED
      BY <3>1
  <2>3. backlog' = backlog
    BY <2>2
  <2>4. QED
    BY <1>2, <2>1, <2>3 DEF SignalInv
<1>3. QED
  BY <1>2 DEF SignalInv, Signal!AssertHolds

\* The next iteration keeps the types.
LEMMA SignalGoes ==
    ASSUME Signal!TypeOK, NEW n \in Nat, NEW stop \in BOOLEAN, Signal!Goes(n, stop)
    PROVE  /\ ret' \in Nat /\ stop_server' \in BOOLEAN /\ i' = i + 1 /\ i' \in Nat
           /\ pc' \in {"round", "ended", "wait"} /\ epet' = epet
BY DEF Signal!TypeOK, Signal!Goes

LEMMA SignalAccepts == SignalInv /\ Signal!Accept => SignalInv'
<1>1. SUFFICES ASSUME SignalInv, Signal!Accept
               PROVE  SignalInv'
  OBVIOUS
<1>2. /\ Signal!TypeOK /\ i \in Nat /\ ret \in Nat /\ stop_server \in BOOLEAN
      /\ backlog \in Nat /\ accepted \in Nat /\ backlog + accepted = arrived
      /\ epet \in Seq({Signal!lfd, Signal!pipe} \cup Signal!Fd)
  BY <1>1 DEF SignalInv, Signal!TypeOK
<1>3. /\ pc = "round" /\ i < Len(epet) /\ epet[i + 1] = Signal!lfd
      /\ UNCHANGED <<ready, signals, arrived, raised>>
  BY <1>1 DEF Signal!Accept, Signal!At
<1>4. backlog > 0
  <2>1. i + 1 \in DOMAIN epet /\ i < i + 1
    BY <1>2, <1>3
  <2>2. QED
    BY <1>1, <1>3, <2>1 DEF SignalInv
<1>5. backlog' = backlog - 1 /\ accepted' = accepted + 1 /\ Signal!Goes(ret, stop_server)
  BY <1>1, <1>4 DEF Signal!Accept
<1>6. /\ ret' \in Nat /\ stop_server' \in BOOLEAN /\ i' = i + 1 /\ i' \in Nat
      /\ pc' \in {"round", "ended", "wait"} /\ epet' = epet
  BY <1>2, <1>5, SignalGoes
<1>7. backlog' \in Nat /\ accepted' \in Nat /\ backlog' + accepted' = arrived
  BY <1>2, <1>4, <1>5
<1>8. Signal!TypeOK'
  BY <1>2, <1>3, <1>6, <1>7 DEF Signal!TypeOK
<1>9. QED
  BY <1>1, <1>3, <1>6, <1>8, SignalRound

LEMMA SignalReads == SignalInv /\ Signal!ReadSignals => SignalInv'
<1>1. SUFFICES ASSUME SignalInv, Signal!ReadSignals
               PROVE  SignalInv'
  OBVIOUS
<1>2. /\ Signal!TypeOK /\ stop_server \in BOOLEAN /\ signals \in Seq(Signal!Signal)
      /\ Len(signals) \in Nat
  BY <1>1 DEF SignalInv, Signal!TypeOK
<1>3. /\ pc = "round" /\ signals' = SubSeq(signals, Len(signals) + 1, Len(signals))
      /\ UNCHANGED <<ready, backlog, accepted, arrived, raised>>
  BY <1>1 DEF Signal!ReadSignals, Signal!At, Signal!Taken
<1>4. signals' \in Seq(Signal!Signal)
  BY <1>2, <1>3
<1>5. CASE signals = <<>>
  <2>1. pc' \in {"ended", "wait"} /\ UNCHANGED <<stop_server, epet, i, ret>>
    BY <1>1, <1>5 DEF Signal!ReadSignals
  <2>2. Signal!TypeOK'
    BY <1>2, <1>3, <1>4, <2>1 DEF Signal!TypeOK
  <2>3. QED
    BY <1>1, <1>3, <2>1, <2>2, SignalRound
<1>6. CASE signals # <<>>
  <2> DEFINE stop == stop_server \/ "TERM" \in Signal!ToSet(signals)
  <2>1. Signal!Goes(Len(signals), stop) /\ stop \in BOOLEAN
    BY <1>1, <1>6 DEF Signal!ReadSignals, Signal!Taken
  <2> HIDE DEF stop
  <2>2. /\ ret' \in Nat /\ stop_server' \in BOOLEAN /\ i' = i + 1 /\ i' \in Nat
        /\ pc' \in {"round", "ended", "wait"} /\ epet' = epet
    BY <1>2, <2>1, SignalGoes
  <2>3. Signal!TypeOK'
    BY <1>2, <1>3, <1>4, <2>2 DEF Signal!TypeOK
  <2>4. QED
    BY <1>1, <1>3, <2>2, <2>3, SignalRound
<1>7. QED
  BY <1>5, <1>6

LEMMA SignalOther == SignalInv /\ Signal!Other => SignalInv'
<1>1. SUFFICES ASSUME SignalInv, Signal!Other
               PROVE  SignalInv'
  OBVIOUS
<1>2. /\ Signal!TypeOK /\ ret \in Nat /\ stop_server \in BOOLEAN
      /\ pc = "round" /\ Signal!Goes(ret, stop_server)
      /\ UNCHANGED <<ready, backlog, accepted, signals, arrived, raised>>
  BY <1>1 DEF SignalInv, Signal!TypeOK, Signal!Other
<1>3. /\ ret' \in Nat /\ stop_server' \in BOOLEAN /\ i' = i + 1 /\ i' \in Nat
      /\ pc' \in {"round", "ended", "wait"} /\ epet' = epet
  BY <1>2, SignalGoes
<1>4. Signal!TypeOK'
  BY <1>2, <1>3 DEF Signal!TypeOK
<1>5. QED
  BY <1>1, <1>2, <1>3, <1>4, SignalRound

\* What clients and users do leaves the array alone.
LEMMA SignalAside ==
    ASSUME SignalInv, Signal!TypeOK', pc' \in {pc, "ended"}, epet' = epet, i' = i,
           backlog' >= backlog
    PROVE  SignalInv'
<1>1. backlog \in Nat /\ backlog' \in Nat
  BY DEF SignalInv, Signal!TypeOK
<1>2. QED
  BY <1>1 DEF SignalInv, Signal!AssertHolds

LEMMA SignalClients ==
    SignalInv /\ (Signal!Connect \/ Signal!Data \/ \E s \in Signal!Signal : Signal!Raise(s))
        => SignalInv'
<1>1. SUFFICES ASSUME SignalInv,
                      Signal!Connect \/ Signal!Data \/ \E s \in Signal!Signal : Signal!Raise(s)
               PROVE  SignalInv'
  OBVIOUS
<1>2. /\ Signal!TypeOK /\ backlog \in Nat /\ accepted \in Nat /\ backlog + accepted = arrived
      /\ arrived \in 0 .. MaxClients /\ raised \in 0 .. MaxSignals /\ MaxClients \in Nat
      /\ MaxSignals \in Nat /\ signals \in Seq(Signal!Signal)
      /\ ready \subseteq {Signal!lfd, Signal!pipe} \cup Signal!Fd
  BY <1>1, BoundAssumption, SmallAssumption DEF SignalInv, Signal!TypeOK
<1>3. CASE Signal!Connect
  <2>1. /\ arrived < MaxClients /\ arrived' = arrived + 1 /\ backlog' = backlog + 1
        /\ ready' = ready \cup {Signal!lfd}
        /\ UNCHANGED <<pc, stop_server, epet, i, ret, accepted, signals, raised>>
    BY <1>3 DEF Signal!Connect, Signal!loopVars
  <2>2. /\ arrived' \in 0 .. MaxClients /\ backlog' \in Nat /\ backlog' + accepted = arrived'
        /\ backlog' >= backlog
    BY <1>2, <2>1
  <2>3. Signal!TypeOK'
    BY <1>2, <2>1, <2>2 DEF Signal!TypeOK
  <2>4. QED
    BY <1>1, <2>1, <2>2, <2>3, SignalAside
<1>4. CASE Signal!Data
  <2>1. PICK fd \in 3 .. 2 + accepted : ready' = ready \cup {fd}
    BY <1>4 DEF Signal!Data
  <2>2. UNCHANGED <<pc, stop_server, epet, i, ret, backlog, accepted, signals, arrived, raised>>
    BY <1>4 DEF Signal!Data, Signal!loopVars
  <2>3. fd \in Signal!Fd
    BY <1>2 DEF Signal!Fd
  <2>4. Signal!TypeOK'
    BY <1>2, <2>1, <2>2, <2>3 DEF Signal!TypeOK
  <2>5. QED
    BY <1>1, <1>2, <2>2, <2>4, SignalAside
<1>5. CASE \E s \in Signal!Signal : Signal!Raise(s)
  <2>1. PICK s \in Signal!Signal : Signal!Raise(s)
    BY <1>5
  <2>2. /\ raised < MaxSignals /\ raised' = raised + 1 /\ signals' = Append(signals, s)
        /\ ready' = ready \cup {Signal!pipe} /\ pc' \in {pc, "ended"}
        /\ UNCHANGED <<stop_server, epet, i, ret, backlog, accepted, arrived>>
    BY <2>1 DEF Signal!Raise
  <2>3. signals' \in Seq(Signal!Signal) /\ raised' \in 0 .. MaxSignals
    BY <1>2, <2>2, AppendProperties
  <2>4. Signal!TypeOK'
    BY <1>2, <2>2, <2>3 DEF Signal!TypeOK
  <2>5. QED
    BY <1>1, <1>2, <2>2, <2>4, SignalAside
<1>6. QED
  BY <1>1, <1>3, <1>4, <1>5

LEMMA SignalStep == SignalInv /\ Signal!Next => SignalInv'
BY SignalWaits, SignalAccepts, SignalReads, SignalOther, SignalClients
   DEF Signal!Next, Signal!Server

-----------------------------------------------------------------------------
(* nonblock_connect.                                                       *)

\* The socket is open until the caller has an answer, and it is asked for its error
\* once the handshake is over.
ConnectInv ==
    /\ Connect!TypeOK /\ Connect!ReturnsConnected
    /\ result = "none" <=> pc # "returned"
    /\ pc = "socket" => socket = "none"
    /\ pc \in {"connect", "select", "getsockopt"} => socket = "open"
    /\ pc = "getsockopt" => Connect!Writable

LEMMA ConnectInit == Connect!Init => ConnectInv
<1>1. SUFFICES ASSUME Connect!Init
               PROVE  ConnectInv
  OBVIOUS
<1>2. /\ pc = "socket" /\ socket = "none" /\ nonblocking = FALSE
      /\ handshake = "none" /\ waited = 0 /\ result = "none"
  BY <1>1, Zenon DEF Connect!Init
<1>3. 0 \in 0 .. MaxWait
  BY SmallAssumption
<1>4. nonblocking \in BOOLEAN
  BY <1>2, Zenon
<1>5. Connect!TypeOK
  BY <1>2, <1>3, <1>4 DEF Connect!TypeOK
<1>6. QED
  BY <1>2, <1>5 DEF ConnectInv, Connect!ReturnsConnected

LEMMA CallerStep == ConnectInv /\ Connect!Caller => ConnectInv'
<1>1. SUFFICES ASSUME ConnectInv, Connect!Caller
               PROVE  ConnectInv'
  OBVIOUS
<1> USE DEF ConnectInv, Connect!TypeOK, Connect!ReturnsConnected, Connect!Writable
<1>2. CASE Connect!SocketFails
  BY <1>1, <1>2 DEF Connect!SocketFails
<1>3. CASE Connect!Socket
  BY <1>1, <1>3 DEF Connect!Socket
<1>4. CASE Connect!Connect
  BY <1>1, <1>4 DEF Connect!Connect, Connect!Succeeds, Connect!Fails
<1>5. CASE Connect!SelectWakes
  BY <1>1, <1>5 DEF Connect!SelectWakes
<1>6. CASE Connect!SelectEnds
  BY <1>1, <1>6 DEF Connect!SelectEnds, Connect!Fails
<1>7. CASE Connect!GetSockOpt
  BY <1>1, <1>7 DEF Connect!GetSockOpt, Connect!SoError, Connect!Succeeds, Connect!Fails
<1>8. QED
  BY <1>1, <1>2, <1>3, <1>4, <1>5, <1>6, <1>7 DEF Connect!Caller

LEMMA NetworkStep == ConnectInv /\ (Connect!Handshake \/ Connect!Second) => ConnectInv'
<1>1. SUFFICES ASSUME ConnectInv, Connect!Handshake \/ Connect!Second
               PROVE  ConnectInv'
  OBVIOUS
<1> USE DEF ConnectInv, Connect!TypeOK, Connect!ReturnsConnected, Connect!Writable
<1>2. CASE Connect!Handshake
  BY <1>1, <1>2 DEF Connect!Handshake
<1>3. CASE Connect!Second
  BY <1>1, <1>3, SmallAssumption DEF Connect!Second
<1>4. QED
  BY <1>1, <1>2, <1>3

LEMMA NonblockStep == ConnectInv /\ Connect!Next => ConnectInv'
BY CallerStep, NetworkStep DEF Connect!Next

-----------------------------------------------------------------------------
(* The stress tester.                                                      *)

\* What is left of the batch is there once, is open, and has what its event is for:
\* the server takes nothing of that away.
Expected(fd) == sock[fd].state = "open" /\ Stress!Reported(sock[fd])

StressBatch ==
    /\ pc = "batch" => batch # <<>>
    /\ Different(batch)
    /\ \A n \in DOMAIN batch : Expected(batch[n])

StressInv ==
    /\ Stress!TypeOK /\ StressBatch
    /\ \A fd \in ready : sock[fd].state = "open"
    /\ \A fd \in Stress!Fd : sock[fd].answers <= answered

LEMMA StressTypes ==
    ASSUME StressInv
    PROVE  /\ sock \in [Stress!Fd -> Stress!Connection] /\ answered \in 0 .. MaxAnswers
           /\ batch \in Seq(Stress!Fd) /\ Len(batch) \in Nat /\ DOMAIN batch = 1 .. Len(batch)
           /\ ready \subseteq Stress!Fd /\ links \in 0 .. Links
           /\ Links \in Nat /\ Room \in Nat \ {0} /\ MaxAnswers \in Nat
BY BoundAssumption, SmallAssumption DEF StressInv, Stress!TypeOK

LEMMA StressInit == Stress!Init => StressInv
<1>1. SUFFICES ASSUME Stress!Init
               PROVE  StressInv
  OBVIOUS
<1>2. /\ pc = "connect" /\ links = 0 /\ batch = <<>> /\ ready = {} /\ answered = 0
      /\ sock = [fd \in Stress!Fd |-> Stress!None]
  BY <1>1 DEF Stress!Init
<1>3. Stress!None \in Stress!Connection /\ Stress!None.answers = 0
  BY BoundAssumption, SmallAssumption DEF Stress!None, Stress!Connection
<1>4. /\ links \in 0 .. Links /\ answered \in 0 .. MaxAnswers /\ batch \in Seq(Stress!Fd)
      /\ sock \in [Stress!Fd -> Stress!Connection]
  BY <1>2, <1>3, SmallAssumption, EmptySeq
<1>5. Stress!TypeOK
  BY <1>2, <1>4 DEF Stress!TypeOK
<1>6. StressBatch
  BY <1>2 DEF StressBatch, Different
<1>7. QED
  BY <1>2, <1>3, <1>5, <1>6 DEF StressInv

LEMMA StressConnects == StressInv /\ (Stress!Connect \/ Stress!ConnectEnds) => StressInv'
<1>1. SUFFICES ASSUME StressInv, Stress!Connect \/ Stress!ConnectEnds
               PROVE  StressInv'
  OBVIOUS
<1>2. /\ sock \in [Stress!Fd -> Stress!Connection] /\ answered \in 0 .. MaxAnswers
      /\ batch \in Seq(Stress!Fd) /\ Len(batch) \in Nat /\ DOMAIN batch = 1 .. Len(batch)
      /\ ready \subseteq Stress!Fd /\ links \in 0 .. Links /\ Links \in Nat
  BY <1>1, StressTypes
<1>3. CASE Stress!ConnectEnds
  <2>1. pc' = "wait" /\ UNCHANGED <<links, batch, ready, sock, answered>>
    BY <1>3 DEF Stress!ConnectEnds
  <2>2. QED
    BY <1>1, <2>1 DEF StressInv, StressBatch, Stress!TypeOK, Expected
<1>4. CASE Stress!Connect
  <2> DEFINE fd == 4 + links
             s == [sock[fd] EXCEPT !.state = "open"]
  <2>1. /\ links < Links /\ links' = links + 1 /\ pc = "connect"
        /\ UNCHANGED <<pc, batch, answered>>
    BY <1>4 DEF Stress!Connect
  <2>2. fd \in Stress!Fd /\ links' \in 0 .. Links
    BY <1>2, <2>1 DEF Stress!Fd
  <2>3. CASE UNCHANGED <<sock, ready>>
    BY <1>1, <2>1, <2>2, <2>3 DEF StressInv, StressBatch, Stress!TypeOK, Expected
  <2>4. CASE sock' = [sock EXCEPT ![4 + links].state = "open"] /\ ready' = ready \cup {4 + links}
    <3>1. s \in Stress!Connection /\ s.state = "open" /\ s.answers = sock[fd].answers
      BY <1>2, <2>2 DEF Stress!Connection
    <3>2. sock' = [sock EXCEPT ![fd] = s]
      BY <2>4
    <3>3. Stress!Reported(s) = Stress!Reported(sock[fd])
      BY <1>2, <2>2
         DEF Stress!Reported, Stress!CanRead, Stress!CanWrite, Stress!Connection
    <3> HIDE DEF s, fd
    <3>4. Stress!TypeOK'
      BY <1>1, <1>2, <2>1, <2>2, <2>4, <3>1, <3>2 DEF StressInv, Stress!TypeOK, fd
    <3>5. \A n \in DOMAIN batch : batch[n] \in Stress!Fd /\ Expected(batch[n])
      BY <1>1, <1>2 DEF StressInv, StressBatch
    <3>6. \A n \in DOMAIN batch : Expected(batch[n])'
      <4>1. \A f \in Stress!Fd : Expected(f) => Expected(f)'
        BY <1>2, <3>1, <3>2, <3>3 DEF Expected
      <4>2. QED
        BY <2>1, <3>5, <4>1 DEF Expected
    <3>7. StressBatch'
      BY <1>1, <2>1, <3>6 DEF StressInv, StressBatch
    <3>8. \A f \in ready' : sock'[f].state = "open"
      <4>1. ready' = ready \cup {fd}
        BY <2>4 DEF fd
      <4>2. QED
        BY <1>1, <1>2, <2>2, <3>1, <3>2, <4>1 DEF StressInv
    <3>9. \A f \in Stress!Fd : sock'[f].answers <= answered'
      BY <1>1, <1>2, <2>1, <3>1, <3>2 DEF StressInv
    <3>10. QED
      BY <3>4, <3>7, <3>8, <3>9 DEF StressInv
  <2>5. QED
    BY <1>4, <2>3, <2>4 DEF Stress!Connect
<1>5. QED
  BY <1>1, <1>3, <1>4

LEMMA StressWaits == StressInv /\ Stress!epoll_wait => StressInv'
<1>1. SUFFICES ASSUME StressInv, Stress!epoll_wait
               PROVE  StressInv'
  OBVIOUS
<1> DEFINE S == {fd \in ready : Stress!Reported(sock[fd])}
<1>2. ready \subseteq Stress!Fd /\ Links \in Nat
  BY <1>1, StressTypes
<1>3. IsFiniteSet(S)
  <2>1. IsFiniteSet(Stress!Fd)
    BY <1>2, FS_Interval DEF Stress!Fd
  <2>2. QED
    BY <1>2, <2>1, FS_Subset
<1>4. /\ batch' \in Orders(S) /\ batch' # <<>> /\ ready' = {} /\ pc' = "batch"
      /\ UNCHANGED <<links, sock, answered>>
  BY <1>1, SameOrders DEF Stress!epoll_wait
<1>5. /\ batch' \in Seq(S) /\ DOMAIN batch' = 1 .. Len(batch')
      /\ Different(batch') /\ \A n \in 1 .. Len(batch') : batch'[n] \in S
  <2> HIDE DEF S
  <2> QED
    BY <1>3, <1>4, OrderIs
<1>6. batch' \in Seq(Stress!Fd)
  BY <1>2, <1>5
<1>7. Stress!TypeOK'
  BY <1>1, <1>4, <1>6 DEF StressInv, Stress!TypeOK
<1>8. \A n \in DOMAIN batch' : Expected(batch[n])'
  <2>1. \A fd \in S : Expected(fd)'
    BY <1>1, <1>4 DEF StressInv, Expected
  <2>2. QED
    BY <1>5, <2>1 DEF Expected
<1>9. StressBatch'
  BY <1>4, <1>5, <1>8 DEF StressBatch
<1>10. QED
  BY <1>1, <1>4, <1>7, <1>9 DEF StressInv

\* The event at the head of the batch is handled, its connection becomes s.
LEMMA StressHandles ==
    ASSUME StressInv, pc = "batch", NEW s \in Stress!Connection, s.answers <= answered,
           Stress!HandledAs(Head(batch), s)
    PROVE  StressInv'
<1> DEFINE fd == Head(batch)
<1>1. /\ sock \in [Stress!Fd -> Stress!Connection] /\ answered \in 0 .. MaxAnswers
      /\ batch \in Seq(Stress!Fd) /\ Len(batch) \in Nat /\ DOMAIN batch = 1 .. Len(batch)
      /\ ready \subseteq Stress!Fd
  BY StressTypes
<1>2. batch # <<>>
  BY DEF StressInv, StressBatch
<1>3. /\ fd \in Stress!Fd /\ fd = batch[1] /\ Tail(batch) \in Seq(Stress!Fd)
      /\ Len(Tail(batch)) = Len(batch) - 1 /\ Len(batch) >= 1
      /\ \A n \in 1 .. Len(Tail(batch)) : Tail(batch)[n] = batch[n + 1]
      /\ DOMAIN Tail(batch) = 1 .. Len(Tail(batch))
  BY <1>1, <1>2, HeadTailProperties
<1>4. /\ sock' = [sock EXCEPT ![fd] = s] /\ batch' = Tail(batch)
      /\ ready' = IF s.state = "open" THEN Stress!Armed(fd, s) ELSE ready \ {fd}
      /\ pc' = (IF Len(batch) = 1 THEN "wait" ELSE "batch")
      /\ UNCHANGED <<links, answered>>
  BY DEF Stress!HandledAs
<1> HIDE DEF fd
<1>5. /\ s.state = "open" => ready' \subseteq ready \cup {fd}
      /\ s.state # "open" => ready' = ready \ {fd}
  BY <1>4 DEF Stress!Armed
<1>6. Stress!TypeOK'
  BY <1>1, <1>3, <1>4, <1>5 DEF StressInv, Stress!TypeOK
<1>7. \A n \in DOMAIN batch' :
        n + 1 \in DOMAIN batch /\ batch'[n] = batch[n + 1] /\ batch'[n] # fd
  <2>1. TAKE n \in DOMAIN batch'
  <2>2. n \in 1 .. Len(batch) - 1 /\ batch'[n] = batch[n + 1]
    BY <1>3, <1>4
  <2>3. n + 1 \in DOMAIN batch /\ 1 \in DOMAIN batch /\ n + 1 # 1
    BY <1>1, <1>3, <2>2
  <2>4. batch[n + 1] # batch[1]
    BY <2>3 DEF StressInv, StressBatch, Different
  <2>5. QED
    BY <1>3, <2>2, <2>3, <2>4
<1>8. Different(batch')
  <2>1. \A m, n \in DOMAIN batch' : m \in Int /\ n \in Int /\ (m + 1 = n + 1 => m = n)
    BY <1>3, <1>4
  <2>2. QED
    BY <1>7, <2>1 DEF StressInv, StressBatch, Different
<1>9. \A n \in DOMAIN batch' : Expected(batch[n])'
  <2>1. TAKE n \in DOMAIN batch'
  <2>2. Expected(batch[n + 1]) /\ batch[n + 1] \in Stress!Fd
    BY <1>1, <1>7, ElementOfSeq DEF StressInv, StressBatch
  <2>3. sock'[batch[n + 1]] = sock[batch[n + 1]]
    BY <1>1, <1>4, <1>7, <2>2
  <2>4. QED
    BY <1>7, <2>2, <2>3 DEF Expected
<1>10. pc' = "batch" => batch' # <<>>
  <2>1. pc' = "batch" => Len(Tail(batch)) # 0
    BY <1>1, <1>3, <1>4
  <2>2. QED
    BY <1>4, <2>1, EmptySeq
<1>11. \A f \in ready' : sock'[f].state = "open"
  BY <1>1, <1>3, <1>4, <1>5 DEF StressInv
<1>12. \A f \in Stress!Fd : sock'[f].answers <= answered'
  BY <1>1, <1>3, <1>4 DEF StressInv
<1>13. QED
  BY <1>6, <1>8, <1>9, <1>10, <1>11, <1>12 DEF StressInv, StressBatch

LEMMA StressReads == StressInv /\ Stress!Read => StressInv'
<1>1. SUFFICES ASSUME StressInv, Stress!Read
               PROVE  StressInv'
  OBVIOUS
<1> DEFINE c == sock[Head(batch)]
           s == IF c.answers > 0
                THEN [c EXCEPT !.answers = @ - 1, !.asks = Stress!AskedNext(c)]
                ELSE Stress!Closed(c)
<1>2. pc = "batch" /\ Stress!HandledAs(Head(batch), s)
  BY <1>1 DEF Stress!Read, Stress!ReadAgain, Stress!Current
<1>3. c \in Stress!Connection /\ c.answers <= answered /\ answered \in 0 .. MaxAnswers
  <2>1. batch # <<>>
    BY <1>1, <1>2 DEF StressInv, StressBatch
  <2>2. Head(batch) \in Stress!Fd
    BY <1>1, <2>1, StressTypes, HeadTailProperties
  <2>3. QED
    BY <1>1, <2>2, StressTypes DEF StressInv
<1> HIDE DEF c
<1>4. s \in Stress!Connection /\ s.answers <= answered
  <2>1. CASE c.answers > 0
    <3> DEFINE read == [c EXCEPT !.answers = @ - 1]
    <3>1. read \in Stress!Connection /\ read.answers <= answered
      BY <1>3, <2>1, SmallAssumption DEF Stress!Connection
    <3>2. s = [read EXCEPT !.asks = Stress!AskedNext(c)]
      BY <1>3, <2>1
    <3> HIDE DEF read, s
    <3>3. QED
      BY <3>1, <3>2 DEF Stress!Connection, Stress!AskedNext
  <2>2. CASE ~ c.answers > 0
    BY <1>3, <2>2 DEF Stress!Connection, Stress!Closed
  <2>3. QED
    BY <2>1, <2>2
<1> HIDE DEF s
<1>5. QED
  BY <1>1, <1>2, <1>4, StressHandles

LEMMA StressWrites == StressInv /\ Stress!Write => StressInv'
<1>1. SUFFICES ASSUME StressInv, Stress!Write
               PROVE  StressInv'
  OBVIOUS
<1> DEFINE c == sock[Head(batch)]
           s == IF c.error = "no"
                THEN [c EXCEPT !.queued = @ + 1, !.asks = Stress!AskedNext(c)]
                ELSE Stress!Closed(c)
<1>2. pc = "batch" /\ Stress!CanWrite(c) /\ Stress!HandledAs(Head(batch), s)
  BY <1>1 DEF Stress!Write, Stress!Current
<1>3. c \in Stress!Connection /\ c.answers <= answered /\ answered \in 0 .. MaxAnswers
  <2>1. batch # <<>>
    BY <1>1, <1>2 DEF StressInv, StressBatch
  <2>2. Head(batch) \in Stress!Fd
    BY <1>1, <2>1, StressTypes, HeadTailProperties
  <2>3. QED
    BY <1>1, <2>2, StressTypes DEF StressInv
<1> HIDE DEF c
<1>4. s \in Stress!Connection /\ s.answers <= answered
  <2>1. CASE c.error = "no"
    <3> DEFINE written == [c EXCEPT !.queued = @ + 1]
    <3>1. written \in Stress!Connection /\ written.answers <= answered
      BY <1>2, <1>3, <2>1, BoundAssumption DEF Stress!Connection, Stress!CanWrite
    <3>2. s = [written EXCEPT !.asks = Stress!AskedNext(c)]
      BY <1>3, <2>1
    <3> HIDE DEF written, s
    <3>3. QED
      BY <3>1, <3>2 DEF Stress!Connection, Stress!AskedNext
  <2>2. CASE c.error # "no"
    BY <1>3, <2>2 DEF Stress!Connection, Stress!Closed
  <2>3. QED
    BY <2>1, <2>2
<1> HIDE DEF s
<1>5. QED
  BY <1>1, <1>2, <1>4, StressHandles

\* The server changes an open connection to s, and what was reported of it still
\* holds.
LEMMA StressChanged ==
    ASSUME StressInv, NEW fd \in Stress!Fd, NEW s \in Stress!Connection,
           sock[fd].state = "open", s.state = "open",
           Stress!Reported(sock[fd]) => Stress!Reported(s),
           sock' = [sock EXCEPT ![fd] = s], ready' = ready \cup {fd},
           answered' \in 0 .. MaxAnswers, answered <= answered', s.answers <= answered',
           UNCHANGED <<pc, links, batch>>
    PROVE  StressInv'
<1>1. /\ sock \in [Stress!Fd -> Stress!Connection] /\ answered \in 0 .. MaxAnswers
      /\ batch \in Seq(Stress!Fd) /\ DOMAIN batch = 1 .. Len(batch) /\ ready \subseteq Stress!Fd
  BY StressTypes
<1>2. Stress!TypeOK'
  BY <1>1 DEF StressInv, Stress!TypeOK
<1>3. \A f \in Stress!Fd : Expected(f) => Expected(f)'
  BY <1>1 DEF Expected
<1>4. \A n \in DOMAIN batch : Expected(batch[n])'
  <2>1. \A n \in DOMAIN batch : batch[n] \in Stress!Fd /\ Expected(batch[n])
    BY <1>1, ElementOfSeq DEF StressInv, StressBatch
  <2>2. QED
    BY <1>3, <2>1 DEF Expected
<1>5. StressBatch'
  BY <1>4 DEF StressInv, StressBatch
<1>6. \A f \in ready' : sock'[f].state = "open"
  BY <1>1 DEF StressInv
<1>7. \A f \in Stress!Fd : sock'[f].answers <= answered'
  <2>1. \A f \in Stress!Fd : sock[f].answers \in Nat /\ sock[f].answers <= answered
    BY <1>1, SmallAssumption DEF StressInv, Stress!Connection
  <2>2. QED
    BY <1>1, <2>1
<1>8. QED
  BY <1>2, <1>5, <1>6, <1>7 DEF StressInv

LEMMA StressServed ==
    ASSUME StressInv, NEW fd \in Stress!Fd, Stress!Server(fd)
    PROVE  StressInv'
<1> DEFINE c == sock[fd]
<1>1. /\ sock \in [Stress!Fd -> Stress!Connection] /\ answered \in 0 .. MaxAnswers
      /\ c \in Stress!Connection /\ c.answers <= answered /\ c.answers \in Nat
      /\ MaxAnswers \in Nat /\ Room \in Nat
  BY StressTypes DEF StressInv, Stress!Connection
<1>2. c.state = "open" /\ c.error = "no"
  BY DEF Stress!Server, Stress!TakesRequest, Stress!Answers, Stress!Closes, Stress!Refused,
         Stress!Serving, Stress!Alive
<1>3. ready' = ready \cup {fd} /\ UNCHANGED <<pc, links, batch>>
  BY DEF Stress!Server, Stress!TakesRequest, Stress!Answers, Stress!Closes, Stress!Refused
<1>4. CASE Stress!TakesRequest(fd)
  <2> DEFINE s == [c EXCEPT !.queued = @ - 1]
  <2>1. c.queued > 0 /\ sock' = [sock EXCEPT ![fd] = s] /\ answered' = answered
    BY <1>4 DEF Stress!TakesRequest
  <2>2. /\ s \in Stress!Connection /\ s.state = "open" /\ s.answers <= answered'
        /\ Stress!Reported(c) => Stress!Reported(s)
    BY <1>1, <1>2, <2>1
       DEF Stress!Connection, Stress!Reported, Stress!CanRead, Stress!CanWrite
  <2>3. answered' \in 0 .. MaxAnswers /\ answered <= answered'
    BY <1>1, <2>1
  <2> HIDE DEF s
  <2>4. QED
    BY <1>1, <1>2, <1>3, <2>1, <2>2, <2>3, StressChanged
<1>5. CASE Stress!Answers(fd)
  <2> DEFINE s == [c EXCEPT !.answers = @ + 1]
  <2>1. answered < MaxAnswers /\ sock' = [sock EXCEPT ![fd] = s] /\ answered' = answered + 1
    BY <1>5 DEF Stress!Answers
  <2>2. /\ s \in Stress!Connection /\ s.state = "open" /\ s.answers <= answered'
        /\ Stress!Reported(c) => Stress!Reported(s)
    BY <1>1, <1>2, <2>1
       DEF Stress!Connection, Stress!Reported, Stress!CanRead, Stress!CanWrite
  <2>3. answered' \in 0 .. MaxAnswers /\ answered <= answered'
    BY <1>1, <2>1
  <2> HIDE DEF s
  <2>4. QED
    BY <1>1, <1>2, <1>3, <2>1, <2>2, <2>3, StressChanged
<1>6. CASE Stress!Closes(fd)
  <2> DEFINE s == IF c.queued = 0 THEN [c EXCEPT !.end = TRUE] ELSE [c EXCEPT !.error = "reset"]
  <2>1. sock' = [sock EXCEPT ![fd] = s] /\ answered' = answered
    BY <1>6 DEF Stress!Closes
  <2>2. /\ s \in Stress!Connection /\ s.state = "open" /\ s.answers <= answered'
        /\ Stress!Reported(c) => Stress!Reported(s)
    BY <1>1, <1>2, <2>1
       DEF Stress!Connection, Stress!Reported, Stress!CanRead, Stress!CanWrite
  <2>3. answered' \in 0 .. MaxAnswers /\ answered <= answered'
    BY <1>1, <2>1
  <2> HIDE DEF s
  <2>4. QED
    BY <1>1, <1>2, <1>3, <2>1, <2>2, <2>3, StressChanged
<1>7. CASE Stress!Refused(fd)
  <2> DEFINE drained == [c EXCEPT !.queued = 0]
             s == [drained EXCEPT !.error = "pipe"]
  <2>1. sock' = [sock EXCEPT ![fd] = s] /\ answered' = answered
    BY <1>7 DEF Stress!Refused
  <2>2. /\ s \in Stress!Connection /\ s.state = "open" /\ s.answers <= answered'
        /\ Stress!Reported(c) => Stress!Reported(s)
    <3>1. /\ drained \in Stress!Connection /\ drained.state = "open"
          /\ drained.answers = c.answers
      BY <1>1, <1>2 DEF Stress!Connection
    <3> HIDE DEF drained
    <3>2. /\ s \in Stress!Connection /\ s.state = "open" /\ s.answers = c.answers
          /\ s.error # "no"
      BY <3>1 DEF Stress!Connection
    <3>3. QED
      BY <1>1, <2>1, <3>2 DEF Stress!Reported, Stress!CanRead, Stress!CanWrite
  <2>3. answered' \in 0 .. MaxAnswers /\ answered <= answered'
    BY <1>1, <2>1
  <2> HIDE DEF s
  <2>4. QED
    BY <1>1, <1>2, <1>3, <2>1, <2>2, <2>3, StressChanged
<1>8. QED
  BY <1>4, <1>5, <1>6, <1>7 DEF Stress!Server

LEMMA StressStep == StressInv /\ Stress!Next => StressInv'
<1>1. SUFFICES ASSUME StressInv, Stress!Next
               PROVE  StressInv'
  OBVIOUS
<1>2. CASE Stress!WriteKilled
  <2>1. pc' = "killed" /\ UNCHANGED <<links, batch, ready, sock, answered>>
    BY <1>2 DEF Stress!WriteKilled
  <2>2. QED
    BY <1>1, <2>1 DEF StressInv, StressBatch, Stress!TypeOK, Expected
<1>3. QED
  BY <1>1, <1>2, StressConnects, StressWaits, StressReads, StressWrites, StressServed
     DEF Stress!Next, Stress!Tester

\* Whatever is handled is open and has what is asked of it.
LEMMA StressNeverWaits == StressInv => Stress!NeverWaits
<1>1. SUFFICES ASSUME StressInv, pc = "batch"
               PROVE  Expected(Head(batch))
  BY DEF Stress!NeverWaits, Stress!Current, Expected
<1>2. batch # <<>> /\ batch \in Seq(Stress!Fd)
  BY <1>1 DEF StressInv, StressBatch, Stress!TypeOK
<1>3. 1 \in DOMAIN batch /\ Head(batch) = batch[1]
  BY <1>2
<1>4. QED
  BY <1>1, <1>3 DEF StressInv, StressBatch

-----------------------------------------------------------------------------
(* ServerTest5.                                                            *)

EchoInRound == pc \in {"round", "read"}

\* The part of the array that the round has still to come to names nothing twice,
\* and a connection waits for an entry of the listening socket in it.
EchoBatch ==
    EchoInRound =>
        /\ i < ret
        /\ \A m, n \in i + 1 .. ret : events[m] = events[n] => m = n
        /\ \A n \in i + 1 .. ret : events[n] = Echo!lfd => backlog # <<>>

\* There is a free descriptor for every connection that waits.
EchoCounted ==
    /\ \A k \in DOMAIN backlog : backlog[k].open
    /\ Cardinality(Echo!Open) + Len(backlog) <= arrived

EchoInv ==
    /\ Echo!TypeOK /\ Echo!AssertHolds
    /\ EchoBatch /\ EchoCounted
    /\ pc = "read" => events[i + 1] \in Echo!Fd

EchoSource == {Echo!lfd, Echo!udpfd} \cup Echo!Fd

LEMMA EchoTypes ==
    ASSUME EchoInv
    PROVE  /\ events \in Seq(EchoSource) /\ Len(events) \in Nat /\ ret \in 0 .. Len(events)
           /\ DOMAIN events = 1 .. Len(events)
           /\ i \in 0 .. ret /\ ready \subseteq EchoSource
           /\ sock \in [Echo!Fd -> Echo!Socket]
           /\ backlog \in Seq(Echo!Socket) /\ Len(backlog) \in Nat
           /\ DOMAIN backlog = 1 .. Len(backlog) /\ udp \in Nat
           /\ arrived \in 0 .. MaxClients /\ sent \in 0 .. MaxSent
           /\ MaxClients \in Nat /\ MaxSent \in Nat /\ Room \in Nat
BY BoundAssumption DEF EchoInv, Echo!TypeOK, EchoSource

LEMMA EchoOpen ==
    /\ IsFiniteSet(Echo!Fd) /\ Cardinality(Echo!Fd) = MaxClients
    /\ IsFiniteSet(Echo!Open) /\ Cardinality(Echo!Open) \in Nat /\ Echo!Open \subseteq Echo!Fd
<1>1. IsFiniteSet(Echo!Fd) /\ Cardinality(Echo!Fd) = MaxClients
  BY BoundAssumption, FS_Interval DEF Echo!Fd
<1>2. QED
  BY <1>1, FS_Subset, FS_CardinalityType DEF Echo!Open

LEMMA EchoInit == Echo!Init => EchoInv
<1>1. SUFFICES ASSUME Echo!Init
               PROVE  EchoInv
  OBVIOUS
<1>2. /\ pc = "wait" /\ events = <<>> /\ i = 0 /\ ret = 0 /\ ready = {}
      /\ backlog = <<>> /\ udp = 0 /\ arrived = 0 /\ sent = 0
      /\ sock = [fd \in Echo!Fd |-> Echo!Fresh]
  BY <1>1 DEF Echo!Init
<1>3. /\ events \in Seq({Echo!lfd, Echo!udpfd} \cup Echo!Fd) /\ backlog \in Seq(Echo!Socket)
      /\ Len(events) = 0 /\ Len(backlog) = 0
  BY <1>2, EmptySeq
<1>4. Echo!Fresh \in Echo!Socket /\ ~ Echo!Fresh.open
  BY DEF Echo!Fresh, Echo!Socket
<1>5. /\ ret \in 0 .. Len(events) /\ i \in 0 .. ret /\ udp \in Nat
      /\ arrived \in 0 .. MaxClients /\ sent \in 0 .. MaxSent
  BY <1>2, <1>3, BoundAssumption
<1>6. Echo!TypeOK
  BY <1>2, <1>3, <1>4, <1>5 DEF Echo!TypeOK
<1>7. Echo!Open = {}
  BY <1>2, <1>4 DEF Echo!Open
<1>8. EchoCounted
  BY <1>2, <1>3, <1>7, FS_EmptySet DEF EchoCounted
<1>9. QED
  BY <1>2, <1>6, <1>8 DEF EchoInv, EchoBatch, EchoInRound, Echo!AssertHolds

LEMMA EchoWaits == EchoInv /\ Echo!epoll_wait => EchoInv'
<1>1. SUFFICES ASSUME EchoInv, Echo!epoll_wait
               PROVE  EchoInv'
  OBVIOUS
<1> DEFINE S == {s \in ready : Echo!Readable(s)}
<1>2. /\ S \subseteq EchoSource /\ events \in Seq(EchoSource) /\ Len(events) \in Nat
      /\ DOMAIN events = 1 .. Len(events)
  BY <1>1, EchoTypes
<1>3. IsFiniteSet(S)
  BY <1>2, Descriptors DEF EchoSource, Echo!lfd, Echo!udpfd, Echo!Fd
<1>4. PICK reported \in Orders(S) :
        /\ reported # <<>>
        /\ events' = reported \o SubSeq(events, Len(reported) + 1, Len(events))
        /\ ret' = Len(reported)
  BY <1>1, SameOrders DEF Echo!epoll_wait
<1>5. /\ ready' = {} /\ i' = 0 /\ pc' = "round"
      /\ UNCHANGED <<sock, backlog, udp, arrived, sent>>
  BY <1>1 DEF Echo!epoll_wait
<1>6. /\ reported \in Seq(S) /\ Len(reported) \in Nat /\ DOMAIN reported = 1 .. Len(reported)
      /\ Different(reported) /\ \A n \in 1 .. Len(reported) : reported[n] \in S
  <2> HIDE DEF S
  <2> QED
    BY <1>3, <1>4, OrderIs
<1>7. Len(reported) > 0
  BY <1>4, <1>6, EmptySeq
<1> DEFINE rest == SubSeq(events, Len(reported) + 1, Len(events))
<1>8. rest \in Seq(EchoSource) /\ Len(rest) \in Nat
  <2>1. \A n \in Len(reported) + 1 .. Len(events) : events[n] \in EchoSource
    BY <1>2, <1>6, ElementOfSeq
  <2>2. Len(reported) + 1 \in Int /\ Len(events) \in Int
    BY <1>2, <1>6
  <2>3. QED
    BY <2>1, <2>2, SubSeqProperties
<1>9. reported \in Seq(EchoSource)
  BY <1>2, <1>6
<1> HIDE DEF rest, S
<1>10. /\ events' \in Seq(EchoSource) /\ Len(events') = Len(reported) + Len(rest)
       /\ \A n \in 1 .. Len(reported) : events'[n] = reported[n]
  <2>1. events' = reported \o rest
    BY <1>4 DEF rest
  <2>2. QED
    BY <1>6, <1>8, <1>9, <2>1, ConcatProperties
<1>11. Echo!TypeOK'
  <2>1. ret' \in 0 .. Len(events') /\ i' \in 0 .. ret'
    BY <1>4, <1>5, <1>6, <1>8, <1>10
  <2>2. events' \in Seq({Echo!lfd, Echo!udpfd} \cup Echo!Fd)
    BY <1>10 DEF EchoSource
  <2>3. QED
    BY <1>1, <1>5, <2>1, <2>2 DEF EchoInv, Echo!TypeOK
<1>12. \A n \in 1 .. Len(reported) : reported[n] = Echo!lfd => backlog # <<>>
  BY <1>6 DEF S, Echo!Readable, Echo!lfd, Echo!udpfd
<1>13. EchoBatch'
  <2>1. i' < ret' /\ i' + 1 .. ret' = 1 .. Len(reported) /\ backlog' = backlog
    BY <1>4, <1>5, <1>6, <1>7
  <2>2. \A m, n \in 1 .. Len(reported) : events'[m] = events'[n] => m = n
    BY <1>6, <1>10 DEF Different
  <2>3. \A n \in 1 .. Len(reported) : events'[n] = Echo!lfd => backlog' # <<>>
    BY <1>10, <1>12, <2>1
  <2>4. QED
    BY <2>1, <2>2, <2>3 DEF EchoBatch
<1>14. Echo!Open' = Echo!Open
  BY <1>5 DEF Echo!Open
<1>15. EchoCounted'
  BY <1>1, <1>5, <1>14 DEF EchoInv, EchoCounted
<1>16. QED
  BY <1>5, <1>11, <1>13, <1>15 DEF EchoInv, Echo!AssertHolds

\* The next iteration finds the rest of the batch as it was, also when this one has
\* taken a connection: the listening socket is not in the rest again.
LEMMA EchoRound ==
    ASSUME EchoInv, EchoInRound, Echo!Next_i, events' = events, ret' = ret,
           backlog' = backlog \/ events[i + 1] = Echo!lfd
    PROVE  /\ EchoBatch' /\ i' \in 0 .. ret' /\ ret' \in 0 .. Len(events')
           /\ pc' \in {"round", "wait"}
<1>1. /\ i \in 0 .. ret /\ ret \in 0 .. Len(events) /\ Len(events) \in Nat
      /\ i < ret /\ i \in Nat /\ ret \in Nat
  BY EchoTypes DEF EchoInv, EchoBatch
<1>2. /\ i' = i + 1 /\ pc' = (IF i + 1 < ret THEN "round" ELSE "wait")
  BY DEF Echo!Next_i, Echo!MoreEvents
<1>3. i' + 1 .. ret' \subseteq i + 1 .. ret /\ i + 1 \in i + 1 .. ret
  BY <1>1, <1>2
<1>4. \A m, n \in i' + 1 .. ret' : events'[m] = events'[n] => m = n
  BY <1>3 DEF EchoInv, EchoBatch
<1>5. ASSUME NEW n \in i' + 1 .. ret', events'[n] = Echo!lfd
      PROVE  backlog' # <<>>
  <2>1. n \in i + 1 .. ret /\ n # i + 1
    BY <1>1, <1>2, <1>3, <1>5
  <2>2. events[i + 1] # events[n]
    BY <1>3, <2>1 DEF EchoInv, EchoBatch
  <2>3. backlog' = backlog
    BY <1>5, <2>2
  <2>4. QED
    BY <1>5, <2>1, <2>3 DEF EchoInv, EchoBatch
<1>6. EchoInRound' => i' < ret'
  BY <1>1, <1>2 DEF EchoInRound
<1>7. EchoBatch'
  BY <1>4, <1>5, <1>6 DEF EchoBatch
<1>8. QED
  BY <1>1, <1>2, <1>7

\* The lowest free descriptor, which there is while a connection waits.
LEMMA EchoFreeFd ==
    ASSUME EchoInv, backlog # <<>>
    PROVE  Echo!Min(Echo!Fd \ Echo!Open) \in Echo!Fd \ Echo!Open
<1>1. /\ MaxClients \in Nat /\ arrived \in 0 .. MaxClients /\ Len(backlog) \in Nat
      /\ Len(backlog) # 0
  BY EchoTypes, EmptySeq
<1>2. Cardinality(Echo!Open) < MaxClients
  BY <1>1, EchoOpen DEF EchoInv, EchoCounted
<1>3. Echo!Fd \ Echo!Open # {}
  <2>1. SUFFICES ASSUME Echo!Fd = Echo!Open
                 PROVE  FALSE
    BY EchoOpen
  <2>2. QED
    BY <1>1, <1>2, <2>1, EchoOpen
<1>4. Echo!Fd \ Echo!Open \subseteq Nat
  BY <1>1 DEF Echo!Fd
<1>5. \E x \in Echo!Fd \ Echo!Open : \A y \in Echo!Fd \ Echo!Open : x =< y
  BY <1>3, <1>4, Least
<1>6. QED
  BY <1>5 DEF Echo!Min

LEMMA EchoAccepts == EchoInv /\ Echo!Accept => EchoInv'
<1>1. SUFFICES ASSUME EchoInv, Echo!Accept
               PROVE  EchoInv'
  OBVIOUS
<1> DEFINE fd == Echo!Min(Echo!Fd \ Echo!Open)
<1>2. /\ events \in Seq(EchoSource) /\ ready \subseteq EchoSource
      /\ sock \in [Echo!Fd -> Echo!Socket] /\ backlog \in Seq(Echo!Socket)
      /\ Len(backlog) \in Nat /\ DOMAIN backlog = 1 .. Len(backlog)
      /\ arrived \in 0 .. MaxClients /\ MaxClients \in Nat
      /\ i \in 0 .. ret /\ ret \in 0 .. Len(events)
  BY <1>1, EchoTypes
<1>3. /\ pc = "round" /\ events[i + 1] = Echo!lfd
      /\ UNCHANGED <<events, ret, udp, arrived, sent>>
  BY <1>1 DEF Echo!Accept, Echo!At
<1>4. backlog # <<>>
  <2>1. i < ret
    BY <1>1, <1>3 DEF EchoInv, EchoBatch, EchoInRound
  <2>2. i + 1 \in i + 1 .. ret
    BY <1>2, <2>1
  <2>3. QED
    BY <1>1, <1>3, <2>2 DEF EchoInv, EchoBatch, EchoInRound
<1>5. /\ sock' = [sock EXCEPT ![fd] = Head(backlog)]
      /\ ready' = ready \cup Echo!Added(fd, Head(backlog))
      /\ backlog' = Tail(backlog) /\ Echo!Next_i
  BY <1>1, <1>4 DEF Echo!Accept
<1>6. fd \in Echo!Fd /\ fd \notin Echo!Open
  BY <1>1, <1>4, EchoFreeFd
<1> HIDE DEF fd
<1>7. /\ Head(backlog) \in Echo!Socket /\ Head(backlog) = backlog[1] /\ Len(backlog) >= 1
      /\ backlog' \in Seq(Echo!Socket) /\ Len(backlog') = Len(backlog) - 1
      /\ DOMAIN backlog' = 1 .. Len(backlog')
      /\ \A k \in 1 .. Len(backlog') : backlog'[k] = backlog[k + 1]
  BY <1>2, <1>4, <1>5, HeadTailProperties
<1>8. Head(backlog).open
  BY <1>1, <1>2, <1>7 DEF EchoInv, EchoCounted
<1>9. /\ EchoBatch' /\ i' \in 0 .. ret' /\ ret' \in 0 .. Len(events')
      /\ pc' \in {"round", "wait"}
  BY <1>1, <1>3, <1>5, EchoRound DEF EchoInRound
<1>10. Echo!TypeOK'
  <2>1. ready' \subseteq {Echo!lfd, Echo!udpfd} \cup Echo!Fd
    BY <1>2, <1>5, <1>6 DEF Echo!Added, EchoSource
  <2>2. sock' \in [Echo!Fd -> Echo!Socket]
    BY <1>2, <1>5, <1>7
  <2>3. QED
    BY <1>1, <1>3, <1>7, <1>9, <2>1, <2>2 DEF EchoInv, Echo!TypeOK
<1>11. Echo!Open' = Echo!Open \cup {fd}
  BY <1>2, <1>5, <1>6, <1>8 DEF Echo!Open
<1>12. Cardinality(Echo!Open') = Cardinality(Echo!Open) + 1
  BY <1>6, <1>11, EchoOpen, FS_AddElement
<1>13. EchoCounted'
  <2>1. \A k \in DOMAIN backlog' : backlog'[k].open
    <3>1. TAKE k \in DOMAIN backlog'
    <3>2. k + 1 \in DOMAIN backlog /\ backlog'[k] = backlog[k + 1]
      BY <1>2, <1>7
    <3>3. QED
      BY <1>1, <3>2 DEF EchoInv, EchoCounted
  <2>2. Cardinality(Echo!Open') + Len(backlog') <= arrived'
    BY <1>1, <1>2, <1>3, <1>7, <1>12, EchoOpen DEF EchoInv, EchoCounted
  <2>3. QED
    BY <2>1, <2>2 DEF EchoCounted
<1>14. QED
  BY <1>9, <1>10, <1>13 DEF EchoInv, Echo!AssertHolds

\* A step that opens no connection.
LEMMA EchoOpensNone ==
    ASSUME EchoInv, NEW fd \in Echo!Fd, NEW s \in Echo!Socket, s.open => sock[fd].open,
           sock' = [sock EXCEPT ![fd] = s], backlog' = backlog, arrived' = arrived
    PROVE  EchoCounted' /\ sock' \in [Echo!Fd -> Echo!Socket]
<1>1. sock \in [Echo!Fd -> Echo!Socket]
  BY EchoTypes
<1>2. Echo!Open' \subseteq Echo!Open
  BY <1>1 DEF Echo!Open
<1>3. Cardinality(Echo!Open') <= Cardinality(Echo!Open) /\ Cardinality(Echo!Open') \in Nat
  BY <1>2, EchoOpen, FS_Subset, FS_CardinalityType
<1>4. arrived \in Nat /\ Len(backlog) \in Nat
  BY EchoTypes
<1>5. Cardinality(Echo!Open') + Len(backlog') <= arrived'
  BY <1>3, <1>4, EchoOpen DEF EchoInv, EchoCounted
<1>6. QED
  BY <1>1, <1>5 DEF EchoInv, EchoCounted

LEMMA EchoDatagram == EchoInv /\ Echo!Datagram => EchoInv'
<1>1. SUFFICES ASSUME EchoInv, Echo!Datagram
               PROVE  EchoInv'
  OBVIOUS
<1>2. /\ pc = "round" /\ Echo!Next_i
      /\ UNCHANGED <<events, ret, ready, sock, backlog, arrived, sent>>
  BY <1>1 DEF Echo!Datagram, Echo!At
<1>3. udp' \in Nat
  BY <1>1, EchoTypes DEF Echo!Datagram
<1>4. /\ EchoBatch' /\ i' \in 0 .. ret' /\ ret' \in 0 .. Len(events')
      /\ pc' \in {"round", "wait"}
  BY <1>1, <1>2, EchoRound DEF EchoInRound
<1>5. Echo!TypeOK'
  BY <1>1, <1>2, <1>3, <1>4 DEF EchoInv, Echo!TypeOK
<1>6. Echo!Open' = Echo!Open
  BY <1>2 DEF Echo!Open
<1>7. EchoCounted'
  BY <1>1, <1>2, <1>6 DEF EchoInv, EchoCounted
<1>8. QED
  BY <1>4, <1>5, <1>7 DEF EchoInv, Echo!AssertHolds

\* A step that does not move the round.
LEMMA EchoStays ==
    ASSUME EchoInv, UNCHANGED <<events, i, ret>>, EchoInRound' => EchoInRound,
           pc' # "aborted", pc' = "read" => events[i + 1] \in Echo!Fd,
           Echo!TypeOK', EchoCounted', backlog # <<>> => backlog' # <<>>
    PROVE  EchoInv'
BY DEF EchoInv, EchoBatch, Echo!AssertHolds

LEMMA EchoReadBegins == EchoInv /\ (Echo!ReadBegin \/ Echo!SendKilled) => EchoInv'
<1>1. SUFFICES ASSUME EchoInv, Echo!ReadBegin \/ Echo!SendKilled
               PROVE  EchoInv'
  OBVIOUS
<1>2. UNCHANGED <<events, ret, i, ready, sock, backlog, udp, arrived, sent>>
  BY <1>1 DEF Echo!ReadBegin, Echo!SendKilled
<1>3. /\ pc \in {"round", "read"} /\ pc' \in {"read", "killed"}
      /\ pc' = "read" => events[i + 1] \in Echo!Fd
  BY <1>1 DEF Echo!ReadBegin, Echo!SendKilled, Echo!At
<1>4. Echo!TypeOK'
  BY <1>1, <1>2, <1>3 DEF EchoInv, Echo!TypeOK
<1>5. Echo!Open' = Echo!Open
  BY <1>2 DEF Echo!Open
<1>6. EchoCounted'
  BY <1>1, <1>2, <1>5 DEF EchoInv, EchoCounted
<1>7. QED
  BY <1>1, <1>2, <1>3, <1>4, <1>6, EchoStays DEF EchoInRound

LEMMA EchoReads == EchoInv /\ Echo!Read => EchoInv'
<1>1. SUFFICES ASSUME EchoInv, Echo!Read
               PROVE  EchoInv'
  OBVIOUS
<1> DEFINE fd == events[i + 1]
           c == sock[fd]
           read == [c EXCEPT !.bytes = IF @ > Room THEN @ - Room ELSE 0]
           echoed == [read EXCEPT !.echoed = TRUE]
           s == IF c.bytes > 0
                THEN [echoed EXCEPT !.end = IF @ = "reset" THEN "broken" ELSE @]
                ELSE IF c.end = "no" THEN c ELSE Echo!Fresh
<1>2. /\ pc = "read" /\ fd \in Echo!Fd
      /\ UNCHANGED <<events, ret, backlog, udp, arrived, sent>>
  BY <1>1 DEF EchoInv, Echo!Read
<1>3. /\ sock \in [Echo!Fd -> Echo!Socket] /\ c \in Echo!Socket /\ Room \in Nat
      /\ ready \subseteq EchoSource
  BY <1>1, <1>2, EchoTypes
<1>4. sock' = [sock EXCEPT ![fd] = s]
  <2> DEFINE sent0 == [c EXCEPT !.bytes = IF @ > Room THEN @ - Room ELSE 0,
                                !.echoed = TRUE,
                                !.end = IF @ = "reset" THEN "broken" ELSE @]
  <2>1. sock' = [sock EXCEPT ![fd] = IF c.bytes > 0 THEN sent0
                                     ELSE IF c.end = "no" THEN c ELSE Echo!Fresh]
    BY <1>1 DEF Echo!Read
  <2>2. sent0 = [echoed EXCEPT !.end = IF @ = "reset" THEN "broken" ELSE @]
    BY <1>3 DEF Echo!Socket
  <2> HIDE DEF sent0
  <2>3. QED
    BY <2>1, <2>2
<1>5. s \in Echo!Socket /\ (s.open => c.open)
  <2>1. CASE c.bytes > 0
    <3>1. read \in Echo!Socket /\ read.open = c.open
      BY <1>3, <2>1 DEF Echo!Socket
    <3> HIDE DEF read
    <3>2. echoed \in Echo!Socket /\ echoed.open = c.open
      BY <3>1 DEF Echo!Socket
    <3> HIDE DEF echoed
    <3>3. /\ [echoed EXCEPT !.end = IF @ = "reset" THEN "broken" ELSE @] \in Echo!Socket
          /\ [echoed EXCEPT !.end = IF @ = "reset" THEN "broken" ELSE @].open = c.open
      BY <3>2 DEF Echo!Socket
    <3>4. QED
      BY <2>1, <3>3
  <2>2. CASE ~ c.bytes > 0
    <3>1. Echo!Fresh \in Echo!Socket /\ ~ Echo!Fresh.open
      BY DEF Echo!Fresh, Echo!Socket
    <3>2. QED
      BY <1>3, <2>2, <3>1
  <2>3. QED
    BY <2>1, <2>2
<1>6. ready' \subseteq ready
  BY <1>1 DEF Echo!Read
<1>7. UNCHANGED <<pc, i>> \/ Echo!Next_i
  BY <1>1 DEF Echo!Read
<1> HIDE DEF s, c, fd, read, echoed
<1>8. EchoCounted' /\ sock' \in [Echo!Fd -> Echo!Socket]
  BY <1>1, <1>2, <1>4, <1>5, EchoOpensNone DEF c
<1>9. ready' \subseteq {Echo!lfd, Echo!udpfd} \cup Echo!Fd
  BY <1>3, <1>6 DEF EchoSource
<1>10. CASE UNCHANGED <<pc, i>>
  <2>1. Echo!TypeOK'
    BY <1>1, <1>2, <1>8, <1>9, <1>10 DEF EchoInv, Echo!TypeOK
  <2>2. QED
    BY <1>1, <1>2, <1>8, <1>10, <2>1, EchoStays DEF EchoInRound, fd
<1>11. CASE Echo!Next_i
  <2>1. /\ EchoBatch' /\ i' \in 0 .. ret' /\ ret' \in 0 .. Len(events')
        /\ pc' \in {"round", "wait"}
    BY <1>1, <1>2, <1>11, EchoRound DEF EchoInRound
  <2>2. Echo!TypeOK'
    BY <1>1, <1>2, <1>8, <1>9, <2>1 DEF EchoInv, Echo!TypeOK
  <2>3. QED
    BY <1>8, <2>1, <2>2 DEF EchoInv, Echo!AssertHolds
<1>12. QED
  BY <1>7, <1>10, <1>11

\* A client sends or goes: its connection stays open, and it is counted.
LEMMA EchoActs ==
    ASSUME NEW c \in Echo!Socket, c.end = "no", NEW s \in Echo!Acts(c), Echo!SentBy(s),
           sent \in 0 .. MaxSent
    PROVE  s \in Echo!Socket /\ s.open = c.open /\ sent' \in 0 .. MaxSent
<1>1. MaxSent \in Nat
  BY BoundAssumption
<1>2. CASE s \in {[c EXCEPT !.end = "left"], [c EXCEPT !.end = "reset"]}
  <2>1. s \in Echo!Socket /\ s.open = c.open /\ s.end # "no"
    BY <1>2 DEF Echo!Socket
  <2>2. QED
    BY <2>1 DEF Echo!SentBy
<1>3. CASE sent < MaxSent /\ s = [c EXCEPT !.bytes = @ + 1]
  <2>1. s \in Echo!Socket /\ s.open = c.open /\ s.end = "no"
    BY <1>3 DEF Echo!Socket
  <2>2. QED
    BY <1>1, <1>3, <2>1 DEF Echo!SentBy
<1>4. QED
  BY <1>2, <1>3 DEF Echo!Acts

LEMMA EchoClients ==
    EchoInv /\ (Echo!Connect \/ Echo!ActsAccepted \/ Echo!ActsWaiting \/ Echo!Refused
                  \/ Echo!SendDatagram) => EchoInv'
<1>1. SUFFICES ASSUME EchoInv,
                      \/ Echo!Connect \/ Echo!ActsAccepted \/ Echo!ActsWaiting
                      \/ Echo!Refused \/ Echo!SendDatagram
               PROVE  EchoInv'
  OBVIOUS
<1>2. /\ ready \subseteq EchoSource /\ sock \in [Echo!Fd -> Echo!Socket]
      /\ backlog \in Seq(Echo!Socket) /\ Len(backlog) \in Nat
      /\ DOMAIN backlog = 1 .. Len(backlog) /\ udp \in Nat
      /\ arrived \in 0 .. MaxClients /\ sent \in 0 .. MaxSent
      /\ MaxClients \in Nat /\ MaxSent \in Nat
      /\ Echo!TypeOK /\ EchoCounted /\ (pc = "read" => events[i + 1] \in Echo!Fd)
      /\ pc # "aborted"
  BY <1>1, EchoTypes DEF EchoInv, Echo!AssertHolds
<1>3. UNCHANGED <<pc, events, i, ret>>
  BY <1>1 DEF Echo!Connect, Echo!ActsAccepted, Echo!ActsWaiting, Echo!Refused,
              Echo!SendDatagram, Echo!loopVars
<1>4. SUFFICES Echo!TypeOK' /\ EchoCounted' /\ (backlog # <<>> => backlog' # <<>>)
  BY <1>1, <1>2, <1>3, EchoStays DEF EchoInRound
<1>5. CASE Echo!Connect
  <2> DEFINE new == [Echo!Fresh EXCEPT !.open = TRUE]
  <2>1. /\ arrived < MaxClients /\ arrived' = arrived + 1
        /\ backlog' = Append(backlog, new) /\ ready' = ready \cup {Echo!lfd}
        /\ UNCHANGED <<sock, udp, sent>>
    BY <1>5 DEF Echo!Connect
  <2>2. new \in Echo!Socket /\ new.open
    BY DEF Echo!Fresh, Echo!Socket
  <2> HIDE DEF new
  <2>3. /\ backlog' \in Seq(Echo!Socket) /\ Len(backlog') = Len(backlog) + 1
        /\ DOMAIN backlog' = 1 .. Len(backlog) + 1 /\ backlog' # <<>>
        /\ \A k \in 1 .. Len(backlog) : backlog'[k] = backlog[k]
        /\ backlog'[Len(backlog) + 1] = new
    BY <1>2, <2>1, <2>2, AppendProperties
  <2>4. Echo!TypeOK'
    <3>1. arrived' \in 0 .. MaxClients
      BY <1>2, <2>1
    <3>2. ready' \subseteq {Echo!lfd, Echo!udpfd} \cup Echo!Fd
      BY <1>2, <2>1 DEF EchoSource
    <3>3. QED
      BY <1>2, <1>3, <2>1, <2>3, <3>1, <3>2 DEF Echo!TypeOK
  <2>5. Echo!Open' = Echo!Open
    BY <2>1 DEF Echo!Open
  <2>6. \A k \in DOMAIN backlog' : backlog'[k].open
    BY <1>2, <2>2, <2>3 DEF EchoCounted
  <2>7. Cardinality(Echo!Open') + Len(backlog') <= arrived'
    BY <1>2, <2>1, <2>3, <2>5, EchoOpen DEF EchoCounted
  <2>8. QED
    BY <2>3, <2>4, <2>6, <2>7 DEF EchoCounted
<1>6. CASE Echo!ActsAccepted
  <2>1. PICK fd \in Echo!Open : sock[fd].end = "no" /\ \E s \in Echo!Acts(sock[fd]) :
          /\ sock' = [sock EXCEPT ![fd] = s]
          /\ ready' = ready \cup {fd}
          /\ Echo!SentBy(s)
    BY <1>6 DEF Echo!ActsAccepted
  <2>2. PICK s \in Echo!Acts(sock[fd]) :
          /\ sock' = [sock EXCEPT ![fd] = s]
          /\ ready' = ready \cup {fd}
          /\ Echo!SentBy(s)
    BY <2>1
  <2>3. UNCHANGED <<backlog, udp, arrived>>
    BY <1>6 DEF Echo!ActsAccepted
  <2>4. fd \in Echo!Fd /\ sock[fd] \in Echo!Socket
    BY <1>2 DEF Echo!Open
  <2>5. s \in Echo!Socket /\ s.open = sock[fd].open /\ sent' \in 0 .. MaxSent
    BY <1>2, <2>1, <2>2, <2>4, EchoActs
  <2>6. EchoCounted' /\ sock' \in [Echo!Fd -> Echo!Socket]
    BY <1>1, <2>2, <2>3, <2>4, <2>5, EchoOpensNone
  <2>7. ready' \subseteq {Echo!lfd, Echo!udpfd} \cup Echo!Fd
    BY <1>2, <2>2, <2>4 DEF EchoSource
  <2>8. Echo!TypeOK'
    BY <1>2, <1>3, <2>3, <2>5, <2>6, <2>7 DEF Echo!TypeOK
  <2>9. QED
    BY <2>3, <2>6, <2>8
<1>7. CASE Echo!ActsWaiting
  <2>1. PICK k \in DOMAIN backlog : backlog[k].end = "no" /\ \E s \in Echo!Acts(backlog[k]) :
          /\ backlog' = [backlog EXCEPT ![k] = s]
          /\ Echo!SentBy(s)
    BY <1>7 DEF Echo!ActsWaiting
  <2>2. PICK s \in Echo!Acts(backlog[k]) :
          /\ backlog' = [backlog EXCEPT ![k] = s]
          /\ Echo!SentBy(s)
    BY <2>1
  <2>3. UNCHANGED <<sock, ready, udp, arrived>>
    BY <1>7 DEF Echo!ActsWaiting
  <2>4. k \in 1 .. Len(backlog) /\ backlog[k] \in Echo!Socket
    BY <1>2, <2>1, ElementOfSeq
  <2>5. s \in Echo!Socket /\ s.open = backlog[k].open /\ sent' \in 0 .. MaxSent
    BY <1>2, <2>1, <2>2, <2>4, EchoActs
  <2>6. /\ backlog' \in Seq(Echo!Socket) /\ Len(backlog') = Len(backlog)
        /\ DOMAIN backlog' = 1 .. Len(backlog)
        /\ \A n \in 1 .. Len(backlog) : backlog'[n] = IF n = k THEN s ELSE backlog[n]
    BY <1>2, <2>2, <2>4, <2>5, ExceptSeq
  <2>7. Echo!TypeOK'
    BY <1>2, <1>3, <2>3, <2>5, <2>6 DEF Echo!TypeOK
  <2>8. Echo!Open' = Echo!Open
    BY <2>3 DEF Echo!Open
  <2>9. \A n \in DOMAIN backlog' : backlog'[n].open
    BY <1>2, <2>4, <2>5, <2>6 DEF EchoCounted
  <2>10. EchoCounted'
    BY <1>2, <2>3, <2>6, <2>8, <2>9 DEF EchoCounted
  <2>11. backlog' # <<>>
    BY <2>4, <2>6
  <2>12. QED
    BY <2>7, <2>10, <2>11
<1>8. CASE Echo!Refused
  <2>1. PICK fd \in Echo!Open :
          /\ sock' = [sock EXCEPT ![fd].end = "broken"]
          /\ ready' = ready \cup {fd}
    BY <1>8 DEF Echo!Refused
  <2> DEFINE s == [sock[fd] EXCEPT !.end = "broken"]
  <2>2. UNCHANGED <<backlog, udp, arrived, sent>>
    BY <1>8 DEF Echo!Refused
  <2>3. fd \in Echo!Fd /\ sock[fd] \in Echo!Socket
    BY <1>2 DEF Echo!Open
  <2>4. s \in Echo!Socket /\ s.open = sock[fd].open
    BY <2>3 DEF Echo!Socket
  <2>5. sock' = [sock EXCEPT ![fd] = s]
    BY <2>1
  <2> HIDE DEF s
  <2>6. EchoCounted' /\ sock' \in [Echo!Fd -> Echo!Socket]
    BY <1>1, <2>2, <2>3, <2>4, <2>5, EchoOpensNone
  <2>7. ready' \subseteq {Echo!lfd, Echo!udpfd} \cup Echo!Fd
    BY <1>2, <2>1, <2>3 DEF EchoSource
  <2>8. Echo!TypeOK'
    BY <1>2, <1>3, <2>2, <2>6, <2>7 DEF Echo!TypeOK
  <2>9. QED
    BY <2>2, <2>6, <2>8
<1>9. CASE Echo!SendDatagram
  <2>1. /\ sent < MaxSent /\ sent' = sent + 1 /\ udp' = udp + 1
        /\ ready' = ready \cup {Echo!udpfd}
        /\ UNCHANGED <<sock, backlog, arrived>>
    BY <1>9 DEF Echo!SendDatagram
  <2>2. /\ sent' \in 0 .. MaxSent /\ udp' \in Nat
        /\ ready' \subseteq {Echo!lfd, Echo!udpfd} \cup Echo!Fd
    BY <1>2, <2>1 DEF EchoSource
  <2>3. Echo!TypeOK'
    BY <1>2, <1>3, <2>1, <2>2 DEF Echo!TypeOK
  <2>4. Echo!Open' = Echo!Open
    BY <2>1 DEF Echo!Open
  <2>5. QED
    BY <1>2, <2>1, <2>3, <2>4 DEF EchoCounted
<1>10. QED
  BY <1>1, <1>5, <1>6, <1>7, <1>8, <1>9

LEMMA EchoStep == EchoInv /\ Echo!Next => EchoInv'
BY EchoWaits, EchoAccepts, EchoDatagram, EchoReadBegins, EchoReads, EchoClients
   DEF Echo!Next, Echo!Server

-----------------------------------------------------------------------------
(* The four small programs together.                                       *)

\* What is kept of the program that runs.
SmallInv ==
    /\ program = "signal" => SignalInv
    /\ program = "echo" => EchoInv
    /\ program = "stress" => StressInv
    /\ program = "connect" => ConnectInv

LEMMA SmallInit == Init => SmallInv
BY SignalInit, EchoInit, StressInit, ConnectInit DEF Init, SmallInv

LEMMA SmallStep == SmallInv /\ Next => SmallInv'
<1>1. SUFFICES ASSUME SmallInv, Next
               PROVE  SmallInv'
  OBVIOUS
<1>2. /\ program' = program
      /\ program = "signal" => Signal!Next
      /\ program = "echo" => Echo!Next
      /\ program = "stress" => Stress!Next
      /\ program = "connect" => Connect!Next
  BY <1>1 DEF Next, InList, InIdle, InSignal, InEcho, InStress, InConnect
<1>3. QED
  BY <1>1, <1>2, SignalStep, EchoStep, StressStep, NonblockStep DEF SmallInv

LEMMA SmallStutter == SmallInv /\ UNCHANGED vars => SmallInv'
<1>1. SUFFICES ASSUME SmallInv, UNCHANGED vars
               PROVE  SmallInv'
  OBVIOUS
<1>2. /\ UNCHANGED <<program, pc, i, ret, ready, backlog, arrived, sock, epet, signals, sent>>
      /\ UNCHANGED <<stop_server, accepted, raised, events, udp, links, batch, answered>>
      /\ UNCHANGED <<socket, nonblocking, handshake, waited, result>>
  BY <1>1 DEF vars, loopVars, arrayVars, signalOnly, echoOnly, stressOnly, connectOnly
<1>3. SignalInv => SignalInv'
  BY <1>2 DEF SignalInv, Signal!TypeOK, Signal!AssertHolds
<1>4. EchoInv => EchoInv'
  BY <1>2 DEF EchoInv, Echo!TypeOK, Echo!AssertHolds, EchoBatch, EchoCounted, EchoInRound,
              Echo!Open
<1>5. StressInv => StressInv'
  BY <1>2 DEF StressInv, Stress!TypeOK, StressBatch, Expected
<1>6. ConnectInv => ConnectInv'
  BY <1>2 DEF ConnectInv, Connect!TypeOK, Connect!ReturnsConnected, Connect!Writable
<1>7. QED
  BY <1>1, <1>2, <1>3, <1>4, <1>5, <1>6 DEF SmallInv

LEMMA SmallImplies == SmallInv => CallsMeetTheirState
<1>1. SUFFICES ASSUME SmallInv
               PROVE  CallsMeetTheirState
  OBVIOUS
<1>2. /\ program = "signal" => Signal!TypeOK /\ Signal!AssertHolds
      /\ program = "echo" => Echo!TypeOK /\ Echo!AssertHolds
      /\ program = "connect" => Connect!TypeOK /\ Connect!ReturnsConnected
  BY <1>1 DEF SmallInv, SignalInv, EchoInv, ConnectInv
<1>3. program = "stress" => Stress!TypeOK /\ Stress!NeverWaits
  BY <1>1, StressNeverWaits DEF SmallInv, StressInv
<1>4. TypeOK
  BY <1>2, <1>3 DEF TypeOK
<1>5. QED
  BY <1>2, <1>3, <1>4 DEF CallsMeetTheirState

\* Whatever their clients do and whenever signals come, the accepts of ServerTest7
\* and ServerTest5 get the connection that their assertions ask for, the stress
\* tester waits in no receive and no send, and nonblock_connect returns only
\* descriptors that were connected.
THEOREM CallsMeet == Spec => []CallsMeetTheirState
<1>1. Init => SmallInv
  BY SmallInit
<1>2. SmallInv /\ [Next]_vars => SmallInv'
  BY SmallStep, SmallStutter
<1>3. SmallInv => CallsMeetTheirState
  BY SmallImplies
<1>4. QED
  BY <1>1, <1>2, <1>3, PTL DEF Spec

=============================================================================
