-------------------------------- MODULE TimeHeap --------------------------------
(***************************************************************************)
(* The timer heap of TimeHeap.h: a binary heap of timers in an array that  *)
(* doubles when it is full, with the timer that expires first at the root. *)
(*                                                                         *)
(* A sift is a loop, and each iteration is a step here: array[pos] is a    *)
(* hole, held is the timer that is to be placed.  tick() runs callbacks,   *)
(* which may call add_timer and del_timer: a callback is a state in which  *)
(* those are enabled.  Time passes between any two of these, also between  *)
(* the construction of a timer, which fixes the time at which it expires,  *)
(* and its addition.  del_timer is called only for timers in the heap.     *)
(***************************************************************************)
EXTENDS Integers, FiniteSets

CONSTANTS
    Timer,     \* the timers that can exist at a time
    NoTimer,   \* the null pointer
    Caps,      \* the capacities that users choose for a heap
    Timeouts,  \* the timeouts that users choose, in seconds
    MaxMade,   \* bound: timers constructed and not yet added, at a time
    MaxDel,    \* bound: cancelled timers in the heap at a time
    MaxTime    \* bound: no timer is made in, or set for later than, this second

ASSUME HeapAssumption ==
    /\ NoTimer \notin Timer
    /\ Caps \subseteq Nat \ {0}   \* with 0, resize() would double nothing
    /\ Timeouts \subseteq Int
    /\ MaxMade \in Nat /\ MaxDel \in Nat /\ MaxTime \in Nat

VARIABLES
    array, capacity, cur_size,
    erpire,      \* of each timer
    cancelled,   \* the timers whose cb_func is null
    pc,          \* "up" or "down" in a sift, else "out"
    pos, held,   \* the hole and the timer of the sift
    heapify,     \* the constructor's index i, -1 when it is done
    ticking, cur,   \* tick() is running, and the time it has read
    cb,          \* the timer whose callback is running, or NoTimer
    now,         \* the clock
    made,        \* the timers constructed and not yet added
    set,         \* history: added and not popped
    added        \* history: what the callback that is running has added

heapVars == <<array, capacity, cur_size>>
siftVars == <<pc, pos, held>>
tickVars == <<ticking, cur, cb, added>>
vars == <<heapVars, siftVars, tickVars, erpire, cancelled, heapify, now, made, set>>

Used == 0 .. cur_size - 1

\* A faulty variant: the last timer does not count.
EmptyButRoot == cur_size <= 1

Empty == cur_size = 0

\* Lines 42-86: the second constructor takes over timers in any order, and
\* sifts each inner node down.  Its growing (line 61) is outside the model: it
\* would read the array before there is one, so size <= cap is its contract.
Init ==
    /\ capacity \in Caps
    /\ \E old \in [0 .. capacity - 1 -> Timer \cup {NoTimer}] :
         /\ \A i, k \in DOMAIN old : i < k =>
              \/ old[k] = NoTimer
              \/ old[i] # NoTimer /\ old[i] # old[k]
         /\ array = old
         /\ set = {old[i] : i \in DOMAIN old} \ {NoTimer}
    /\ cur_size \in 0 .. capacity
    /\ \A i \in 0 .. capacity - 1 : i < cur_size <=> array[i] # NoTimer
    /\ heapify = IF Empty THEN -1 ELSE (cur_size - 1) \div 2
    /\ erpire \in [Timer -> 0 .. MaxTime]
    /\ \A t \in Timer \ set : erpire[t] = 0
    /\ cancelled = {}
    /\ pc = "out" /\ pos = 0 /\ held = NoTimer
    /\ ticking = FALSE /\ cur = 0 /\ cb = NoTimer /\ added = {}
    /\ now = 0 /\ made = {}

-----------------------------------------------------------------------------
\* A faulty variant: a timer also passes one that expires in the same second.
BeforeOrSame(t, u) == erpire[t] <= erpire[u]

Before(t, u) == erpire[t] < erpire[u]

Parent(i) == (i - 1) \div 2

\* Lines 214-218: the child that expires first, the left one if there is a tie.
MinChild(i) ==
    LET left == 2 * i + 1
    IN IF left < cur_size - 1 /\ erpire[array[left + 1]] < erpire[array[left]]
       THEN left + 1 ELSE left

HasChild(i) == 2 * i + 1 <= cur_size - 1

SiftStarts(dir, i, t) == pc' = dir /\ pos' = i /\ held' = t
SiftEnds == pc' = "out" /\ pos' = 0 /\ held' = NoTimer

\* Lines 113-123: an iteration of add_timer's loop ...
SiftUp ==
    /\ pc = "up" /\ pos > 0
    /\ Before(held, array[Parent(pos)])
    /\ array' = [array EXCEPT ![pos] = array[Parent(pos)]]
    /\ pos' = Parent(pos)
    /\ UNCHANGED <<capacity, cur_size, pc, held, tickVars, erpire, cancelled,
                   heapify, now, made, set>>

\* ... and lines 120-124: the timer is placed.
SiftUpEnds ==
    /\ pc = "up"
    /\ pos > 0 => ~ Before(held, array[Parent(pos)])
    /\ array' = [array EXCEPT ![pos] = held]
    /\ SiftEnds
    /\ UNCHANGED <<capacity, cur_size, tickVars, erpire, cancelled, heapify, now, made, set>>

\* Line 220 compares the element in the hole: at first that is the held timer,
\* in the next iteration it is the child that has been moved up.
MovesUp(i, child) == erpire[array[i]] > erpire[array[child]]

SiftDown ==
    /\ pc = "down"
    /\ HasChild(pos) /\ MovesUp(pos, MinChild(pos))
    /\ array' = [array EXCEPT ![pos] = array[MinChild(pos)]]
    /\ pos' = MinChild(pos)
    /\ UNCHANGED <<capacity, cur_size, pc, held, tickVars, erpire, cancelled,
                   heapify, now, made, set>>

SiftDownEnds ==
    /\ pc = "down"
    /\ HasChild(pos) => ~ MovesUp(pos, MinChild(pos))
    /\ array' = [array EXCEPT ![pos] = held]
    /\ SiftEnds
    /\ heapify' = IF heapify >= 0 THEN heapify - 1 ELSE heapify
    /\ UNCHANGED <<capacity, cur_size, tickVars, erpire, cancelled, now, made, set>>

\* Lines 79-83.
Heapify ==
    /\ heapify >= 0 /\ pc = "out"
    /\ SiftStarts("down", heapify, array[heapify])
    /\ UNCHANGED <<heapVars, tickVars, erpire, cancelled, heapify, now, made, set>>

-----------------------------------------------------------------------------
\* The heap's user calls it between two ticks or from a callback.
Callable == heapify = -1 /\ pc = "out" /\ (ticking => cb # NoTimer)

\* Lines 233-251.  cur_size counts the new timer already, so that the copy also
\* takes the element behind the old array: any value, written into the hole.
Grown(wild) ==
    [i \in 0 .. 2 * capacity - 1 |->
        IF i < capacity THEN array[i] ELSE IF i = capacity THEN wild ELSE NoTimer]

\* A faulty variant: cur_size++ for ++cur_size.
FullLate == cur_size > capacity

\* Line 105.
Full == cur_size + 1 > capacity

\* Line 30: a timer expires so long after its construction.  In the last second
\* that is modelled none is made: a callback that adds one that has expired, and
\* so on, would keep tick() in its loop there for ever.
heap_timer(t, timeout) ==
    /\ Callable
    /\ t \notin set \cup made
    /\ Cardinality(made) < MaxMade
    /\ now < MaxTime /\ now + timeout <= MaxTime
    /\ erpire' = [erpire EXCEPT ![t] = now + timeout]
    /\ made' = made \cup {t}
    /\ UNCHANGED <<heapVars, siftVars, tickVars, cancelled, heapify, now, set>>

\* Lines 98-111.
add_timer(t) ==
    /\ Callable
    /\ t \in made
    /\ made' = made \ {t} /\ set' = set \cup {t}
    /\ added' = IF cb = NoTimer THEN {} ELSE added \cup {t}
    /\ cur_size' = cur_size + 1
    /\ IF Full
       THEN /\ \E wild \in Timer \cup {NoTimer} : array' = Grown(wild)
            /\ capacity' = 2 * capacity
       ELSE UNCHANGED <<array, capacity>>
    /\ SiftStarts("up", cur_size, t)
    /\ UNCHANGED <<ticking, cur, cb, erpire, cancelled, heapify, now>>

\* Lines 127-135: the timer stays in the heap, its callback is dropped.
del_timer(t) ==
    /\ Callable
    /\ t \in set
    /\ Cardinality(cancelled) < MaxDel
    /\ cancelled' = cancelled \cup {t}
    /\ UNCHANGED <<heapVars, siftVars, tickVars, erpire, heapify, now, made, set>>

\* A faulty variant: the size is read before it is decremented.
LastAfterPop == IF cur_size < capacity THEN array[cur_size] ELSE array[cur_size - 1]

LastElement == array[cur_size - 1]

\* Lines 158-161.  The slot behind the new end keeps its pointer, and so does
\* array[0] when the last timer goes.
PopRoot ==
    /\ set' = set \ {array[0]}
    /\ erpire' = [erpire EXCEPT ![array[0]] = 0]
    /\ cancelled' = cancelled \ {array[0]}
    /\ array' = [array EXCEPT ![0] = LastElement]
    /\ cur_size' = cur_size - 1
    /\ IF cur_size = 1 THEN UNCHANGED siftVars ELSE SiftStarts("down", 0, LastElement)
    /\ UNCHANGED <<capacity, heapify, now, made>>

\* Called by the user between two ticks.
pop ==
    /\ Callable /\ ~ ticking
    /\ ~ Empty
    /\ PopRoot
    /\ UNCHANGED tickVars

-----------------------------------------------------------------------------
\* Lines 172-179.
TickBegin ==
    /\ heapify = -1 /\ pc = "out" /\ ~ ticking
    /\ ~ Empty
    /\ ticking' = TRUE /\ cur' = now
    /\ UNCHANGED <<heapVars, siftVars, cb, added, erpire, cancelled, heapify, now, made, set>>

\* The head of the loop, lines 181-191: between two pops.
AtHead == ticking /\ pc = "out" /\ cb = NoTimer

\* Lines 193-195.
Fire ==
    /\ AtHead /\ ~ Empty
    /\ erpire[array[0]] <= cur
    /\ array[0] \notin cancelled
    /\ cb' = array[0] /\ added' = {}
    /\ UNCHANGED <<heapVars, siftVars, ticking, cur, erpire, cancelled, heapify, now, made, set>>

\* The callback returns, and line 197 pops what is at the root by then.
CallbackReturns ==
    /\ cb # NoTimer /\ pc = "out"
    /\ PopRoot
    /\ cb' = NoTimer /\ added' = {}
    /\ UNCHANGED <<ticking, cur>>

\* Without a callback, line 197 comes at once.
DropCancelled ==
    /\ AtHead /\ ~ Empty
    /\ erpire[array[0]] <= cur
    /\ array[0] \in cancelled
    /\ PopRoot
    /\ UNCHANGED tickVars

TickEnd ==
    /\ AtHead
    /\ Empty \/ erpire[array[0]] > cur
    /\ ticking' = FALSE /\ cur' = 0
    /\ UNCHANGED <<heapVars, siftVars, cb, added, erpire, cancelled, heapify, now, made, set>>

tick == TickBegin \/ Fire \/ CallbackReturns \/ DropCancelled \/ TickEnd
sift == Heapify \/ SiftUp \/ SiftUpEnds \/ SiftDown \/ SiftDownEnds

\* Between sifts, which do not read the clock.
Clock ==
    /\ pc = "out"
    /\ now < MaxTime
    /\ now' = now + 1
    /\ UNCHANGED <<heapVars, siftVars, tickVars, erpire, cancelled, heapify, made, set>>

Next ==
    \/ \E t \in Timer :
         \/ \E timeout \in Timeouts : heap_timer(t, timeout)
         \/ add_timer(t)
         \/ del_timer(t)
    \/ pop
    \/ tick
    \/ sift
    \/ Clock

Spec == Init /\ [][Next]_vars

\* Time passes, whatever else happens; tick() is called again and again (it is
\* the heartbeat of the comment of line 171), and callbacks return.
FairSpec == Spec /\ SF_vars(Clock) /\ WF_vars(tick) /\ WF_vars(sift)

-----------------------------------------------------------------------------
TypeOK ==
    /\ capacity \in Nat \ {0}
    /\ cur_size \in 0 .. capacity
    /\ array \in [0 .. capacity - 1 -> Timer \cup {NoTimer}]
    /\ erpire \in [Timer -> Int]
    /\ cancelled \subseteq set /\ set \subseteq Timer
    /\ made \subseteq Timer \ set /\ added \subseteq set
    /\ pc \in {"out", "up", "down"}
    /\ held \in Timer \cup {NoTimer}
    /\ pos \in Nat /\ (pc # "out" => pos \in Used)
    /\ heapify \in -1 .. capacity - 1
    /\ ticking \in BOOLEAN /\ cur \in Nat
    /\ cb \in Timer \cup {NoTimer}
    /\ now \in Nat

\* What is in the heap: the array, with the held timer in the hole.
Entry(i) == IF pc # "out" /\ i = pos THEN held ELSE array[i]

\* Growing, sifting and popping lose no timer and double none, whatever the
\* order of the elements: each slot in use has a timer of its own, and every
\* timer that was added and not popped has one.  In particular no slot in use
\* keeps the pointer of a deleted timer, or the one read behind the array.
NoTimerLost ==
    /\ \A i \in Used : Entry(i) \in set
    /\ \A i, k \in Used : Entry(i) = Entry(k) => i = k
    /\ \A t \in set : \E i \in Used : Entry(i) = t

\* The pop of line 197 deletes what is at the root when the callback returns.
\* That is the timer that was fired, unless the callback has itself added one
\* that expires sooner, because it was constructed before or has a negative
\* timeout: then line 197 deletes that one without its callback, and the fired
\* one is fired again.  A timer that the callback has not added, or one that
\* expires in the same second, never takes the place.
FiredUnlessSooner ==
    cb # NoTimer =>
        \/ Entry(0) = cb
        \/ Entry(0) \in added /\ erpire[Entry(0)] < erpire[cb]

\* Every timer leaves the heap in the end, fired or not, although the heap is
\* not always in order.
EveryTimerFires == \A t \in Timer : t \in set ~> t \notin set

=============================================================================
