-------------------------------- MODULE TimeWheel --------------------------------
(***************************************************************************)
(* The time wheel of TimeWheel.h: N slots, each with an unordered list of  *)
(* timers, and a hand that tick() moves on by one slot every SI seconds.   *)
(* A timer is entered in the slot that the hand reaches after its number   *)
(* of ticks modulo N, with the number of whole turns to wait (rotation).   *)
(*                                                                         *)
(* tick() is not one step: it walks the list of the current slot and runs  *)
(* a callback for every expired timer, and a callback may add and delete   *)
(* timers.  The hand moves only after the walk.  A list is the set of its  *)
(* timers, since its order is arbitrary (line 166); a timer added during   *)
(* the walk is put at the head, where the walk does not come by any more.  *)
(***************************************************************************)
EXTENDS Integers

CONSTANTS
    N,         \* the number of slots (60 in the code)
    SI,        \* seconds from one tick() to the next (2 in the code)
    Timer,     \* the timers that can exist at a time
    NoTimer,   \* the null pointer
    Timeouts   \* the timeouts that callers use, in seconds

ASSUME WheelAssumption ==
    /\ N \in Nat \ {0} /\ SI \in Nat \ {0}
    /\ NoTimer \notin Timer
    /\ Timeouts \subseteq Nat

Slots == 0 .. N - 1

VARIABLES
    cur_slot,
    tw_timer,   \* the timers in the list of each slot
    rotation, time_slot,   \* of each timer
    ticking,    \* tick() is running
    todo,       \* timers of the current slot that its walk has not reached
    cb,         \* the timer whose callback is running, or NoTimer
    nxt,        \* temp->next, saved before the callback
    asked, age  \* history: ticks asked for; calls of tick() since add_timer

wheelVars == <<cur_slot, tw_timer, rotation, time_slot>>
tickVars == <<ticking, todo, cb, nxt>>
vars == <<wheelVars, tickVars, asked, age>>

Init ==
    /\ cur_slot = 0
    /\ tw_timer = [s \in Slots |-> {}]
    /\ rotation = [t \in Timer |-> 0]
    /\ time_slot = [t \in Timer |-> 0]
    /\ ticking = FALSE /\ todo = {} /\ cb = NoTimer /\ nxt = NoTimer
    /\ asked = [t \in Timer |-> 0]
    /\ age = [t \in Timer |-> 0]

Linked(t) == t \in tw_timer[time_slot[t]]

\* Users call the wheel between two ticks or from a callback.
Callable == ~ ticking \/ cb # NoTimer

-----------------------------------------------------------------------------
\* Lines 80-88: a timeout below SI is one tick, the others are rounded down.
TicksOf(timeout) == IF timeout < SI THEN 1 ELSE timeout \div SI

\* Faulty variants: a turn too few, a turn too many, slots counted from 0
\* instead of from the hand, slots not taken modulo N.
RotationShort(ticks) == (ticks - 1) \div N
RotationLong(ticks) == ticks \div N + 1
SlotFromZero(ticks) == ticks % N
SlotUnwrapped(ticks) == cur_slot + (ticks % N)

\* Lines 89-90.
RotationOf(ticks) == ticks \div N
SlotOf(ticks) == (cur_slot + (ticks % N)) % N

add_timer(t, timeout) ==
    /\ Callable
    /\ ~ Linked(t)
    /\ LET ticks == TicksOf(timeout)
       IN /\ rotation' = [rotation EXCEPT ![t] = RotationOf(ticks)]
          /\ time_slot' = [time_slot EXCEPT ![t] = SlotOf(ticks)]
          /\ tw_timer' = [tw_timer EXCEPT ![SlotOf(ticks)] = @ \cup {t}]
          /\ asked' = [asked EXCEPT ![t] = ticks]
    /\ age' = [age EXCEPT ![t] = 0]
    /\ UNCHANGED <<cur_slot, tickVars>>

\* Lines 114-135: the timer is unlinked and destroyed.
Remove(t) ==
    /\ tw_timer' = [tw_timer EXCEPT ![time_slot[t]] = @ \ {t}]
    /\ rotation' = [rotation EXCEPT ![t] = 0]
    /\ time_slot' = [time_slot EXCEPT ![t] = 0]
    /\ asked' = [asked EXCEPT ![t] = 0]
    /\ age' = [age EXCEPT ![t] = 0]

\* A callback does not delete the timer it was called for, which tick() itself
\* deletes, nor the one saved as next, which tick() is going to visit.
del_timer(t) ==
    /\ Callable
    /\ Linked(t) /\ t # cb /\ t # nxt
    /\ Remove(t)
    /\ todo' = todo \ {t}
    /\ UNCHANGED <<cur_slot, ticking, cb, nxt>>

\* The age of a timer is counted no further than one tick past its limit.
Overdue(t) == age[t] > asked[t] + N

TickBegin ==
    /\ ~ ticking
    /\ ticking' = TRUE
    /\ todo' = tw_timer[cur_slot]
    /\ age' = [t \in Timer |-> IF Linked(t) /\ ~ Overdue(t) THEN age[t] + 1 ELSE age[t]]
    /\ UNCHANGED <<wheelVars, cb, nxt, asked>>

\* Faulty variant: the turn is not counted.
TurnKept(r) == r

\* temp->rotation > 0: one turn less to wait.
TurnTaken(r) == r - 1

Turn(t) ==
    /\ t \in todo /\ cb = NoTimer
    /\ rotation[t] > 0
    /\ rotation' = [rotation EXCEPT ![t] = TurnTaken(@)]
    /\ todo' = todo \ {t}
    /\ UNCHANGED <<cur_slot, tw_timer, time_slot, ticking, cb, nxt, asked, age>>

\* The timer has expired: next is saved and the callback is called ...
Expire(t) ==
    /\ t \in todo /\ cb = NoTimer
    /\ rotation[t] = 0
    /\ cb' = t
    /\ todo' = todo \ {t}
    /\ IF todo' = {} THEN nxt' = NoTimer ELSE nxt' \in todo'
    /\ UNCHANGED <<wheelVars, ticking, asked, age>>

\* ... and when it returns, the timer is deleted.
CallbackReturn ==
    /\ cb # NoTimer
    /\ Remove(cb)
    /\ cb' = NoTimer /\ nxt' = NoTimer
    /\ UNCHANGED <<cur_slot, ticking, todo>>

TickEnd ==
    /\ ticking /\ todo = {} /\ cb = NoTimer
    /\ ticking' = FALSE
    /\ cur_slot' = (cur_slot + 1) % N
    /\ UNCHANGED <<tw_timer, rotation, time_slot, todo, cb, nxt, asked, age>>

tick ==
    \/ TickBegin
    \/ \E t \in Timer : Turn(t) \/ Expire(t)
    \/ CallbackReturn
    \/ TickEnd

Next ==
    \/ \E t \in Timer : (\E timeout \in Timeouts : add_timer(t, timeout)) \/ del_timer(t)
    \/ tick

Spec == Init /\ [][Next]_vars

\* "tick() is called once every SI" (line 138), and callbacks return.
FairSpec == Spec /\ WF_vars(tick)

-----------------------------------------------------------------------------
TypeOK ==
    /\ cur_slot \in Slots
    /\ tw_timer \in [Slots -> SUBSET Timer]
    /\ rotation \in [Timer -> Nat]
    /\ time_slot \in [Timer -> Slots]
    /\ ticking \in BOOLEAN
    /\ todo \subseteq tw_timer[cur_slot]
    /\ cb \in Timer \cup {NoTimer} /\ nxt \in Timer \cup {NoTimer}
    /\ asked \in [Timer -> Nat] /\ age \in [Timer -> Nat]

\* No callback runs before the number of ticks that its timer was set for,
\* wherever the hand stood and whether a tick was under way when it was set.
NeverEarly == cb # NoTimer => age[cb] >= asked[cb]

\* No timer stays in the wheel for more than a full turn beyond its time: none
\* is skipped by a walk during which others are added, deleted and fired.
AtMostOneTurnLate == \A t \in Timer : Linked(t) => age[t] <= asked[t] + N

\* Every timer fires in the end, unless it is deleted.
EveryTimerFires == \A t \in Timer : Linked(t) ~> ~ Linked(t)

\* What the wheel implements, seen through this mapping: the distance of the
\* timer's slot from the hand and its turns make the number of ticks left.
\* While the walk is under way the hand has not moved on, but the tick counts.
Pending == {t \in Timer : Linked(t) /\ t # cb}
Due == {t \in todo : rotation[t] = 0}
TicksLeft(t) ==
    rotation[t] * N + ((time_slot[t] - cur_slot) % N)
        - (IF ticking THEN 1 ELSE 0)
        + (IF ticking /\ time_slot[t] = cur_slot /\ t \notin todo THEN N ELSE 0)

Left == [t \in Timer |-> IF t \in Pending \ Due THEN TicksLeft(t) ELSE 0]

Queue == INSTANCE TimerQueue WITH
    Ticks <- {TicksOf(timeout) : timeout \in Timeouts},
    Round <- N,
    set   <- Pending,
    left  <- Left,
    due   <- Due,
    busy  <- ticking

\* The wheel implements the timer queue: in every interleaving of the walk with
\* the calls that callbacks make, each timer fires in the tick it has to.
ImplementsQueue == Queue!Spec

=============================================================================
