---------------------------- MODULE SortedTimerList ----------------------------
(***************************************************************************)
(* A program that uses the timer list of lst_timer.h as its comments ask:  *)
(* it adds timers for any time, only puts off the time of a timer before   *)
(* it calls adjust, deletes no timer twice, and calls tick now and then.   *)
(* Callbacks leave the list alone, as the one of ServerTest8 does.         *)
(***************************************************************************)
EXTENDS TimerListOps

CONSTANT MaxTime   \* bound: the last time there is

Time == 0 .. MaxTime

VARIABLES
    l,        \* the list
    now,      \* time(nullptr)
    ticking,  \* tick is in its loop, which has read the time
    fired,    \* the time of the last timer fired in this tick, 0 before
    emptied,  \* history: a tick has deleted the last timer
    spoiled   \* history: a timer whose prev is itself was moved or deleted

vars == <<l, now, ticking, fired, emptied, spoiled>>

Init ==
    /\ l = EmptyList
    /\ now = 0
    /\ ticking = FALSE /\ fired = 0
    /\ emptied = FALSE /\ spoiled = FALSE

Running == l.fault = "none"
Idle == Running /\ ~ ticking

add_timer(t, time) ==
    /\ Idle
    /\ t \notin l.live
    /\ l' = Added(New(l, t, time), t)
    /\ UNCHANGED <<now, ticking, fired, emptied, spoiled>>

\* History: t was put in by a search and no neighbour has mended it since.
SelfLinked(t) == l.prev[t] = t

adjust(t, time) ==
    /\ Idle
    /\ t \in l.live /\ time >= l.erpire[t]
    /\ LET later == [l EXCEPT !.erpire[t] = time]
       IN /\ l' = Adjusted(later, t)
          /\ spoiled' = (spoiled \/ (SelfLinked(t) /\ l' # later))
    /\ UNCHANGED <<now, ticking, fired, emptied>>

del_timer(t) ==
    /\ Idle
    /\ t \in l.live
    /\ l' = Deleted(l, t)
    /\ spoiled' = (spoiled \/ SelfLinked(t))
    /\ UNCHANGED <<now, ticking, fired, emptied>>

\* tick(), up to its loop.
TickBegin ==
    /\ Idle
    /\ l.head # NULL
    /\ ticking' = TRUE /\ fired' = 0
    /\ UNCHANGED <<l, now, emptied, spoiled>>

\* Faulty variant: a timer is not fired in its very second.
IsDueLate == l.erpire[l.head] < now

IsDue == l.erpire[l.head] <= now

\* One iteration of its loop: fire the first timer if its time has come.
TickFire ==
    /\ Running /\ ticking
    /\ l.head # NULL
    /\ l.head \in l.live => IsDue
    /\ l' = Through(l, {l.head}, Expired(l))
    /\ fired' = l.erpire[l.head]
    /\ emptied' = (emptied \/ l'.head = NULL)
    /\ UNCHANGED <<now, ticking, spoiled>>

TickEnd ==
    /\ Running /\ ticking
    /\ l.head # NULL => l.head \in l.live /\ ~ IsDue
    /\ ticking' = FALSE /\ fired' = 0
    /\ UNCHANGED <<l, now, emptied, spoiled>>

Clock ==
    /\ Idle
    /\ now < MaxTime
    /\ now' = now + 1
    /\ UNCHANGED <<l, ticking, fired, emptied, spoiled>>

Next ==
    \/ \E t \in Timer :
         \/ \E time \in Time : add_timer(t, time) \/ adjust(t, time)
         \/ del_timer(t)
    \/ TickBegin \/ TickFire \/ TickEnd
    \/ Clock

Spec == Init /\ [][Next]_vars

-----------------------------------------------------------------------------
TypeOK ==
    /\ l \in Memory(Time)
    /\ now \in Time
    /\ ticking \in BOOLEAN /\ fired \in Time
    /\ emptied \in BOOLEAN /\ spoiled \in BOOLEAN

\* The timers that a walk from the head meets.
Chain == {Walk(l, l.head)[n] : n \in 0 .. Cardinality(Timer)} \ {NULL}

Sound == Running /\ ~ spoiled

\* Until a timer put in by a search is moved or deleted, the walk from the head
\* meets every timer that was added and no other, sooner ones before later
\* ones: none is lost, none deleted is left, whatever is added, put off,
\* deleted and fired, and in spite of the prev that the search sets wrong.
ChainIsSorted ==
    Sound =>
        /\ Chain = l.live
        /\ \A t \in l.live : l.next[t] # NULL =>
             /\ l.next[t] # t
             /\ l.erpire[t] <= l.erpire[l.next[t]]

\* Each prev is the inverse of a next but for the timers put in by a search,
\* and the tail is the last one unless a tick has emptied the list.
BackLinks ==
    Sound =>
        /\ \A t \in l.live : l.next[t] # NULL => l.prev[l.next[t]] \in {t, l.next[t]}
        /\ \A t \in l.live : (l.next[t] = NULL) <=> (l.tail = t)
        /\ ~ emptied => (l.head = NULL <=> l.tail = NULL)

\* A deleted timer is only ever followed after a timer put in by a search was
\* moved or deleted; every other way to end the program is a null pointer.
DeletedNotFollowed == ~ spoiled => l.fault \in {"none", "null"}

\* What holds of the list: its types, that every timer is met in order, that
\* only the timers put in by a search have a wrong prev, and that no operation
\* follows a deleted timer, all of it until one of those is moved or deleted.
ListSound == TypeOK /\ ChainIsSorted /\ BackLinks /\ DeletedNotFollowed

\* Until a timer put in by a search is moved or deleted, the timers of a tick
\* fire in the order of their times, and at its end none is left whose time has
\* come.  After that neither holds: a timer may be skipped, and a deleted one met.
FiresInOrder == ~ spoiled /\ ticking /\ l'.live # l.live => fired' >= fired
LeavesNoneDue == ~ spoiled /\ ticking /\ ~ ticking' => \A t \in l.live : l.erpire[t] > now

TicksInOrder == [][FiresInOrder /\ LeavesNoneDue]_vars

=============================================================================
