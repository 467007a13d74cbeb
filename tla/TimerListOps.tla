----------------------------- MODULE TimerListOps -----------------------------
(***************************************************************************)
(* class sort_timer_lst of lst_timer.h: a list of timers by absolute time, *)
(* linked both ways.  An operation maps the memory before it to the memory *)
(* after it; the memory is a record of the list's two pointers and of the  *)
(* fields of every timer.  A timer is named by its address, so that a new  *)
(* one may take the place of one that was deleted.                         *)
(*                                                                         *)
(* An operation that follows a null pointer ends the program; one that     *)
(* follows a pointer to a deleted timer has no defined outcome, and a walk *)
(* around a circle does not end.  Nothing is said of what comes after:     *)
(* fault is set and the fields are left as they were.                      *)
(***************************************************************************)
EXTENDS Naturals, FiniteSets

CONSTANTS
    Timer,   \* addresses of timers
    NULL

Pointer == Timer \cup {NULL}
Fault == {"none", "null", "deleted", "endless"}

\* Members of the class and of its timers; live are those not deleted.
Memory(Time) ==
    [head : Pointer, tail : Pointer,
     next : [Timer -> Pointer], prev : [Timer -> Pointer], erpire : [Timer -> Time],
     live : SUBSET Timer, fault : Fault]

\* sort_timer_lst()
EmptyList ==
    [head |-> NULL, tail |-> NULL,
     next |-> [t \in Timer |-> NULL], prev |-> [t \in Timer |-> NULL],
     erpire |-> [t \in Timer |-> 0], live |-> {}, fault |-> "none"]

\* new util_timer, and its erpire.  A timer's fields are blank while it is not live.
New(l, t, time) == [l EXCEPT !.live = @ \cup {t}, !.erpire[t] = time]

\* delete t
Freed(l, t) ==
    [l EXCEPT !.live = @ \ {t}, !.next[t] = NULL, !.prev[t] = NULL, !.erpire[t] = 0]

Fails(l, what) == [l EXCEPT !.fault = what]

\* What follows p -> ... for every p of a set, which leads to result.
Through(l, pointers, result) ==
    IF NULL \in pointers THEN Fails(l, "null")
    ELSE IF ~ pointers \subseteq l.live THEN Fails(l, "deleted")
    ELSE result

-----------------------------------------------------------------------------
\* The nodes that the walk from begin meets; it can follow those that are live.
Walk(l, begin) ==
    LET at[n \in 0 .. Cardinality(Timer) + 1] ==
          IF n = 0 THEN begin
          ELSE IF at[n - 1] \in l.live THEN l.next[at[n - 1]] ELSE NULL
    IN at

\* Where the search for t's place stops: at the end, or at a later timer.
StopsHere(l, t, temp) == temp \in l.live => l.erpire[t] < l.erpire[temp]

\* Faulty variant: the predecessor is not linked to t.
LinkedBetweenShort(l, prev, t, temp) ==
    [l EXCEPT !.prev = [@ EXCEPT ![t] = t, ![temp] = t], !.next[t] = temp]

\* The links set by the search: t's own prev is t (line 207).
LinkedBetween(l, prev, t, temp) ==
    [l EXCEPT !.next = [@ EXCEPT ![prev] = t, ![t] = temp],
              !.prev = [@ EXCEPT ![t] = t, ![temp] = t]]

\* add_timer(t, begin_serach).  At the end of the list temp is null and is
\* followed all the same (line 209).
Inserted(l, t, begin) ==
    LET at == Walk(l, begin)
        stops == {n \in DOMAIN at \ {0} : StopsHere(l, t, at[n])}
    IN IF stops = {} THEN Fails(l, "endless")
       ELSE LET n == CHOOSE n \in stops : \A m \in stops : n <= m
            IN Through(l, {at[n - 1], at[n]}, LinkedBetween(l, at[n - 1], t, at[n]))

\* add_timer(t)
Added(l, t) ==
    IF l.head = NULL /\ l.tail = NULL THEN [l EXCEPT !.head = t, !.tail = t]
    ELSE Through(l, {l.head},
         IF l.erpire[t] < l.erpire[l.head]
         THEN [l EXCEPT !.next[t] = l.head, !.prev[l.head] = t, !.head = t]
         ELSE Through(l, {l.tail},
              IF l.erpire[t] > l.erpire[l.tail]
              THEN [l EXCEPT !.next = [@ EXCEPT ![l.tail] = t, ![t] = NULL],
                             !.prev[t] = l.tail, !.tail = t]
              ELSE Inserted(l, t, l.head)))

\* t->prev->next = t->next; t->next->prev = t->prev
Unlinked(l, t) ==
    Through(l, {l.prev[t], l.next[t]},
            [l EXCEPT !.next[l.prev[t]] = l.next[t], !.prev[l.next[t]] = l.prev[t]])

\* Of a list whose first is t and that has another.
HeadTaken(l, t) ==
    Through(l, {l.next[t]},
            [l EXCEPT !.head = l.next[t], !.prev[l.next[t]] = NULL, !.next[t] = NULL])

\* adjust(t), after t's time was put off
Adjusted(l, t) ==
    Through(l, {t},
    IF l.tail = t THEN l
    ELSE Through(l, {l.next[t]},
         IF l.erpire[t] < l.erpire[l.next[t]] THEN l
         ELSE LET out == IF t = l.head THEN HeadTaken(l, t) ELSE Unlinked(l, t)
              IN IF out.fault # "none" THEN out ELSE Inserted(out, t, l.next[t])))

\* Faulty variant: the tail is not moved back.
TailTakenShort(l, t) == [l EXCEPT !.next[l.prev[t]] = NULL, !.prev[t] = NULL]

\* Of a list whose last is t and that has another.
TailTaken(l, t) ==
    Through(l, {l.prev[t]},
            [l EXCEPT !.tail = l.prev[t], !.next[l.prev[t]] = NULL, !.prev[t] = NULL])

\* del_timer(t)
Deleted(l, t) ==
    Through(l, {t},
    LET out == CASE t = l.head /\ t = l.tail -> [l EXCEPT !.head = NULL, !.tail = NULL]
                 [] t = l.head /\ t # l.tail -> HeadTaken(l, t)
                 [] t # l.head /\ t = l.tail -> TailTaken(l, t)
                 [] OTHER -> Unlinked(l, t)
    IN IF out.fault # "none" THEN out ELSE Freed(out, t))

\* The rest of an iteration of tick(), after the callback of the first timer:
\* tail stays what it was, even when no timer is left.
Expired(l) ==
    LET after == l.next[l.head]
        out == [l EXCEPT !.head = after]
    IN IF after = NULL THEN Freed(out, l.head)
       ELSE Through(l, {after}, Freed([out EXCEPT !.prev[after] = NULL], l.head))

=============================================================================
