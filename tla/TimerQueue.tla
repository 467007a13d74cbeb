------------------------------- MODULE TimerQueue -------------------------------
(***************************************************************************)
(* What a timer container of this repository promises to its user, in      *)
(* terms of calls of its tick() function: a timer set for k ticks fires in *)
(* the tick after k full ones, every timer that is due in a tick fires     *)
(* during that tick, and a timer fires or is deleted once.                 *)
(*                                                                         *)
(* A timer set by a callback, while a tick is under way, counts the tick   *)
(* under way as one of its k.  It may be late by Round ticks: the time     *)
(* wheel, whose hand has not moved on yet, then starts with a full turn.   *)
(***************************************************************************)
EXTENDS Integers

CONSTANTS
    Timer,  \* the timers
    Ticks,  \* the numbers of ticks that a timer can be set for, all positive
    Round   \* the lateness of some timers set by a callback

VARIABLES
    set,    \* the timers that are set and have not begun to fire
    left,   \* full ticks still to pass before the one in which a timer fires
    due,    \* the set timers that fire in the tick under way
    busy    \* a tick is under way

vars == <<set, left, due, busy>>

TypeOK ==
    /\ set \subseteq Timer
    /\ due \subseteq set
    /\ left \in [Timer -> Nat]
    /\ busy \in BOOLEAN

Init ==
    /\ set = {}
    /\ left = [t \in Timer |-> 0]
    /\ due = {}
    /\ busy = FALSE

Add(t, k) ==
    /\ t \notin set
    /\ set' = set \cup {t}
    /\ \E n \in IF busy THEN {k - 1, k - 1 + Round} ELSE {k} :
         left' = [left EXCEPT ![t] = n]
    /\ UNCHANGED <<due, busy>>

Delete(t) ==
    /\ t \in set
    /\ set' = set \ {t}
    /\ due' = due \ {t}
    /\ left' = [left EXCEPT ![t] = 0]
    /\ UNCHANGED busy

TickBegin ==
    /\ ~ busy
    /\ busy' = TRUE
    /\ due' = {t \in set : left[t] = 0}
    /\ left' = [t \in Timer |-> IF left[t] = 0 THEN 0 ELSE left[t] - 1]
    /\ UNCHANGED set

Fire(t) ==
    /\ t \in due
    /\ due' = due \ {t}
    /\ set' = set \ {t}
    /\ UNCHANGED <<left, busy>>

TickEnd ==
    /\ busy
    /\ due = {}
    /\ busy' = FALSE
    /\ UNCHANGED <<set, left, due>>

Next ==
    \/ \E t \in Timer : (\E k \in Ticks : Add(t, k)) \/ Delete(t) \/ Fire(t)
    \/ TickBegin
    \/ TickEnd

Spec == Init /\ [][Next]_vars

=============================================================================
