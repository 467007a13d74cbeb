------------------------------ MODULE MCTimeHeap ------------------------------
(***************************************************************************)
(* Small values for TLC, and what the comments of TimeHeap.h say where the *)
(* code does otherwise.                                                    *)
(***************************************************************************)
EXTENDS TimeHeap

\* A timer that has expired when it is made, and one that expires a second
\* later, in which it may be added as well.
MCTimeouts == {-1, 1}

\* "Delete the root and put the heap in order so that it goes on to be a min
\* heap" (line 150): when no sift is under way, no timer is below a later one.
HeapOrder ==
    heapify = -1 /\ pc = "out" =>
        \A i \in Used \ {0} : ~ Before(array[i], array[Parent(i)])

=============================================================================
