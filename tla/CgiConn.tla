-------------------------------- MODULE CgiConn --------------------------------
(***************************************************************************)
(* class cgi_conn of cgi_server.cpp: one connection of a child of the      *)
(* process pool.  The first line that a client sends names a program; the  *)
(* child starts it with the connection as its output and closes its own    *)
(* descriptor.  A connection is a record of what its client does and of    *)
(* the members of its object; m_buf is what was received, the first        *)
(* m_read_idex bytes of the text.                                          *)
(***************************************************************************)
EXTENDS Naturals, Sequences, FiniteSetsExt

CONSTANTS
    Texts,  \* what clients may send
    Files,  \* paths that exist
    Room    \* M_BUFF_SIZE - 1

ASSUME TextAssumption == Texts \subseteq Seq(STRING) /\ Room \in Nat

Outcome == {"none", "ran", "missing", "nofork", "left", "failed", "full", "gone"}

\* text is all that the client means to send, sent how much of it has come, end
\* how the client ended; outcome is why the child closed the connection.
Connection ==
    [text : Texts, sent : Nat, end : {"no", "left", "reset"},
     m_read_idex : Nat, outcome : Outcome]

Fresh(text) ==
    [text |-> text, sent |-> 0, end |-> "no", m_read_idex |-> 0, outcome |-> "none"]

Unread(s) == s.sent - s.m_read_idex

\* There is something for recv() to return.
Pending(s) == s.outcome = "none" /\ (Unread(s) > 0 \/ s.end # "no")

CompleteAt(text, k) == k >= 2 /\ text[k - 1] = "CR" /\ text[k] = "LF"

\* Faulty variant: only the new bytes are looked at, not the one before them.
LineEndsNew(s, from, to) == {k \in from + 2 .. to : CompleteAt(s.text, k)}

\* Where a line ends in the bytes that were received last.
LineEnds(s, from, to) == {k \in from + 1 .. to : CompleteAt(s.text, k)}

Path(s, k) == SubSeq(s.text, 1, k - 2)

\* removefd.  What was received is of no use any more.
Closed(s, why) == [Fresh(s.text) EXCEPT !.outcome = why]

\* How many bytes recv() takes into the buffer.
Takes(s) == Min({Unread(s), Room - s.m_read_idex})

\* One receive of process(), and what is done with the bytes: all that s may
\* become.  A full buffer asks recv() for 0 bytes, and gets them.
Received(s) ==
    IF Unread(s) = 0
    THEN CASE s.end = "no"    -> {s}
           [] s.end = "left"  -> {Closed(s, "left")}
           [] s.end = "reset" -> {Closed(s, "failed")}
    ELSE IF Takes(s) = 0 THEN {Closed(s, "full")}
    ELSE LET idx == s.m_read_idex + Takes(s)
             more == [s EXCEPT !.m_read_idex = idx]
             ends == LineEnds(s, s.m_read_idex, idx)
         IN IF ends = {} THEN {more}
            ELSE IF Path(s, Min(ends)) \notin Files THEN {Closed(more, "missing")}
            ELSE {Closed(more, "nofork"), Closed(more, "ran")}

\* Faulty variant: one receive for an event.
LoopsOnce(s, s2) == FALSE

\* Faulty variant: removefd without the break behind it.
LoopsOn(s, s2) == s2.outcome # "none" \/ s2.m_read_idex > s.m_read_idex

\* The loop of process() goes on after bytes that completed no line.
Loops(s, s2) == s2.outcome = "none" /\ s2.m_read_idex > s.m_read_idex

-----------------------------------------------------------------------------
(* What the text asks for, however it is cut into pieces.                  *)

FirstLine(text) ==
    LET ends == {k \in 1 .. Len(text) : CompleteAt(text, k)}
    IN IF ends = {} THEN 0 ELSE Min(ends)

Verdict(text) ==
    CASE FirstLine(text) \in 1 .. Room ->
           IF SubSeq(text, 1, FirstLine(text) - 2) \in Files THEN "run" ELSE "missing"
      [] FirstLine(text) \notin 1 .. Room /\ Len(text) > Room -> "full"
      [] OTHER -> "more"

=============================================================================
