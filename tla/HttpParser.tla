-------------------------------- MODULE HttpParser --------------------------------
(***************************************************************************)
(* The request parser of Http_prase_server.cpp: one connection, a buffer,  *)
(* a slave machine that finds lines (prase_line) and a master machine that *)
(* handles them (prase_content).  A request comes in pieces: each recv()   *)
(* brings what has arrived, which may end anywhere, and the parser goes on *)
(* from its three indices.                                                 *)
(*                                                                         *)
(* The text is a sequence of tokens.  A blank, \r, \n and \0 are tokens;   *)
(* words are whole: a piece that ends inside a word is as one that ends    *)
(* before it, since words only matter when their line is complete.         *)
(***************************************************************************)
EXTENDS Integers, Sequences, FiniteSetsExt

CONSTANTS
    Size,     \* BUFFER_SIZE, in tokens
    Streams   \* what clients send

Words == {"GET", "/path", "http://", "HTTP/1.0", "word"}
Token == Words \cup {"blank", "CR", "LF", "NUL"}

ASSUME ParserAssumption == Size \in Nat \ {0} /\ Streams \subseteq Seq(Token)

VARIABLES
    stream,       \* what the client of this connection sends
    peer,         \* what the client does: "sends", "left" or "reset"
    recv_buf,
    read_index, check_index, start_line,
    check_state,
    pc,           \* main(): "recv", "parse" (in prase_content), "done"
    result        \* the last HTTP_CODE

clientVars == <<stream, peer>>
parserVars == <<recv_buf, check_index, start_line, check_state>>
vars == <<clientVars, parserVars, read_index, pc, result>>

Init ==
    /\ stream \in Streams
    /\ peer = "sends"
    /\ recv_buf = [i \in 0 .. Size - 1 |-> "NUL"]
    /\ read_index = 0 /\ check_index = 0 /\ start_line = 0
    /\ check_state = "REQUESTLINE"
    /\ pc = "recv"
    /\ result = "NO_REQUEST"

-----------------------------------------------------------------------------
\* The client has sent all it wants to, or its connection breaks.
Leave == peer = "sends" /\ peer' = "left"
         /\ UNCHANGED <<stream, parserVars, read_index, pc, result>>
Reset == peer # "reset" /\ peer' = "reset"
         /\ UNCHANGED <<stream, parserVars, read_index, pc, result>>

\* A faulty variant: each piece is read to the front of the buffer.
OffsetZero == 0

\* Line 251: where the next piece goes, and how much of it.
Offset == read_index

\* A faulty variant: the room is that of an empty buffer.
RoomWhole == Size

Room == Size - read_index

\* Lines 251, 262-263: the next n tokens have arrived.
Recv(n) ==
    /\ pc = "recv" /\ peer # "reset"
    /\ n <= Len(stream) - read_index /\ n <= Room
    /\ recv_buf' = [i \in 0 .. Size - 1 |->
            IF i \in Offset .. Offset + n - 1 THEN stream[read_index + i - Offset + 1]
                                              ELSE recv_buf[i]]
    /\ read_index' = read_index + n
    /\ pc' = "parse"
    /\ UNCHANGED <<clientVars, check_index, start_line, check_state, result>>

\* A faulty variant: a call without room does not return.
NoDataLeaving == peer = "reset" \/ (peer = "left" /\ read_index = Len(stream))

\* recv() returns -1, or 0, also because there is no room.
NoData == peer = "reset" \/ (peer = "left" /\ read_index = Len(stream)) \/ Room = 0

\* Lines 251-261.
RecvEnds ==
    /\ pc = "recv"
    /\ NoData
    /\ pc' = "done"
    /\ UNCHANGED <<clientVars, parserVars, read_index, result>>

-----------------------------------------------------------------------------
\* The least element of S, or none if S is empty.
First(S, none) == IF S = {} THEN none ELSE Min(S)

\* prase_line, lines 60-88: the scan stops at p, the first \r or \n.
Stop == First({i \in check_index .. read_index - 1 : recv_buf[i] \in {"CR", "LF"}},
              read_index)

\* A faulty variant: a \r at the end of the data is taken for a bad line.
OpenInside(p) == p = read_index

\* The line is not complete: no \r or \n, or nothing behind the \r yet.
Open(p) == p < read_index => recv_buf[p] = "CR" /\ p + 1 = read_index

\* Where a complete line's \r is.  The case of line 79, a \n that the scan
\* meets behind a \r, is there as in the code.
LineEnd(p) ==
    IF Open(p) THEN {}
    ELSE IF recv_buf[p] = "CR" THEN {i \in {p} : recv_buf[p + 1] = "LF"}
    ELSE {i \in {p - 1} : p > 1 /\ recv_buf[i] = "CR"}

\* Lines 88 and 195-199: more data is needed.  The scan will go on at the \r.
LineOpen ==
    /\ pc = "parse"
    /\ Open(Stop)
    /\ check_index' = Stop
    /\ pc' = "recv" /\ result' = "NO_REQUEST"
    /\ UNCHANGED <<clientVars, recv_buf, start_line, check_state, read_index>>

\* Lines 75, 85, 200-202, 273-276: the client is told, and main() returns.
LineBad ==
    /\ pc = "parse"
    /\ ~ Open(Stop) /\ LineEnd(Stop) = {}
    /\ check_index' = Stop
    /\ pc' = "done" /\ result' = "BAD_REQUEST"
    /\ UNCHANGED <<clientVars, recv_buf, start_line, check_state, read_index>>

\* The text of a line, up to its first \0, as strpbrk and strspn see it.
Text(s) == SubSeq(s, 1, First({i \in DOMAIN s : s[i] = "NUL"}, Len(s) + 1) - 1)
BlankFrom(s, i) == First({k \in i .. Len(s) : s[k] = "blank"}, 0)
WordFrom(s, i) == First({k \in i .. Len(s) : s[k] # "blank"}, Len(s) + 1)
HasSlash == {"/path", "http://", "HTTP/1.0"}

\* Lines 92-139: GET, a URL and HTTP/1.0, with blanks between them.
prase_requestline(s) ==
    \E blank1 \in {BlankFrom(s, 1)} : \E url \in {WordFrom(s, blank1 + 1)} :
    \E blank2 \in {BlankFrom(s, url)} :
        /\ blank1 = 2 /\ s[1] = "GET"
        /\ blank2 # 0
        /\ WordFrom(s, blank2 + 1) = Len(s) /\ s[Len(s)] = "HTTP/1.0"
        /\ \/ s[url] = "/path"
           \/ s[url] = "http://" /\ \E k \in url + 1 .. blank2 - 1 : s[k] \in HasSlash

\* Lines 71-72 overwrite the line's end, lines 100 and 118 the blanks behind the
\* method and the URL.  The request line begins at 0.  (A line that is refused
\* is cut as well, where the code stops half-way: nobody reads it any more.)
Terminated(e) == [recv_buf EXCEPT ![e] = "NUL", ![e + 1] = "NUL"]
Line(e) == Text([i \in 1 .. e - start_line |-> recv_buf[start_line + i - 1]])
Blanks(s) ==
    LET blank1 == BlankFrom(s, 1)
    IN {blank1, BlankFrom(s, WordFrom(s, blank1 + 1))}
Cut(buf, blanks) == [i \in DOMAIN buf |-> IF i + 1 \in blanks THEN "NUL" ELSE buf[i]]

\* Lines 164-177: the request line is complete.
RequestLine ==
    /\ pc = "parse" /\ check_state = "REQUESTLINE"
    /\ \E e \in LineEnd(Stop) : \E line \in {Line(e)} : \E blanks \in {Blanks(line)} :
         /\ check_index' = e + 2
         /\ start_line' = read_index
         /\ recv_buf' = Cut(Terminated(e), blanks)
         /\ IF prase_requestline(line)
            THEN check_state' = "HEADER" /\ UNCHANGED <<pc, result>>
            ELSE pc' = "done" /\ result' = "BAD_REQUEST" /\ UNCHANGED check_state
    /\ UNCHANGED <<clientVars, read_index>>

\* Line 144 assigns where it means to compare: it overwrites what start_line
\* points to, and its condition is never true, so that no line ends the request.
\* start_line is where the data ended when the line before was found, which may
\* be anywhere: behind this line, or, with a full buffer, behind the buffer.
\* Lines 164-169 and 178-188.
Header ==
    /\ pc = "parse" /\ check_state = "HEADER"
    /\ \E e \in LineEnd(Stop) :
         /\ check_index' = e + 2
         /\ start_line' = read_index
         /\ recv_buf' = [i \in 0 .. Size - 1 |->
                IF i = start_line THEN "NUL" ELSE Terminated(e)[i]]
    /\ UNCHANGED <<clientVars, check_state, read_index, pc, result>>

-----------------------------------------------------------------------------
main == (\E n \in 1 .. Size : Recv(n)) \/ RecvEnds
prase_content == LineOpen \/ LineBad \/ RequestLine \/ Header

Next == Leave \/ Reset \/ main \/ prase_content

Spec == Init /\ [][Next]_vars

\* What was sent arrives, and the server runs.  Nothing is assumed of clients.
FairSpec == Spec /\ WF_vars(main) /\ WF_vars(prase_content)

-----------------------------------------------------------------------------
TypeOK ==
    /\ stream \in Seq(Token)
    /\ peer \in {"sends", "left", "reset"}
    /\ recv_buf \in [0 .. Size - 1 -> Token]
    /\ read_index \in 0 .. Size /\ read_index <= Len(stream)
    /\ check_index \in 0 .. read_index
    /\ start_line \in 0 .. read_index
    /\ check_state \in {"REQUESTLINE", "HEADER"}
    /\ pc \in {"recv", "parse", "done"}
    /\ result \in {"NO_REQUEST", "BAD_REQUEST"}

\* Nothing that is still to be parsed has been overwritten: neither by the next
\* piece, nor by the terminators of a line, nor by the assignment of line 144,
\* wherever the pieces end.
UnparsedIntact == \A i \in check_index .. read_index - 1 : recv_buf[i] = stream[i + 1]

\* What a request should be, without pieces and indices: each \r is followed by
\* \n and each \n comes behind \r, and the first line is a method, a URL and a
\* version with blanks between them.
IsRequestLine(s) ==
    /\ Len(s) > 4
    /\ s[1] = "GET" /\ s[Len(s)] = "HTTP/1.0"
    /\ \E a \in 2 .. Len(s) - 3 :
         /\ \A k \in 2 .. a : s[k] = "blank"
         /\ s[a + 1] \in {"/path", "http://"}
         /\ \E b \in a + 1 .. Len(s) - 2 :
              /\ \A k \in a + 1 .. b : s[k] # "blank"
              /\ \A k \in b + 1 .. Len(s) - 1 : s[k] = "blank"
              /\ s[a + 1] = "http://" => \E k \in a + 2 .. b : s[k] \in HasSlash

LineEnds(s) == {i \in 1 .. Len(s) - 1 : s[i] = "CR" /\ s[i + 1] = "LF"}
HasBadLine(s) ==
    \/ \E i \in 1 .. Len(s) - 1 : s[i] = "CR" /\ s[i + 1] # "LF"
    \/ \E i \in 1 .. Len(s) : s[i] = "LF" /\ (i = 1 \/ s[i - 1] # "CR")
IsBad(s) ==
    \/ HasBadLine(s)
    \/ LineEnds(s) # {} /\ ~ IsRequestLine(Text(SubSeq(s, 1, Min(LineEnds(s)) - 1)))

Received == SubSeq(stream, 1, read_index)

\* The verdict depends on what has been received and not on how it was split:
\* the server refuses exactly what is bad when seen as a whole, and goes on to
\* read only when it is not.
SplitIndependent ==
    /\ pc = "recv" => ~ IsBad(Received)
    /\ result = "BAD_REQUEST" => IsBad(Received)

\* The server ends when the client has left, and when it has been sent a bad
\* request or one that is longer than the buffer.
EndsWhenOver ==
    \/ peer = "left"
    \/ IsBad(SubSeq(stream, 1, Min({Len(stream), Size})))
    \/ Len(stream) >= Size
    ~> pc = "done"

=============================================================================
