------------------------------ MODULE MCHttpParser ------------------------------
(***************************************************************************)
(* An instance of HttpParser, and what a comment says where the code does  *)
(* otherwise.                                                              *)
(***************************************************************************)
EXTENDS HttpParser, SequencesExt

\* Two requests of a request line and a header ...
Requests == {
    <<"GET", "blank", "/path", "blank", "HTTP/1.0", "CR", "LF", "word", "CR", "LF", "CR", "LF">>,
    <<"GET", "blank", "http://", "/path", "blank", "HTTP/1.0", "CR", "LF", "CR", "LF">>}

\* ... and all that one replaced, one missing or one added token makes of them.
Edited(s) ==
    {ReplaceAt(s, i, x) : i \in DOMAIN s, x \in Token}
        \cup {RemoveAt(s, i) : i \in DOMAIN s}
        \cup {InsertAt(s, i, x) : i \in DOMAIN s, x \in Token}

EditedRequests == Requests \cup UNION {Edited(s) : s \in Requests}

\* NO_REQUEST means "the request is incomplete, more data has to be read from
\* the client" (line 39): the server does not wait for more when it has a good
\* request line and the empty line that ends the headers.
WaitsOnlyIfIncomplete ==
    pc = "recv" => ~ \E i \in LineEnds(Received) : i + 2 \in LineEnds(Received)

=============================================================================
