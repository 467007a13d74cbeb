----------------------------- MODULE MCCgiServer -----------------------------
(***************************************************************************)
(* CgiServer for TLC: a path "a" that exists, a line that comes whole      *)
(* within the buffer with more behind it, one whose path does not exist,   *)
(* and a text without a line that is longer than the buffer.               *)
(***************************************************************************)
EXTENDS CgiServer

MCTexts == {<<"a", "CR", "LF", "CR", "LF">>, <<"CR", "LF">>, <<"a", "a", "a", "CR", "LF">>}
MCFiles == {<<"a">>}

=============================================================================
