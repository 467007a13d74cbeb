---------------------------- MODULE MCShmChatServer ----------------------------
(***************************************************************************)
(* ShmChatServer for TLC, and what a comment says where the code does      *)
(* otherwise.                                                              *)
(***************************************************************************)
EXTENDS ShmChatServer, TLC

\* Nothing tells clients apart.
Symmetry == Permutations(Client)

\* Line 353: the last user takes the place of the one whose child has been joined,
\* "and the number of users is reduced by one".  It never is: line 313 records the
\* descriptor of the connection, which is above USER_LIMIT, and line 346 passes on.
JoinedIsNoUser ==
    \A c \in Client : cpc[c] = "joined" => c \notin Users

=============================================================================
