------------------------------ MODULE ChatRoomPoll ------------------------------
(***************************************************************************)
(* The chat room server of Chatroom_server.cpp: one process, one poll()    *)
(* loop.  fds[0] is the listening socket, fds[1..user_count] are the       *)
(* clients.  What a client sends is read into the buffer of its entry in   *)
(* user[], and every other client gets a pointer to that buffer and waits  *)
(* for POLLOUT instead of POLLIN until it has been written.                *)
(*                                                                         *)
(* poll() reports the events of all slots at once; the loop then handles   *)
(* slot after slot, and between two of its steps clients connect, send,    *)
(* leave and reset.  The events are handled as they were reported.         *)
(*                                                                         *)
(* What is abstracted: a message is one chunk of a client's stream, as one *)
(* recv() returns it, and is told apart by the client it came from; the    *)
(* descriptors in use besides those of clients are left out.               *)
(***************************************************************************)
EXTENDS Integers, Sequences

CONSTANTS
    UserLimit,   \* USER_LIMIT
    NumClients,  \* bound: clients, each of which connects at most once
    MaxMoves     \* bound: what clients do once they connected (a chunk, a FIN, a RST)

ASSUME UserLimitAssumption == UserLimit \in Nat \ {0}
ASSUME NumClientsAssumption == NumClients \in Nat
ASSUME MaxMovesAssumption == MaxMoves \in Nat

\* The clients are numbered in the order in which they connect.
Client == 1 .. NumClients
NoClient == 0              \* nobody: the other end of a closed descriptor, an empty buffer

lfd == 0
NoFd == -1
NULL == -1
Fd == 1 .. UserLimit + 1   \* one more than there are users: the one turned away
Slots == 0 .. UserLimit
Events == {"IN", "OUT", "RDHUP", "ERR"}
PollFd == [fd : Fd \cup {lfd, NoFd},
           events : SUBSET Events,
           revents : SUBSET (Events \cup {"NVAL"})]

VARIABLES
    pc,            \* "poll", "visit" (line 94), "write" (line 188), "dead"
    j,             \* the slot of the loop
    fds,
    user_count,
    client_write,  \* user[f].client_write: the f whose read_buf it points to
    read_buf,      \* user[f].read_buf: who sent its content, or NoClient
    owner,         \* the client at the other end of each descriptor
    backlog,       \* clients to be accepted
    peer,          \* what a client did: "none", "up", "fin", "rst", "gone"
    err,           \* the error pending on the server's socket for a client
    unread,        \* chunks that the server has not read
    moves,         \* what clients did so far, for the bound
    visited,       \* history: descriptors the loop has come to in this round
    told           \* history: whose message each descriptor was last told to write

loopVars == <<pc, j, visited>>
userVars == <<user_count, client_write, read_buf, told>>
sockVars == <<owner, backlog, peer, err, unread, moves>>
vars == <<loopVars, fds, userVars, sockVars>>

\* new client_data[] leaves the buffers as the fresh heap has them: empty.
Init ==
    /\ pc = "poll" /\ j = 0 /\ visited = {}
    /\ fds = [k \in Slots |->
                IF k = 0 THEN [fd |-> lfd, events |-> {"IN", "ERR"}, revents |-> {}]
                         ELSE [fd |-> NoFd, events |-> {}, revents |-> {}]]
    /\ user_count = 0
    /\ client_write = [f \in Fd |-> NULL]
    /\ read_buf = [f \in Fd |-> NoClient]
    /\ owner = [f \in Fd |-> NoClient]
    /\ backlog = <<>>
    /\ peer = [c \in Client |-> "none"]
    /\ err = [c \in Client |-> "none"]
    /\ unread = [c \in Client |-> 0]
    /\ moves = 0
    /\ told = [f \in Fd |-> NoClient]

-----------------------------------------------------------------------------
(* Line 83: poll.                                                          *)

Left(c) == peer[c] \in {"fin", "rst"}
Live == 1 .. user_count
Open(f) == owner[f] # NoClient

\* A client that does not read what it is sent is not writable ("slow").
Condition(c, slow) ==
    (IF unread[c] > 0 \/ Left(c) THEN {"IN"} ELSE {})
        \cup (IF c \in slow /\ peer[c] # "rst" THEN {} ELSE {"OUT"})
        \cup (IF Left(c) THEN {"RDHUP"} ELSE {})

\* POLLERR and POLLNVAL are reported whether asked for or not.  Slots behind
\* user_count are polled too, with what is left in them.
Revents(k, slow) ==
    LET f == fds[k].fd
    IN IF f = lfd THEN IF backlog # <<>> THEN {"IN"} ELSE {}
       ELSE IF f = NoFd THEN {}
       ELSE IF ~ Open(f) THEN {"NVAL"}
       ELSE (Condition(owner[f], slow) \cap fds[k].events)
                \cup (IF err[owner[f]] # "none" THEN {"ERR"} ELSE {})

Poll ==
    /\ pc = "poll"
    /\ \E slow \in SUBSET {c \in Client : peer[c] # "none"} :
         /\ \E k \in Slots : Revents(k, slow) # {}
         /\ fds' = [k \in Slots |-> [fds[k] EXCEPT !.revents = Revents(k, slow)]]
    /\ pc' = "visit" /\ j' = 0 /\ visited' = {}
    /\ UNCHANGED <<userVars, sockVars>>

-----------------------------------------------------------------------------
(* Lines 91-185: the branches on the events of slot j.                     *)

Reported(e) == e \in fds[j].revents
Visiting == pc = "visit" /\ j <= user_count
AtSlot == Visiting /\ visited' = visited \cup {fds[j].fd}
Continue == pc' = "visit" /\ j' = j + 1    \* the next slot
FallThrough == pc' = "write" /\ j' = j     \* to line 188

\* The loop is over.  revents are not looked at before the next poll().
EndRound ==
    /\ pc = "visit" /\ j > user_count
    /\ pc' = "poll" /\ j' = 0 /\ visited' = {}
    /\ fds' = [k \in Slots |-> [fds[k] EXCEPT !.revents = {}]]
    /\ UNCHANGED <<userVars, sockVars>>

\* The lowest free descriptor.
Fresh(f) == ~ Open(f) /\ \A g \in Fd : ~ Open(g) => f <= g

\* Faulty variant: one user more than there are slots.
FullLate == user_count > UserLimit

\* ++user_count > USER_LIMIT
Full == user_count + 1 > UserLimit

\* Faulty variants: what poll() reported for the former user of the slot is
\* kept; the departure of the client is not watched.
NewSlotDirty(f, k) ==
    [fd |-> f, events |-> {"IN", "RDHUP", "ERR"}, revents |-> fds[k].revents]
NewSlotBlind(f, k) == [fd |-> f, events |-> {"IN", "ERR"}, revents |-> {}]

NewSlot(f, k) == [fd |-> f, events |-> {"IN", "RDHUP", "ERR"}, revents |-> {}]

Accept ==
    /\ AtSlot /\ j = 0 /\ Reported("IN")
    /\ ~ Full
    /\ \E f \in Fd :
         /\ Fresh(f)
         /\ owner' = [owner EXCEPT ![f] = Head(backlog)]
         /\ fds' = [fds EXCEPT ![user_count + 1] = NewSlot(f, user_count + 1)]
    /\ backlog' = Tail(backlog)
    /\ user_count' = user_count + 1
    /\ FallThrough
    /\ UNCHANGED <<client_write, read_buf, told, peer, err, unread, moves>>

\* "to many users!" is sent, and the connection is closed.  The send fails with
\* SIGPIPE, whose default action ends the process, if EPIPE is pending.
Reject ==
    /\ AtSlot /\ j = 0 /\ Reported("IN")
    /\ Full
    /\ LET c == Head(backlog)
       IN /\ IF err[c] = "EPIPE" THEN pc' = "dead" /\ j' = j ELSE Continue
          /\ peer' = [peer EXCEPT ![c] = "gone"]
          /\ err' = [err EXCEPT ![c] = "none"]
          /\ unread' = [unread EXCEPT ![c] = 0]
    /\ backlog' = Tail(backlog)
    /\ UNCHANGED <<fds, userVars, owner, moves>>

\* accept() fails: the connection is still waiting.
AcceptFails ==
    /\ AtSlot /\ j = 0 /\ Reported("IN")
    /\ Continue
    /\ UNCHANGED <<fds, userVars, sockVars>>

\* POLLERR: getsockopt(SO_ERROR) fetches and clears the error.
HandleError ==
    /\ AtSlot /\ j > 0 /\ Reported("ERR")
    /\ err' = [err EXCEPT ![owner[fds[j].fd]] = "none"]
    /\ Continue
    /\ UNCHANGED <<fds, userVars, owner, backlog, peer, unread, moves>>

\* Faulty variants: the slot of the last user is not found any more, since
\* user_count was decremented first; the moved slot is not visited.
MovedShort == [fds EXCEPT ![j] = fds[user_count - 1]]
AfterRemovalNext == j

\* fds[j] = fds[user_count]; --j;
Moved == [fds EXCEPT ![j] = fds[user_count]]
AfterRemoval == j - 1

\* Faulty variant: the entry of the last user is overwritten instead.
OverwrittenBack(entries, f, last) == [entries EXCEPT ![last] = entries[f]]

\* The entry of the client that left is overwritten with the entry of the last
\* user, although entries are found by descriptor and none has to move.
Overwritten(entries, f, last) == [entries EXCEPT ![f] = entries[last]]

RemoveUser ==
    /\ LET f == fds[j].fd
           last == fds[user_count].fd
           c == owner[f]
       IN /\ client_write' = Overwritten(client_write, f, last)
          /\ read_buf' = Overwritten(read_buf, f, last)
          /\ owner' = [owner EXCEPT ![f] = NoClient]
          /\ peer' = [peer EXCEPT ![c] = "gone"]
          /\ err' = [err EXCEPT ![c] = "none"]
          /\ unread' = [unread EXCEPT ![c] = 0]
    /\ fds' = Moved
    /\ user_count' = user_count - 1
    /\ j' = AfterRemoval
    /\ pc' = "write"
    /\ told' = [told EXCEPT ![fds[j].fd] = NoClient]
    /\ UNCHANGED <<backlog, moves>>

\* POLLRDHUP: after the removal, line 188 is about slot j - 1 once more.
HandleRdhup ==
    /\ AtSlot /\ j > 0 /\ ~ Reported("ERR") /\ Reported("RDHUP")
    /\ RemoveUser

Audience(f) == {fds[k].fd : k \in Live} \ {f}

\* ret > 0: all the others wait for POLLOUT, with a pointer to the buffer.
Broadcast ==
    LET f == fds[j].fd
    IN /\ fds' = [k \in Slots |->
                    IF k \in Live /\ fds[k].fd \in Audience(f)
                    THEN [fds[k] EXCEPT !.events = (@ \ {"IN"}) \cup {"OUT"}]
                    ELSE fds[k]]
       /\ client_write' = [g \in Fd |-> IF g \in Audience(f) THEN f ELSE client_write[g]]
       /\ read_buf' = [read_buf EXCEPT ![f] = owner[f]]
       /\ told' = [g \in Fd |-> IF g \in Audience(f) THEN owner[f] ELSE told[g]]
       /\ unread' = [unread EXCEPT ![owner[f]] = @ - 1]
       /\ UNCHANGED <<user_count, owner, backlog, peer, err, moves>>

\* POLLIN: the buffer is cleared and filled by one recv().
HandleIn ==
    /\ AtSlot /\ j > 0 /\ ~ Reported("ERR") /\ ~ Reported("RDHUP") /\ Reported("IN")
    /\ LET c == owner[fds[j].fd]
       IN IF unread[c] > 0 THEN Broadcast /\ FallThrough
          ELSE IF err[c] # "none" THEN RemoveUser  \* recv() fails, not with EAGAIN
          ELSE /\ read_buf' = [read_buf EXCEPT ![fds[j].fd] = NoClient]
               /\ FallThrough
               /\ UNCHANGED <<fds, user_count, client_write, told, sockVars>>

NothingToRead ==
    /\ AtSlot
    /\ ~ Reported("ERR") /\ ~ Reported("RDHUP") /\ ~ Reported("IN")
    /\ FallThrough
    /\ UNCHANGED <<fds, userVars, sockVars>>

-----------------------------------------------------------------------------
(* Lines 187-200: the data that the other clients wait for is written.     *)

Writing == pc = "write" /\ Reported("OUT")
Pointer == client_write[fds[j].fd]
SendErr == err[owner[fds[j].fd]]
IsReset == peer[owner[fds[j].fd]] = "rst"

NothingToWrite ==
    /\ pc = "write" /\ ~ Reported("OUT")
    /\ Continue
    /\ UNCHANGED <<visited, fds, userVars, sockVars>>

\* strlen(nullptr)
WriteNull ==
    /\ Writing /\ Pointer = NULL
    /\ pc' = "dead"
    /\ UNCHANGED <<j, visited, fds, userVars, sockVars>>

\* send() on a connection whose reset has been reported already, or that was
\* half closed before the reset: EPIPE, and SIGPIPE.
WriteKilled ==
    /\ Writing /\ Pointer # NULL /\ IsReset /\ SendErr # "ECONNRESET"
    /\ pc' = "dead"
    /\ UNCHANGED <<j, visited, fds, userVars, sockVars>>

\* send() fails: the pointer is gone, POLLOUT stays.
WriteFails ==
    /\ Writing /\ Pointer # NULL /\ IsReset /\ SendErr = "ECONNRESET"
    /\ client_write' = [client_write EXCEPT ![fds[j].fd] = NULL]
    /\ err' = [err EXCEPT ![owner[fds[j].fd]] = "none"]
    /\ Continue
    /\ told' = [told EXCEPT ![fds[j].fd] = NoClient]
    /\ UNCHANGED <<visited, fds, user_count, read_buf, owner, backlog, peer, unread, moves>>

Written(events) == (events \ {"OUT"}) \cup {"IN"}

Write ==
    /\ Writing /\ Pointer # NULL /\ ~ IsReset
    /\ client_write' = [client_write EXCEPT ![fds[j].fd] = NULL]
    /\ fds' = [fds EXCEPT ![j].events = Written(@)]
    /\ Continue
    /\ told' = [told EXCEPT ![fds[j].fd] = NoClient]
    /\ UNCHANGED <<visited, user_count, read_buf, sockVars>>

ServerStep ==
    \/ Poll \/ EndRound
    \/ Accept \/ Reject \/ AcceptFails
    \/ HandleError \/ HandleRdhup \/ HandleIn \/ NothingToRead
    \/ NothingToWrite \/ WriteNull \/ WriteKilled \/ WriteFails \/ Write

-----------------------------------------------------------------------------
(* The clients.                                                            *)

ServerOnly == <<loopVars, fds, userVars, owner>>
Moves == moves < MaxMoves /\ moves' = moves + 1

Connect(c) ==
    /\ peer[c] = "none" /\ \A d \in Client : d < c => peer[d] # "none"
    /\ peer' = [peer EXCEPT ![c] = "up"]
    /\ backlog' = Append(backlog, c)
    /\ UNCHANGED <<ServerOnly, err, unread, moves>>

Send(c) ==
    /\ peer[c] = "up" /\ Moves
    /\ unread' = [unread EXCEPT ![c] = @ + 1]
    /\ UNCHANGED <<ServerOnly, backlog, peer, err>>

\* FIN.
Leave(c) ==
    /\ peer[c] = "up" /\ Moves
    /\ peer' = [peer EXCEPT ![c] = "fin"]
    /\ UNCHANGED <<ServerOnly, backlog, err, unread>>

\* RST, of a connection that the client has half closed or not.
Reset(c) ==
    /\ peer[c] \in {"up", "fin"} /\ Moves
    /\ peer' = [peer EXCEPT ![c] = "rst"]
    /\ err' = [err EXCEPT ![c] = IF peer[c] = "fin" THEN "EPIPE" ELSE "ECONNRESET"]
    /\ UNCHANGED <<ServerOnly, backlog, unread>>

Next ==
    \/ ServerStep
    \/ \E c \in Client : Connect(c) \/ Send(c) \/ Leave(c) \/ Reset(c)

Spec == Init /\ [][Next]_vars

\* The server is scheduled in the end whenever it does not block in poll().
FairSpec == Spec /\ WF_vars(ServerStep)

-----------------------------------------------------------------------------
(* Properties.                                                             *)

TypeOK ==
    /\ pc \in {"poll", "visit", "write", "dead"}
    /\ j \in 0 .. UserLimit + 1
    /\ fds \in [Slots -> PollFd]
    /\ user_count \in 0 .. UserLimit
    /\ client_write \in [Fd -> Fd \cup {NULL}]
    /\ read_buf \in [Fd -> Client \cup {NoClient}]
    /\ owner \in [Fd -> Client \cup {NoClient}]
    /\ backlog \in Seq(Client)
    /\ peer \in [Client -> {"none", "up", "fin", "rst", "gone"}]
    /\ err \in [Client -> {"none", "ECONNRESET", "EPIPE"}]
    /\ unread \in [Client -> Nat] /\ moves \in Nat
    /\ told \in [Fd -> Client \cup {NoClient}]
    /\ visited \subseteq Fd \cup {lfd}

\* However clients come and go in the middle of a round: the slots up to
\* user_count hold exactly the open descriptors, each once.  No client is
\* polled twice, none is left open and unpolled, no closed descriptor is used.
SlotsAreOpenUsers ==
    /\ \A k \in Live : fds[k].fd \in Fd /\ Open(fds[k].fd)
    /\ \A k, m \in Live : fds[k].fd = fds[m].fd => k = m
    /\ \A f \in Fd : Open(f) => \E k \in Live : fds[k].fd = f

\* A client that waits for POLLOUT will be written what it was told of: its
\* pointer leads to the entry of another user, and the buffer of that entry still
\* holds what this user sent, however many clients have left since and had their
\* entries overwritten.  It may be otherwise when the sender itself has left (line
\* 143 then puts the last user's buffer in the place of the message, which may be
\* empty or the reader's own), and when the reader's connection has been reset
\* and the write has failed.
ToldOf(f) ==
    LET g == client_write[f]
        c == told[f]
    IN /\ g \in Fd \ {f}
       /\ c \in Client \ {owner[f]}
       /\ peer[c] = "gone" \/ (owner[g] = c /\ read_buf[g] = c)
WaitingHasMessage ==
    \A k \in Live :
        "OUT" \in fds[k].events => ToldOf(fds[k].fd) \/ peer[owner[fds[k].fd]] = "rst"

\* A POLLIN that is handled still has its data (line 172: the departure of a
\* client has been handled before), though slots were moved and taken by new
\* clients since poll() reported it.
RecvGetsData ==
    /\ Visiting /\ j > 0
    /\ Reported("IN") /\ ~ Reported("ERR") /\ ~ Reported("RDHUP")
    => unread[owner[fds[j].fd]] > 0

\* Every client for which poll() reported something is visited in that round,
\* also the one whose slot is moved while the loop runs.
RoundVisitsAll ==
    pc = "visit" /\ j > user_count =>
        \A k \in Live : fds[k].revents # {} => fds[k].fd \in visited

\* The connections of clients that have left are closed in the end, all of them,
\* unless the server dies before.
Departed == {c \in Client : Left(c) /\ \E f \in Fd : owner[f] = c}
DepartedIsClosed == Departed # {} ~> Departed = {} \/ pc = "dead"

=============================================================================
