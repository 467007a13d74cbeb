--------------------------- MODULE ChatRoomPollProofs ---------------------------
(***************************************************************************)
(* Theorems about ChatRoomPoll, for every number of places and of clients: *)
(* the slots match the open sockets, and what poll() reported stays true   *)
(* of them while a round is under way.                                     *)
(***************************************************************************)
EXTENDS ChatRoomPoll, TLAPS

\* Where the loop is.  Slot 0 is the listening socket for good.
LoopInv ==
    /\ pc = "visit" => j \in 0 .. user_count + 1
    /\ pc = "write" => j \in 0 .. user_count
    /\ fds[0].fd = lfd /\ fds[0].revents \subseteq {"IN"}
    /\ \A k \in Slots \ {0} : fds[k].fd # lfd
    /\ pc = "visit" /\ j = 0 /\ "IN" \in fds[0].revents => backlog # <<>>

\* A client is in one place: at the end of one descriptor, or once in the
\* backlog, or nowhere before it connects.
OwnersInv ==
    /\ \A f, g \in Fd : Open(f) /\ owner[f] = owner[g] => f = g
    /\ \A n \in DOMAIN backlog, f \in Fd : owner[f] # backlog[n]
    /\ \A n, m \in DOMAIN backlog : backlog[n] = backlog[m] => n = m
    /\ \A c \in Client : peer[c] = "none" =>
          /\ \A f \in Fd : owner[f] # c
          /\ \A n \in DOMAIN backlog : backlog[n] # c

RoomInv == TypeOK /\ LoopInv /\ SlotsAreOpenUsers /\ OwnersInv

\* The slots that the loop has still to handle in this round, and what holds of
\* the others.
Ahead(k) == (pc = "visit" /\ k >= j) \/ (pc = "write" /\ k > j)
ToRead(k) ==
    /\ "IN" \in fds[k].revents
    /\ "ERR" \notin fds[k].revents /\ "RDHUP" \notin fds[k].revents

ReportsInv ==
    \A k \in Live :
       /\ "RDHUP" \in fds[k].events
       /\ Ahead(k) /\ ToRead(k) => unread[owner[fds[k].fd]] > 0

VisitInv ==
    \A k \in Live :
       pc \in {"visit", "write"} /\ ~ Ahead(k) /\ fds[k].revents # {}
          => fds[k].fd \in visited

-----------------------------------------------------------------------------
(* Slots and their records.                                                *)

LEMMA WithRevents ==
    ASSUME NEW r \in PollFd, NEW R \in SUBSET (Events \cup {"NVAL"})
    PROVE  LET q == [r EXCEPT !.revents = R]
           IN q \in PollFd /\ q.fd = r.fd /\ q.events = r.events /\ q.revents = R
BY DEF PollFd

LEMMA WithEvents ==
    ASSUME NEW r \in PollFd, NEW E \in SUBSET Events
    PROVE  LET q == [r EXCEPT !.events = E]
           IN q \in PollFd /\ q.fd = r.fd /\ q.events = E /\ q.revents = r.revents
BY DEF PollFd

\* 0 and -1 are no client's descriptor.
LEMMA FdNumbers == lfd \notin Fd /\ NoFd \notin Fd /\ NULL \notin Fd /\ lfd # NoFd
BY UserLimitAssumption DEF Fd, lfd, NoFd, NULL

\* Nobody is no client.
LEMMA NoOne == NoClient \notin Client
BY DEF Client, NoClient

\* A slot in use holds an open descriptor, with a client at its other end.
LEMMA LiveSlot ==
    ASSUME RoomInv, NEW k \in Live
    PROVE  /\ k \in Slots \ {0} /\ k \in 1 .. user_count
           /\ fds[k] \in PollFd
           /\ fds[k].fd \in Fd /\ Open(fds[k].fd)
           /\ owner[fds[k].fd] \in Client
<1>1. k \in Slots \ {0} /\ k \in 1 .. user_count
  BY UserLimitAssumption DEF RoomInv, TypeOK, Live, Slots
<1>2. fds[k].fd \in Fd /\ Open(fds[k].fd)
  BY DEF RoomInv, SlotsAreOpenUsers
<1>3. QED
  BY <1>1, <1>2 DEF RoomInv, TypeOK, Open

\* What a visit of a slot starts from.
LEMMA VisitedSlot ==
    ASSUME RoomInv, AtSlot
    PROVE  /\ pc = "visit" /\ j \in 0 .. user_count /\ j \in Slots
           /\ user_count \in 0 .. UserLimit
           /\ j # 0 => j \in Live
           /\ visited' \subseteq Fd \cup {lfd}
<1>1. pc = "visit" /\ j \in 0 .. user_count /\ user_count \in 0 .. UserLimit
  BY UserLimitAssumption DEF RoomInv, TypeOK, LoopInv, AtSlot, Visiting
<1>2. j \in Slots /\ (j # 0 => j \in Live)
  BY <1>1, UserLimitAssumption DEF Slots, Live
<1>3. fds[j].fd \in Fd \cup {lfd}
  BY <1>1, <1>2, LiveSlot DEF RoomInv, LoopInv
<1>4. QED
  BY <1>1, <1>2, <1>3 DEF RoomInv, TypeOK, AtSlot

\* Most steps leave the descriptors where they are.
LEMMA SameRoom ==
    ASSUME RoomInv,
           \A k \in Slots : fds'[k].fd = fds[k].fd,
           UNCHANGED <<user_count, owner, backlog>>,
           \A c \in Client : peer'[c] = "none" => peer[c] = "none"
    PROVE  /\ SlotsAreOpenUsers' /\ OwnersInv'
           /\ fds'[0].fd = lfd
           /\ \A k \in Slots \ {0} : fds'[k].fd # lfd
<1>1. Live' = Live /\ Live \subseteq Slots
  BY UserLimitAssumption DEF Live, RoomInv, TypeOK, Slots
<1>2. SlotsAreOpenUsers'
  BY <1>1 DEF RoomInv, SlotsAreOpenUsers, Open
<1>3. OwnersInv'
  BY DEF RoomInv, OwnersInv, Open
<1>4. 0 \in Slots
  BY UserLimitAssumption DEF Slots
<1>5. QED
  BY <1>2, <1>3, <1>4 DEF RoomInv, LoopInv

LEMMA ReportTypes ==
    ASSUME RoomInv, NEW k \in Slots, NEW slow
    PROVE  /\ Revents(k, slow) \subseteq Events \cup {"NVAL"}
           /\ k = 0 => Revents(k, slow) = IF backlog # <<>> THEN {"IN"} ELSE {}
<1>1. fds[k].events \subseteq Events
  BY DEF RoomInv, TypeOK, PollFd
<1>2. k = 0 => fds[k].fd = lfd
  BY DEF RoomInv, LoopInv
<1>3. QED
  BY <1>1, <1>2 DEF Revents, Events

-----------------------------------------------------------------------------
(* The steps, one by one: RoomInv is an invariant.                         *)

LEMMA RoomInit == Init => RoomInv
<1> SUFFICES ASSUME Init PROVE RoomInv
  OBVIOUS
<1>1. TypeOK
  BY UserLimitAssumption, MaxMovesAssumption DEF Init, TypeOK, PollFd, Events, Fd, Slots
<1>2. LoopInv
  BY UserLimitAssumption DEF Init, LoopInv, Slots, lfd, NoFd
<1>3. SlotsAreOpenUsers /\ OwnersInv
  BY NoOne DEF Init, SlotsAreOpenUsers, OwnersInv, Live, Open
<1>4. QED
  BY <1>1, <1>2, <1>3 DEF RoomInv

LEMMA PollStep ==
    ASSUME RoomInv, Poll
    PROVE  /\ RoomInv'
           /\ \A k \in Slots : fds'[k].fd = fds[k].fd /\ fds'[k].events = fds[k].events
<1>1. PICK slow \in SUBSET {c \in Client : peer[c] # "none"} :
        fds' = [k \in Slots |-> [fds[k] EXCEPT !.revents = Revents(k, slow)]]
  BY DEF Poll
<1>2. pc' = "visit" /\ j' = 0 /\ visited' = {} /\ UNCHANGED <<userVars, sockVars>>
  BY DEF Poll
<1>3. \A k \in Slots : /\ fds'[k] \in PollFd
                       /\ fds'[k].fd = fds[k].fd /\ fds'[k].events = fds[k].events
                       /\ fds'[k].revents = Revents(k, slow)
  BY <1>1, WithRevents, ReportTypes DEF RoomInv, TypeOK
<1>4. 0 \in Slots
  BY UserLimitAssumption DEF Slots
<1>5. TypeOK'
  BY <1>1, <1>2, <1>3, UserLimitAssumption DEF RoomInv, TypeOK, userVars, sockVars
<1>6. SlotsAreOpenUsers' /\ OwnersInv' /\ fds'[0].fd = lfd /\ \A k \in Slots \ {0} : fds'[k].fd # lfd
  BY <1>2, <1>3, SameRoom DEF userVars, sockVars
<1>7. LoopInv'
  BY <1>2, <1>3, <1>4, <1>6, ReportTypes DEF LoopInv, RoomInv, TypeOK, userVars, sockVars
<1>8. QED
  BY <1>3, <1>5, <1>6, <1>7 DEF RoomInv

LEMMA EndRoundStep ==
    ASSUME RoomInv, EndRound
    PROVE  /\ RoomInv'
           /\ \A k \in Slots : fds'[k].fd = fds[k].fd /\ fds'[k].events = fds[k].events
<1>1. fds' = [k \in Slots |-> [fds[k] EXCEPT !.revents = {}]]
  BY DEF EndRound
<1>2. pc' = "poll" /\ j' = 0 /\ visited' = {} /\ UNCHANGED <<userVars, sockVars>>
  BY DEF EndRound
<1>3. \A k \in Slots : /\ fds'[k] \in PollFd
                       /\ fds'[k].fd = fds[k].fd /\ fds'[k].events = fds[k].events
                       /\ fds'[k].revents = {}
  BY <1>1, WithRevents DEF RoomInv, TypeOK
<1>4. 0 \in Slots
  BY UserLimitAssumption DEF Slots
<1>5. TypeOK'
  <2>1. fds' \in [Slots -> PollFd]
    BY <1>1, <1>3
  <2>2. QED
    BY <1>2, <2>1, UserLimitAssumption DEF RoomInv, TypeOK, userVars, sockVars
<1>6. SlotsAreOpenUsers' /\ OwnersInv' /\ fds'[0].fd = lfd /\ \A k \in Slots \ {0} : fds'[k].fd # lfd
  BY <1>2, <1>3, SameRoom DEF userVars, sockVars
<1>7. LoopInv'
  BY <1>2, <1>3, <1>4, <1>6 DEF LoopInv
<1>8. QED
  BY <1>3, <1>5, <1>6, <1>7 DEF RoomInv

\* The steps of the server that leave the slots alone: an error, nothing to do,
\* the failures of accept() and of send().
Aside ==
    AcceptFails \/ HandleError \/ NothingToRead \/ NothingToWrite
        \/ WriteNull \/ WriteKilled \/ WriteFails

LEMMA AsideStep ==
    ASSUME RoomInv, Aside
    PROVE  RoomInv' /\ UNCHANGED <<fds, user_count, owner, backlog, peer, unread, moves>>
<1>1. UNCHANGED <<fds, user_count, owner, backlog, peer, unread, moves>>
  BY DEF Aside, AcceptFails, HandleError, NothingToRead, NothingToWrite, WriteNull,
         WriteKilled, WriteFails, userVars, sockVars
<1>2. SlotsAreOpenUsers' /\ OwnersInv'
  BY <1>1, SameRoom
<1>3. /\ pc' \in {"visit", "write", "dead"}
      /\ j' \in 0 .. user_count + 1
      /\ pc' = "visit" => j' # 0
      /\ pc' = "write" => j' \in 0 .. user_count
      /\ visited' \subseteq Fd \cup {lfd}
  <2>1. CASE AcceptFails \/ HandleError \/ NothingToRead
    BY <2>1, VisitedSlot DEF AcceptFails, HandleError, NothingToRead, Continue, FallThrough
  <2>2. CASE NothingToWrite \/ WriteNull \/ WriteKilled \/ WriteFails
    BY <2>2, UserLimitAssumption
    DEF NothingToWrite, WriteNull, WriteKilled, WriteFails, Writing, Continue, RoomInv, LoopInv, TypeOK
  <2>3. QED
    BY <2>1, <2>2 DEF Aside
<1>4. /\ client_write' \in [Fd -> Fd \cup {NULL}] /\ read_buf' = read_buf
      /\ told' \in [Fd -> Client \cup {NoClient}]
      /\ err' \in [Client -> {"none", "ECONNRESET", "EPIPE"}]
  BY DEF Aside, AcceptFails, HandleError, NothingToRead, NothingToWrite, WriteNull,
         WriteKilled, WriteFails, userVars, sockVars, RoomInv, TypeOK
<1>5. TypeOK'
  BY <1>1, <1>3, <1>4, UserLimitAssumption DEF RoomInv, TypeOK
<1>6. LoopInv'
  BY <1>1, <1>3 DEF RoomInv, LoopInv
<1>7. QED
  BY <1>1, <1>2, <1>5, <1>6 DEF RoomInv

LEMMA AcceptStep ==
    ASSUME RoomInv, Accept
    PROVE  /\ RoomInv'
           /\ user_count' = user_count + 1 /\ user_count' \in Slots \ {0}
           /\ fds'[user_count'].events = {"IN", "RDHUP", "ERR"} /\ fds'[user_count'].revents = {}
           /\ \A k \in Slots \ {user_count'} : fds'[k] = fds[k]
           /\ \A k \in Live : owner'[fds[k].fd] = owner[fds[k].fd]
<1>1. PICK f \in Fd :
        /\ Fresh(f)
        /\ owner' = [owner EXCEPT ![f] = Head(backlog)]
        /\ fds' = [fds EXCEPT ![user_count + 1] = NewSlot(f, user_count + 1)]
  BY DEF Accept
<1>2. /\ AtSlot /\ j = 0 /\ "IN" \in fds[0].revents /\ ~ Full
      /\ backlog' = Tail(backlog) /\ user_count' = user_count + 1
      /\ pc' = "write" /\ j' = 0
      /\ UNCHANGED <<client_write, read_buf, told, peer, err, unread, moves>>
  BY DEF Accept, Reported, FallThrough
<1>3. user_count' \in 1 .. UserLimit /\ user_count' \in Slots \ {0} /\ user_count \in 0 .. UserLimit
  BY <1>2, UserLimitAssumption DEF RoomInv, TypeOK, Full, Slots
<1>4. backlog # <<>> /\ backlog \in Seq(Client)
  BY <1>2 DEF RoomInv, LoopInv, TypeOK, AtSlot, Visiting
<1>5. /\ Head(backlog) \in Client /\ Head(backlog) = backlog[1] /\ 1 \in DOMAIN backlog
      /\ Tail(backlog) \in Seq(Client)
      /\ \A n \in DOMAIN Tail(backlog) :
            n + 1 \in DOMAIN backlog /\ n + 1 # 1 /\ Tail(backlog)[n] = backlog[n + 1]
  BY <1>4
<1>6. ~ Open(f) /\ f # lfd
  BY <1>1, FdNumbers DEF Fresh
<1>7. /\ NewSlot(f, user_count + 1) \in PollFd
      /\ NewSlot(f, user_count + 1).fd = f
      /\ NewSlot(f, user_count + 1).events = {"IN", "RDHUP", "ERR"}
      /\ NewSlot(f, user_count + 1).revents = {}
  BY DEF NewSlot, PollFd, Events
<1>8. /\ fds' \in [Slots -> PollFd] /\ fds'[user_count'] = NewSlot(f, user_count + 1)
      /\ \A k \in Slots \ {user_count'} : fds'[k] = fds[k]
  BY <1>1, <1>2, <1>3, <1>7 DEF RoomInv, TypeOK
<1>9. /\ owner' \in [Fd -> Client \cup {NoClient}]
      /\ owner'[f] = Head(backlog) /\ \A g \in Fd \ {f} : owner'[g] = owner[g]
  BY <1>1, <1>5 DEF RoomInv, TypeOK
<1>10. TypeOK'
  BY <1>2, <1>3, <1>5, <1>8, <1>9, VisitedSlot, UserLimitAssumption DEF RoomInv, TypeOK
<1>11. LoopInv'
  <2>1. 0 \in Slots \ {user_count'}
    BY <1>3, UserLimitAssumption DEF Slots
  <2>2. QED
    BY <1>2, <1>3, <1>6, <1>7, <1>8, <2>1 DEF RoomInv, LoopInv
<1>12. Live' = Live \cup {user_count'} /\ user_count' \notin Live /\ Live \subseteq Slots \ {user_count'}
  <2>1. user_count' = user_count + 1 /\ user_count \in Nat /\ user_count < UserLimit
    BY <1>2, <1>3, UserLimitAssumption
  <2>2. Live' = 1 .. user_count + 1 /\ Live = 1 .. user_count
    BY <2>1 DEF Live
  <2>3. QED
    BY <2>1, <2>2, UserLimitAssumption DEF Slots
<1>13. \A k \in Live : fds'[k] = fds[k] /\ fds[k].fd \in Fd \ {f} /\ Open(fds[k].fd)
  BY <1>6, <1>8, <1>12, LiveSlot
<1>14. \A g \in Fd : Open(g)' <=> Open(g) \/ g = f
  BY <1>5, <1>9, NoOne DEF Open
<1>15. SlotsAreOpenUsers'
  BY <1>7, <1>8, <1>12, <1>13, <1>14 DEF RoomInv, SlotsAreOpenUsers
<1>16. OwnersInv'
  <2>1. \A g, h \in Fd : Open(g)' /\ owner'[g] = owner'[h] => g = h
    BY <1>5, <1>9, <1>14, NoOne DEF RoomInv, OwnersInv, Open
  <2>2. \A n \in DOMAIN backlog', g \in Fd : owner'[g] # backlog'[n]
    BY <1>2, <1>5, <1>9 DEF RoomInv, OwnersInv
  <2>3. \A n, m \in DOMAIN backlog' : backlog'[n] = backlog'[m] => n = m
    <3> SUFFICES ASSUME NEW n \in DOMAIN backlog', NEW m \in DOMAIN backlog',
                        backlog'[n] = backlog'[m]
                 PROVE  n = m
      OBVIOUS
    <3>1. n + 1 = m + 1
      BY <1>2, <1>5 DEF RoomInv, OwnersInv
    <3>2. n \in Int /\ m \in Int
      BY <1>2, <1>5
    <3>3. QED
      BY <3>1, <3>2
  <2>4. \A c \in Client : peer'[c] = "none" =>
          (\A g \in Fd : owner'[g] # c) /\ (\A n \in DOMAIN backlog' : backlog'[n] # c)
    BY <1>2, <1>5, <1>9 DEF RoomInv, OwnersInv
  <2>5. QED
    BY <2>1, <2>2, <2>3, <2>4 DEF OwnersInv, Open
<1>17. QED
  BY <1>2, <1>3, <1>7, <1>8, <1>9, <1>10, <1>11, <1>13, <1>15, <1>16 DEF RoomInv

LEMMA RejectStep ==
    ASSUME RoomInv, Reject
    PROVE  /\ RoomInv' /\ UNCHANGED <<fds, userVars, owner>>
           /\ \A k \in Live : LET c == owner[fds[k].fd]
                              IN peer'[c] = peer[c] /\ unread'[c] = unread[c]
<1>1. /\ AtSlot /\ j = 0 /\ "IN" \in fds[0].revents
      /\ backlog' = Tail(backlog) /\ UNCHANGED <<fds, userVars, owner, moves>>
  BY DEF Reject, Reported
<1>2. PICK c : c = Head(backlog)
  OBVIOUS
<1>3. /\ (pc' = "dead" /\ j' = j) \/ (pc' = "visit" /\ j' = j + 1)
      /\ peer' = [peer EXCEPT ![c] = "gone"]
      /\ err' = [err EXCEPT ![c] = "none"]
      /\ unread' = [unread EXCEPT ![c] = 0]
  <2>1. (pc' = "dead" /\ j' = j) \/ (pc' = "visit" /\ j' = j + 1)
    BY DEF Reject, Continue
  <2>2. /\ peer' = [peer EXCEPT ![c] = "gone"]
        /\ err' = [err EXCEPT ![c] = "none"]
        /\ unread' = [unread EXCEPT ![c] = 0]
    BY <1>2 DEF Reject
  <2>3. QED
    BY <2>1, <2>2
<1>4. backlog # <<>> /\ backlog \in Seq(Client)
  BY <1>1 DEF RoomInv, LoopInv, TypeOK, AtSlot, Visiting
<1>5. /\ c \in Client /\ c = backlog[1] /\ 1 \in DOMAIN backlog
      /\ Tail(backlog) \in Seq(Client)
      /\ \A n \in DOMAIN Tail(backlog) :
            n \in Int /\ n + 1 \in DOMAIN backlog /\ n + 1 # 1 /\ Tail(backlog)[n] = backlog[n + 1]
  BY <1>2, <1>4
<1>6. /\ peer' \in [Client -> {"none", "up", "fin", "rst", "gone"}]
      /\ err' \in [Client -> {"none", "ECONNRESET", "EPIPE"}]
      /\ unread' \in [Client -> Nat]
      /\ \A d \in Client \ {c} : peer'[d] = peer[d] /\ unread'[d] = unread[d]
      /\ peer'[c] = "gone"
  BY <1>3, <1>5 DEF RoomInv, TypeOK
<1>7. TypeOK'
  BY <1>1, <1>3, <1>5, <1>6, VisitedSlot, UserLimitAssumption DEF RoomInv, TypeOK, userVars
<1>8. LoopInv'
  BY <1>1, <1>3, VisitedSlot DEF RoomInv, LoopInv, userVars
<1>9. SlotsAreOpenUsers'
  BY <1>1 DEF RoomInv, SlotsAreOpenUsers, Live, Open, userVars
<1>10. OwnersInv'
  <2>1. \A f, g \in Fd : Open(f)' /\ owner'[f] = owner'[g] => f = g
    BY <1>1 DEF RoomInv, OwnersInv, Open
  <2>2. \A n \in DOMAIN backlog', f \in Fd : owner'[f] # backlog'[n]
    BY <1>1, <1>5 DEF RoomInv, OwnersInv
  <2>3. \A n, m \in DOMAIN backlog' : backlog'[n] = backlog'[m] => n = m
    <3> SUFFICES ASSUME NEW n \in DOMAIN backlog', NEW m \in DOMAIN backlog',
                        backlog'[n] = backlog'[m]
                 PROVE  n = m
      OBVIOUS
    <3>1. n + 1 = m + 1
      BY <1>1, <1>5 DEF RoomInv, OwnersInv
    <3>2. n \in Int /\ m \in Int
      BY <1>1, <1>5
    <3>3. QED
      BY <3>1, <3>2
  <2>4. \A d \in Client : peer'[d] = "none" =>
          (\A f \in Fd : owner'[f] # d) /\ (\A n \in DOMAIN backlog' : backlog'[n] # d)
    <3>1. \A d \in Client : peer'[d] = "none" => peer[d] = "none"
      BY <1>6
    <3>2. QED
      BY <1>1, <1>5, <3>1 DEF RoomInv, OwnersInv
  <2>5. QED
    BY <2>1, <2>2, <2>3, <2>4 DEF OwnersInv, Open
<1>11. \A k \in Live : owner[fds[k].fd] \in Client \ {c}
  BY <1>5, LiveSlot DEF RoomInv, OwnersInv
<1>12. QED
  BY <1>1, <1>6, <1>7, <1>8, <1>9, <1>10, <1>11 DEF RoomInv, userVars

\* A client that leaves takes nothing but its own slot and its own state along:
\* its slot holds the last user then, and the loop is one slot behind it.
LEMMA RemoveStep ==
    ASSUME RoomInv, AtSlot, j > 0, RemoveUser
    PROVE  /\ RoomInv'
           /\ pc' = "write" /\ j' = j - 1 /\ user_count' = user_count - 1
           /\ j \in Live /\ user_count \in Live
           /\ Live' = Live \ {user_count}
           /\ fds'[j] = fds[user_count]
           /\ \A k \in Slots \ {j} : fds'[k] = fds[k]
           /\ \A k \in Live' :
                 /\ owner'[fds'[k].fd] = owner[fds'[k].fd]
                 /\ client_write'[fds'[k].fd] = client_write[fds'[k].fd]
                 /\ unread'[owner'[fds'[k].fd]] = unread[owner'[fds'[k].fd]]
                 /\ peer'[owner'[fds'[k].fd]] = peer[owner'[fds'[k].fd]]
<1>1. /\ fds' = [fds EXCEPT ![j] = fds[user_count]]
      /\ user_count' = user_count - 1 /\ j' = j - 1 /\ pc' = "write"
      /\ UNCHANGED <<backlog, moves>>
  BY DEF RemoveUser, Moved, AfterRemoval
<1>2. PICK f, last, c :
        /\ f = fds[j].fd /\ last = fds[user_count].fd /\ c = owner[f]
        /\ client_write' = [client_write EXCEPT ![f] = client_write[last]]
        /\ read_buf' = [read_buf EXCEPT ![f] = read_buf[last]]
        /\ told' = [told EXCEPT ![f] = NoClient]
        /\ owner' = [owner EXCEPT ![f] = NoClient]
        /\ peer' = [peer EXCEPT ![c] = "gone"]
        /\ err' = [err EXCEPT ![c] = "none"]
        /\ unread' = [unread EXCEPT ![c] = 0]
  BY DEF RemoveUser, Overwritten
<1>3. /\ j \in 1 .. user_count /\ user_count \in 1 .. UserLimit
      /\ j \in Live /\ user_count \in Live
  BY VisitedSlot, UserLimitAssumption DEF Live
<1>4. /\ f \in Fd /\ last \in Fd /\ c \in Client
      /\ fds[user_count] \in PollFd
      /\ j \in Slots \ {0} /\ user_count \in Slots \ {0}
  BY <1>2, <1>3, LiveSlot
<1>5. /\ Live' = Live \ {user_count} /\ Live' \subseteq Slots \ {0}
  <2>1. user_count \in Nat /\ user_count <= UserLimit /\ user_count >= 1
    BY <1>3, UserLimitAssumption
  <2>2. Live' = 1 .. user_count - 1 /\ Live = 1 .. user_count
    BY <1>1 DEF Live
  <2>3. QED
    BY <2>1, <2>2, UserLimitAssumption DEF Slots
<1>6. /\ fds' \in [Slots -> PollFd] /\ fds'[j] = fds[user_count]
      /\ \A k \in Slots \ {j} : fds'[k] = fds[k]
  BY <1>1, <1>4 DEF RoomInv, TypeOK
<1>7. /\ owner' \in [Fd -> Client \cup {NoClient}]
      /\ owner'[f] = NoClient /\ \A g \in Fd \ {f} : owner'[g] = owner[g]
  BY <1>2, <1>4 DEF RoomInv, TypeOK
<1>8. /\ peer' \in [Client -> {"none", "up", "fin", "rst", "gone"}]
      /\ err' \in [Client -> {"none", "ECONNRESET", "EPIPE"}]
      /\ unread' \in [Client -> Nat]
      /\ \A d \in Client \ {c} : peer'[d] = peer[d] /\ unread'[d] = unread[d]
      /\ peer'[c] = "gone"
  BY <1>2, <1>4 DEF RoomInv, TypeOK
<1>9. /\ client_write' \in [Fd -> Fd \cup {NULL}]
      /\ read_buf' \in [Fd -> Client \cup {NoClient}] /\ told' \in [Fd -> Client \cup {NoClient}]
  BY <1>2, <1>4 DEF RoomInv, TypeOK
<1>10. visited' \subseteq Fd \cup {lfd}
  BY VisitedSlot
<1>11. TypeOK'
  BY <1>1, <1>3, <1>6, <1>7, <1>8, <1>9, <1>10, UserLimitAssumption DEF RoomInv, TypeOK
<1>12. LoopInv'
  <2>1. 0 \in Slots \ {j}
    BY <1>4, UserLimitAssumption DEF Slots
  <2>2. /\ fds'[0] = fds[0] /\ \A k \in Slots \ {0} : fds'[k].fd # lfd
    BY <1>4, <1>6, <2>1 DEF RoomInv, LoopInv
  <2>3. j' \in 0 .. user_count'
    BY <1>1, <1>3
  <2>4. QED
    BY <1>1, <2>2, <2>3 DEF RoomInv, LoopInv
\* The slots that are left hold what they held, except that j holds the last.
<1>13. \A k \in Live' : \E m \in Live :
         /\ fds'[k] = fds[m] /\ m # j
         /\ m = IF k = j THEN user_count ELSE k
  BY <1>3, <1>5, <1>6
<1>14. \A m \in Live \ {j} : \E k \in Live' : fds'[k] = fds[m]
  BY <1>3, <1>5, <1>6
<1>15. \A m \in Live \ {j} : fds[m].fd \in Fd \ {f} /\ Open(fds[m].fd) /\ owner[fds[m].fd] # c
  BY <1>2, <1>3, <1>4, LiveSlot DEF RoomInv, SlotsAreOpenUsers, OwnersInv
<1>16. \A g \in Fd : Open(g)' <=> Open(g) /\ g # f
  BY <1>7 DEF Open
<1>17. SlotsAreOpenUsers'
  <2>1. \A k \in Live' : fds'[k].fd \in Fd /\ Open(fds[k].fd)'
    <3>1. \A k \in Live' : fds'[k].fd \in Fd /\ owner'[fds'[k].fd] # NoClient
      BY <1>7, <1>13, <1>15 DEF Open
    <3>2. QED
      BY <3>1 DEF Open
  <2>2. \A k, m \in Live' : fds'[k].fd = fds'[m].fd => k = m
    BY <1>5, <1>13 DEF RoomInv, SlotsAreOpenUsers
  <2>3. \A g \in Fd : Open(g)' => \E k \in Live' : fds'[k].fd = g
    BY <1>2, <1>14, <1>16 DEF RoomInv, SlotsAreOpenUsers
  <2>4. QED
    BY <2>1, <2>2, <2>3 DEF SlotsAreOpenUsers
<1>18. OwnersInv'
  <2>1. \A g, h \in Fd : Open(g)' /\ owner'[g] = owner'[h] => g = h
    BY <1>7, <1>16 DEF RoomInv, OwnersInv, Open
  <2>2. \A n \in DOMAIN backlog', g \in Fd : owner'[g] # backlog'[n]
    BY <1>1, <1>7, NoOne DEF RoomInv, OwnersInv, TypeOK
  <2>3. \A d \in Client : peer'[d] = "none" =>
          (\A g \in Fd : owner'[g] # d) /\ (\A n \in DOMAIN backlog' : backlog'[n] # d)
    BY <1>1, <1>7, <1>8, NoOne DEF RoomInv, OwnersInv
  <2>4. QED
    BY <1>1, <2>1, <2>2, <2>3 DEF RoomInv, OwnersInv, Open
<1>19. \A k \in Live' : /\ owner'[fds'[k].fd] = owner[fds'[k].fd]
                        /\ client_write'[fds'[k].fd] = client_write[fds'[k].fd]
                        /\ unread'[owner'[fds'[k].fd]] = unread[owner'[fds'[k].fd]]
                        /\ peer'[owner'[fds'[k].fd]] = peer[owner'[fds'[k].fd]]
  <2>1. \A m \in Live \ {j} : owner[fds[m].fd] \in Client \ {c}
    BY <1>15, LiveSlot
  <2>2. \A g \in Fd \ {f} : client_write'[g] = client_write[g]
    BY <1>2 DEF RoomInv, TypeOK
  <2>3. \A k \in Live' : fds'[k].fd \in Fd \ {f} /\ owner[fds'[k].fd] \in Client \ {c}
    BY <1>13, <1>15, <2>1
  <2>4. QED
    BY <1>7, <1>8, <2>2, <2>3
<1>20. QED
  BY <1>1, <1>3, <1>5, <1>6, <1>11, <1>12, <1>17, <1>18, <1>19 DEF RoomInv

LEMMA BroadcastStep ==
    ASSUME RoomInv, AtSlot, j > 0, unread[owner[fds[j].fd]] > 0, Broadcast, FallThrough
    PROVE  /\ RoomInv' /\ UNCHANGED <<j, user_count, owner, peer>> /\ pc' = "write"
           /\ \A k \in Slots : /\ fds'[k].fd = fds[k].fd /\ fds'[k].revents = fds[k].revents
                               /\ fds'[k].events \ {"OUT", "IN"} = fds[k].events \ {"OUT", "IN"}
           /\ fds'[j] = fds[j] /\ client_write'[fds[j].fd] = client_write[fds[j].fd]
           /\ \A k \in Live \ {j} : client_write'[fds[k].fd] = fds[j].fd
           /\ \A k \in Live \ {j} : unread'[owner[fds[k].fd]] = unread[owner[fds[k].fd]]
<1>1. PICK f, c : f = fds[j].fd /\ c = owner[f]
  OBVIOUS
<1>2. /\ j \in Live /\ j \in Slots \ {0} /\ f \in Fd /\ c \in Client
      /\ user_count \in 0 .. UserLimit /\ j \in 0 .. user_count /\ Live \subseteq Slots
  BY <1>1, VisitedSlot, LiveSlot
<1>3. /\ fds' = [k \in Slots |->
                   IF k \in Live /\ fds[k].fd \in Audience(f)
                   THEN [fds[k] EXCEPT !.events = (@ \ {"IN"}) \cup {"OUT"}]
                   ELSE fds[k]]
      /\ client_write' = [g \in Fd |-> IF g \in Audience(f) THEN f ELSE client_write[g]]
      /\ read_buf' = [read_buf EXCEPT ![f] = c]
      /\ told' = [g \in Fd |-> IF g \in Audience(f) THEN c ELSE told[g]]
      /\ unread' = [unread EXCEPT ![c] = @ - 1]
      /\ UNCHANGED <<j, user_count, owner, backlog, peer, err, moves>> /\ pc' = "write"
  BY <1>1 DEF Broadcast, FallThrough
<1>4. /\ Audience(f) \subseteq Fd \ {f}
      /\ \A k \in Live \ {j} : fds[k].fd \in Audience(f)
  BY <1>1, <1>2, LiveSlot DEF Audience, RoomInv, SlotsAreOpenUsers
<1>5. \A k \in Slots :
         /\ fds'[k] \in PollFd
         /\ fds'[k].fd = fds[k].fd /\ fds'[k].revents = fds[k].revents
         /\ fds'[k].events \ {"OUT", "IN"} = fds[k].events \ {"OUT", "IN"}
  <2> SUFFICES ASSUME NEW k \in Slots
               PROVE  /\ fds'[k] \in PollFd
                      /\ fds'[k].fd = fds[k].fd /\ fds'[k].revents = fds[k].revents
                      /\ fds'[k].events \ {"OUT", "IN"} = fds[k].events \ {"OUT", "IN"}
    OBVIOUS
  <2>1. fds[k] \in PollFd /\ fds[k].events \subseteq Events
    BY DEF RoomInv, TypeOK, PollFd
  <2>2. PICK E \in SUBSET Events : E = (fds[k].events \ {"IN"}) \cup {"OUT"}
    BY <2>1 DEF Events
  <2>3. fds'[k] = fds[k] \/ fds'[k] = [fds[k] EXCEPT !.events = E]
    BY <1>3, <2>2
  <2>4. PICK q : q = [fds[k] EXCEPT !.events = E]
    OBVIOUS
  <2>5. q \in PollFd /\ q.fd = fds[k].fd /\ q.events = E /\ q.revents = fds[k].revents
    BY <2>1, <2>4, WithEvents
  <2>6. E \ {"OUT", "IN"} = fds[k].events \ {"OUT", "IN"}
    BY <2>2
  <2>7. QED
    BY <2>1, <2>3, <2>4, <2>5, <2>6
<1>6. fds' \in [Slots -> PollFd]
  BY <1>3, <1>5
<1>7. fds'[j] = fds[j]
  BY <1>1, <1>2, <1>3, <1>4
<1>8. /\ client_write' \in [Fd -> Fd \cup {NULL}]
      /\ read_buf' \in [Fd -> Client \cup {NoClient}] /\ told' \in [Fd -> Client \cup {NoClient}]
      /\ unread' \in [Client -> Nat]
      /\ \A d \in Client \ {c} : unread'[d] = unread[d]
  BY <1>1, <1>2, <1>3 DEF RoomInv, TypeOK
<1>9. TypeOK'
  <2>1. visited' \subseteq Fd \cup {lfd}
    BY VisitedSlot
  <2>2. QED
    BY <1>2, <1>3, <1>6, <1>8, <2>1, UserLimitAssumption DEF RoomInv, TypeOK
<1>10. SlotsAreOpenUsers' /\ OwnersInv' /\ fds'[0].fd = lfd /\ \A k \in Slots \ {0} : fds'[k].fd # lfd
  BY <1>3, <1>5, SameRoom
<1>11. LoopInv'
  <2>1. 0 \in Slots
    BY UserLimitAssumption DEF Slots
  <2>2. QED
    BY <1>2, <1>3, <1>5, <1>10, <2>1 DEF RoomInv, LoopInv
<1>12. \A k \in Live \ {j} : owner[fds[k].fd] \in Client \ {c}
  BY <1>1, <1>2, LiveSlot DEF RoomInv, SlotsAreOpenUsers, OwnersInv
<1>13. client_write'[f] = client_write[f] /\ \A k \in Live \ {j} : client_write'[fds[k].fd] = f
  BY <1>2, <1>3, <1>4
<1>14. QED
  BY <1>1, <1>3, <1>5, <1>7, <1>8, <1>9, <1>10, <1>11, <1>12, <1>13 DEF RoomInv

\* recv() has found nothing: only the buffer is cleared.
ReadsNothing ==
    /\ AtSlot /\ j > 0 /\ FallThrough
    /\ ToRead(j) /\ ~ (unread[owner[fds[j].fd]] > 0)
    /\ read_buf' = [read_buf EXCEPT ![fds[j].fd] = NoClient]
    /\ UNCHANGED <<fds, user_count, client_write, told, sockVars>>

LEMMA HandleInCases ==
    ASSUME HandleIn
    PROVE  /\ AtSlot /\ j > 0
           /\ \/ unread[owner[fds[j].fd]] > 0 /\ Broadcast /\ FallThrough
              \/ RemoveUser
              \/ ReadsNothing
BY DEF HandleIn, ReadsNothing, ToRead, Reported

LEMMA ReadsNothingStep ==
    ASSUME RoomInv, ReadsNothing
    PROVE  RoomInv' /\ UNCHANGED <<j, fds, user_count, client_write, told, sockVars>> /\ pc' = "write"
<1>1. UNCHANGED <<j, fds, user_count, client_write, told, sockVars>> /\ pc' = "write"
  BY DEF ReadsNothing, FallThrough
<1>2. SlotsAreOpenUsers' /\ OwnersInv'
  BY <1>1, SameRoom DEF sockVars
<1>3. j \in 0 .. user_count /\ visited' \subseteq Fd \cup {lfd}
  BY VisitedSlot DEF ReadsNothing
<1>4. read_buf' \in [Fd -> Client \cup {NoClient}] /\ told' \in [Fd -> Client \cup {NoClient}]
  BY DEF ReadsNothing, RoomInv, TypeOK
<1>5. TypeOK'
  BY <1>1, <1>3, <1>4 DEF RoomInv, TypeOK, sockVars
<1>6. LoopInv'
  BY <1>1, <1>3 DEF RoomInv, LoopInv, sockVars
<1>7. QED
  BY <1>1, <1>2, <1>5, <1>6 DEF RoomInv

LEMMA WriteStep ==
    ASSUME RoomInv, Write
    PROVE  /\ RoomInv' /\ UNCHANGED <<visited, user_count, read_buf, sockVars>>
           /\ pc = "write" /\ pc' = "visit" /\ j' = j + 1
           /\ client_write' = [client_write EXCEPT ![fds[j].fd] = NULL]
           /\ told' = [told EXCEPT ![fds[j].fd] = NoClient]
           /\ \A k \in Slots : /\ fds'[k].fd = fds[k].fd /\ fds'[k].revents = fds[k].revents
                               /\ "RDHUP" \in fds[k].events => "RDHUP" \in fds'[k].events
           /\ "OUT" \notin fds'[j].events
           /\ \A k \in Slots \ {j} : fds'[k] = fds[k]
<1>1. /\ pc = "write" /\ "OUT" \in fds[j].revents
      /\ client_write' = [client_write EXCEPT ![fds[j].fd] = NULL]
      /\ told' = [told EXCEPT ![fds[j].fd] = NoClient]
      /\ fds' = [fds EXCEPT ![j].events = Written(@)]
      /\ pc' = "visit" /\ j' = j + 1
      /\ UNCHANGED <<visited, user_count, read_buf, sockVars>>
  BY DEF Write, Writing, Reported, Continue
<1>2. j \in 0 .. user_count /\ j \in Slots /\ user_count \in 0 .. UserLimit
  BY <1>1, UserLimitAssumption DEF RoomInv, LoopInv, TypeOK, Slots
<1>3. fds[j] \in PollFd /\ fds[j].events \subseteq Events
  BY <1>2 DEF RoomInv, TypeOK, PollFd
<1>4. PICK E \in SUBSET Events : E = (fds[j].events \ {"OUT"}) \cup {"IN"}
  BY <1>3 DEF Events
<1>5. fds' = [fds EXCEPT ![j] = [fds[j] EXCEPT !.events = E]]
  BY <1>1, <1>4 DEF Written
<1>6. PICK q : q = [fds[j] EXCEPT !.events = E]
  OBVIOUS
<1>7. q \in PollFd /\ q.fd = fds[j].fd /\ q.events = E /\ q.revents = fds[j].revents
  BY <1>3, <1>6, WithEvents
<1>8. /\ fds' \in [Slots -> PollFd] /\ fds'[j] = q
      /\ \A k \in Slots \ {j} : fds'[k] = fds[k]
  BY <1>2, <1>5, <1>6, <1>7 DEF RoomInv, TypeOK
<1>9. \A k \in Slots : /\ fds'[k].fd = fds[k].fd /\ fds'[k].revents = fds[k].revents
                       /\ "RDHUP" \in fds[k].events => "RDHUP" \in fds'[k].events
  BY <1>4, <1>7, <1>8
<1>10. client_write' \in [Fd -> Fd \cup {NULL}] /\ told' \in [Fd -> Client \cup {NoClient}]
  BY <1>1 DEF RoomInv, TypeOK
<1>11. TypeOK'
  BY <1>1, <1>2, <1>8, <1>10, UserLimitAssumption DEF RoomInv, TypeOK, sockVars
<1>12. SlotsAreOpenUsers' /\ OwnersInv' /\ fds'[0].fd = lfd /\ \A k \in Slots \ {0} : fds'[k].fd # lfd
  BY <1>1, <1>9, SameRoom DEF sockVars
<1>13. LoopInv'
  <2>1. 0 \in Slots
    BY UserLimitAssumption DEF Slots
  <2>2. QED
    BY <1>1, <1>2, <1>9, <1>12, <2>1 DEF RoomInv, LoopInv
<1>14. "OUT" \notin fds'[j].events
  BY <1>4, <1>7, <1>8
<1>15. QED
  BY <1>1, <1>8, <1>9, <1>11, <1>12, <1>13, <1>14 DEF RoomInv

\* The clients: they change nothing that is the server's.
ClientStep == \E c \in Client : Connect(c) \/ Send(c) \/ Leave(c) \/ Reset(c)

LEMMA ClientSteps ==
    ASSUME RoomInv, ClientStep
    PROVE  /\ RoomInv' /\ UNCHANGED ServerOnly
           /\ \A c \in Client : /\ unread[c] > 0 => unread'[c] > 0
                                /\ peer[c] = "rst" => peer'[c] = "rst"
<1>1. UNCHANGED ServerOnly
  BY DEF ClientStep, Connect, Send, Leave, Reset
<1>2. PICK c \in Client : Connect(c) \/ Send(c) \/ Leave(c) \/ Reset(c)
  BY DEF ClientStep
<1>3. CASE Connect(c)
  <2>1. /\ peer[c] = "none" /\ peer' = [peer EXCEPT ![c] = "up"]
        /\ backlog' = Append(backlog, c)
        /\ UNCHANGED <<err, unread, moves>>
    BY <1>3 DEF Connect
  <2>2. /\ peer' \in [Client -> {"none", "up", "fin", "rst", "gone"}]
        /\ \A d \in Client \ {c} : peer'[d] = peer[d]
        /\ peer'[c] = "up"
    BY <2>1 DEF RoomInv, TypeOK
  <2>3. backlog \in Seq(Client) /\ Len(backlog) \in Nat
    BY DEF RoomInv, TypeOK
  <2>4. /\ backlog' \in Seq(Client) /\ backlog' # <<>>
        /\ \A n \in DOMAIN backlog' :
              \/ n \in DOMAIN backlog /\ backlog'[n] = backlog[n]
              \/ n = Len(backlog) + 1 /\ backlog'[n] = c
    BY <2>1, <2>3
  <2>5. TypeOK'
    BY <1>1, <2>1, <2>2, <2>4 DEF RoomInv, TypeOK, ServerOnly, loopVars, userVars
  <2>6. LoopInv' /\ SlotsAreOpenUsers'
    BY <1>1, <2>4 DEF RoomInv, LoopInv, SlotsAreOpenUsers, Live, Open, ServerOnly, loopVars, userVars
  <2>7. /\ \A f \in Fd : owner[f] # c
        /\ \A n \in DOMAIN backlog : backlog[n] # c
    BY <2>1 DEF RoomInv, OwnersInv
  <2>8. OwnersInv'
    <3>1. \A f, g \in Fd : Open(f)' /\ owner'[f] = owner'[g] => f = g
      BY <1>1 DEF RoomInv, OwnersInv, Open, ServerOnly
    <3>2. \A n \in DOMAIN backlog', f \in Fd : owner'[f] # backlog'[n]
      BY <1>1, <2>4, <2>7 DEF RoomInv, OwnersInv, ServerOnly
    <3>3. \A n, m \in DOMAIN backlog' : backlog'[n] = backlog'[m] => n = m
      BY <2>4, <2>7 DEF RoomInv, OwnersInv
    <3>4. \A d \in Client : peer'[d] = "none" => d # c /\ peer[d] = "none"
      BY <2>2
    <3>5. \A d \in Client : peer'[d] = "none" =>
            (\A f \in Fd : owner'[f] # d) /\ (\A n \in DOMAIN backlog' : backlog'[n] # d)
      BY <1>1, <2>4, <3>4 DEF RoomInv, OwnersInv, ServerOnly
    <3>6. QED
      BY <3>1, <3>2, <3>3, <3>5 DEF OwnersInv, Open
  <2>9. QED
    BY <1>1, <2>1, <2>2, <2>5, <2>6, <2>8 DEF RoomInv
<1>4. CASE Send(c) \/ Leave(c) \/ Reset(c)
  <2>1. /\ UNCHANGED backlog
        /\ peer' \in [Client -> {"none", "up", "fin", "rst", "gone"}]
        /\ \A d \in Client : /\ peer'[d] = "none" => peer[d] = "none"
                             /\ peer[d] = "rst" => peer'[d] = "rst"
    BY <1>4 DEF Send, Leave, Reset, RoomInv, TypeOK
  <2>2. /\ err' \in [Client -> {"none", "ECONNRESET", "EPIPE"}]
        /\ unread' \in [Client -> Nat] /\ moves' \in Nat
        /\ \A d \in Client : unread[d] > 0 => unread'[d] > 0
    <3>1. unread \in [Client -> Nat] /\ moves \in Nat /\ err \in [Client -> {"none", "ECONNRESET", "EPIPE"}]
      BY DEF RoomInv, TypeOK
    <3>2. CASE Send(c)
      BY <3>1, <3>2 DEF Send, Moves
    <3>3. CASE Leave(c)
      BY <3>1, <3>3 DEF Leave, Moves
    <3>4. CASE Reset(c)
      <4>1. UNCHANGED unread /\ moves' \in Nat
        BY <3>1, <3>4 DEF Reset, Moves
      <4>2. err' \in [Client -> {"none", "ECONNRESET", "EPIPE"}]
        BY <3>1, <3>4 DEF Reset
      <4>3. QED
        BY <3>1, <4>1, <4>2
    <3>5. QED
      BY <1>4, <3>2, <3>3, <3>4
  <2>3. TypeOK'
    BY <1>1, <2>1, <2>2 DEF RoomInv, TypeOK, ServerOnly, loopVars, userVars
  <2>4. SlotsAreOpenUsers' /\ OwnersInv'
    BY <1>1, <2>1, SameRoom DEF ServerOnly, userVars
  <2>5. LoopInv'
    BY <1>1, <2>1 DEF RoomInv, LoopInv, ServerOnly, loopVars, userVars
  <2>6. QED
    BY <1>1, <2>1, <2>2, <2>3, <2>4, <2>5 DEF RoomInv
<1>5. QED
  BY <1>2, <1>3, <1>4

\* The steps of the server besides poll(), the end of a round and the removals.
Removes == AtSlot /\ j > 0 /\ RemoveUser
Reads == AtSlot /\ j > 0 /\ unread[owner[fds[j].fd]] > 0 /\ Broadcast /\ FallThrough
Onward == Accept \/ Reject \/ Aside \/ Reads \/ ReadsNothing \/ Write

LEMMA StepCases ==
    ASSUME [Next]_vars
    PROVE  Poll \/ EndRound \/ Removes \/ Onward \/ ClientStep \/ UNCHANGED vars
<1>1. HandleRdhup => Removes
  BY DEF HandleRdhup, Removes
<1>2. HandleIn => Removes \/ Reads \/ ReadsNothing
  BY HandleInCases DEF Removes, Reads
<1>3. QED
  BY <1>1, <1>2 DEF Next, ServerStep, ClientStep, Onward, Aside

LEMMA RoomStep ==
    ASSUME RoomInv, [Next]_vars
    PROVE  RoomInv'
<1>1. CASE Poll \/ EndRound
  BY <1>1, PollStep, EndRoundStep
<1>2. CASE Removes
  BY <1>2, RemoveStep DEF Removes
<1>3. CASE Onward
  BY <1>3, AcceptStep, RejectStep, AsideStep, BroadcastStep, ReadsNothingStep, WriteStep
  DEF Onward, Reads
<1>4. CASE ClientStep
  BY <1>4, ClientSteps
<1>5. CASE UNCHANGED vars
  BY <1>5
  DEF vars, loopVars, userVars, sockVars, RoomInv, TypeOK, LoopInv, SlotsAreOpenUsers, OwnersInv,
      Live, Open
<1>6. QED
  BY <1>1, <1>2, <1>3, <1>4, <1>5, StepCases

LEMMA RoomCorrect == Spec => []RoomInv
BY RoomInit, RoomStep, PTL DEF Spec

\* TypeOK holds of every server and whatever its clients do; above all, the loop
\* of line 91 stays within the slots, and user_count within USER_LIMIT.
THEOREM TypeCorrect == Spec => []TypeOK
<1>1. RoomInv => TypeOK
  BY DEF RoomInv
<1>2. QED
  BY <1>1, RoomCorrect, PTL

\* However clients come and go in the middle of a round, the slots up to
\* user_count hold exactly the open descriptors, each once.
THEOREM SlotsCorrect == Spec => []SlotsAreOpenUsers
<1>1. RoomInv => SlotsAreOpenUsers
  BY DEF RoomInv
<1>2. QED
  BY <1>1, RoomCorrect, PTL

-----------------------------------------------------------------------------
(* Who has something to be written.                                        *)

\* A step of Onward handles the slot it is at and leaves the ones before and
\* after it as they were: what was done stays done, what is ahead was ahead.
GoesOn ==
    /\ pc \in {"visit", "write"} /\ visited \subseteq visited'
    /\ \A k \in Live :
          /\ Ahead(k)' => Ahead(k)
          /\ ~ Ahead(k)' /\ pc' # "dead" => ~ Ahead(k) \/ fds[k].fd \in visited'

LEMMA OnwardGoesOn ==
    ASSUME RoomInv, Onward
    PROVE  GoesOn
<1>1. \/ AtSlot /\ (Continue \/ FallThrough \/ pc' = "dead")
      \/ pc = "write" /\ (Continue \/ pc' = "dead") /\ visited' = visited
  BY DEF Onward, Accept, Reject, Aside, AcceptFails, HandleError, NothingToRead, NothingToWrite,
         WriteNull, WriteKilled, WriteFails, Reads, ReadsNothing, Write, Writing
<1>2. j \in Int /\ \A k \in Live : k \in Int
  BY DEF RoomInv, TypeOK, Live
<1>3. CASE AtSlot /\ (Continue \/ FallThrough \/ pc' = "dead")
  BY <1>2, <1>3 DEF AtSlot, Visiting, Continue, FallThrough, GoesOn, Ahead
<1>4. CASE pc = "write" /\ (Continue \/ pc' = "dead") /\ visited' = visited
  BY <1>2, <1>4 DEF Continue, GoesOn, Ahead
<1>5. QED
  BY <1>1, <1>3, <1>4

-----------------------------------------------------------------------------
(* What poll() has reported.                                               *)

\* At the poll() itself: a client that has left is reported as RDHUP, since no
\* step stops waiting for that, so IN alone means that there is data.
LEMMA ReportsPoll ==
    ASSUME RoomInv, ReportsInv, Poll
    PROVE  ReportsInv'
<1>1. PICK slow \in SUBSET {c \in Client : peer[c] # "none"} :
        fds' = [k \in Slots |-> [fds[k] EXCEPT !.revents = Revents(k, slow)]]
  BY DEF Poll
<1>2. /\ UNCHANGED <<userVars, sockVars>>
      /\ \A k \in Slots : fds'[k].fd = fds[k].fd /\ fds'[k].events = fds[k].events
  BY PollStep DEF Poll
<1>3. Live' = Live
  BY <1>2 DEF Live, userVars
<1>4. SUFFICES ASSUME NEW k \in Live
               PROVE  /\ "RDHUP" \in fds'[k].events
                      /\ ToRead(k)' => unread'[owner'[fds'[k].fd]] > 0
  BY <1>3 DEF ReportsInv
<1>5. /\ k \in Slots /\ fds[k] \in PollFd
      /\ fds[k].fd \in Fd /\ Open(fds[k].fd) /\ owner[fds[k].fd] \in Client
      /\ "RDHUP" \in fds[k].events
  BY LiveSlot DEF ReportsInv
<1>6. fds'[k].revents = Revents(k, slow)
  BY <1>1, <1>5, WithRevents, ReportTypes
<1>7. Revents(k, slow) = (Condition(owner[fds[k].fd], slow) \cap fds[k].events)
                             \cup (IF err[owner[fds[k].fd]] # "none" THEN {"ERR"} ELSE {})
  BY <1>5, FdNumbers DEF Revents
<1>8. "IN" \in Revents(k, slow) /\ "RDHUP" \notin Revents(k, slow)
        => unread[owner[fds[k].fd]] > 0
  BY <1>5, <1>7 DEF Condition
<1>9. QED
  BY <1>2, <1>5, <1>6, <1>8 DEF ToRead, sockVars

LEMMA ReportsStep ==
    ASSUME RoomInv, ReportsInv, [Next]_vars
    PROVE  ReportsInv'
<1>1. CASE Poll
  BY <1>1, ReportsPoll
<1>2. CASE EndRound
  <2>1. /\ pc' = "poll" /\ user_count' = user_count
        /\ \A k \in Slots : fds'[k].events = fds[k].events
    BY <1>2, EndRoundStep DEF EndRound, userVars
  <2>2. QED
    BY <2>1, LiveSlot DEF ReportsInv, Ahead, Live
<1>3. CASE Removes
  <2>1. /\ pc' = "write" /\ j' = j - 1 /\ j \in Live /\ user_count \in Live
        /\ Live' = Live \ {user_count}
        /\ fds'[j] = fds[user_count]
        /\ \A k \in Slots \ {j} : fds'[k] = fds[k]
        /\ \A k \in Live' :
              /\ owner'[fds'[k].fd] = owner[fds'[k].fd]
              /\ unread'[owner'[fds'[k].fd]] = unread[owner'[fds'[k].fd]]
    BY <1>3, RemoveStep DEF Removes
  <2>2. pc = "visit" /\ j \in Nat /\ user_count \in Nat /\ j <= user_count
    BY <1>3, VisitedSlot DEF Removes
  <2>3. \A k \in Live' : \E m \in Live : fds'[k] = fds[m] /\ (Ahead(k)' => Ahead(m))
    <3> SUFFICES ASSUME NEW k \in Live'
                 PROVE  \E m \in Live : fds'[k] = fds[m] /\ (Ahead(k)' => Ahead(m))
      OBVIOUS
    <3>1. k \in Live /\ k \in Int /\ k \in Slots
      BY <2>1, LiveSlot DEF Live
    <3>2. CASE k = j
      BY <2>1, <2>2, <3>2 DEF Ahead
    <3>3. CASE k # j
      BY <2>1, <2>2, <3>1, <3>3 DEF Ahead
    <3>4. QED
      BY <3>2, <3>3
  <2>4. QED
    BY <2>1, <2>3 DEF ReportsInv, ToRead
<1>4. CASE Onward
  <2>1. \A k \in Live : Ahead(k)' => Ahead(k)
    BY <1>4, OnwardGoesOn DEF GoesOn
  <2>2. CASE Accept
    <3>1. /\ UNCHANGED unread
          /\ fds'[user_count'].events = {"IN", "RDHUP", "ERR"} /\ fds'[user_count'].revents = {}
          /\ user_count' = user_count + 1
          /\ \A k \in Slots \ {user_count'} : fds'[k] = fds[k]
          /\ \A k \in Live : owner'[fds[k].fd] = owner[fds[k].fd]
      BY <2>2, AcceptStep DEF Accept
    <3>2. \A k \in Live' : k = user_count' \/ (k \in Live /\ fds'[k] = fds[k])
      <4>1. user_count \in Nat
        BY DEF RoomInv, TypeOK
      <4>2. \A k \in Live' : k = user_count' \/ (k \in Live /\ k # user_count')
        BY <3>1, <4>1 DEF Live
      <4>3. QED
        BY <3>1, <4>2, LiveSlot
    <3>3. QED
      BY <2>1, <3>1, <3>2 DEF ReportsInv, ToRead
  <2>3. CASE Reject
    BY <2>1, <2>3, RejectStep DEF ReportsInv, ToRead, Live, userVars
  <2>4. CASE Aside
    BY <2>1, <2>4, AsideStep DEF ReportsInv, ToRead, Live
  <2>5. CASE Reads
    <3>1. /\ UNCHANGED <<j, user_count, owner>> /\ pc' = "write"
          /\ \A k \in Slots : /\ fds'[k].fd = fds[k].fd /\ fds'[k].revents = fds[k].revents
                              /\ fds'[k].events \ {"OUT", "IN"} = fds[k].events \ {"OUT", "IN"}
          /\ \A k \in Live \ {j} : unread'[owner[fds[k].fd]] = unread[owner[fds[k].fd]]
      BY <2>5, BroadcastStep DEF Reads
    <3>2. \A k \in Live : "RDHUP" \in fds'[k].events
      BY <3>1, LiveSlot DEF ReportsInv
    <3>3. j \in Int /\ \A k \in Live : Ahead(k)' => k # j
      BY <3>1 DEF Ahead, RoomInv, TypeOK
    <3>4. QED
      BY <2>1, <3>1, <3>2, <3>3, LiveSlot DEF ReportsInv, ToRead, Live
  <2>6. CASE ReadsNothing
    BY <2>1, <2>6, ReadsNothingStep DEF ReportsInv, ToRead, Live, sockVars
  <2>7. CASE Write
    <3>1. /\ UNCHANGED <<user_count, owner, unread>>
          /\ \A k \in Slots : /\ fds'[k].fd = fds[k].fd /\ fds'[k].revents = fds[k].revents
                              /\ "RDHUP" \in fds[k].events => "RDHUP" \in fds'[k].events
      BY <2>7, WriteStep DEF sockVars
    <3>2. QED
      BY <2>1, <3>1, LiveSlot DEF ReportsInv, ToRead, Live
  <2>8. QED
    BY <1>4, <2>2, <2>3, <2>4, <2>5, <2>6, <2>7 DEF Onward
<1>5. CASE ClientStep
  <2>1. /\ UNCHANGED <<pc, j, fds, user_count, owner>>
        /\ \A c \in Client : unread[c] > 0 => unread'[c] > 0
    BY <1>5, ClientSteps DEF ServerOnly, userVars, loopVars
  <2>2. QED
    BY <2>1, LiveSlot DEF ReportsInv, Ahead, ToRead, Live
<1>6. CASE UNCHANGED vars
  BY <1>6 DEF vars, loopVars, userVars, sockVars, ReportsInv, Ahead, ToRead, Live
<1>7. QED
  BY <1>1, <1>2, <1>3, <1>4, <1>5, <1>6, StepCases

\* A POLLIN that is handled without an error or a departure still has its data,
\* though slots were moved and taken by new clients since it was reported.
THEOREM RecvCorrect == Spec => []RecvGetsData
<1>1. Init => ReportsInv
  <2> SUFFICES ASSUME Init PROVE ReportsInv
    OBVIOUS
  <2>1. Live = {}
    BY DEF Init, Live
  <2>2. QED
    BY <2>1 DEF ReportsInv
<1>2. RoomInv /\ ReportsInv /\ [Next]_vars => ReportsInv'
  BY ReportsStep
<1>3. RoomInv /\ ReportsInv => RecvGetsData
  <2> SUFFICES ASSUME RoomInv, ReportsInv, Visiting, j > 0, ToRead(j)
               PROVE  unread[owner[fds[j].fd]] > 0
    BY DEF RecvGetsData, Reported, ToRead
  <2>1. j \in Live /\ Ahead(j)
    BY DEF Visiting, RoomInv, TypeOK, Live, Ahead
  <2>2. QED
    BY <2>1 DEF ReportsInv
<1>4. QED
  BY <1>1, <1>2, <1>3, RoomCorrect, PTL DEF Spec

-----------------------------------------------------------------------------
(* What waiting clients will be written.                                   *)

\* A waiting client keeps what it was told of if its own entry does not change, and
\* the buffer that it points to keeps its owner and its content, or the owner leaves.
LEMMA ToldStays ==
    ASSUME NEW f \in Fd, ToldOf(f),
           client_write'[f] = client_write[f], told'[f] = told[f], owner'[f] = owner[f],
           peer[told[f]] = "gone" => peer'[told[f]] = "gone",
           \A g \in Fd : owner[g] = told[f] /\ read_buf[g] = told[f]
                            => \/ peer'[told[f]] = "gone"
                               \/ owner'[g] = told[f] /\ read_buf'[g] = told[f]
    PROVE  ToldOf(f)'
BY DEF ToldOf

LEMMA WaitingNext ==
    ASSUME \A k \in Live' : "OUT" \in fds'[k].events =>
              \A f : f = fds'[k].fd => ToldOf(f)' \/ peer'[owner'[f]] = "rst"
    PROVE  WaitingHasMessage'
BY DEF WaitingHasMessage, ToldOf

LEMMA ToldRemove ==
    ASSUME RoomInv, WaitingHasMessage, Removes
    PROVE  WaitingHasMessage'
<1>1. PICK f, last, c :
        /\ f = fds[j].fd /\ last = fds[user_count].fd /\ c = owner[f]
        /\ client_write' = [client_write EXCEPT ![f] = client_write[last]]
        /\ read_buf' = [read_buf EXCEPT ![f] = read_buf[last]]
        /\ told' = [told EXCEPT ![f] = NoClient]
        /\ owner' = [owner EXCEPT ![f] = NoClient]
        /\ peer' = [peer EXCEPT ![c] = "gone"]
  BY DEF Removes, RemoveUser, Overwritten
<1>2. /\ Live' = Live \ {user_count} /\ j \in Live /\ user_count \in Live
      /\ fds'[j] = fds[user_count]
      /\ \A k \in Slots \ {j} : fds'[k] = fds[k]
  BY RemoveStep DEF Removes
<1>3. f \in Fd /\ c \in Client
  BY <1>1, <1>2, LiveSlot
<1>4. SUFFICES ASSUME NEW k \in Live', "OUT" \in fds'[k].events, NEW h, h = fds'[k].fd
               PROVE  ToldOf(h)' \/ peer'[owner'[h]] = "rst"
  BY WaitingNext
<1>5. PICK m \in Live \ {j} : fds'[k] = fds[m]
  BY <1>2, LiveSlot
<1>6. h = fds[m].fd /\ h \in Fd \ {f} /\ owner[h] \in Client
  BY <1>1, <1>2, <1>4, <1>5, LiveSlot DEF RoomInv, SlotsAreOpenUsers
<1>7. c # owner[h]
  BY <1>1, <1>3, <1>6, NoOne DEF RoomInv, OwnersInv, Open
<1>8. /\ client_write'[h] = client_write[h] /\ told'[h] = told[h] /\ owner'[h] = owner[h]
      /\ \A d \in Client : peer'[d] = IF d = c THEN "gone" ELSE peer[d]
      /\ \A g \in Fd \ {f} : owner'[g] = owner[g] /\ read_buf'[g] = read_buf[g]
  BY <1>1, <1>3, <1>6 DEF RoomInv, TypeOK
<1>9. CASE peer[owner[h]] = "rst"
  BY <1>6, <1>7, <1>8, <1>9
<1>10. CASE ToldOf(h)
  <2>1. told[h] \in Client
    BY <1>10 DEF ToldOf
  <2>2. ASSUME NEW g \in Fd, owner[g] = told[h] /\ read_buf[g] = told[h]
        PROVE  peer'[told[h]] = "gone" \/ (owner'[g] = told[h] /\ read_buf'[g] = told[h])
    BY <1>1, <1>8, <2>1, <2>2
  <2>3. peer[told[h]] = "gone" => peer'[told[h]] = "gone"
    BY <1>8, <2>1
  <2>4. QED
    BY <1>6, <1>8, <1>10, <2>2, <2>3, ToldStays
<1>11. QED
  BY <1>4, <1>5, <1>6, <1>9, <1>10 DEF WaitingHasMessage

LEMMA ToldAccept ==
    ASSUME RoomInv, WaitingHasMessage, Accept
    PROVE  WaitingHasMessage'
<1>1. PICK f \in Fd : Fresh(f) /\ owner' = [owner EXCEPT ![f] = Head(backlog)]
  BY DEF Accept
<1>2. /\ UNCHANGED <<client_write, read_buf, told, peer>>
      /\ "OUT" \notin fds'[user_count'].events
      /\ user_count' = user_count + 1
      /\ \A k \in Slots \ {user_count'} : fds'[k] = fds[k]
  BY AcceptStep DEF Accept
<1>3. \A k \in Live' : k = user_count' \/ (k \in Live /\ fds'[k] = fds[k])
  <2>1. user_count \in Nat
    BY DEF RoomInv, TypeOK
  <2>2. \A k \in Live' : k = user_count' \/ (k \in Live /\ k # user_count')
    BY <1>2, <2>1 DEF Live
  <2>3. QED
    BY <1>2, <2>2, LiveSlot
<1>4. \A g \in Fd : owner[g] \in Client => owner'[g] = owner[g]
  BY <1>1, NoOne DEF Fresh, Open, RoomInv, TypeOK
<1>5. SUFFICES ASSUME NEW k \in Live', "OUT" \in fds'[k].events, NEW h, h = fds'[k].fd
               PROVE  ToldOf(h)' \/ peer'[owner'[h]] = "rst"
  BY WaitingNext
<1>6. k \in Live /\ fds'[k] = fds[k]
  BY <1>2, <1>3, <1>5
<1>7. h = fds[k].fd /\ h \in Fd /\ owner[h] \in Client
  BY <1>5, <1>6, LiveSlot
<1>8. CASE peer[owner[h]] = "rst"
  BY <1>2, <1>4, <1>7, <1>8
<1>9. CASE ToldOf(h)
  <2>1. told[h] \in Client
    BY <1>9 DEF ToldOf
  <2>2. QED
    BY <1>2, <1>4, <1>7, <1>9, <2>1, ToldStays
<1>10. QED
  BY <1>5, <1>6, <1>7, <1>8, <1>9 DEF WaitingHasMessage

\* A step that leaves the entries of the waiting alone.
LEMMA ToldQuiet ==
    ASSUME RoomInv, WaitingHasMessage,
           UNCHANGED <<user_count, read_buf, owner>>,
           \A k \in Live : fds'[k].fd = fds[k].fd,
           \A k \in Live : "OUT" \in fds'[k].events =>
              /\ "OUT" \in fds[k].events
              /\ \/ /\ client_write'[fds[k].fd] = client_write[fds[k].fd]
                    /\ told'[fds[k].fd] = told[fds[k].fd]
                 \/ peer[owner[fds[k].fd]] = "rst",
           \A c \in Client : peer[c] = "gone" => peer'[c] = "gone",
           \A k \in Live : peer[owner[fds[k].fd]] = "rst" => peer'[owner[fds[k].fd]] = "rst"
    PROVE  WaitingHasMessage'
<1>1. Live' = Live
  BY DEF Live
<1>2. SUFFICES ASSUME NEW k \in Live, "OUT" \in fds'[k].events, NEW h, h = fds[k].fd
               PROVE  ToldOf(h)' \/ peer'[owner'[h]] = "rst"
  BY <1>1, WaitingNext
<1>3. h \in Fd /\ owner[h] \in Client
  BY <1>2, LiveSlot
<1>4. CASE peer[owner[h]] = "rst"
  BY <1>2, <1>3, <1>4
<1>5. CASE peer[owner[h]] # "rst"
  <2>1. ToldOf(h) /\ told[h] \in Client
    BY <1>2, <1>5 DEF WaitingHasMessage, ToldOf
  <2>2. client_write'[h] = client_write[h] /\ told'[h] = told[h]
    BY <1>2, <1>5
  <2>3. QED
    BY <1>3, <2>1, <2>2, ToldStays
<1>6. QED
  BY <1>4, <1>5

LEMMA ToldReads ==
    ASSUME RoomInv, WaitingHasMessage, Reads
    PROVE  WaitingHasMessage'
<1>1. PICK f, c : f = fds[j].fd /\ c = owner[f]
  OBVIOUS
<1>2. /\ j \in Live /\ f \in Fd /\ c \in Client
  BY <1>1, VisitedSlot, LiveSlot DEF Reads
<1>3. /\ client_write' = [g \in Fd |-> IF g \in Audience(f) THEN f ELSE client_write[g]]
      /\ read_buf' = [read_buf EXCEPT ![f] = c]
      /\ told' = [g \in Fd |-> IF g \in Audience(f) THEN c ELSE told[g]]
  BY <1>1 DEF Reads, Broadcast
<1>4. /\ UNCHANGED <<user_count, owner, peer>> /\ Live' = Live
      /\ \A k \in Slots : fds'[k].fd = fds[k].fd
      /\ fds'[j] = fds[j]
  BY BroadcastStep DEF Reads, Live
<1>5. read_buf'[f] = c /\ \A g \in Fd \ {f} : read_buf'[g] = read_buf[g]
  BY <1>2, <1>3 DEF RoomInv, TypeOK
<1>6. SUFFICES ASSUME NEW k \in Live, "OUT" \in fds'[k].events, NEW h, h = fds[k].fd
               PROVE  ToldOf(h)' \/ peer'[owner'[h]] = "rst"
  BY <1>4, LiveSlot, WaitingNext
<1>7. h \in Fd /\ owner[h] \in Client
  BY <1>6, LiveSlot
<1>8. CASE k # j
  <2>1. h \in Fd \ {f}
    BY <1>1, <1>2, <1>6, <1>7, <1>8 DEF RoomInv, SlotsAreOpenUsers
  <2>2. h \in Audience(f)
    BY <1>6, <2>1 DEF Audience
  <2>3. client_write'[h] = f /\ told'[h] = c
    BY <1>3, <1>7, <2>2
  <2>4. c # owner[h]
    BY <1>1, <1>2, <2>1, NoOne DEF RoomInv, OwnersInv, Open
  <2>5. owner'[f] = c /\ owner'[h] = owner[h]
    BY <1>1, <1>4
  <2>6. QED
    BY <1>2, <1>5, <2>1, <2>3, <2>4, <2>5 DEF ToldOf
<1>9. CASE k = j
  <2>1. h = f /\ f \notin Audience(f)
    BY <1>1, <1>6, <1>9 DEF Audience
  <2>2. client_write'[h] = client_write[h] /\ told'[h] = told[h] /\ owner'[h] = owner[h]
    BY <1>2, <1>3, <1>4, <2>1
  <2>3. CASE peer[c] = "rst"
    BY <1>1, <1>4, <2>1, <2>3
  <2>4. CASE ToldOf(h)
    <3>1. told[h] # c
      BY <1>1, <2>1, <2>4 DEF ToldOf
    <3>2. \A g \in Fd : owner[g] = told[h] /\ read_buf[g] = told[h]
                           => owner'[g] = told[h] /\ read_buf'[g] = told[h]
      BY <1>1, <1>4, <1>5, <3>1
    <3>3. QED
      BY <1>4, <1>7, <2>2, <2>4, <3>2, ToldStays
  <2>5. "OUT" \in fds[k].events
    BY <1>4, <1>6, <1>9
  <2>6. QED
    BY <1>1, <1>6, <2>1, <2>3, <2>4, <2>5 DEF WaitingHasMessage
<1>10. QED
  BY <1>8, <1>9

LEMMA WaitingStep ==
    ASSUME RoomInv, ReportsInv, WaitingHasMessage, [Next]_vars
    PROVE  WaitingHasMessage'
<1>1. CASE Poll \/ EndRound
  <2>1. /\ UNCHANGED <<user_count, client_write, told, read_buf, owner, peer>>
        /\ \A k \in Slots : fds'[k].fd = fds[k].fd /\ fds'[k].events = fds[k].events
    BY <1>1, PollStep, EndRoundStep DEF Poll, EndRound, userVars, sockVars
  <2>2. QED
    BY <2>1, LiveSlot, ToldQuiet
<1>2. CASE Reject
  <2>1. /\ UNCHANGED <<fds, user_count, client_write, told, read_buf, owner>>
        /\ \A k \in Live : peer'[owner[fds[k].fd]] = peer[owner[fds[k].fd]]
    BY <1>2, RejectStep DEF userVars
  <2>2. \A c \in Client : peer[c] = "gone" => peer'[c] = "gone"
    BY <1>2 DEF Reject, RoomInv, TypeOK
  <2>3. QED
    BY <2>1, <2>2, ToldQuiet
<1>3. CASE Aside
  <2>1. UNCHANGED <<fds, user_count, owner, peer>>
    BY <1>3, AsideStep
  <2>2. /\ UNCHANGED read_buf
        /\ \/ UNCHANGED <<client_write, told>>
           \/ /\ IsReset
              /\ client_write' = [client_write EXCEPT ![fds[j].fd] = NULL]
              /\ told' = [told EXCEPT ![fds[j].fd] = NoClient]
    BY <1>3 DEF Aside, AcceptFails, HandleError, NothingToRead, NothingToWrite, WriteNull,
                WriteKilled, WriteFails, userVars
  <2>3. \A k \in Live : \/ /\ client_write'[fds[k].fd] = client_write[fds[k].fd]
                           /\ told'[fds[k].fd] = told[fds[k].fd]
                        \/ peer[owner[fds[k].fd]] = "rst"
    BY <2>2, LiveSlot DEF IsReset, RoomInv, TypeOK
  <2>4. QED
    BY <2>1, <2>2, <2>3, ToldQuiet
<1>4. CASE ReadsNothing
  <2>1. j \in Live /\ Ahead(j) /\ ToRead(j)
    BY <1>4, VisitedSlot DEF ReadsNothing, Ahead, RoomInv, TypeOK
  <2>2. QED
    BY <1>4, <2>1 DEF ReadsNothing, ReportsInv
<1>5. CASE Write
  <2>1. /\ UNCHANGED <<user_count, read_buf, owner, peer>> /\ pc = "write"
        /\ client_write' = [client_write EXCEPT ![fds[j].fd] = NULL]
        /\ told' = [told EXCEPT ![fds[j].fd] = NoClient]
        /\ "OUT" \notin fds'[j].events
        /\ \A k \in Slots : fds'[k].fd = fds[k].fd
        /\ \A k \in Slots \ {j} : fds'[k] = fds[k]
    BY <1>5, WriteStep DEF sockVars
  <2>2. \A k \in Live \ {j} : fds[k].fd \in Fd \ {fds[j].fd}
    <3>1. j \in 0 .. user_count
      BY <2>1 DEF RoomInv, LoopInv
    <3>2. CASE j = 0
      BY <3>2, LiveSlot, FdNumbers DEF RoomInv, LoopInv
    <3>3. CASE j # 0
      <4>1. j \in Live
        BY <3>1, <3>3 DEF Live, RoomInv, TypeOK
      <4>2. QED
        BY <4>1, LiveSlot DEF RoomInv, SlotsAreOpenUsers
    <3>4. QED
      BY <3>2, <3>3
  <2>3. \A k \in Live \ {j} : /\ fds'[k] = fds[k]
                              /\ client_write'[fds[k].fd] = client_write[fds[k].fd]
                              /\ told'[fds[k].fd] = told[fds[k].fd]
    BY <2>1, <2>2, LiveSlot DEF RoomInv, TypeOK
  <2>4. \A k \in Live : fds'[k].fd = fds[k].fd
    BY <2>1, LiveSlot
  <2>5. QED
    BY <2>1, <2>3, <2>4, ToldQuiet
<1>6. CASE ClientStep
  <2>1. /\ UNCHANGED <<fds, user_count, client_write, told, read_buf, owner>>
        /\ \A c \in Client : peer[c] = "rst" => peer'[c] = "rst"
    BY <1>6, ClientSteps DEF ServerOnly, userVars
  <2>2. \A c \in Client : peer[c] = "gone" => peer'[c] = "gone"
    BY <1>6 DEF ClientStep, Connect, Send, Leave, Reset, RoomInv, TypeOK
  <2>3. QED
    BY <2>1, <2>2, LiveSlot, ToldQuiet
<1>7. CASE UNCHANGED vars
  BY <1>7 DEF vars, userVars, sockVars, WaitingHasMessage, ToldOf, Live
<1>8. QED
  BY <1>1, <1>2, <1>3, <1>4, <1>5, <1>6, <1>7, ToldRemove, ToldAccept, ToldReads, StepCases
  DEF Onward

\* What a waiting client will be written is a message of the user that it was told of,
\* from a buffer that nobody has overwritten since, unless that user has left (line 143)
\* or the client itself was reset: strlen() in line 190 meets no null pointer before.
THEOREM WaitingCorrect == Spec => []WaitingHasMessage
<1>1. Init => ReportsInv /\ WaitingHasMessage
  <2> SUFFICES ASSUME Init PROVE ReportsInv /\ WaitingHasMessage
    OBVIOUS
  <2>1. Live = {}
    BY DEF Init, Live
  <2>2. QED
    BY <2>1 DEF ReportsInv, WaitingHasMessage
<1>2. RoomInv /\ ReportsInv /\ WaitingHasMessage /\ [Next]_vars
        => ReportsInv' /\ WaitingHasMessage'
  BY ReportsStep, WaitingStep
<1>3. QED
  BY <1>1, <1>2, RoomCorrect, PTL DEF Spec

-----------------------------------------------------------------------------
(* Whom the loop has visited.                                              *)

LEMMA VisitStep ==
    ASSUME RoomInv, VisitInv, [Next]_vars
    PROVE  VisitInv'
<1>1. CASE Poll
  <2>1. pc' = "visit" /\ j' = 0
    BY <1>1 DEF Poll
  <2>2. \A k \in Live' : Ahead(k)'
    BY <2>1 DEF Ahead, Live
  <2>3. QED
    BY <2>2 DEF VisitInv
<1>2. CASE EndRound
  BY <1>2 DEF EndRound, VisitInv
<1>3. CASE Removes
  <2>1. /\ pc' = "write" /\ j' = j - 1 /\ j \in Live
        /\ Live' = Live \ {user_count}
        /\ \A k \in Slots \ {j} : fds'[k] = fds[k]
    BY <1>3, RemoveStep DEF Removes
  <2>2. pc = "visit" /\ j \in Nat /\ visited \subseteq visited'
    BY <1>3, VisitedSlot DEF Removes, AtSlot
  <2>3. \A k \in Live' : ~ Ahead(k)' => k \in Live /\ ~ Ahead(k) /\ fds'[k] = fds[k]
    <3> SUFFICES ASSUME NEW k \in Live', ~ Ahead(k)'
                 PROVE  k \in Live /\ ~ Ahead(k) /\ fds'[k] = fds[k]
      OBVIOUS
    <3>1. k \in Live /\ k \in Int /\ k \in Slots
      BY <2>1, LiveSlot DEF Live
    <3>2. k < j
      BY <2>1, <2>2, <3>1 DEF Ahead
    <3>3. QED
      BY <2>1, <2>2, <3>1, <3>2 DEF Ahead
  <2>4. QED
    BY <2>2, <2>3 DEF VisitInv
<1>4. CASE Onward
  <2>1. /\ pc \in {"visit", "write"} /\ visited \subseteq visited'
        /\ \A k \in Live : ~ Ahead(k)' /\ pc' # "dead" => ~ Ahead(k) \/ fds[k].fd \in visited'
    BY <1>4, OnwardGoesOn DEF GoesOn
  <2>2. \A k \in Live' : \/ fds'[k].revents = {}
                         \/ k \in Live /\ fds'[k].fd = fds[k].fd /\ fds'[k].revents = fds[k].revents
    <3>1. CASE Accept
      <4>1. /\ fds'[user_count'].revents = {} /\ user_count' = user_count + 1
            /\ \A k \in Slots \ {user_count'} : fds'[k] = fds[k]
        BY <3>1, AcceptStep
      <4>2. user_count \in Nat
        BY DEF RoomInv, TypeOK
      <4>3. \A k \in Live' : k = user_count' \/ (k \in Live /\ k # user_count')
        BY <4>1, <4>2 DEF Live
      <4>4. QED
        BY <4>1, <4>3, LiveSlot
    <3>2. CASE Reject \/ Aside \/ ReadsNothing
      BY <3>2, RejectStep, AsideStep, ReadsNothingStep DEF Live, userVars
    <3>3. CASE Reads \/ Write
      <4>1. /\ user_count' = user_count
            /\ \A k \in Slots : fds'[k].fd = fds[k].fd /\ fds'[k].revents = fds[k].revents
        BY <3>3, BroadcastStep, WriteStep DEF Reads
      <4>2. QED
        BY <4>1, LiveSlot DEF Live
    <3>4. QED
      BY <1>4, <3>1, <3>2, <3>3 DEF Onward
  <2>3. QED
    BY <2>1, <2>2 DEF VisitInv
<1>5. CASE ClientStep
  <2>1. UNCHANGED <<pc, j, visited, fds, user_count>>
    BY <1>5, ClientSteps DEF ServerOnly, userVars, loopVars
  <2>2. QED
    BY <2>1 DEF VisitInv, Ahead, Live
<1>6. CASE UNCHANGED vars
  BY <1>6 DEF vars, loopVars, userVars, VisitInv, Ahead, Live
<1>7. QED
  BY <1>1, <1>2, <1>3, <1>4, <1>5, <1>6, StepCases

\* Every client for which poll() reported something is visited in that round,
\* also the one whose slot is moved while the loop runs.
THEOREM VisitCorrect == Spec => []RoundVisitsAll
<1>1. Init => VisitInv
  <2> SUFFICES ASSUME Init PROVE VisitInv
    OBVIOUS
  <2>1. Live = {}
    BY DEF Init, Live
  <2>2. QED
    BY <2>1 DEF VisitInv
<1>2. RoomInv /\ VisitInv /\ [Next]_vars => VisitInv'
  BY VisitStep
<1>3. RoomInv /\ VisitInv => RoundVisitsAll
  <2> SUFFICES ASSUME RoomInv, VisitInv, pc = "visit", j > user_count, NEW k \in Live
               PROVE  fds[k].revents # {} => fds[k].fd \in visited
    BY DEF RoundVisitsAll
  <2>1. ~ Ahead(k)
    BY DEF RoomInv, TypeOK, Live, Ahead
  <2>2. QED
    BY <2>1 DEF VisitInv
<1>4. QED
  BY <1>1, <1>2, <1>3, RoomCorrect, PTL DEF Spec

=============================================================================
