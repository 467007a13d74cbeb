--------------------------- MODULE ShmChatServerProofs ---------------------------
(***************************************************************************)
(* Theorems about ShmChatServer, for any number of places, clients and     *)
(* messages and for pipes of any size.                                     *)
(***************************************************************************)
EXTENDS ShmChatServer, SequenceTheorems, TLAPS

Forked(c) == cpc[c] # "none"

\* What a batch still holds is there, and where the parent is in it.
ControlInv ==
    /\ "lfd" \in reported => backlog # <<>>
    /\ "sig" \in reported => sigpipe # <<>>
    /\ ppc = "signals" <=> signals # <<>>
    /\ ppc = "relay" => from \in Client /\ note \in Note /\ note.msg[1] = from
    /\ ppc = "stopped" => stop_server

\* The table and the children name each other: no entry is ever removed.
TableInv ==
    /\ \A c \in Client : Forked(c) =>
          /\ sub_process[c] = FirstFree
          /\ idx[c] < user_count /\ user[idx[c]] = c
    /\ \A k \in 0 .. user_count - 1 : user[k] \in Client /\ Forked(user[k]) /\ idx[user[k]] = k

\* A client waits in the backlog once, between connecting and the fork.
BacklogInv ==
    /\ \A n \in DOMAIN backlog : ~ Forked(backlog[n]) /\ peer[backlog[n]] # "none"
    /\ \A m, n \in DOMAIN backlog : backlog[m] = backlog[n] => m = n
    /\ \A c \in Client : peer[c] = "none" => ~ Forked(c)

\* A part of the memory holds messages of its own child, and its client's next
\* messages are later ones.
MemoryInv ==
    /\ \A k \in Index : shm[k] # Empty => k < user_count /\ shm[k][1] = user[k]
    /\ \A c \in Client : cpc[c] = "notify" => shm[idx[c]] # Empty
    /\ \A c \in Client : \A n \in DOMAIN unread[c] :
          /\ unread[c][n][1] = c /\ unread[c][n][2] <= sent
          /\ \A m \in 1 .. n - 1 : unread[c][m][2] < unread[c][n][2]
          /\ Forked(c) /\ shm[idx[c]] # Empty => shm[idx[c]][2] < unread[c][n][2]
    /\ \A k \in Index : shm[k] # Empty => shm[k][2] <= sent

\* A notification stands for a message of the child whose index it bears, which
\* is in the memory, cleared or overwritten, and is older than those unread.
GoodNote ==
    {nt \in Note :
        /\ Forked(nt.msg[1]) /\ nt.idx = idx[nt.msg[1]]
        /\ Current(nt)
        /\ nt.msg[2] <= sent
        /\ \A n \in DOMAIN unread[nt.msg[1]] : nt.msg[2] < unread[nt.msg[1]][n][2]}

NotesInv ==
    /\ \A c \in Client : \A n \in DOMAIN toParent[c] :
          toParent[c][n] \in GoodNote /\ toParent[c][n].msg[1] = c
    /\ \A c \in Client : \A n \in DOMAIN toChild[c] :
          toChild[c][n] \in GoodNote /\ toChild[c][n].msg[1] # c
    /\ ppc = "relay" => note \in GoodNote
    /\ \A c \in Client : ~ Forked(c) => toParent[c] = <<>> /\ toChild[c] = <<>>

\* Once the server stops, the batch in which it does forks one child at most.
StopInv ==
    stop_server => user_count <= 1 /\ ("lfd" \in reported => user_count = 0)

IInv ==
    TypeOK /\ ControlInv /\ TableInv /\ BacklogInv /\ MemoryInv /\ NotesInv /\ StopInv
        /\ ZombieNoticed

-----------------------------------------------------------------------------
(* Sequences and records.                                                  *)

LEMMA TailFacts ==
    ASSUME NEW S, NEW s \in Seq(S), s # <<>>
    PROVE  /\ Head(s) \in S /\ 1 \in DOMAIN s /\ Head(s) = s[1]
           /\ Tail(s) \in Seq(S)
           /\ \A n \in DOMAIN Tail(s) : n + 1 \in DOMAIN s /\ Tail(s)[n] = s[n + 1]
           /\ \A n \in DOMAIN s : n = 1 \/ (n - 1 \in DOMAIN Tail(s) /\ Tail(s)[n - 1] = s[n])
           /\ Tail(s) = <<>> <=> Len(s) = 1
<1>1. Len(s) \in Nat \ {0} /\ DOMAIN s = 1 .. Len(s)
  OBVIOUS
<1>2. Tail(s) \in Seq(S) /\ Len(Tail(s)) = Len(s) - 1
  BY <1>1
<1>3. \A n \in 1 .. Len(s) - 1 : Tail(s)[n] = s[n + 1]
  BY <1>1
<1>4. DOMAIN Tail(s) = 1 .. Len(s) - 1
  BY <1>2
<1>5. ASSUME Tail(s) = <<>>
      PROVE  Len(s) = 1
  BY <1>1, <1>2, <1>5, Len(Tail(s)) = 0
<1>6. ASSUME Len(s) = 1
      PROVE  Tail(s) = <<>>
  BY <1>1, <1>2, <1>6, Len(Tail(s)) = 0, EmptySeq
<1>7. QED
  BY <1>1, <1>2, <1>3, <1>4, <1>5, <1>6

LEMMA AppendFacts ==
    ASSUME NEW S, NEW s \in Seq(S), NEW e \in S
    PROVE  /\ Append(s, e) \in Seq(S) /\ Append(s, e) # <<>>
           /\ \A n \in DOMAIN s : n \in DOMAIN Append(s, e) /\ Append(s, e)[n] = s[n]
           /\ \A n \in DOMAIN Append(s, e) :
                \/ n \in DOMAIN s /\ Append(s, e)[n] = s[n]
                \/ n \notin DOMAIN s /\ Append(s, e)[n] = e /\ n = Len(s) + 1
           /\ Len(s) + 1 \in DOMAIN Append(s, e) /\ Append(s, e)[Len(s) + 1] = e
<1>1. Len(s) \in Nat /\ DOMAIN s = 1 .. Len(s)
  OBVIOUS
<1>2. Append(s, e) \in Seq(S) /\ Len(Append(s, e)) = Len(s) + 1
  OBVIOUS
<1>3. \A n \in 1 .. Len(s) + 1 : Append(s, e)[n] = IF n <= Len(s) THEN s[n] ELSE e
  BY <1>1
<1>4. DOMAIN Append(s, e) = 1 .. Len(s) + 1
  BY <1>2
<1>5. Append(s, e) # <<>>
  BY <1>1, <1>2
<1>6. QED
  BY <1>1, <1>2, <1>3, <1>4, <1>5

\* A message is not the empty one, and has a sender and a number.
LEMMA Messages ==
    ASSUME NEW m \in Message
    PROVE  m # Empty /\ m[1] \in Client /\ m[2] \in 1 .. MaxSent
BY DEF Message, Empty

LEMMA Notes ==
    ASSUME NEW k \in Index, NEW m \in Message
    PROVE  LET nt == [idx |-> k, msg |-> m]
           IN nt \in Note /\ nt.idx = k /\ nt.msg = m
BY DEF Note

\* The sources are apart from each other.
LEMMA SourcesApart ==
    /\ "lfd" \in Sources /\ "sig" \in Sources
    /\ \A c \in Client : c \in Sources /\ c # "lfd" /\ c # "sig" /\ c # Nobody
BY ClientAssumption DEF Sources

-----------------------------------------------------------------------------
(* The steps keep the types.                                               *)

\* No child is ever found in the table by its pid, since what is registered for
\* it is above USER_LIMIT: a child that is joined stays a user.
LEMMA JoinRemovesNothing ==
    ASSUME TypeOK, TableInv, NEW c \in Client, Join(c)
    PROVE  UNCHANGED <<reported, armed, user, user_count, sub_process>>
<1>1. sub_process[c] = FirstFree
  BY DEF TableInv, Join, Forked
<1>2. sub_process[c] > UserLimit /\ ~ sub_process[c] < 0
  BY <1>1, FirstFreeAssumption, UserLimitAssumption
<1>3. QED
  BY <1>2 DEF Join, userVars

LEMMA TypeInit == Init => TypeOK
<1> SUFFICES ASSUME Init PROVE TypeOK
  OBVIOUS
<1>1. <<>> \in Seq(Client) /\ <<>> \in Seq(Note) /\ <<>> \in Seq(Message)
      /\ <<>> \in Seq({"CHLD", "TERM"})
  OBVIOUS
<1>2. /\ user \in [Index -> Client \cup {Nobody}] /\ user_count \in 0 .. UserLimit
      /\ sub_process \in [Client -> {-1} \cup Nat]
      /\ idx \in [Client -> Index] /\ shm \in [Index -> Message \cup {Empty}]
  BY UserLimitAssumption DEF Init, Index
<1>3. /\ toParent \in [Client -> Seq(Note)] /\ toChild \in [Client -> Seq(Note)]
      /\ backlog \in Seq(Client) /\ unread \in [Client -> Seq(Message)]
      /\ signals \in Seq({"CHLD", "TERM"}) /\ sigpipe \in Seq({"CHLD", "TERM"})
  BY <1>1 DEF Init
<1>4. /\ sent \in 0 .. MaxSent /\ upset \in 0 .. MaxUpset
      /\ j \in Nat /\ from \in Client \cup {Nobody} /\ note \in Note \cup {Empty}
  BY BoundAssumption DEF Init
<1>5. QED
  BY <1>2, <1>3, <1>4 DEF Init, TypeOK

LEMMA ParentTypeStep ==
    ASSUME TypeOK, ControlInv, TableInv, ParentStep
    PROVE  TypeOK'
<1> USE UserLimitAssumption, FirstFreeAssumption, BoundAssumption
<1> USE DEF loopVars, userVars, sigVars, childVars, clientVars, pipeVars, StaysInBatch
<1>1. CASE EpollWait
  BY <1>1 DEF EpollWait, TypeOK
<1>2. CASE Stop
  BY <1>2 DEF Stop, TypeOK
<1>3. CASE AcceptFails
  BY <1>3 DEF AcceptFails, Handle, Upset, TypeOK
<1>4. CASE TurnAway
  <2>1. Head(backlog) \in Client /\ Tail(backlog) \in Seq(Client)
    BY <1>4, TailFacts DEF TurnAway, Handle, ControlInv, TypeOK
  <2>2. upset' \in 0 .. MaxUpset
    BY <1>4 DEF TurnAway, Upset, TypeOK
  <2>3. peer' \in [Client -> {"none", "up", "fin", "rst", "gone"}]
    BY <1>4, <2>1 DEF TurnAway, TypeOK
  <2>4. QED
    BY <1>4, <2>1, <2>2, <2>3 DEF TurnAway, Handle, TypeOK
<1>5. CASE Fork
  <2> DEFINE c == Head(backlog)
  <2>1. c \in Client /\ Tail(backlog) \in Seq(Client)
    BY <1>5, TailFacts DEF Fork, Handle, ControlInv, TypeOK
  <2>2. user_count \in Index /\ user_count + 1 \in 0 .. UserLimit
    BY <1>5 DEF Fork, Full, TypeOK, Index
  <2>3. user' \in [Index -> Client \cup {Nobody}]
    BY <1>5, <2>1, <2>2 DEF Fork, TypeOK
  <2>4. sub_process' \in [Client -> {-1} \cup Nat]
    BY <1>5, <2>1, <2>2 DEF Fork, Registered, TypeOK
  <2>5. /\ cpc' \in [Client -> {"none", "born", "batch", "epoll", "recv", "notify",
                               "zombie", "joined"}]
        /\ idx' \in [Client -> Index]
        /\ carmed' \in [Client -> SUBSET {"conn", "pipe"}]
    BY <1>5, <2>1, <2>2 DEF Fork, TypeOK
  <2>6. armed' \subseteq Sources
    BY <1>5, <2>1, SourcesApart DEF Fork, TypeOK
  <2> HIDE DEF c
  <2>7. QED
    BY <1>5, <2>1, <2>2, <2>3, <2>4, <2>5, <2>6 DEF Fork, Handle, TypeOK
<1>6. CASE TakeSignals
  <2>1. <<>> \in Seq({"CHLD", "TERM"})
    OBVIOUS
  <2>2. QED
    BY <1>6, <2>1 DEF TakeSignals, Handle, TypeOK
<1>7. CASE Joined
  <2>1. Tail(signals) \in Seq({"CHLD", "TERM"})
    BY <1>7, TailFacts DEF Joined, Signal, ControlInv, TypeOK
  <2>2. QED
    BY <1>7, <2>1 DEF Joined, NextSignal, TypeOK
<1>8. CASE HandleTerm
  <2>1. Tail(signals) \in Seq({"CHLD", "TERM"})
    BY <1>8, TailFacts DEF HandleTerm, Signal, ControlInv, TypeOK
  <2>2. term' \in [Client -> BOOLEAN]
    BY <1>8 DEF HandleTerm, TypeOK
  <2>3. QED
    BY <1>8, <2>1, <2>2 DEF HandleTerm, NextSignal, TypeOK
<1>9. CASE Relay
  <2>1. PICK k \in Others :
          /\ toChild' = [toChild EXCEPT ![user[k]] = Append(@, note)]
          /\ carmed' = [carmed EXCEPT ![user[k]] = @ \cup {"pipe"}]
          /\ j' = k + 1
    BY <1>9 DEF Relay
  <2>2. k \in Nat /\ user[k] \in Client
    BY <2>1 DEF Others, TypeOK, TableInv
  <2>3. note \in Note
    BY <1>9 DEF Relay, ControlInv
  <2>4. Append(toChild[user[k]], note) \in Seq(Note)
    BY <2>2, <2>3, AppendFacts DEF TypeOK
  <2>5. /\ toChild' \in [Client -> Seq(Note)]
        /\ carmed' \in [Client -> SUBSET {"conn", "pipe"}]
        /\ j' \in Nat
    BY <2>1, <2>2, <2>4 DEF TypeOK
  <2>6. UNCHANGED <<ppc, reported, signals, stop_server, terminate, from, note, armed,
                   userVars, sigVars, childVars, shm, toParent, clientVars>>
    BY <1>9 DEF Relay
  <2>7. QED
    BY <2>5, <2>6 DEF TypeOK
<1>10. CASE RelayEnd
  BY <1>10 DEF RelayEnd, TypeOK
<1>11. ASSUME NEW c \in Client, Join(c)
       PROVE  TypeOK'
  <2>1. UNCHANGED <<reported, armed, user, user_count, sub_process>>
    BY <1>11, JoinRemovesNothing
  <2>2. QED
    BY <1>11, <2>1 DEF Join, TypeOK
<1>12. ASSUME NEW c \in Client, TakeNote(c)
       PROVE  TypeOK'
  <2>1. toParent[c] # <<>> => /\ Head(toParent[c]) \in Note
                              /\ Tail(toParent[c]) \in Seq(Note)
    BY TailFacts DEF TypeOK
  <2>2. toParent' \in [Client -> Seq(Note)]
    <3>1. CASE toParent[c] = <<>>
      BY <1>12, <3>1 DEF TakeNote, TypeOK
    <3>2. CASE toParent[c] # <<>>
      BY <1>12, <2>1, <3>2 DEF TakeNote, TypeOK
    <3>3. QED
      BY <3>1, <3>2
  <2>3. /\ note' \in Note \cup {Empty} /\ j' \in Nat /\ from' \in Client \cup {Nobody}
        /\ ppc' \in {"batch", "signals", "relay", "stopped"}
        /\ reported' \subseteq Sources
    BY <1>12, <2>1 DEF TakeNote, Handle, TypeOK
  <2>4. UNCHANGED <<signals, stop_server, terminate, armed, userVars, sigVars,
                    childVars, carmed, shm, toChild, clientVars>>
    BY <1>12 DEF TakeNote
  <2>5. QED
    BY <2>2, <2>3, <2>4 DEF TypeOK
<1>13. QED
  BY <1>1, <1>2, <1>3, <1>4, <1>5, <1>6, <1>7, <1>8, <1>9, <1>10, <1>11, <1>12
     DEF ParentStep

LEMMA ChildTypeStep ==
    ASSUME TypeOK, MemoryInv, NEW c \in Client, ChildStep(c)
    PROVE  TypeOK'
<1> USE DEF ParentOnly, loopVars, userVars, sigVars, childVars, clientVars, pipeVars
<1>1. CASE Start(c)
  BY <1>1 DEF Start, TypeOK
<1>2. CASE CheckStop(c)
  <2>1. <<>> \in Seq(Message) /\ <<>> \in Seq(Note) /\ c \in Sources
    BY SourcesApart
  <2>2. CASE stop_child[c]
    <3>1. unread' \in [Client -> Seq(Message)] /\ toChild' \in [Client -> Seq(Note)]
      <4>1. unread' = [unread EXCEPT ![c] = <<>>] /\ toChild' = [toChild EXCEPT ![c] = <<>>]
        BY <1>2, <2>2 DEF CheckStop
      <4>2. QED
        BY <2>1, <4>1 DEF TypeOK
    <3>2. /\ cpc' = [cpc EXCEPT ![c] = "zombie"] /\ peer' = [peer EXCEPT ![c] = "gone"]
          /\ err' = [err EXCEPT ![c] = FALSE] /\ term' = [term EXCEPT ![c] = FALSE]
          /\ armed' = armed \cup {c} /\ pending' = pending \cup {"CHLD"}
          /\ UNCHANGED <<ParentOnly, sigpipe, idx, stop_child, creported, carmed, shm, toParent,
                         backlog, sent, upset>>
      BY <1>2, <2>2 DEF CheckStop
    <3>3. /\ armed' \subseteq Sources /\ pending' \subseteq {"CHLD", "TERM"}
          /\ cpc' \in [Client -> {"none", "born", "batch", "epoll", "recv", "notify",
                                 "zombie", "joined"}]
          /\ peer' \in [Client -> {"none", "up", "fin", "rst", "gone"}]
          /\ err' \in [Client -> BOOLEAN] /\ term' \in [Client -> BOOLEAN]
      BY <2>1, <3>2 DEF TypeOK
    <3>4. UNCHANGED <<ParentOnly, sigpipe, idx, stop_child, creported, carmed, shm, toParent,
                     backlog, sent, upset>>
      BY <3>2
    <3>5. QED
      BY <3>1, <3>3, <3>4 DEF TypeOK
  <2>3. CASE ~ stop_child[c]
    BY <1>2, <2>3 DEF CheckStop, TypeOK
  <2>4. QED
    BY <2>2, <2>3
<1>3. CASE ChildWait(c)
  BY <1>3 DEF ChildWait, TypeOK
<1>4. CASE Clear(c)
  BY <1>4 DEF Clear, ChildHandle, TypeOK
<1>5. CASE Recv(c)
  <2>1. CASE unread[c] # <<>>
    <3>1. Head(unread[c]) \in Message /\ Tail(unread[c]) \in Seq(Message)
      BY <2>1, TailFacts DEF TypeOK
    <3>2. unread' \in [Client -> Seq(Message)]
      <4>1. unread' = [unread EXCEPT ![c] = Tail(@)]
        BY <1>5, <2>1 DEF Recv
      <4>2. QED
        BY <3>1, <4>1 DEF TypeOK
    <3>3. shm' \in [Index -> Message \cup {Empty}]
      <4>1. shm' = [shm EXCEPT ![idx[c]] = Head(unread[c])]
        BY <1>5, <2>1 DEF Recv
      <4>2. QED
        BY <3>1, <4>1 DEF TypeOK
    <3>4. cpc' = [cpc EXCEPT ![c] = "notify"] /\ UNCHANGED <<stop_child, err>>
      BY <1>5, <2>1 DEF Recv
    <3>5. UNCHANGED <<ParentOnly, armed, sigVars, idx, creported, term, carmed, pipeVars,
                     backlog, peer, sent, upset>>
      BY <1>5 DEF Recv
    <3>6. QED
      BY <3>2, <3>3, <3>4, <3>5 DEF TypeOK
  <2>2. CASE unread[c] = <<>>
    BY <1>5, <2>2 DEF Recv, TypeOK
  <2>3. QED
    BY <2>1, <2>2
<1>6. CASE Notify(c)
  <2> DEFINE nt == [idx |-> Number(c), msg |-> shm[idx[c]]]
  <2>1. nt \in Note
    <3>1. idx[c] \in Index /\ shm[idx[c]] \in Message
      BY <1>6 DEF Notify, MemoryInv, TypeOK
    <3>2. QED
      BY <3>1, Notes DEF Number
  <2>2. Append(toParent[c], nt) \in Seq(Note)
    BY <2>1, AppendFacts DEF TypeOK
  <2>3. toParent' = toParent \/ toParent' = [toParent EXCEPT ![c] = Append(@, nt)]
    BY <1>6 DEF Notify
  <2> HIDE DEF nt
  <2>4. toParent' \in [Client -> Seq(Note)]
    BY <2>2, <2>3 DEF TypeOK
  <2>5. armed' \subseteq Sources
    BY <1>6, SourcesApart DEF Notify, TypeOK
  <2>6. /\ cpc' = [cpc EXCEPT ![c] = "batch"]
        /\ UNCHANGED <<ParentOnly, sigVars, idx, stop_child, creported, term, carmed, shm,
                       toChild, clientVars>>
    BY <1>6 DEF Notify
  <2>7. QED
    BY <2>4, <2>5, <2>6 DEF TypeOK
<1>7. CASE Forward(c)
  <2>1. Tail(toChild[c]) \in Seq(Note)
    BY <1>7, TailFacts DEF Forward, TypeOK
  <2>2. QED
    BY <1>7, <2>1 DEF Forward, ChildHandle, TypeOK
<1>8. CASE Orphaned(c)
  BY <1>8 DEF Orphaned, ChildHandle, TypeOK
<1>9. QED
  BY <1>1, <1>2, <1>3, <1>4, <1>5, <1>6, <1>7, <1>8 DEF ChildStep

LEMMA SignalTypeStep ==
    ASSUME TypeOK,
           \/ Deliver("CHLD") \/ Deliver("TERM") \/ Terminate
           \/ \E c \in Client : TermBorn(c) \/ TermChild(c) \/ TermMissed(c)
    PROVE  TypeOK'
<1> USE BoundAssumption
<1> USE DEF ServerOnly, ParentOnly, loopVars, userVars, sigVars, childVars, clientVars, pipeVars
<1>1. ASSUME NEW s \in {"CHLD", "TERM"}, Deliver(s)
      PROVE  TypeOK'
  <2>1. Append(sigpipe, s) \in Seq({"CHLD", "TERM"}) /\ "sig" \in Sources
    BY AppendFacts, SourcesApart DEF TypeOK
  <2>2. QED
    BY <1>1, <2>1 DEF Deliver, TypeOK
<1>2. CASE Terminate
  BY <1>2 DEF Terminate, Upset, TypeOK
<1>3. ASSUME NEW c \in Client, TermBorn(c)
      PROVE  TypeOK'
  <2>1. Append(sigpipe, "TERM") \in Seq({"CHLD", "TERM"}) /\ "sig" \in Sources
    BY AppendFacts, SourcesApart DEF TypeOK
  <2>2. QED
    BY <1>3, <2>1 DEF TermBorn, TypeOK
<1>4. ASSUME NEW c \in Client, TermChild(c)
      PROVE  TypeOK'
  BY <1>4 DEF TermChild, TypeOK
<1>5. ASSUME NEW c \in Client, TermMissed(c)
      PROVE  TypeOK'
  BY <1>5 DEF TermMissed, TypeOK
<1>6. QED
  BY <1>1, <1>2, <1>3, <1>4, <1>5

LEMMA ClientTypeStep ==
    ASSUME TypeOK, NEW c \in Client, Connect(c) \/ Send(c) \/ Leave(c) \/ Reset(c)
    PROVE  TypeOK'
<1> USE BoundAssumption
<1> USE DEF ServerOnly, ParentOnly, loopVars, userVars, sigVars, childVars, clientVars, pipeVars
<1>1. CASE Connect(c)
  <2>1. Append(backlog, c) \in Seq(Client) /\ "lfd" \in Sources
    BY AppendFacts, SourcesApart DEF TypeOK
  <2>2. QED
    BY <1>1, <2>1 DEF Connect, TypeOK
<1>2. CASE Send(c)
  <2>1. sent + 1 \in 1 .. MaxSent /\ <<c, sent + 1>> \in Message
    BY <1>2 DEF Send, TypeOK, Message
  <2>2. Append(unread[c], <<c, sent + 1>>) \in Seq(Message)
    BY <2>1, AppendFacts DEF TypeOK
  <2>3. unread' \in [Client -> Seq(Message)]
    BY <1>2, <2>2 DEF Send, TypeOK
  <2>4. QED
    BY <1>2, <2>1, <2>3 DEF Send, Edge, TypeOK
<1>3. CASE Leave(c)
  BY <1>3 DEF Leave, Upset, Edge, TypeOK
<1>4. CASE Reset(c)
  BY <1>4 DEF Reset, Upset, Edge, TypeOK
<1>5. QED
  BY <1>1, <1>2, <1>3, <1>4

LEMMA TypeStep ==
    ASSUME IInv, [Next]_vars
    PROVE  TypeOK'
<1>1. CASE Next
  BY <1>1, ParentTypeStep, ChildTypeStep, SignalTypeStep, ClientTypeStep DEF IInv, Next
<1>2. CASE UNCHANGED vars
  BY <1>2 DEF IInv, TypeOK, vars, loopVars, userVars, sigVars, childVars, clientVars, pipeVars
<1>3. QED
  BY <1>1, <1>2

-----------------------------------------------------------------------------
(* What is in the batch, and the table.                                    *)

LEMMA ControlStep ==
    ASSUME IInv, [Next]_vars
    PROVE  ControlInv'
<1> USE DEF loopVars, userVars, sigVars, childVars, clientVars, pipeVars, StaysInBatch,
            ParentOnly, ServerOnly
<1>0. TypeOK /\ ControlInv /\ TableInv
  BY DEF IInv
<1>1. CASE EpollWait
  BY <1>0, <1>1, SourcesApart DEF EpollWait, Readable, ControlInv
<1>2. CASE Stop
  BY <1>0, <1>2 DEF Stop, ControlInv
<1>3. CASE AcceptFails \/ TurnAway \/ Fork
  BY <1>0, <1>3 DEF AcceptFails, TurnAway, Fork, Handle, ControlInv
<1>4. CASE TakeSignals
  BY <1>0, <1>4 DEF TakeSignals, Handle, ControlInv
<1>5. CASE Joined \/ HandleTerm
  <2>1. signals # <<>> /\ ppc = "signals"
    BY <1>0, <1>5 DEF Joined, HandleTerm, Signal, ControlInv
  <2>2. NextSignal /\ UNCHANGED <<reported, from, note, sigpipe, backlog>>
    BY <1>5 DEF Joined, HandleTerm
  <2>3. ppc' = "signals" <=> signals' # <<>>
    BY <1>0, <2>1, <2>2, TailFacts DEF NextSignal, TypeOK
  <2>4. ppc' # "relay" /\ ppc' # "stopped"
    BY <2>2 DEF NextSignal
  <2>5. QED
    BY <1>0, <2>2, <2>3, <2>4 DEF ControlInv
<1>6. ASSUME NEW c \in Client, Join(c)
      PROVE  ControlInv'
  <2>1. UNCHANGED <<reported, armed, user, user_count, sub_process>>
    BY <1>0, <1>6, JoinRemovesNothing
  <2>2. QED
    BY <1>0, <1>6, <2>1 DEF Join, ControlInv
<1>7. ASSUME NEW c \in Client, TakeNote(c)
      PROVE  ControlInv'
  <2>1. CASE toParent[c] = <<>>
    BY <1>0, <1>7, <2>1 DEF TakeNote, Handle, ControlInv
  <2>2. CASE toParent[c] # <<>>
    <3>1. Head(toParent[c]) \in Note /\ Head(toParent[c]).msg[1] = c
      BY <2>2, TailFacts DEF IInv, TypeOK, NotesInv
    <3>2. QED
      BY <1>0, <1>7, <2>2, <3>1 DEF TakeNote, Handle, ControlInv
  <2>3. QED
    BY <2>1, <2>2
<1>8. CASE Relay \/ RelayEnd
  BY <1>0, <1>8 DEF Relay, RelayEnd, ControlInv
<1>9. ASSUME NEW s \in {"CHLD", "TERM"}, Deliver(s)
      PROVE  ControlInv'
  <2>1. Append(sigpipe, s) # <<>>
    <3>1. sigpipe \in Seq({"CHLD", "TERM"})
      BY <1>0 DEF TypeOK
    <3>2. QED
      BY <3>1, AppendFacts
  <2>2. QED
    BY <1>0, <1>9, <2>1 DEF Deliver, ControlInv
<1>10. ASSUME NEW c \in Client, TermBorn(c)
       PROVE  ControlInv'
  <2>1. Append(sigpipe, "TERM") # <<>>
    <3>1. sigpipe \in Seq({"CHLD", "TERM"})
      BY <1>0 DEF TypeOK
    <3>2. QED
      BY <3>1, AppendFacts
  <2>2. QED
    BY <1>0, <1>10, <2>1 DEF TermBorn, ControlInv
<1>11. ASSUME NEW c \in Client, Connect(c)
       PROVE  ControlInv'
  <2>1. Append(backlog, c) # <<>>
    <3>1. backlog \in Seq(Client)
      BY <1>0 DEF TypeOK
    <3>2. QED
      BY <3>1, AppendFacts
  <2>2. QED
    BY <1>0, <1>11, <2>1 DEF Connect, ControlInv
<1>12. ASSUME NEW c \in Client,
              ChildStep(c) \/ TermChild(c) \/ TermMissed(c) \/ Send(c) \/ Leave(c) \/ Reset(c)
       PROVE  ControlInv'
  <2>1. UNCHANGED <<ppc, reported, signals, stop_server, from, note, sigpipe, backlog>>
    BY <1>12 DEF ChildStep, Start, CheckStop, ChildWait, Clear, Recv, Notify, Forward, Orphaned,
                 TermChild, TermMissed, Send, Leave, Reset
  <2>2. QED
    BY <1>0, <2>1 DEF ControlInv
<1>13. CASE Terminate
  BY <1>0, <1>13 DEF Terminate, ControlInv
<1>14. CASE UNCHANGED vars
  BY <1>0, <1>14 DEF vars, ControlInv
<1>15. QED
  BY <1>1, <1>2, <1>3, <1>4, <1>5, <1>6, <1>7, <1>8, <1>9, <1>10, <1>11, <1>12, <1>13, <1>14
     DEF Next, ParentStep

\* The table and the indexes of the children change with a fork only.
LEMMA TableFrame ==
    ASSUME IInv, [Next]_vars, ~ Fork
    PROVE  /\ UNCHANGED <<user, user_count, sub_process, idx>>
           /\ \A c \in Client : Forked(c)' <=> Forked(c)
<1> USE DEF loopVars, userVars, sigVars, childVars, clientVars, pipeVars, StaysInBatch,
            ParentOnly, ServerOnly
<1>0. TypeOK /\ TableInv
  BY DEF IInv
<1>1. CASE ParentStep
  <2>1. ASSUME NEW c \in Client, Join(c)
        PROVE  /\ UNCHANGED <<user, user_count, sub_process, idx>>
               /\ \A d \in Client : Forked(d)' <=> Forked(d)
    BY <1>0, <2>1, JoinRemovesNothing DEF Join, Forked, TypeOK
  <2>2. CASE ~ \E c \in Client : Join(c)
    BY <1>1, <2>2 DEF ParentStep, EpollWait, Stop, AcceptFails, TurnAway, TakeSignals, Joined,
                      HandleTerm, Relay, RelayEnd, TakeNote, Forked
  <2>3. QED
    BY <2>1, <2>2
<1>2. ASSUME NEW c \in Client, ChildStep(c) \/ TermBorn(c) \/ TermChild(c) \/ TermMissed(c)
      PROVE  /\ UNCHANGED <<user, user_count, sub_process, idx>>
             /\ \A d \in Client : Forked(d)' <=> Forked(d)
  <2>1. UNCHANGED <<user, user_count, sub_process, idx>>
    BY <1>2 DEF ChildStep, Start, CheckStop, ChildWait, Clear, Recv, Notify, Forward, Orphaned,
                TermBorn, TermChild, TermMissed
  <2>2. cpc[c] # "none"
    BY <1>2 DEF ChildStep, Start, CheckStop, ChildWait, Clear, Recv, Notify, Forward, Orphaned,
                ChildHandle, TermBorn, TermChild, TermMissed, Runs
  <2>3. \/ UNCHANGED cpc
        \/ \E p \in {"batch", "zombie", "epoll", "recv", "notify"} : cpc' = [cpc EXCEPT ![c] = p]
    BY <1>2 DEF ChildStep, Start, CheckStop, ChildWait, Clear, Recv, Notify, Forward, Orphaned,
                TermBorn, TermChild, TermMissed
  <2>4. QED
    BY <1>0, <2>1, <2>2, <2>3 DEF Forked, TypeOK
<1>3. CASE \/ Deliver("CHLD") \/ Deliver("TERM") \/ Terminate
           \/ \E c \in Client : Connect(c) \/ Send(c) \/ Leave(c) \/ Reset(c)
  BY <1>3 DEF Deliver, Terminate, Connect, Send, Leave, Reset, Forked
<1>4. CASE UNCHANGED vars
  BY <1>4 DEF vars, Forked
<1>5. QED
  BY <1>1, <1>2, <1>3, <1>4 DEF Next

\* The client that is first in the backlog has no child, and gets the first free
\* place of the table.
LEMMA ForkFacts ==
    ASSUME IInv, Fork
    PROVE  \E c \in Client :
              /\ c = Head(backlog) /\ ~ Forked(c) /\ backlog # <<>>
              /\ user_count \in Index /\ user_count < UserLimit
              /\ user' = [user EXCEPT ![user_count] = c] /\ user_count' = user_count + 1
              /\ sub_process'[c] = FirstFree /\ idx'[c] = user_count /\ Forked(c)'
              /\ cpc'[c] = "born"
              /\ \A d \in Client \ {c} : /\ Forked(d)' <=> Forked(d)
                                        /\ idx'[d] = idx[d] /\ cpc'[d] = cpc[d]
                                        /\ sub_process'[d] = sub_process[d]
<1>1. backlog # <<>>
  BY DEF IInv, Fork, Handle, ControlInv
<1>2. Head(backlog) \in Client /\ ~ Forked(Head(backlog))
  BY <1>1, TailFacts DEF IInv, TypeOK, BacklogInv
<1>3. user_count \in Index /\ user_count < UserLimit
  BY UserLimitAssumption DEF IInv, TypeOK, Fork, Full, Index
<1> PICK c \in Client : c = Head(backlog)
  BY <1>2
<1>4. /\ user' = [user EXCEPT ![user_count] = c] /\ user_count' = user_count + 1
      /\ sub_process' = [sub_process EXCEPT ![c] = FirstFree]
      /\ cpc' = [cpc EXCEPT ![c] = "born"] /\ idx' = [idx EXCEPT ![c] = user_count]
  BY DEF Fork, Registered
<1>5. /\ sub_process'[c] = FirstFree /\ idx'[c] = user_count /\ cpc'[c] = "born"
      /\ \A d \in Client \ {c} : /\ idx'[d] = idx[d] /\ cpc'[d] = cpc[d]
                                /\ sub_process'[d] = sub_process[d]
  BY <1>4 DEF IInv, TypeOK
<1>6. Forked(c)' /\ \A d \in Client \ {c} : Forked(d)' <=> Forked(d)
  BY <1>5 DEF Forked
<1>7. QED
  BY <1>1, <1>2, <1>3, <1>4, <1>5, <1>6

\* Two children have different indexes.
LEMMA IndexesApart ==
    ASSUME TableInv, NEW c \in Client, NEW d \in Client, Forked(c), Forked(d), idx[c] = idx[d]
    PROVE  c = d
BY DEF TableInv

LEMMA TableStep ==
    ASSUME IInv, [Next]_vars
    PROVE  TableInv'
<1>0. TypeOK /\ TableInv
  BY DEF IInv
<1>1. CASE Fork
  <2>1. PICK c \in Client :
        /\ ~ Forked(c)
        /\ user_count \in Index /\ user_count < UserLimit
        /\ user' = [user EXCEPT ![user_count] = c] /\ user_count' = user_count + 1
        /\ sub_process'[c] = FirstFree /\ idx'[c] = user_count /\ Forked(c)'
        /\ \A d \in Client \ {c} : /\ Forked(d)' <=> Forked(d)
                                  /\ idx'[d] = idx[d] /\ sub_process'[d] = sub_process[d]
    BY <1>1, ForkFacts
  <2>2. user'[user_count] = c /\ \A k \in 0 .. user_count - 1 : user'[k] = user[k]
    BY <1>0, <2>1 DEF TypeOK, Index
  <2>3. ASSUME NEW d \in Client, Forked(d)'
        PROVE  sub_process'[d] = FirstFree /\ idx'[d] < user_count' /\ user'[idx'[d]] = d
    <3>1. CASE d = c
      BY <2>1, <2>2, <3>1 DEF Index
    <3>2. CASE d # c
      <4>1. Forked(d) /\ idx'[d] = idx[d] /\ sub_process'[d] = sub_process[d]
        BY <2>1, <2>3, <3>2
      <4>2. /\ sub_process[d] = FirstFree /\ idx[d] < user_count /\ user[idx[d]] = d
            /\ idx[d] \in 0 .. user_count - 1
        BY <1>0, <4>1 DEF TableInv, TypeOK, Index
      <4>3. QED
        BY <2>1, <2>2, <4>1, <4>2 DEF Index
    <3>3. QED
      BY <3>1, <3>2
  <2>4. ASSUME NEW k \in 0 .. user_count' - 1
        PROVE  user'[k] \in Client /\ cpc'[user'[k]] # "none" /\ idx'[user'[k]] = k
    <3>1. CASE k = user_count
      BY <2>1, <2>2, <3>1 DEF Forked
    <3>2. CASE k # user_count
      <4>1. k \in 0 .. user_count - 1
        BY <2>1, <3>2 DEF Index
      <4>2. user[k] \in Client /\ Forked(user[k]) /\ idx[user[k]] = k /\ user'[k] = user[k]
        BY <1>0, <2>2, <4>1 DEF TableInv
      <4>3. user[k] # c
        BY <2>1, <4>2
      <4>4. QED
        BY <2>1, <4>2, <4>3 DEF Forked
    <3>3. QED
      BY <3>1, <3>2
  <2>5. QED
    BY <2>3, <2>4 DEF TableInv, Forked
<1>2. CASE ~ Fork
  <2>1. UNCHANGED <<user, user_count, sub_process, idx>>
    BY <1>2, TableFrame
  <2>2. \A c \in Client : Forked(c)' <=> Forked(c)
    BY <1>2, TableFrame
  <2>3. \A c \in Client : (Forked(c) =>
          /\ sub_process[c] = FirstFree
          /\ idx[c] < user_count /\ user[idx[c]] = c)'
    BY <1>0, <2>1, <2>2 DEF TableInv
  <2>4. \A k \in 0 .. user_count - 1 :
           user[k] \in Client /\ cpc'[user[k]] # "none" /\ idx[user[k]] = k
    BY <1>0, <2>2 DEF TableInv, Forked
  <2>5. (\A k \in 0 .. user_count - 1 : user[k] \in Client /\ Forked(user[k]) /\ idx[user[k]] = k)'
    BY <2>1, <2>4 DEF Forked
  <2>6. QED
    BY <2>3, <2>5 DEF TableInv
<1>3. QED
  BY <1>1, <1>2

LEMMA BacklogStep ==
    ASSUME IInv, [Next]_vars
    PROVE  BacklogInv'
<1> USE DEF loopVars, userVars, sigVars, childVars, clientVars, pipeVars, ParentOnly, ServerOnly
<1>0. backlog \in Seq(Client) /\ BacklogInv
      /\ peer \in [Client -> {"none", "up", "fin", "rst", "gone"}]
  BY DEF IInv, TypeOK
<1>a. ASSUME backlog # <<>>
      PROVE  /\ Head(backlog) \in Client /\ ~ Forked(Head(backlog))
             /\ peer[Head(backlog)] # "none"
             /\ Tail(backlog) \in Seq(Client)
             /\ \A n \in DOMAIN Tail(backlog) :
                  /\ Tail(backlog)[n] \in Client /\ Tail(backlog)[n] # Head(backlog)
                  /\ ~ Forked(Tail(backlog)[n]) /\ peer[Tail(backlog)[n]] # "none"
             /\ \A m, n \in DOMAIN Tail(backlog) : Tail(backlog)[m] = Tail(backlog)[n] => m = n
  <2>1. /\ Head(backlog) \in Client /\ 1 \in DOMAIN backlog /\ Head(backlog) = backlog[1]
        /\ Tail(backlog) \in Seq(Client)
        /\ \A n \in DOMAIN Tail(backlog) : n + 1 \in DOMAIN backlog /\ Tail(backlog)[n] = backlog[n + 1]
    BY <1>0, <1>a, TailFacts
  <2>2. \A n \in DOMAIN Tail(backlog) : n \in Nat \ {0} /\ Tail(backlog)[n] \in Client
    BY <2>1
  <2>3. QED
    BY <1>0, <2>1, <2>2 DEF BacklogInv
<1>1. CASE TurnAway
  <2>1. /\ backlog # <<>> /\ backlog' = Tail(backlog) /\ UNCHANGED cpc
        /\ peer' = [peer EXCEPT ![Head(backlog)] = "gone"]
    BY <1>1 DEF TurnAway, IInv, ControlInv, Handle
  <2>2. \A c \in Client : (peer'[c] = "none" => peer[c] = "none")
                         /\ (peer[c] # "none" => peer'[c] # "none")
    BY <1>0, <1>a, <2>1
  <2>3. QED
    BY <1>0, <1>a, <2>1, <2>2 DEF BacklogInv, Forked
<1>2. CASE Fork
  <2>1. PICK c \in Client :
          /\ c = Head(backlog) /\ backlog # <<>> /\ Forked(c)'
          /\ \A d \in Client \ {c} : Forked(d)' <=> Forked(d)
    BY <1>2, ForkFacts
  <2>2. backlog' = Tail(backlog) /\ UNCHANGED peer
    BY <1>2 DEF Fork
  <2>3. \A d \in Client \ {c} : cpc'[d] # "none" <=> cpc[d] # "none"
    BY <2>1 DEF Forked
  <2>4. QED
    BY <1>0, <1>a, <2>1, <2>2, <2>3 DEF BacklogInv, Forked
<1>3. ASSUME NEW c \in Client, Connect(c)
      PROVE  BacklogInv'
  <2>1. /\ peer[c] = "none" /\ peer' = [peer EXCEPT ![c] = "up"]
        /\ backlog' = Append(backlog, c) /\ UNCHANGED cpc
    BY <1>3 DEF Connect
  <2>2. \A d \in Client : (peer'[d] = "none" => peer[d] = "none")
                         /\ (peer[d] # "none" => peer'[d] # "none")
    BY <1>0, <2>1
  <2>3. ~ Forked(c) /\ peer'[c] # "none"
    BY <1>0, <2>1 DEF BacklogInv
  <2>4. /\ \A n \in DOMAIN backlog : n \in DOMAIN backlog' /\ backlog'[n] = backlog[n]
        /\ \A n \in DOMAIN backlog' :
             \/ n \in DOMAIN backlog /\ backlog'[n] = backlog[n]
             \/ n \notin DOMAIN backlog /\ backlog'[n] = c /\ n = Len(backlog) + 1
    BY <1>0, <2>1, AppendFacts
  <2>5. \A n \in DOMAIN backlog : backlog[n] \in Client /\ backlog[n] # c
    BY <1>0, <2>1 DEF BacklogInv
  <2>6. \A n \in DOMAIN backlog' : backlog'[n] \in Client /\ cpc'[backlog'[n]] = "none"
                                  /\ peer'[backlog'[n]] # "none"
    BY <1>0, <2>1, <2>2, <2>3, <2>4, <2>5 DEF BacklogInv, Forked
  <2>7. \A m, n \in DOMAIN backlog' : backlog'[m] = backlog'[n] => m = n
    BY <1>0, <2>4, <2>5 DEF BacklogInv
  <2>8. \A d \in Client : peer'[d] = "none" => cpc'[d] = "none"
    BY <1>0, <2>1, <2>2 DEF BacklogInv, Forked
  <2>9. QED
    BY <2>6, <2>7, <2>8 DEF BacklogInv, Forked
<1>4. ASSUME NEW c \in Client, CheckStop(c) \/ Leave(c) \/ Reset(c)
      PROVE  BacklogInv'
  <2>1. UNCHANGED backlog
    BY <1>4 DEF CheckStop, Leave, Reset
  <2>2. \/ UNCHANGED peer
        \/ \E p \in {"gone", "fin", "rst"} : peer' = [peer EXCEPT ![c] = p]
    BY <1>4 DEF CheckStop, Leave, Reset
  <2>3. \A d \in Client : Forked(d)' <=> Forked(d)
    <3>1. ~ Fork
      BY <1>4 DEF CheckStop, Leave, Reset, Fork, Handle
    <3>2. QED
      BY <3>1, TableFrame
  <2>4. \A d \in Client : (cpc'[d] # "none" <=> cpc[d] # "none")
                         /\ (peer'[d] = "none" => peer[d] = "none")
                         /\ (peer[d] # "none" => peer'[d] # "none")
    BY <1>0, <2>2, <2>3 DEF Forked
  <2>5. \A n \in DOMAIN backlog : backlog[n] \in Client
    BY <1>0
  <2>6. QED
    BY <1>0, <2>1, <2>4, <2>5 DEF BacklogInv, Forked
<1>5. CASE ~ \/ TurnAway \/ Fork
             \/ \E c \in Client : Connect(c) \/ CheckStop(c) \/ Leave(c) \/ Reset(c)
  <2>1. UNCHANGED <<backlog, peer>>
    BY <1>5 DEF Next, ParentStep, ChildStep, vars, EpollWait, Stop, AcceptFails, TakeSignals,
                Join, Joined, HandleTerm, Relay, RelayEnd, TakeNote, Deliver, Terminate, Start,
                ChildWait, Clear, Recv, Notify, Forward, Orphaned, TermBorn, TermChild,
                TermMissed, Send
  <2>2. \A c \in Client : cpc'[c] # "none" <=> cpc[c] # "none"
    BY <1>5, TableFrame DEF Forked
  <2>3. \A n \in DOMAIN backlog : backlog[n] \in Client
    BY <1>0
  <2>4. QED
    BY <1>0, <2>1, <2>2, <2>3 DEF BacklogInv, Forked
<1>6. QED
  BY <1>1, <1>2, <1>3, <1>4, <1>5

-----------------------------------------------------------------------------
(* The shared memory.                                                      *)

\* The part of a child that has been forked is that of an entry of the table.
LEMMA OwnPart ==
    ASSUME TypeOK, TableInv, NEW c \in Client, Forked(c)
    PROVE  idx[c] \in Index /\ idx[c] \in 0 .. user_count - 1 /\ user[idx[c]] = c
BY DEF TypeOK, TableInv, Index

LEMMA MemoryFork ==
    ASSUME IInv, Fork
    PROVE  MemoryInv'
<1>0. TypeOK /\ TableInv /\ MemoryInv
  BY DEF IInv
<1>1. PICK c \in Client :
        /\ ~ Forked(c) /\ user_count \in Index /\ user_count < UserLimit
        /\ user' = [user EXCEPT ![user_count] = c] /\ user_count' = user_count + 1
        /\ idx'[c] = user_count /\ cpc'[c] = "born"
        /\ \A d \in Client \ {c} : /\ Forked(d)' <=> Forked(d)
                                  /\ idx'[d] = idx[d] /\ cpc'[d] = cpc[d]
  BY ForkFacts
<1>2. UNCHANGED <<shm, unread, sent>>
  BY DEF Fork, clientVars
<1>3. shm[user_count] = Empty
  BY <1>0, <1>1 DEF MemoryInv, Index
<1>4. \A k \in Index : shm[k] # Empty => k < user_count' /\ shm[k][1] = user'[k]
  BY <1>0, <1>1, <1>3 DEF MemoryInv, TypeOK, Index
<1>5. \A d \in Client : cpc'[d] = "notify" => shm[idx'[d]] # Empty
  BY <1>0, <1>1 DEF MemoryInv
<1>6. ASSUME NEW d \in Client, NEW n \in DOMAIN unread[d], Forked(d)', shm[idx'[d]] # Empty
      PROVE  shm[idx'[d]][2] < unread[d][n][2]
  <2>1. d # c
    BY <1>1, <1>3, <1>6
  <2>2. QED
    BY <1>0, <1>1, <1>6, <2>1 DEF MemoryInv
<1>7. QED
  BY <1>0, <1>2, <1>4, <1>5, <1>6 DEF MemoryInv, Forked

\* What a child does with its part of the memory, and what its client sends.
LEMMA MemoryWrite ==
    ASSUME IInv, NEW c \in Client, Clear(c) \/ Recv(c)
    PROVE  MemoryInv'
<1> USE DEF loopVars, userVars, sigVars, childVars, clientVars, pipeVars, ParentOnly
<1>0. TypeOK /\ TableInv /\ MemoryInv
  BY DEF IInv
<1>1. UNCHANGED <<user, user_count, idx, sent>>
  BY DEF Clear, Recv
<1>2. Forked(c) /\ idx[c] \in Index /\ idx[c] < user_count /\ user[idx[c]] = c
  <2>1. Forked(c)
    BY DEF Clear, Recv, ChildHandle, Forked
  <2>2. QED
    BY <1>0, <2>1, OwnPart DEF Index, TypeOK
<1>3. \A d \in Client : Forked(d)' <=> Forked(d)
  <2>1. \E p \in {"recv", "notify", "batch"} : cpc' = [cpc EXCEPT ![c] = p]
    BY DEF Clear, Recv
  <2>2. QED
    BY <1>0, <1>2, <2>1 DEF TypeOK, Forked
<1>4. \A d \in Client \ {c} : cpc'[d] = cpc[d]
  BY <1>0 DEF Clear, Recv, TypeOK
<1>5. \A d \in Client \ {c} : Forked(d) => idx[d] # idx[c]
  BY <1>0, <1>2, IndexesApart
<1>6. \A k \in Index \ {idx[c]} : shm'[k] = shm[k]
  BY <1>0, <1>2 DEF Clear, Recv, TypeOK
<1>7. \A d \in Client \ {c} : unread'[d] = unread[d]
  BY <1>0 DEF Clear, Recv, TypeOK
<1>8. /\ shm'[idx[c]] # Empty => shm'[idx[c]][1] = c /\ shm'[idx[c]][2] <= sent
      /\ cpc'[c] = "notify" => shm'[idx[c]] # Empty
      /\ \A n \in DOMAIN unread'[c] :
           /\ unread'[c][n][1] = c /\ unread'[c][n][2] <= sent
           /\ \A m \in 1 .. n - 1 : unread'[c][m][2] < unread'[c][n][2]
           /\ shm'[idx[c]] # Empty => shm'[idx[c]][2] < unread'[c][n][2]
  <2>1. CASE Clear(c)
    <3>1. shm'[idx[c]] = Empty /\ cpc'[c] = "recv" /\ unread' = unread
      BY <1>0, <1>2, <2>1 DEF Clear, TypeOK
    <3>2. QED
      BY <1>0, <3>1 DEF MemoryInv
  <2>2. CASE Recv(c) /\ unread[c] = <<>>
    <3>1. shm' = shm /\ cpc'[c] = "batch" /\ unread' = unread
      BY <1>0, <2>2 DEF Recv, TypeOK
    <3>2. QED
      BY <1>0, <1>2, <3>1 DEF MemoryInv
  <2>3. CASE Recv(c) /\ unread[c] # <<>>
    <3>1. /\ Head(unread[c]) \in Message /\ 1 \in DOMAIN unread[c]
          /\ Head(unread[c]) = unread[c][1] /\ Tail(unread[c]) \in Seq(Message)
          /\ \A n \in DOMAIN Tail(unread[c]) :
               n + 1 \in DOMAIN unread[c] /\ Tail(unread[c])[n] = unread[c][n + 1]
      BY <1>0, <2>3, TailFacts DEF TypeOK
    <3>2. /\ shm' = [shm EXCEPT ![idx[c]] = Head(unread[c])]
          /\ unread' = [unread EXCEPT ![c] = Tail(@)]
          /\ cpc' = [cpc EXCEPT ![c] = "notify"]
      BY <2>3 DEF Recv
    <3>3. shm'[idx[c]] = unread[c][1] /\ unread'[c] = Tail(unread[c]) /\ cpc'[c] = "notify"
      BY <1>0, <1>2, <3>1, <3>2 DEF TypeOK
    <3>4. unread[c][1] # Empty /\ unread[c][1][1] = c /\ unread[c][1][2] <= sent
      BY <1>0, <3>1, Messages DEF MemoryInv
    <3>5. ASSUME NEW n \in DOMAIN Tail(unread[c])
          PROVE  /\ Tail(unread[c])[n][1] = c /\ Tail(unread[c])[n][2] <= sent
                 /\ \A m \in 1 .. n - 1 : Tail(unread[c])[m][2] < Tail(unread[c])[n][2]
                 /\ unread[c][1][2] < Tail(unread[c])[n][2]
      <4>1. /\ n \in Nat \ {0} /\ n + 1 \in DOMAIN unread[c]
            /\ Tail(unread[c])[n] = unread[c][n + 1]
            /\ \A m \in 1 .. n - 1 : m \in DOMAIN Tail(unread[c])
        BY <3>1
      <4>2. /\ unread[c][n + 1][1] = c /\ unread[c][n + 1][2] <= sent
            /\ \A m \in 1 .. (n + 1) - 1 : unread[c][m][2] < unread[c][n + 1][2]
        BY <1>0, <4>1 DEF MemoryInv
      <4>3. ASSUME NEW m \in 1 .. n - 1
            PROVE  m + 1 \in 1 .. (n + 1) - 1 /\ Tail(unread[c])[m] = unread[c][m + 1]
        <5>1. m + 1 \in 1 .. (n + 1) - 1
          BY <4>1
        <5>2. QED
          BY <3>1, <4>1, <5>1
      <4>4. 1 \in 1 .. (n + 1) - 1
        BY <4>1
      <4>5. QED
        BY <4>1, <4>2, <4>3, <4>4
    <3>6. QED
      BY <3>3, <3>4, <3>5
  <2>4. QED
    BY <2>1, <2>2, <2>3
<1>9. \A k \in Index : shm'[k] # Empty => /\ k < user_count /\ shm'[k][1] = user[k]
                                         /\ shm'[k][2] <= sent
  BY <1>0, <1>2, <1>6, <1>8 DEF MemoryInv
<1>10. ASSUME NEW d \in Client
       PROVE  /\ cpc'[d] = "notify" => shm'[idx[d]] # Empty
              /\ \A n \in DOMAIN unread'[d] :
                   /\ unread'[d][n][1] = d /\ unread'[d][n][2] <= sent
                   /\ \A m \in 1 .. n - 1 : unread'[d][m][2] < unread'[d][n][2]
                   /\ Forked(d) /\ shm'[idx[d]] # Empty => shm'[idx[d]][2] < unread'[d][n][2]
  <2>1. CASE d = c
    BY <1>8, <2>1
  <2>2. CASE d # c
    <3>1. Forked(d) => shm'[idx[d]] = shm[idx[d]]
      BY <1>0, <1>5, <1>6, <2>2 DEF TypeOK
    <3>2. cpc'[d] = "notify" => Forked(d)
      BY <1>4, <2>2 DEF Forked
    <3>3. QED
      BY <1>0, <1>4, <1>7, <2>2, <3>1, <3>2 DEF MemoryInv
  <2>3. QED
    BY <2>1, <2>2
<1>11. QED
  BY <1>1, <1>3, <1>9, <1>10 DEF MemoryInv, Forked

LEMMA MemorySend ==
    ASSUME IInv, NEW c \in Client, Send(c)
    PROVE  MemoryInv'
<1>0. TypeOK /\ TableInv /\ MemoryInv
  BY DEF IInv
<1>1. /\ unread' = [unread EXCEPT ![c] = Append(@, <<c, sent + 1>>)] /\ sent' = sent + 1
      /\ UNCHANGED <<user, user_count, idx, cpc, shm>>
  BY DEF Send, ServerOnly, childVars, userVars
<1>2. sent \in Nat /\ sent + 1 \in 1 .. MaxSent
  BY BoundAssumption DEF Send, IInv, TypeOK
<1>3. \A k \in Index : shm[k] # Empty => shm[k][2] \in Nat /\ shm[k][2] <= sent
  BY <1>0, Messages DEF MemoryInv, TypeOK
<1>4. ASSUME NEW d \in Client, NEW n \in DOMAIN unread'[d]
      PROVE  /\ unread'[d][n][1] = d /\ unread'[d][n][2] <= sent + 1
             /\ \A m \in 1 .. n - 1 : unread'[d][m][2] < unread'[d][n][2]
             /\ Forked(d) /\ shm[idx[d]] # Empty => shm[idx[d]][2] < unread'[d][n][2]
  <2>1. \A m \in DOMAIN unread[d] : /\ unread[d][m][2] \in Nat /\ unread[d][m][1] = d
                                   /\ unread[d][m][2] <= sent
    <3>1. \A m \in DOMAIN unread[d] : unread[d][m] \in Message
      BY <1>0 DEF TypeOK
    <3>2. QED
      BY <1>0, <3>1, Messages DEF MemoryInv
  <2>2. CASE d # c
    <3>1. unread'[d] = unread[d]
      BY <1>0, <1>1, <2>2 DEF TypeOK
    <3>2. QED
      BY <1>0, <1>2, <1>4, <2>1, <3>1 DEF MemoryInv
  <2>3. CASE d = c
    <3>1. unread'[c] = Append(unread[c], <<c, sent + 1>>) /\ unread[c] \in Seq(Message)
          /\ <<c, sent + 1>> \in Message
      BY <1>0, <1>1, <1>2 DEF TypeOK, Message
    <3>2. \/ n \in DOMAIN unread[c] /\ unread'[c][n] = unread[c][n]
          \/ n \notin DOMAIN unread[c] /\ unread'[c][n] = <<c, sent + 1>> /\ n = Len(unread[c]) + 1
      BY <1>4, <2>3, <3>1, AppendFacts
    <3>3. /\ DOMAIN unread[c] = 1 .. Len(unread[c]) /\ Len(unread[c]) \in Nat
          /\ \A m \in DOMAIN unread[c] : unread'[c][m] = unread[c][m]
      BY <3>1, AppendFacts
    <3>4. CASE n \in DOMAIN unread[c] /\ unread'[c][n] = unread[c][n]
      <4>1. \A m \in 1 .. n - 1 : m \in DOMAIN unread[c]
        BY <3>3, <3>4
      <4>2. /\ unread[c][n][1] = c /\ unread[c][n][2] \in Nat /\ unread[c][n][2] <= sent
            /\ \A m \in 1 .. n - 1 : unread[c][m][2] < unread[c][n][2]
            /\ Forked(c) /\ shm[idx[c]] # Empty => shm[idx[c]][2] < unread[c][n][2]
        <5>1. n \in DOMAIN unread[c]
          BY <3>4
        <5>2. unread[c][n][1] = c /\ unread[c][n][2] \in Nat /\ unread[c][n][2] <= sent
          BY <2>1, <2>3, <5>1
        <5>3. /\ \A m \in 1 .. n - 1 : unread[c][m][2] < unread[c][n][2]
              /\ Forked(c) /\ shm[idx[c]] # Empty => shm[idx[c]][2] < unread[c][n][2]
          BY <1>0, <5>1 DEF MemoryInv
        <5>4. QED
          BY <5>2, <5>3
      <4>3. unread[c][n][2] <= sent + 1
        BY <1>2, <4>2
      <4>4. QED
        BY <2>3, <3>3, <3>4, <4>1, <4>2, <4>3
    <3>5. CASE unread'[c][n] = <<c, sent + 1>> /\ n = Len(unread[c]) + 1
      <4>1. \A m \in 1 .. n - 1 : m \in DOMAIN unread[c] /\ unread'[c][m][2] \in Nat
                                 /\ unread'[c][m][2] <= sent
        BY <2>1, <2>3, <3>3, <3>5
      <4>2. \A m \in 1 .. n - 1 : unread'[c][m][2] < sent + 1
        BY <1>2, <4>1
      <4>3. idx[c] \in Index
        BY <1>0 DEF TypeOK
      <4>4. shm[idx[c]] # Empty => shm[idx[c]][2] < sent + 1
        BY <1>2, <1>3, <4>3
      <4>5. unread'[c][n][1] = c /\ unread'[c][n][2] = sent + 1
        BY <3>5
      <4>6. QED
        BY <1>2, <2>3, <4>2, <4>4, <4>5
    <3>6. QED
      BY <3>2, <3>4, <3>5
  <2>4. QED
    BY <2>2, <2>3
<1>5. \A k \in Index : shm[k] # Empty => shm[k][2] <= sent + 1
  BY <1>2, <1>3
<1>6. QED
  BY <1>0, <1>1, <1>4, <1>5 DEF MemoryInv, Forked

LEMMA MemoryStep ==
    ASSUME IInv, [Next]_vars
    PROVE  MemoryInv'
<1> USE DEF loopVars, userVars, sigVars, childVars, clientVars, pipeVars, ParentOnly, ServerOnly
<1>0. TypeOK /\ TableInv /\ MemoryInv
  BY DEF IInv
<1>1. CASE \/ Fork \/ \E c \in Client : Clear(c) \/ Recv(c) \/ Send(c)
  BY <1>1, MemoryFork, MemoryWrite, MemorySend
<1>2. CASE ~ (\/ Fork \/ \E c \in Client : Clear(c) \/ Recv(c) \/ Send(c))
  <2>1. UNCHANGED <<shm, sent>>
    BY <1>2 DEF Next, ParentStep, ChildStep, vars, EpollWait, Stop, AcceptFails, TurnAway,
                TakeSignals, Join, Joined, HandleTerm, Relay, RelayEnd, TakeNote, Deliver,
                Terminate, Start, CheckStop, ChildWait, Notify, Forward, Orphaned, TermBorn,
                TermChild, TermMissed, Connect, Leave, Reset
  <2>2. UNCHANGED unread \/ \E c \in Client : unread' = [unread EXCEPT ![c] = <<>>]
    BY <1>2 DEF Next, ParentStep, ChildStep, vars, EpollWait, Stop, AcceptFails, TurnAway,
                TakeSignals, Join, Joined, HandleTerm, Relay, RelayEnd, TakeNote, Deliver,
                Terminate, Start, CheckStop, ChildWait, Notify, Forward, Orphaned, TermBorn,
                TermChild, TermMissed, Connect, Leave, Reset
  <2>3. \A c \in Client : unread'[c] = unread[c] \/ unread'[c] = <<>>
    BY <1>0, <2>2 DEF TypeOK
  <2>4. \/ UNCHANGED cpc
        \/ \E c \in Client : \E p \in {"batch", "zombie", "epoll", "joined"} :
               cpc' = [cpc EXCEPT ![c] = p]
    BY <1>2 DEF Next, ParentStep, ChildStep, vars, EpollWait, Stop, AcceptFails, TurnAway,
                TakeSignals, Join, Joined, HandleTerm, Relay, RelayEnd, TakeNote, Deliver,
                Terminate, Start, CheckStop, ChildWait, Notify, Forward, Orphaned, TermBorn,
                TermChild, TermMissed, Connect, Leave, Reset
  <2>5. \A c \in Client : cpc'[c] = "notify" => cpc[c] = "notify"
    BY <1>0, <2>4 DEF TypeOK
  <2>6. /\ UNCHANGED <<user, user_count, idx>>
        /\ \A c \in Client : cpc'[c] # "none" <=> cpc[c] # "none"
    BY <1>2, TableFrame DEF Forked
  <2>7. \A c \in Client : \A n \in DOMAIN unread'[c] : unread'[c] = unread[c]
    BY <2>3
  <2>8. QED
    BY <1>0, <2>1, <2>5, <2>6, <2>7 DEF MemoryInv, Forked
<1>3. QED
  BY <1>1, <1>2

-----------------------------------------------------------------------------
(* The notifications.                                                      *)

LEMMA NoteFacts ==
    ASSUME TypeOK, NEW nt \in GoodNote
    PROVE  /\ nt \in Note /\ nt.idx \in Index /\ nt.msg \in Message
           /\ nt.msg[1] \in Client /\ nt.msg[2] \in Nat
           /\ Forked(nt.msg[1]) /\ nt.idx = idx[nt.msg[1]] /\ Current(nt) /\ nt.msg[2] <= sent
           /\ \A n \in DOMAIN unread[nt.msg[1]] : nt.msg[2] < unread[nt.msg[1]][n][2]
BY Messages DEF GoodNote, Note

\* What makes a notification good lasts: a fork uses a place that none names, the
\* memory takes a message that the client sent later, and nobody else's.
LEMMA NotesStayGood ==
    ASSUME IInv, [Next]_vars, NEW nt \in GoodNote
    PROVE  nt \in GoodNote'
<1> USE DEF loopVars, userVars, sigVars, childVars, clientVars, pipeVars, ParentOnly, ServerOnly
<1> DEFINE d == nt.msg[1]
<1>0. TypeOK /\ TableInv /\ MemoryInv
  BY DEF IInv
<1>1. /\ nt \in Note /\ nt.idx \in Index /\ nt.msg \in Message /\ d \in Client
      /\ nt.msg[2] \in Nat
      /\ Forked(d) /\ nt.idx = idx[d] /\ Current(nt) /\ nt.msg[2] <= sent
      /\ \A n \in DOMAIN unread[d] : nt.msg[2] < unread[d][n][2]
  BY <1>0, NoteFacts
<1> HIDE DEF d
<1>a. cpc'[d] # "none" /\ idx'[d] = idx[d]
  <2>1. CASE Fork
    BY <1>1, <2>1, ForkFacts DEF Forked
  <2>2. CASE ~ Fork
    BY <1>1, <2>2, TableFrame DEF Forked
  <2>3. QED
    BY <2>1, <2>2
<1>b. SUFFICES /\ shm'[nt.idx] = Empty
                  \/ (shm'[nt.idx][1] = d /\ shm'[nt.idx][2] >= nt.msg[2])
               /\ nt.msg[2] <= sent'
               /\ \A n \in DOMAIN unread'[d] : nt.msg[2] < unread'[d][n][2]
  BY <1>1, <1>a DEF GoodNote, Current, Forked, d
<1>c. shm[nt.idx] = Empty \/ (shm[nt.idx][1] = d /\ shm[nt.idx][2] >= nt.msg[2])
  BY <1>1 DEF Current, d
<1>2. ASSUME NEW c \in Client, Clear(c)
      PROVE  /\ shm'[nt.idx] = Empty
                \/ (shm'[nt.idx][1] = d /\ shm'[nt.idx][2] >= nt.msg[2])
             /\ UNCHANGED <<sent, unread>>
  <2>1. shm' = [shm EXCEPT ![idx[c]] = Empty] /\ UNCHANGED <<sent, unread>>
    BY <1>2 DEF Clear
  <2>2. shm'[nt.idx] = shm[nt.idx] \/ shm'[nt.idx] = Empty
    BY <1>0, <1>1, <2>1 DEF TypeOK
  <2>3. QED
    BY <1>c, <2>1, <2>2
<1>3. ASSUME NEW c \in Client, Recv(c)
      PROVE  /\ shm'[nt.idx] = Empty
                \/ (shm'[nt.idx][1] = d /\ shm'[nt.idx][2] >= nt.msg[2])
             /\ UNCHANGED sent
             /\ \A n \in DOMAIN unread'[d] : nt.msg[2] < unread'[d][n][2]
  <2>1. CASE unread[c] = <<>>
    <3>1. UNCHANGED <<shm, unread, sent>>
      BY <1>3, <2>1 DEF Recv
    <3>2. QED
      BY <1>1, <1>c, <3>1
  <2>2. CASE unread[c] # <<>>
    <3>1. /\ Head(unread[c]) \in Message /\ 1 \in DOMAIN unread[c]
          /\ Head(unread[c]) = unread[c][1]
          /\ \A n \in DOMAIN Tail(unread[c]) :
               n + 1 \in DOMAIN unread[c] /\ Tail(unread[c])[n] = unread[c][n + 1]
      BY <1>0, <2>2, TailFacts DEF TypeOK
    <3>2. /\ shm' = [shm EXCEPT ![idx[c]] = Head(unread[c])]
          /\ unread' = [unread EXCEPT ![c] = Tail(@)] /\ UNCHANGED sent
      BY <1>3, <2>2 DEF Recv
    <3>3. CASE c = d
      <4>1. shm'[nt.idx] = unread[d][1] /\ unread'[d] = Tail(unread[d])
        BY <1>0, <1>1, <3>1, <3>2, <3>3 DEF TypeOK
      <4>2. unread[d][1][1] = d /\ unread[d][1][2] \in Nat
        BY <1>0, <1>1, <3>1, <3>3, Messages DEF MemoryInv
      <4>3. unread[d][1][2] >= nt.msg[2]
        BY <1>1, <3>1, <3>3, <4>2
      <4>4. QED
        BY <1>1, <3>1, <3>2, <3>3, <4>1, <4>2, <4>3
    <3>4. CASE c # d
      <4>1. Forked(c)
        BY <1>3 DEF Recv, Forked
      <4>2. idx[c] # nt.idx
        BY <1>0, <1>1, <3>4, <4>1, IndexesApart
      <4>3. shm'[nt.idx] = shm[nt.idx] /\ unread'[d] = unread[d]
        BY <1>0, <1>1, <3>2, <3>4, <4>2 DEF TypeOK
      <4>4. QED
        BY <1>1, <1>c, <3>2, <4>3
    <3>5. QED
      BY <3>3, <3>4
  <2>3. QED
    BY <2>1, <2>2
<1>4. ASSUME NEW c \in Client, Send(c)
      PROVE  /\ UNCHANGED shm /\ nt.msg[2] <= sent'
             /\ \A n \in DOMAIN unread'[d] : nt.msg[2] < unread'[d][n][2]
  <2>1. /\ unread' = [unread EXCEPT ![c] = Append(@, <<c, sent + 1>>)] /\ sent' = sent + 1
        /\ UNCHANGED shm
    BY <1>4 DEF Send
  <2>2. sent \in Nat /\ nt.msg[2] < sent + 1 /\ <<c, sent + 1>> \in Message
    <3>1. sent \in Nat /\ sent + 1 \in 1 .. MaxSent
      BY <1>0, <1>4, BoundAssumption DEF TypeOK, Send
    <3>2. nt.msg[2] < sent + 1
      BY <1>1, <3>1
    <3>3. <<c, sent + 1>> \in Message
      BY <3>1 DEF Message
    <3>4. QED
      BY <3>1, <3>2, <3>3
  <2>3. CASE c = d
    <3>1. unread'[d] = Append(unread[d], <<c, sent + 1>>) /\ unread[d] \in Seq(Message)
      BY <1>0, <1>1, <2>1, <2>3 DEF TypeOK
    <3>2. \A n \in DOMAIN unread'[d] :
             \/ n \in DOMAIN unread[d] /\ unread'[d][n] = unread[d][n]
             \/ n \notin DOMAIN unread[d] /\ unread'[d][n] = <<c, sent + 1>>
                /\ n = Len(unread[d]) + 1
      BY <2>2, <3>1, AppendFacts
    <3>3. <<c, sent + 1>>[2] = sent + 1
      OBVIOUS
    <3>4. \A n \in DOMAIN unread'[d] : nt.msg[2] < unread'[d][n][2]
      BY <1>1, <2>2, <3>2, <3>3
    <3>5. QED
      BY <1>1, <2>1, <2>2, <3>4
  <2>4. CASE c # d
    <3>1. unread'[d] = unread[d]
      BY <1>0, <1>1, <2>1, <2>4 DEF TypeOK
    <3>2. QED
      BY <1>1, <2>1, <2>2, <3>1
  <2>5. QED
    BY <2>3, <2>4
<1>5. CASE ~ \E c \in Client : Clear(c) \/ Recv(c) \/ Send(c)
  <2>1. UNCHANGED <<shm, sent>>
    BY <1>5 DEF Next, ParentStep, ChildStep, vars, EpollWait, Stop, AcceptFails, TurnAway, Fork,
                TakeSignals, Join, Joined, HandleTerm, Relay, RelayEnd, TakeNote, Deliver,
                Terminate, Start, CheckStop, ChildWait, Notify, Forward, Orphaned, TermBorn,
                TermChild, TermMissed, Connect, Leave, Reset
  <2>2. UNCHANGED unread \/ \E c \in Client : unread' = [unread EXCEPT ![c] = <<>>]
    BY <1>5 DEF Next, ParentStep, ChildStep, vars, EpollWait, Stop, AcceptFails, TurnAway, Fork,
                TakeSignals, Join, Joined, HandleTerm, Relay, RelayEnd, TakeNote, Deliver,
                Terminate, Start, CheckStop, ChildWait, Notify, Forward, Orphaned, TermBorn,
                TermChild, TermMissed, Connect, Leave, Reset
  <2>3. unread'[d] = unread[d] \/ unread'[d] = <<>>
    BY <1>0, <1>1, <2>2 DEF TypeOK
  <2>4. \A n \in DOMAIN unread'[d] : unread'[d] = unread[d]
    BY <2>3
  <2>5. QED
    BY <1>1, <1>c, <2>1, <2>4
<1>6. QED
  BY <1>1, <1>c, <1>2, <1>3, <1>4, <1>5

\* The steps that move notifications.
LEMMA NotesStep ==
    ASSUME IInv, [Next]_vars
    PROVE  NotesInv'
<1> USE DEF loopVars, userVars, sigVars, childVars, clientVars, pipeVars, ParentOnly, ServerOnly
<1>0. TypeOK /\ TableInv /\ MemoryInv /\ NotesInv
  BY DEF IInv
<1>a. \A nt \in GoodNote : nt \in GoodNote'
  BY NotesStayGood
<1>b. \A c \in Client : cpc'[c] = "none" => cpc[c] = "none"
  <2>1. CASE Fork
    BY <2>1, ForkFacts DEF Forked
  <2>2. CASE ~ Fork
    BY <2>2, TableFrame DEF Forked
  <2>3. QED
    BY <2>1, <2>2
<1>c. ASSUME NEW c \in Client, NEW n \in DOMAIN toParent[c]
      PROVE  toParent[c][n] \in GoodNote' /\ toParent[c][n].msg[1] = c
  BY <1>0, <1>a DEF NotesInv
<1>d. ASSUME NEW c \in Client, NEW n \in DOMAIN toChild[c]
      PROVE  toChild[c][n] \in GoodNote' /\ toChild[c][n].msg[1] # c
  BY <1>0, <1>a DEF NotesInv
<1>e. \A c \in Client : cpc'[c] = "none" => toParent[c] = <<>> /\ toChild[c] = <<>>
  BY <1>0, <1>b DEF NotesInv, Forked
<1>f. ppc = "relay" => note \in GoodNote'
  BY <1>0, <1>a DEF NotesInv
<1>1. ASSUME NEW c \in Client, TakeNote(c)
      PROVE  NotesInv'
  <2>1. CASE toParent[c] = <<>>
    <3>1. UNCHANGED <<ppc, note, toParent, toChild>>
      BY <1>1, <2>1 DEF TakeNote
    <3>2. QED
      BY <1>c, <1>d, <1>e, <1>f, <3>1 DEF NotesInv, Forked
  <2>2. CASE toParent[c] # <<>>
    <3>1. /\ toParent[c] \in Seq(Note) /\ 1 \in DOMAIN toParent[c]
          /\ Head(toParent[c]) = toParent[c][1]
          /\ \A n \in DOMAIN Tail(toParent[c]) :
               n + 1 \in DOMAIN toParent[c] /\ Tail(toParent[c])[n] = toParent[c][n + 1]
      BY <1>0, <2>2, TailFacts DEF TypeOK
    <3>2. /\ note' = toParent[c][1] /\ toParent' = [toParent EXCEPT ![c] = Tail(@)]
          /\ UNCHANGED toChild
      BY <1>1, <2>2, <3>1 DEF TakeNote
    <3>3. note' \in GoodNote'
      BY <1>c, <3>1, <3>2
    <3>4. ASSUME NEW d \in Client, NEW n \in DOMAIN toParent'[d]
          PROVE  toParent'[d][n] \in GoodNote' /\ toParent'[d][n].msg[1] = d
      <4>1. CASE d = c
        BY <1>0, <1>c, <3>1, <3>2, <3>4, <4>1 DEF TypeOK
      <4>2. CASE d # c
        BY <1>0, <1>c, <3>2, <3>4, <4>2 DEF TypeOK
      <4>3. QED
        BY <4>1, <4>2
    <3>5. \A d \in Client : cpc'[d] = "none" => toParent'[d] = <<>>
      BY <1>0, <1>e, <2>2, <3>2 DEF TypeOK
    <3>6. QED
      BY <1>d, <1>e, <3>2, <3>3, <3>4, <3>5 DEF NotesInv, Forked
  <2>3. QED
    BY <2>1, <2>2
<1>2. CASE Relay
  <2>1. PICK k \in Others : toChild' = [toChild EXCEPT ![user[k]] = Append(@, note)]
    BY <1>2 DEF Relay
  <2>2. /\ ppc = "relay" /\ note \in Note /\ note.msg[1] = from
        /\ UNCHANGED <<ppc, note, toParent>>
    BY <1>2 DEF Relay, IInv, ControlInv
  <2>3. PICK c \in Client : c = user[k]
    <3>1. k \in 0 .. user_count - 1
      BY <1>0, <2>1 DEF Others, TypeOK
    <3>2. QED
      BY <1>0, <3>1 DEF TableInv
  <2>4. c # from /\ cpc[c] # "none"
    BY <2>1, <2>3 DEF Others, IsSender, Runs
  <2>5. /\ toChild'[c] = Append(toChild[c], note) /\ toChild[c] \in Seq(Note)
        /\ \A d \in Client \ {c} : toChild'[d] = toChild[d]
    BY <1>0, <2>1, <2>3 DEF TypeOK
  <2>6. \A n \in DOMAIN toChild'[c] :
           \/ n \in DOMAIN toChild[c] /\ toChild'[c][n] = toChild[c][n]
           \/ n \notin DOMAIN toChild[c] /\ toChild'[c][n] = note /\ n = Len(toChild[c]) + 1
    BY <2>2, <2>5, AppendFacts
  <2>7. ASSUME NEW d \in Client, NEW n \in DOMAIN toChild'[d]
        PROVE  toChild'[d][n] \in GoodNote' /\ toChild'[d][n].msg[1] # d
    <3>1. CASE d = c
      BY <1>d, <1>f, <2>2, <2>4, <2>6, <2>7, <3>1
    <3>2. CASE d # c
      BY <1>d, <2>5, <2>7, <3>2
    <3>3. QED
      BY <3>1, <3>2
  <2>8. \A d \in Client : cpc'[d] = "none" => toChild'[d] = <<>>
    BY <1>b, <1>e, <2>4, <2>5
  <2>9. QED
    BY <1>c, <1>e, <1>f, <2>2, <2>7, <2>8 DEF NotesInv, Forked
<1>3. ASSUME NEW c \in Client, Notify(c)
      PROVE  NotesInv'
  <2> DEFINE nt == [idx |-> idx[c], msg |-> shm[idx[c]]]
  <2>1. cpc[c] = "notify" /\ UNCHANGED <<ppc, note, toChild, idx, shm, unread, sent>>
        /\ (UNCHANGED toParent \/ toParent' = [toParent EXCEPT ![c] = Append(@, nt)])
    BY <1>3 DEF Notify, Number
  <2>2. /\ Forked(c) /\ idx[c] \in Index /\ idx[c] \in 0 .. user_count - 1
        /\ user[idx[c]] = c
    BY <1>0, <2>1, OwnPart DEF Forked
  <2>3. /\ shm[idx[c]] \in Message /\ shm[idx[c]][1] = c /\ shm[idx[c]] # Empty
        /\ shm[idx[c]][2] \in Nat /\ shm[idx[c]][2] <= sent
        /\ \A n \in DOMAIN unread[c] : shm[idx[c]][2] < unread[c][n][2]
    <3>1. shm[idx[c]] # Empty /\ shm[idx[c]] \in Message
      BY <1>0, <2>1, <2>2 DEF MemoryInv, TypeOK
    <3>2. QED
      BY <1>0, <2>2, <3>1, Messages DEF MemoryInv
  <2>4. nt \in Note /\ nt.idx = idx[c] /\ nt.msg = shm[idx[c]]
    BY <2>2, <2>3, Notes
  <2> HIDE DEF nt
  <2>5. nt \in GoodNote
    BY <2>2, <2>3, <2>4 DEF GoodNote, Current
  <2>6. nt \in GoodNote' /\ nt.msg[1] = c
    BY <1>a, <2>3, <2>4, <2>5
  <2>7. CASE UNCHANGED toParent
    BY <1>c, <1>d, <1>e, <1>f, <2>1, <2>7 DEF NotesInv, Forked
  <2>8. CASE toParent' = [toParent EXCEPT ![c] = Append(@, nt)]
    <3>1. /\ toParent'[c] = Append(toParent[c], nt) /\ toParent[c] \in Seq(Note)
          /\ \A d \in Client \ {c} : toParent'[d] = toParent[d]
      BY <1>0, <2>8 DEF TypeOK
    <3>2. \A n \in DOMAIN toParent'[c] :
             \/ n \in DOMAIN toParent[c] /\ toParent'[c][n] = toParent[c][n]
             \/ n \notin DOMAIN toParent[c] /\ toParent'[c][n] = nt /\ n = Len(toParent[c]) + 1
      BY <2>4, <3>1, AppendFacts
    <3>3. ASSUME NEW d \in Client, NEW n \in DOMAIN toParent'[d]
          PROVE  toParent'[d][n] \in GoodNote' /\ toParent'[d][n].msg[1] = d
      <4>1. CASE d = c
        BY <1>c, <2>6, <3>2, <3>3, <4>1
      <4>2. CASE d # c
        BY <1>c, <3>1, <3>3, <4>2
      <4>3. QED
        BY <4>1, <4>2
    <3>4. \A d \in Client : cpc'[d] = "none" => toParent'[d] = <<>>
      BY <1>b, <1>e, <2>1, <3>1
    <3>5. QED
      BY <1>d, <1>e, <1>f, <2>1, <3>3, <3>4 DEF NotesInv, Forked
  <2>9. QED
    BY <2>1, <2>7, <2>8
<1>4. ASSUME NEW c \in Client, Forward(c) \/ CheckStop(c)
      PROVE  NotesInv'
  <2>1. UNCHANGED <<ppc, note, toParent>>
    BY <1>4 DEF Forward, CheckStop
  <2>2. \/ UNCHANGED toChild
        \/ toChild' = [toChild EXCEPT ![c] = <<>>]
        \/ toChild[c] # <<>> /\ toChild' = [toChild EXCEPT ![c] = Tail(@)]
    BY <1>4 DEF Forward, CheckStop
  <2>3. toChild[c] # <<>> => \A n \in DOMAIN Tail(toChild[c]) :
               n + 1 \in DOMAIN toChild[c] /\ Tail(toChild[c])[n] = toChild[c][n + 1]
    BY <1>0, TailFacts DEF TypeOK
  <2>4. /\ \A d \in Client \ {c} : toChild'[d] = toChild[d]
        /\ toChild'[c] = toChild[c] \/ toChild'[c] = <<>>
            \/ (toChild[c] # <<>> /\ toChild'[c] = Tail(toChild[c]))
    BY <1>0, <2>2 DEF TypeOK
  <2>5. ASSUME NEW d \in Client, NEW n \in DOMAIN toChild'[d]
        PROVE  toChild'[d][n] \in GoodNote' /\ toChild'[d][n].msg[1] # d
    <3>1. CASE d = c
      <4>1. PICK m \in DOMAIN toChild[c] : toChild'[c][n] = toChild[c][m]
        <5>1. n \in DOMAIN toChild'[c]
          BY <2>5, <3>1
        <5>2. CASE toChild'[c] = toChild[c]
          BY <5>1, <5>2
        <5>3. CASE toChild'[c] = <<>>
          BY <5>1, <5>3
        <5>4. CASE toChild[c] # <<>> /\ toChild'[c] = Tail(toChild[c])
          BY <2>3, <5>1, <5>4
        <5>5. QED
          BY <2>4, <5>2, <5>3, <5>4
      <4>2. QED
        BY <1>d, <3>1, <4>1
    <3>2. CASE d # c
      BY <1>d, <2>4, <2>5, <3>2
    <3>3. QED
      BY <3>1, <3>2
  <2>6. \A d \in Client : cpc'[d] = "none" => toChild'[d] = <<>>
    BY <1>e, <2>4
  <2>7. QED
    BY <1>c, <1>e, <1>f, <2>1, <2>5, <2>6 DEF NotesInv, Forked
<1>5. CASE ~ (Relay \/ \E c \in Client : TakeNote(c) \/ Notify(c) \/ Forward(c) \/ CheckStop(c))
  <2>1. UNCHANGED <<toParent, toChild>>
    BY <1>5 DEF Next, ParentStep, ChildStep, vars, EpollWait, Stop, AcceptFails, TurnAway, Fork,
                TakeSignals, Join, Joined, HandleTerm, RelayEnd, Deliver, Terminate, Start,
                ChildWait, Clear, Recv, Orphaned, TermBorn, TermChild, TermMissed,
                Connect, Send, Leave, Reset
  <2>2. ppc' = "relay" => ppc = "relay" /\ note' = note
    BY <1>5 DEF Next, ParentStep, ChildStep, vars, EpollWait, Stop, AcceptFails, TurnAway, Fork,
                StaysInBatch, NextSignal,
                TakeSignals, Join, Joined, HandleTerm, RelayEnd, Deliver, Terminate, Start,
                ChildWait, Clear, Recv, Orphaned, TermBorn, TermChild, TermMissed,
                Connect, Send, Leave, Reset
  <2>3. QED
    BY <1>c, <1>d, <1>e, <1>f, <2>1, <2>2 DEF NotesInv, Forked
<1>6. QED
  BY <1>1, <1>2, <1>3, <1>4, <1>5

-----------------------------------------------------------------------------
(* The end of the server, and of the children.                             *)

LEMMA StopStep ==
    ASSUME IInv, [Next]_vars
    PROVE  StopInv'
<1> USE DEF loopVars, userVars, sigVars, childVars, clientVars, pipeVars, ParentOnly, ServerOnly,
            StaysInBatch
<1>0. TypeOK /\ TableInv /\ StopInv
  BY DEF IInv
<1>1. CASE Fork
  <2>1. user_count' = user_count + 1 /\ UNCHANGED stop_server /\ "lfd" \in reported
        /\ "lfd" \notin reported'
    BY <1>1 DEF Fork, Handle
  <2>2. user_count \in Nat
    BY <1>0 DEF TypeOK
  <2>3. QED
    BY <1>0, <2>1, <2>2 DEF StopInv
<1>2. CASE Joined \/ HandleTerm
  <2>1. UNCHANGED <<user_count, reported>> /\ (stop_server' => stop_server \/ user_count = 0)
    BY <1>2 DEF Joined, HandleTerm, NobodyHere
  <2>2. QED
    BY <1>0, <2>1 DEF StopInv
<1>3. CASE EpollWait
  BY <1>0, <1>3 DEF EpollWait, StopInv
<1>4. ASSUME NEW c \in Client, Join(c)
      PROVE  StopInv'
  <2>1. UNCHANGED <<reported, user_count, stop_server>>
    BY <1>0, <1>4, JoinRemovesNothing DEF Join
  <2>2. QED
    BY <1>0, <2>1 DEF StopInv
<1>5. CASE ~ (Fork \/ Joined \/ HandleTerm \/ EpollWait \/ \E c \in Client : Join(c))
  <2>1. UNCHANGED <<user_count, stop_server>> /\ reported' \subseteq reported
    BY <1>5 DEF Next, ParentStep, ChildStep, vars, Handle, Stop, AcceptFails, TurnAway,
                TakeSignals, Relay, RelayEnd, TakeNote, Deliver, Terminate, Start,
                CheckStop, ChildWait, Clear, Recv, Notify, Forward, Orphaned, TermBorn,
                TermChild, TermMissed, Connect, Send, Leave, Reset
  <2>2. QED
    BY <1>0, <2>1 DEF StopInv
<1>6. QED
  BY <1>1, <1>2, <1>3, <1>4, <1>5

\* The signal of an exited child, wherever it is.
Noticed ==
    \/ "CHLD" \in pending
    \/ ("sig" \in armed \cup reported /\ \E n \in DOMAIN sigpipe : sigpipe[n] = "CHLD")
    \/ \E n \in DOMAIN signals : signals[n] = "CHLD"

LEMMA ZombieStep ==
    ASSUME IInv, [Next]_vars
    PROVE  ZombieNoticed'
<1> USE DEF loopVars, userVars, sigVars, childVars, clientVars, pipeVars, ParentOnly, ServerOnly,
            StaysInBatch
<1>0. TypeOK /\ ControlInv /\ TableInv /\ ZombieNoticed
  BY DEF IInv
<1>a. SUFFICES ASSUME ppc' # "stopped", NEW z \in Client, cpc'[z] = "zombie"
               PROVE  Noticed'
  BY DEF ZombieNoticed, Noticed
<1>b. ASSUME ppc # "stopped", cpc[z] = "zombie"
      PROVE  Noticed
  BY <1>0, <1>b DEF ZombieNoticed, Noticed
<1>1. ASSUME NEW c \in Client, CheckStop(c)
      PROVE  Noticed'
  <2>1. CASE stop_child[c]
    BY <1>1, <2>1 DEF CheckStop, Noticed
  <2>2. CASE ~ stop_child[c]
    <3>1. /\ cpc' = [cpc EXCEPT ![c] = "epoll"]
          /\ UNCHANGED <<ppc, pending, armed, reported, sigpipe, signals>>
      BY <1>1, <2>2 DEF CheckStop
    <3>2. cpc[z] = "zombie"
      BY <1>0, <1>a, <3>1 DEF TypeOK
    <3>3. QED
      BY <1>a, <1>b, <3>1, <3>2 DEF Noticed
  <2>3. QED
    BY <2>1, <2>2
<1>2. ASSUME ~ \E c \in Client : CheckStop(c)
      PROVE  cpc[z] = "zombie" /\ ppc # "stopped"
  <2>1. cpc[z] = "zombie"
    <3>1. CASE Fork
      <4>1. PICK c \in Client : cpc'[c] = "born" /\ \A d \in Client \ {c} : cpc'[d] = cpc[d]
        BY <3>1, ForkFacts
      <4>2. QED
        BY <1>a, <4>1
    <3>2. CASE ~ Fork
      <4>1. \/ UNCHANGED cpc
            \/ \E c \in Client : \E p \in {"batch", "recv", "notify", "epoll", "joined"} :
                  cpc' = [cpc EXCEPT ![c] = p]
        BY <1>2, <3>2
           DEF Next, ParentStep, ChildStep, vars, EpollWait, Stop, AcceptFails, TurnAway,
               TakeSignals, Join, Joined, HandleTerm, Relay, RelayEnd, TakeNote, Deliver,
               Terminate, Start, ChildWait, Clear, Recv, Notify, Forward, Orphaned, TermBorn,
               TermChild, TermMissed, Connect, Send, Leave, Reset
      <4>2. QED
        BY <1>0, <1>a, <4>1 DEF TypeOK
    <3>3. QED
      BY <3>1, <3>2
  <2>2. ppc = "stopped" => ppc' = "stopped"
    BY DEF Next, ParentStep, ChildStep, vars, EpollWait, Stop, AcceptFails, TurnAway, Fork, Handle,
           Signal, TakeSignals, Join, Joined, HandleTerm, Relay, RelayEnd, TakeNote, Deliver,
           Terminate, Start, CheckStop, ChildWait, Clear, Recv, Notify, Forward, Orphaned,
           TermBorn, TermChild, TermMissed, Connect, Send, Leave, Reset
  <2>3. QED
    BY <1>a, <2>1, <2>2
<1>c. ASSUME ~ \E c \in Client : CheckStop(c)
      PROVE  Noticed
  BY <1>b, <1>2, <1>c
<1>3. CASE EpollWait
  <2>1. Noticed
    BY <1>3, <1>c DEF EpollWait, CheckStop
  <2>2. (\E n \in DOMAIN sigpipe : sigpipe[n] = "CHLD") => sigpipe # <<>>
    OBVIOUS
  <2>3. /\ UNCHANGED <<pending, sigpipe, signals>> /\ reported = {}
        /\ "sig" \in armed /\ sigpipe # <<>> => "sig" \in reported'
    BY <1>3 DEF EpollWait, Readable
  <2>4. QED
    BY <2>1, <2>2, <2>3 DEF Noticed
<1>4. CASE TakeSignals
  <2>1. UNCHANGED <<cpc, pending>> /\ signals' = sigpipe /\ ppc = "batch"
    BY <1>4 DEF TakeSignals, Handle
  <2>2. signals = <<>>
    BY <1>0, <2>1 DEF ControlInv
  <2>3. Noticed
    BY <1>a, <1>b, <2>1
  <2>4. QED
    BY <2>1, <2>2, <2>3 DEF Noticed
<1>5. CASE Joined
  BY <1>a, <1>5 DEF Joined, NoMore
<1>6. CASE HandleTerm
  <2>1. /\ UNCHANGED <<cpc, pending, armed, reported, sigpipe>> /\ ppc = "signals"
        /\ signals' = Tail(signals) /\ Head(signals) = "TERM"
    BY <1>6 DEF HandleTerm, Signal, NextSignal
  <2>2. signals # <<>> /\ signals \in Seq({"CHLD", "TERM"})
    BY <1>0, <2>1 DEF ControlInv, TypeOK
  <2>3. Noticed
    BY <1>a, <1>b, <2>1
  <2>4. \A n \in DOMAIN signals :
           n = 1 \/ (n - 1 \in DOMAIN Tail(signals) /\ Tail(signals)[n - 1] = signals[n])
    BY <2>2, TailFacts
  <2>5. signals[1] # "CHLD"
    BY <2>1, <2>2, TailFacts
  <2>6. QED
    BY <2>1, <2>3, <2>4, <2>5 DEF Noticed
<1>7. ASSUME NEW s \in {"CHLD", "TERM"}, Deliver(s)
      PROVE  Noticed'
  <2>1. /\ UNCHANGED <<cpc, ppc, signals, reported>>
        /\ pending' = pending \ {s} /\ sigpipe' = Append(sigpipe, s)
        /\ armed' = armed \cup {"sig"}
    BY <1>7 DEF Deliver
  <2>2. Noticed
    BY <1>a, <1>b, <2>1
  <2>3. sigpipe \in Seq({"CHLD", "TERM"})
    BY <1>0 DEF TypeOK
  <2>4. /\ \A n \in DOMAIN sigpipe : n \in DOMAIN sigpipe' /\ sigpipe'[n] = sigpipe[n]
        /\ Len(sigpipe) + 1 \in DOMAIN sigpipe' /\ sigpipe'[Len(sigpipe) + 1] = s
    BY <2>1, <2>3, AppendFacts
  <2>5. QED
    BY <2>1, <2>2, <2>4 DEF Noticed
<1>8. ASSUME NEW c \in Client, TermBorn(c)
      PROVE  Noticed'
  <2>1. /\ UNCHANGED <<cpc, ppc, signals, reported, pending>>
        /\ \/ UNCHANGED <<sigpipe, armed>>
           \/ sigpipe' = Append(sigpipe, "TERM") /\ armed' = armed \cup {"sig"}
    BY <1>8 DEF TermBorn
  <2>2. Noticed
    BY <1>a, <1>b, <2>1
  <2>3. sigpipe \in Seq({"CHLD", "TERM"})
    BY <1>0 DEF TypeOK
  <2>4. \A n \in DOMAIN sigpipe :
           /\ n \in DOMAIN Append(sigpipe, "TERM") /\ Append(sigpipe, "TERM")[n] = sigpipe[n]
    BY <2>3, AppendFacts
  <2>5. QED
    BY <2>1, <2>2, <2>4 DEF Noticed
<1>9. ASSUME NEW c \in Client, Join(c)
      PROVE  Noticed'
  <2>1. UNCHANGED <<reported, armed, pending, sigpipe, signals, ppc>>
    BY <1>0, <1>9, JoinRemovesNothing DEF Join
  <2>2. cpc[z] = "zombie"
    BY <1>0, <1>a, <1>9 DEF Join, TypeOK
  <2>3. QED
    BY <1>a, <1>b, <2>1, <2>2 DEF Noticed
<1>10. CASE ~ (\/ EpollWait \/ TakeSignals \/ Joined \/ HandleTerm
               \/ Deliver("CHLD") \/ Deliver("TERM")
               \/ \E c \in Client : CheckStop(c) \/ TermBorn(c) \/ Join(c))
  <2>1. UNCHANGED <<signals, sigpipe>> /\ pending \subseteq pending' /\ armed \subseteq armed'
        /\ (UNCHANGED reported
            \/ (\E s \in {"lfd"} \cup Client : reported' = reported \ {s}))
    BY <1>10 DEF Next, ParentStep, ChildStep, vars, Stop, AcceptFails, TurnAway, Fork, Handle,
           Relay, RelayEnd, TakeNote, Terminate, Start, ChildWait, Clear, Recv,
           Notify, Forward, Orphaned, TermChild, TermMissed, Connect, Send, Leave, Reset
  <2>2. "sig" \in reported => "sig" \in reported'
    BY <2>1, SourcesApart
  <2>3. QED
    BY <1>10, <1>c, <2>1, <2>2 DEF Noticed
<1>11. QED
  BY <1>1, <1>3, <1>4, <1>5, <1>6, <1>7, <1>8, <1>9, <1>10

-----------------------------------------------------------------------------
(* The theorems.                                                           *)

\* The inductive invariant holds in every state of every behaviour.
THEOREM Inductive == Spec => []IInv
<1>1. Init => IInv
  <2> SUFFICES ASSUME Init PROVE IInv
    OBVIOUS
  <2>1. TypeOK
    BY TypeInit
  <2>2. ControlInv
    BY DEF Init, ControlInv
  <2>3. TableInv
    BY DEF Init, TableInv, Forked
  <2>4. BacklogInv
    BY DEF Init, BacklogInv, Forked
  <2>5. MemoryInv
    BY DEF Init, MemoryInv
  <2>6. NotesInv
    BY DEF Init, NotesInv
  <2>7. StopInv /\ ZombieNoticed
    BY DEF Init, StopInv, ZombieNoticed
  <2>8. QED
    BY <2>1, <2>2, <2>3, <2>4, <2>5, <2>6, <2>7 DEF IInv
<1>2. IInv /\ [Next]_vars => IInv'
  <2> SUFFICES ASSUME IInv, [Next]_vars PROVE IInv'
    OBVIOUS
  <2>1. QED
    BY TypeStep, ControlStep, TableStep, BacklogStep, MemoryStep, NotesStep, StopStep, ZombieStep
       DEF IInv
<1>3. QED
  BY <1>1, <1>2, PTL DEF Spec

\* Every variable keeps its type: no index of user[] or of the memory is out of
\* range, and no empty sequence is read from.
THEOREM TypeCorrect == Spec => []TypeOK
<1>1. IInv => TypeOK
  BY DEF IInv
<1>2. QED
  BY <1>1, Inductive, PTL

\* The parent finds every running child under the index that the child has of
\* itself (line 299 and lines 311-314), however many have exited.
THEOREM IndexesCorrect == Spec => []IndexesAgree
<1>1. IInv => IndexesAgree
  BY DEF IInv, TableInv, IndexesAgree, Forked, Runs
<1>2. QED
  BY <1>1, Inductive, PTL

\* The loop of lines 404-412 tells no child of what its own client has sent.
THEOREM SenderSkipped == Spec => []NotToldOwn
<1>1. ASSUME IInv
      PROVE  NotToldOwn
  <2> SUFFICES ASSUME NEW c \in Client, NEW n \in DOMAIN toChild[c]
               PROVE  toChild[c][n].idx # idx[c] /\ toChild[c][n].msg[1] # c
    BY DEF NotToldOwn
  <2>1. PICK nt \in GoodNote : nt = toChild[c][n] /\ nt.msg[1] # c
    BY <1>1 DEF IInv, NotesInv
  <2>2. nt.msg[1] \in Client /\ Forked(nt.msg[1]) /\ nt.idx = idx[nt.msg[1]]
    BY <1>1, NoteFacts DEF IInv
  <2>3. Forked(c)
    BY <1>1 DEF IInv, NotesInv
  <2>4. idx[nt.msg[1]] # idx[c]
    BY <1>1, <2>1, <2>2, <2>3, IndexesApart DEF IInv
  <2>5. QED
    BY <2>1, <2>2, <2>4
<1>2. QED
  BY <1>1, Inductive, PTL

\* What a child reads for a notification is the message that it stands for, a
\* later one of the same client, or nothing.
THEOREM MemoryCurrent == Spec => []NeverOlder
<1>1. IInv => NeverOlder
  BY DEF IInv, NotesInv, GoodNote, NeverOlder
<1>2. QED
  BY <1>1, Inductive, PTL

\* No exited child is forgotten: SIGCHLD is pending, in the pipe or being handled.
THEOREM ZombiesNoticed == Spec => []ZombieNoticed
<1>1. IInv => ZombieNoticed
  BY DEF IInv
<1>2. QED
  BY <1>1, Inductive, PTL

\* A server that has stopped leaves one running child at most.
THEOREM AtMostOneLeft == Spec => []LeavesAtMostOne
<1>1. ASSUME IInv
      PROVE  LeavesAtMostOne
  <2> SUFFICES ASSUME ppc = "stopped", NEW c \in Client, NEW d \in Client, Runs(c), Runs(d)
               PROVE  c = d
    BY DEF LeavesAtMostOne
  <2>1. user_count <= 1
    BY <1>1 DEF IInv, ControlInv, StopInv
  <2>2. Forked(c) /\ Forked(d)
    BY DEF Forked, Runs
  <2>3. idx[c] \in Nat /\ idx[d] \in Nat /\ idx[c] < user_count /\ idx[d] < user_count
        /\ user_count \in Nat
    BY <1>1, <2>2 DEF IInv, TypeOK, TableInv, Index
  <2>4. idx[c] = idx[d]
    BY <2>1, <2>3
  <2>5. QED
    BY <1>1, <2>2, <2>4, IndexesApart DEF IInv
<1>2. QED
  BY <1>1, Inductive, PTL

\* An entry of user[] that is in use stays what it is.
EntriesStay ==
    [][/\ user_count <= user_count'
       /\ \A k \in 0 .. user_count - 1 : user'[k] = user[k]]_vars

\* The places of users who have left are not used again: since what line 313
\* registers for a child is above USER_LIMIT, lines 341-351 remove nobody.
THEOREM NobodyRemoved == Spec => EntriesStay
<1>1. ASSUME IInv, [Next]_vars
      PROVE  /\ user_count <= user_count'
             /\ \A k \in 0 .. user_count - 1 : user'[k] = user[k]
  <2>1. TypeOK
    BY <1>1 DEF IInv
  <2>2. CASE Fork
    <3>1. PICK c \in Client :
            user' = [user EXCEPT ![user_count] = c] /\ user_count' = user_count + 1
      BY <1>1, <2>2, ForkFacts
    <3>2. QED
      BY <2>1, <3>1 DEF TypeOK, Index
  <2>3. CASE ~ Fork
    BY <1>1, <2>1, <2>3, TableFrame DEF TypeOK
  <2>4. QED
    BY <2>2, <2>3
<1>2. QED
  BY <1>1, Inductive, PTL DEF Spec, EntriesStay

=============================================================================
