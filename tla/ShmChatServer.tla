------------------------------ MODULE ShmChatServer ------------------------------
(***************************************************************************)
(* The chat room server of server_shm.cpp.  The parent accepts clients and *)
(* forks a child for each.  A child receives what its client sends into    *)
(* its part of the shared memory and sends the number of that part to the  *)
(* parent, which passes it on to the other children; these send the        *)
(* content to their clients.  All waiting is edge-triggered, and, since    *)
(* set_fd_nonblock() calls fcntl() without F_SETFL, all descriptors block. *)
(*                                                                         *)
(* What is abstracted: the pid of a child is its client; a message is one  *)
(* chunk of a client's stream, as one recv() returns it, and is copied     *)
(* into the shared memory, or out of it, in one step.  In the code another *)
(* child may send while the memory is being cleared or filled: each byte   *)
(* goes through the steps of the model, but those that are sent may be     *)
(* partly of one message of the client, partly of its next or cleared.     *)
(* Clients read what they are sent; accept() meets no error but the lack   *)
(* of descriptors, and SIGINT is SIGTERM.                                  *)
(***************************************************************************)
EXTENDS Integers, Sequences

CONSTANTS
    UserLimit,   \* USER_LIMIT
    FirstFree,   \* the lowest free descriptor of the parent at line 247
    Client,      \* the clients, each of which connects at most once
    Nobody,      \* an entry of user[] that has not been used
    MaxSent,     \* bound: chunks that clients send
    MaxUpset,    \* bound: failures, departures of clients, SIGTERMs
    MaxSignals,  \* bound: signals in sig_pipefd when a child sends one
    PipeRoom     \* notifications that a socket pair can hold, each way

ASSUME UserLimitAssumption == UserLimit \in Nat \ {0}
\* In use are 0, 1, 2, lfd, epfd and the two of sig_pipefd; USER_LIMIT is 5.
ASSUME FirstFreeAssumption == FirstFree \in Nat /\ FirstFree > UserLimit
ASSUME ClientAssumption == Client \cap {Nobody, "lfd", "sig"} = {}
ASSUME BoundAssumption == MaxSent \in Nat /\ MaxUpset \in Nat /\ MaxSignals \in Nat
                         /\ PipeRoom \in Nat \ {0}

Index == 0 .. UserLimit     \* user[] has one entry more than there are users
Sources == {"lfd", "sig"} \cup Client     \* a client: the pipe of its child
Message == Client \X (1 .. MaxSent)       \* who sent it, the how-manieth chunk
Empty == <<>>
Note == [idx : Index, msg : Message]      \* msg: history, what idx stands for

VARIABLES
    \* the parent
    ppc,          \* "batch", "signals" (line 333), "relay" (line 404), "stopped"
    reported,     \* the sources of this batch that are still to be handled
    armed,        \* the sources with an edge that epoll has not reported
    signals,      \* signal[]: what is still to be handled of it
    stop_server, terminate,
    j, from, note,             \* line 404: the loop, sockfd, idex
    user, user_count, sub_process,
    pending,      \* signals that are pending for the parent
    sigpipe,
    \* the children
    cpc,          \* "none", "born", "batch", "epoll", "recv", "notify", "zombie", "joined"
    idx, stop_child,
    creported, carmed,         \* as above, of {"conn", "pipe"}
    term,         \* SIGTERM is pending for the child
    shm,
    \* the pipes and the clients
    toParent, toChild,
    backlog, peer, err, unread,
    sent, upset                \* for the bounds

loopVars == <<ppc, reported, signals, stop_server, terminate, j, from, note>>
userVars == <<user, user_count, sub_process>>
sigVars == <<pending, sigpipe>>
childVars == <<cpc, idx, stop_child, creported, term>>
clientVars == <<backlog, peer, err, unread, sent, upset>>
pipeVars == <<toParent, toChild>>
vars == <<loopVars, armed, userVars, sigVars, childVars, carmed, shm, pipeVars, clientVars>>

Init ==
    /\ ppc = "batch" /\ reported = {} /\ armed = {} /\ signals = <<>>
    /\ stop_server = FALSE /\ terminate = FALSE
    /\ j = 0 /\ from = Nobody /\ note = Empty
    /\ user = [k \in Index |-> Nobody] /\ user_count = 0
    /\ sub_process = [c \in Client |-> -1]
    /\ pending = {} /\ sigpipe = <<>>
    /\ cpc = [c \in Client |-> "none"] /\ idx = [c \in Client |-> 0]
    /\ stop_child = [c \in Client |-> FALSE]
    /\ creported = [c \in Client |-> {}] /\ carmed = [c \in Client |-> {}]
    /\ term = [c \in Client |-> FALSE]
    /\ shm = [k \in Index |-> Empty]
    /\ toParent = [c \in Client |-> <<>>] /\ toChild = [c \in Client |-> <<>>]
    /\ backlog = <<>> /\ peer = [c \in Client |-> "none"]
    /\ err = [c \in Client |-> FALSE] /\ unread = [c \in Client |-> <<>>]
    /\ sent = 0 /\ upset = 0

Runs(c) == cpc[c] \in {"born", "batch", "epoll", "recv", "notify"}
Left(c) == peer[c] \in {"fin", "rst"}
Users == {user[k] : k \in 0 .. user_count - 1}

-----------------------------------------------------------------------------
(* The parent: epoll_wait, and the connections.                            *)

Readable(s) ==
    \/ s = "lfd" /\ backlog # <<>>
    \/ s = "sig" /\ sigpipe # <<>>
    \/ s \in Client /\ (toParent[s] # <<>> \/ cpc[s] \in {"zombie", "joined"})

\* A source without data any more is not reported, though it had an edge.
EpollWait ==
    /\ ppc = "batch" /\ reported = {} /\ ~ stop_server
    /\ reported' = {s \in armed : Readable(s)} /\ reported' # {}
    /\ armed' = {}
    /\ UNCHANGED <<ppc, signals, stop_server, terminate, j, from, note,
                   userVars, sigVars, childVars, carmed, shm, pipeVars, clientVars>>

\* The process ends, and with it its ends of the pipes.
Stop ==
    /\ ppc = "batch" /\ reported = {} /\ stop_server
    /\ ppc' = "stopped"
    /\ carmed' = [c \in Client |-> IF Runs(c) THEN carmed[c] \cup {"pipe"} ELSE carmed[c]]
    /\ UNCHANGED <<reported, signals, stop_server, terminate, j, from, note, armed,
                   userVars, sigVars, childVars, shm, pipeVars, clientVars>>

Handle(s) == ppc = "batch" /\ s \in reported /\ reported' = reported \ {s}
StaysInBatch == UNCHANGED <<ppc, signals, stop_server, terminate, j, from, note>>

Upset == upset < MaxUpset /\ upset' = upset + 1

\* Line 264: the connection goes on waiting, until the next one comes.
AcceptFails ==
    /\ Handle("lfd") /\ StaysInBatch
    /\ Upset
    /\ UNCHANGED <<armed, userVars, sigVars, childVars, carmed, shm, pipeVars,
                   backlog, peer, err, unread, sent>>

\* Faulty variant: one user more than there is memory for.
FullLate == user_count > UserLimit

Full == user_count >= UserLimit

\* Lines 270 and 286: too many users, or fork() fails.
TurnAway ==
    /\ Handle("lfd") /\ StaysInBatch
    /\ IF Full THEN UNCHANGED upset ELSE Upset
    /\ backlog' = Tail(backlog)
    /\ peer' = [peer EXCEPT ![Head(backlog)] = "gone"]
    /\ UNCHANGED <<armed, userVars, sigVars, childVars, carmed, shm, pipeVars,
                   err, unread, sent>>

\* Faulty variant: what the comment of line 312 says.
RegisteredIndex == user_count

\* Line 313.  accept() returns the lowest free descriptor, and that is always the
\* same, since the parent closes it when it has forked.
Registered == FirstFree

Fork ==
    /\ Handle("lfd") /\ StaysInBatch
    /\ ~ Full
    /\ LET c == Head(backlog)
       IN /\ user' = [user EXCEPT ![user_count] = c]
          /\ sub_process' = [sub_process EXCEPT ![c] = Registered]
          /\ cpc' = [cpc EXCEPT ![c] = "born"]
          /\ idx' = [idx EXCEPT ![c] = user_count]
          /\ armed' = armed \cup {c}
          /\ carmed' = [carmed EXCEPT ![c] = {"conn", "pipe"}]
    /\ backlog' = Tail(backlog)
    /\ user_count' = user_count + 1
    /\ UNCHANGED <<sigVars, stop_child, creported, term, shm, pipeVars,
                   peer, err, unread, sent, upset>>

-----------------------------------------------------------------------------
(* The parent: signals (lines 318-383).                                    *)

TakeSignals ==
    /\ Handle("sig")
    /\ signals' = sigpipe /\ sigpipe' = <<>> /\ ppc' = "signals"
    /\ UNCHANGED <<stop_server, terminate, j, from, note, armed, userVars, pending,
                   childVars, carmed, shm, pipeVars, clientVars>>

Signal(s) == ppc = "signals" /\ Head(signals) = s
NextSignal ==
    /\ signals' = Tail(signals)
    /\ ppc' = IF Len(signals) = 1 THEN "batch" ELSE "signals"

\* waitpid() returns c, whose entry is overwritten with the last one, if what the
\* table has for the pid is a valid index.  Line 345 writes the entry of the pid
\* with the number of the user, which is none of the children.  What is reported
\* for a closed pipe is not found any more.
Join(c) ==
    /\ Signal("CHLD") /\ cpc[c] = "zombie"
    /\ cpc' = [cpc EXCEPT ![c] = "joined"]
    /\ LET del_user == sub_process[c]
           last == user_count - 1
       IN IF del_user < 0 \/ del_user > UserLimit
          THEN UNCHANGED <<reported, armed, userVars>>
          ELSE /\ reported' = reported \ {user[del_user]}
               /\ armed' = armed \ {user[del_user]}
               /\ user' = [user EXCEPT ![del_user] = user[last]]
               /\ user_count' = last
               /\ sub_process' = [sub_process EXCEPT ![user[last]] = del_user]
    /\ UNCHANGED <<ppc, signals, stop_server, terminate, j, from, note, sigVars,
                   idx, stop_child, creported, term, carmed, shm, pipeVars, clientVars>>

\* Faulty variant: one child is joined for each signal.
NoMoreJoined == TRUE

NoMore == \A c \in Client : cpc[c] # "zombie"

Joined ==
    /\ Signal("CHLD") /\ NoMore
    /\ NextSignal
    /\ stop_server' = (stop_server \/ (terminate /\ user_count = 0))
    /\ UNCHANGED <<reported, terminate, j, from, note, armed, userVars, sigVars,
                   childVars, carmed, shm, pipeVars, clientVars>>

\* Faulty variant: the server stops at once, with users or without.
NobodyElse == TRUE

NobodyHere == user_count = 0

\* kill() of a pid that has been joined does nothing.
HandleTerm ==
    /\ Signal("TERM")
    /\ NextSignal
    /\ IF NobodyHere
       THEN stop_server' = TRUE /\ UNCHANGED <<terminate, term>>
       ELSE /\ term' = [c \in Client |-> term[c] \/ (Runs(c) /\ c \in Users)]
            /\ terminate' = TRUE /\ UNCHANGED stop_server
    /\ UNCHANGED <<reported, j, from, note, armed, userVars, sigVars,
                   cpc, idx, stop_child, creported, carmed, shm, pipeVars, clientVars>>

-----------------------------------------------------------------------------
(* The parent: notifications (lines 385-414).                              *)

\* One notification for each edge.  There is none if the child has exited.
TakeNote(c) ==
    /\ Handle(c)
    /\ IF toParent[c] = <<>>
       THEN UNCHANGED <<ppc, j, from, note, toParent>>
       ELSE /\ note' = Head(toParent[c])
            /\ toParent' = [toParent EXCEPT ![c] = Tail(@)]
            /\ ppc' = "relay" /\ j' = 0 /\ from' = c
    /\ UNCHANGED <<signals, stop_server, terminate, armed, userVars, sigVars,
                   childVars, carmed, shm, toChild, clientVars>>

\* Faulty variant: the sender is told from the others by its place in the loop.
IsSenderByPlace(k) == k = user_count - 1

\* sockfd == user[k].pipefd[0]
IsSender(k) == user[k] = from

Others == {k \in j .. user_count - 1 : ~ IsSender(k) /\ Runs(user[k])}

\* The next send.  It blocks while the pipe is full; if the child has exited, it
\* fails and is passed over.
Relay ==
    /\ ppc = "relay"
    /\ \E k \in Others :
          /\ \A m \in Others : k <= m
          /\ Len(toChild[user[k]]) < PipeRoom
          /\ toChild' = [toChild EXCEPT ![user[k]] = Append(@, note)]
          /\ carmed' = [carmed EXCEPT ![user[k]] = @ \cup {"pipe"}]
          /\ j' = k + 1
    /\ UNCHANGED <<ppc, reported, signals, stop_server, terminate, from, note, armed,
                   userVars, sigVars, childVars, shm, toParent, clientVars>>

RelayEnd ==
    /\ ppc = "relay" /\ Others = {}
    /\ ppc' = "batch" /\ j' = 0 /\ from' = Nobody /\ note' = Empty
    /\ UNCHANGED <<reported, signals, stop_server, terminate, armed,
                   userVars, sigVars, childVars, carmed, shm, pipeVars, clientVars>>

\* sig_handler().  A signal that is pending already does not count twice.
Deliver(s) ==
    /\ s \in pending /\ ppc # "stopped"
    /\ pending' = pending \ {s}
    /\ sigpipe' = Append(sigpipe, s)
    /\ armed' = armed \cup {"sig"}
    /\ UNCHANGED <<loopVars, userVars, childVars, carmed, shm, pipeVars, clientVars>>

ParentStep ==
    \/ EpollWait \/ Stop \/ AcceptFails \/ TurnAway \/ Fork
    \/ TakeSignals \/ Joined \/ HandleTerm \/ Relay \/ RelayEnd
    \/ \E c \in Client : Join(c) \/ TakeNote(c)
-----------------------------------------------------------------------------
(* A child: child_run.                                                     *)

ParentOnly == <<loopVars, userVars>>

\* Lines 109-113: the descriptors are watched and the handler is set.
Start(c) ==
    /\ cpc[c] = "born"
    /\ cpc' = [cpc EXCEPT ![c] = "batch"]
    /\ UNCHANGED <<ParentOnly, armed, sigVars, idx, stop_child, creported, term, carmed, shm,
                   pipeVars, clientVars>>

\* Line 115, with the batch done.  A child that exits closes its descriptors.
CheckStop(c) ==
    /\ cpc[c] = "batch" /\ creported[c] = {}
    /\ IF stop_child[c]
       THEN /\ cpc' = [cpc EXCEPT ![c] = "zombie"]
            /\ peer' = [peer EXCEPT ![c] = "gone"]
            /\ err' = [err EXCEPT ![c] = FALSE]
            /\ unread' = [unread EXCEPT ![c] = <<>>]
            /\ toChild' = [toChild EXCEPT ![c] = <<>>]
            /\ term' = [term EXCEPT ![c] = FALSE]
            /\ armed' = armed \cup {c}
            /\ pending' = pending \cup {"CHLD"}
       ELSE /\ cpc' = [cpc EXCEPT ![c] = "epoll"]
            /\ UNCHANGED <<peer, err, unread, toChild, term, armed, pending>>
    /\ UNCHANGED <<ParentOnly, sigpipe, idx, stop_child, creported, carmed, shm, toParent,
                   backlog, sent, upset>>

\* The other end of the pipe is closed when the parent has ended: children forked
\* later have a copy of it too, but there are none then (LeavesAtMostOne).
Closed == ppc = "stopped"

ChildReadable(c) ==
    (IF unread[c] # <<>> \/ Left(c) THEN {"conn"} ELSE {})
        \cup (IF toChild[c] # <<>> \/ Closed THEN {"pipe"} ELSE {})

ChildWait(c) ==
    /\ cpc[c] = "epoll"
    /\ carmed[c] \cap ChildReadable(c) # {}
    /\ creported' = [creported EXCEPT ![c] = carmed[c] \cap ChildReadable(c)]
    /\ carmed' = [carmed EXCEPT ![c] = {}]
    /\ cpc' = [cpc EXCEPT ![c] = "batch"]
    /\ UNCHANGED <<ParentOnly, armed, sigVars, idx, stop_child, term, shm, pipeVars, clientVars>>

ChildHandle(c, s) ==
    /\ cpc[c] = "batch" /\ s \in creported[c]
    /\ creported' = [creported EXCEPT ![c] = @ \ {s}]

\* Line 130: the part of the shared memory is cleared before anything is received.
Clear(c) ==
    /\ ChildHandle(c, "conn")
    /\ shm' = [shm EXCEPT ![idx[c]] = Empty]
    /\ cpc' = [cpc EXCEPT ![c] = "recv"]
    /\ UNCHANGED <<ParentOnly, armed, sigVars, idx, stop_child, term, carmed, pipeVars, clientVars>>

\* Lines 131-148, up to the send.  Data comes first, then the error; the end of
\* the stream takes back a SIGTERM that came in the same batch.
Recv(c) ==
    /\ cpc[c] = "recv"
    /\ IF unread[c] # <<>>
       THEN /\ shm' = [shm EXCEPT ![idx[c]] = Head(unread[c])]
            /\ unread' = [unread EXCEPT ![c] = Tail(@)]
            /\ cpc' = [cpc EXCEPT ![c] = "notify"]
            /\ UNCHANGED <<stop_child, err>>
       ELSE /\ stop_child' = [stop_child EXCEPT ![c] = err[c]]
            /\ err' = [err EXCEPT ![c] = FALSE]
            /\ cpc' = [cpc EXCEPT ![c] = "batch"]
            /\ UNCHANGED <<shm, unread>>
    /\ UNCHANGED <<ParentOnly, armed, sigVars, idx, creported, term, carmed, pipeVars,
                   backlog, peer, sent, upset>>

\* Faulty variant: the number is that of the last user.
NumberLast(c) == user_count - 1

Number(c) == idx[c]

\* Line 147, which blocks while the pipe is full, and fails without the parent.
Notify(c) ==
    /\ cpc[c] = "notify"
    /\ IF Closed
       THEN UNCHANGED <<toParent, armed>>
       ELSE /\ Len(toParent[c]) < PipeRoom
            /\ toParent' = [toParent EXCEPT ![c] = Append(@, [idx |-> Number(c), msg |-> shm[idx[c]]])]
            /\ armed' = armed \cup {c}
    /\ cpc' = [cpc EXCEPT ![c] = "batch"]
    /\ UNCHANGED <<ParentOnly, sigVars, idx, stop_child, creported, term, carmed, shm, toChild,
                   clientVars>>

\* Lines 155-170: what the memory holds now is sent.  An error of the connection
\* is fetched by this send.
Forward(c) ==
    /\ ChildHandle(c, "pipe") /\ toChild[c] # <<>>
    /\ toChild' = [toChild EXCEPT ![c] = Tail(@)]
    /\ err' = [err EXCEPT ![c] = FALSE]
    /\ UNCHANGED <<ParentOnly, armed, sigVars, cpc, idx, stop_child, term, carmed, shm, toParent,
                   backlog, peer, unread, sent, upset>>

\* Line 163: the parent has ended.
Orphaned(c) ==
    /\ ChildHandle(c, "pipe") /\ toChild[c] = <<>>
    /\ stop_child' = [stop_child EXCEPT ![c] = TRUE]
    /\ UNCHANGED <<ParentOnly, armed, sigVars, cpc, idx, term, carmed, shm, pipeVars, clientVars>>

\* SIGTERM.  A child that has not set its handler has the one of its parent: the
\* signal goes to the parent once more, or, when sig_pipefd is closed, nowhere.
TermBorn(c) ==
    /\ term[c] /\ cpc[c] = "born"
    /\ term' = [term EXCEPT ![c] = FALSE]
    /\ \/ UNCHANGED <<sigpipe, armed>>
       \/ sigpipe' = Append(sigpipe, "TERM") /\ armed' = armed \cup {"sig"}
          /\ Len(sigpipe) < MaxSignals
    /\ UNCHANGED <<ParentOnly, pending, cpc, idx, stop_child, creported, carmed, shm, pipeVars,
                   clientVars>>

\* epoll_wait and a send that blocks are interrupted.
TermChild(c) ==
    /\ term[c] /\ Runs(c) /\ cpc[c] # "born"
    /\ term' = [term EXCEPT ![c] = FALSE]
    /\ stop_child' = [stop_child EXCEPT ![c] = TRUE]
    /\ \/ cpc[c] # "epoll" /\ UNCHANGED cpc
       \/ /\ cpc[c] = "epoll" \/ (cpc[c] = "notify" /\ Len(toParent[c]) = PipeRoom)
          /\ cpc' = [cpc EXCEPT ![c] = "batch"]
    /\ UNCHANGED <<ParentOnly, armed, sigVars, idx, creported, carmed, shm, pipeVars, clientVars>>

\* The signal comes after the check of line 115 and before epoll_wait.
TermMissed(c) ==
    /\ term[c] /\ cpc[c] = "batch" /\ creported[c] = {} /\ ~ stop_child[c]
    /\ term' = [term EXCEPT ![c] = FALSE]
    /\ stop_child' = [stop_child EXCEPT ![c] = TRUE]
    /\ cpc' = [cpc EXCEPT ![c] = "epoll"]
    /\ UNCHANGED <<ParentOnly, armed, sigVars, idx, creported, carmed, shm, pipeVars, clientVars>>

ChildStep(c) ==
    \/ Start(c) \/ CheckStop(c) \/ ChildWait(c)
    \/ Clear(c) \/ Recv(c) \/ Notify(c) \/ Forward(c) \/ Orphaned(c)

-----------------------------------------------------------------------------
(* The clients, and whoever stops the server.                              *)

ServerOnly == <<loopVars, userVars, childVars, shm, pipeVars>>
Edge(c) == carmed' = [carmed EXCEPT ![c] = @ \cup {"conn"}]

Connect(c) ==
    /\ peer[c] = "none" /\ ppc # "stopped"
    /\ peer' = [peer EXCEPT ![c] = "up"]
    /\ backlog' = Append(backlog, c)
    /\ armed' = armed \cup {"lfd"}
    /\ UNCHANGED <<ServerOnly, sigVars, carmed, err, unread, sent, upset>>

Send(c) ==
    /\ peer[c] = "up" /\ sent < MaxSent
    /\ unread' = [unread EXCEPT ![c] = Append(@, <<c, sent + 1>>)]
    /\ sent' = sent + 1
    /\ Edge(c)
    /\ UNCHANGED <<ServerOnly, armed, sigVars, backlog, peer, err, upset>>

\* FIN.
Leave(c) ==
    /\ peer[c] = "up" /\ Upset
    /\ peer' = [peer EXCEPT ![c] = "fin"]
    /\ Edge(c)
    /\ UNCHANGED <<ServerOnly, armed, sigVars, backlog, err, unread, sent>>

\* RST.
Reset(c) ==
    /\ peer[c] \in {"up", "fin"} /\ Upset
    /\ peer' = [peer EXCEPT ![c] = "rst"]
    /\ err' = [err EXCEPT ![c] = TRUE]
    /\ Edge(c)
    /\ UNCHANGED <<ServerOnly, armed, sigVars, backlog, unread, sent>>

\* SIGTERM or SIGINT to the server.
Terminate ==
    /\ Upset /\ ppc # "stopped"
    /\ pending' = pending \cup {"TERM"}
    /\ UNCHANGED <<ServerOnly, armed, sigpipe, carmed, backlog, peer, err, unread, sent>>

Next ==
    \/ ParentStep
    \/ Deliver("CHLD") \/ Deliver("TERM") \/ Terminate
    \/ \E c \in Client :
          \/ ChildStep(c) \/ TermBorn(c) \/ TermChild(c) \/ TermMissed(c)
          \/ Connect(c) \/ Send(c) \/ Leave(c) \/ Reset(c)

Spec == Init /\ [][Next]_vars

-----------------------------------------------------------------------------
(* Properties.                                                             *)

TypeOK ==
    /\ ppc \in {"batch", "signals", "relay", "stopped"}
    /\ reported \subseteq Sources /\ armed \subseteq Sources
    /\ signals \in Seq({"CHLD", "TERM"}) /\ sigpipe \in Seq({"CHLD", "TERM"})
    /\ pending \subseteq {"CHLD", "TERM"}
    /\ stop_server \in BOOLEAN /\ terminate \in BOOLEAN
    /\ j \in Nat /\ from \in Client \cup {Nobody} /\ note \in Note \cup {Empty}
    /\ user \in [Index -> Client \cup {Nobody}] /\ user_count \in 0 .. UserLimit
    /\ sub_process \in [Client -> {-1} \cup Nat]
    /\ cpc \in [Client -> {"none", "born", "batch", "epoll", "recv", "notify",
                           "zombie", "joined"}]
    /\ idx \in [Client -> Index] /\ stop_child \in [Client -> BOOLEAN]
    /\ creported \in [Client -> SUBSET {"conn", "pipe"}]
    /\ carmed \in [Client -> SUBSET {"conn", "pipe"}]
    /\ term \in [Client -> BOOLEAN]
    /\ shm \in [Index -> Message \cup {Empty}]
    /\ toParent \in [Client -> Seq(Note)] /\ toChild \in [Client -> Seq(Note)]
    /\ backlog \in Seq(Client)
    /\ peer \in [Client -> {"none", "up", "fin", "rst", "gone"}]
    /\ err \in [Client -> BOOLEAN] /\ unread \in [Client -> Seq(Message)]
    /\ sent \in 0 .. MaxSent /\ upset \in 0 .. MaxUpset

\* A child keeps the index it was forked with in its own copy of user[]: the
\* parent must find the same child there, whoever has exited in the meantime.
IndexesAgree ==
    \A c \in Client : Runs(c) => idx[c] < user_count /\ user[idx[c]] = c

\* No child is told of what its own client has sent.
NotToldOwn ==
    \A c \in Client : \A n \in DOMAIN toChild[c] :
        toChild[c][n].idx # idx[c] /\ toChild[c][n].msg[1] # c

\* A notification stands for a message that has been in the part of the memory
\* it names.  It may have been cleared or overwritten by a later one of the same
\* client since, but neither another client's nor an earlier one is read there.
Current(nt) == shm[nt.idx] = Empty \/ (shm[nt.idx][1] = nt.msg[1] /\ shm[nt.idx][2] >= nt.msg[2])

NeverOlder ==
    /\ \A c \in Client : \A n \in DOMAIN toParent[c] : Current(toParent[c][n])
    /\ \A c \in Client : \A n \in DOMAIN toChild[c] : Current(toChild[c][n])
    /\ ppc = "relay" => Current(note)

\* An exited child is joined or will be: the signal is under way to the parent,
\* or is in the part of signal[] that the loop has still to handle.
ZombieNoticed ==
    (ppc # "stopped" /\ \E c \in Client : cpc[c] = "zombie") =>
        \/ "CHLD" \in pending
        \/ ("sig" \in armed \cup reported /\ \E n \in DOMAIN sigpipe : sigpipe[n] = "CHLD")
        \/ \E n \in DOMAIN signals : signals[n] = "CHLD"

\* When the server stops, at most one child is left: the one forked in the batch
\* in which, with no users, the signal was handled before the connection.
LeavesAtMostOne ==
    ppc = "stopped" => \A c, d \in Client : Runs(c) /\ Runs(d) => c = d

=============================================================================
