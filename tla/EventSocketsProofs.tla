------------------------ MODULE EventSocketsProofs ------------------------
(***************************************************************************)
(* What the connections of EventSockets guarantee to any service on them:  *)
(* an invariant that every step of the clients, the kernel, EventPoll,     *)
(* TcpServer and TcpClient keeps, and so do the ways a handler may end.    *)
(* The proofs about HttpService and RpcService start from it.              *)
(***************************************************************************)
EXTENDS EventSockets, TLAPS

(***************************************************************************)
(* A descriptor belongs to one connection, which is registered under it    *)
(* unless it is just being accepted.  What is watched is open.  An event   *)
(* of the batch is for a connection that is open under its descriptor, has *)
(* something to read, and is not being handled.                            *)
(***************************************************************************)
Registering(c) == pc = "register" /\ current = c

Descriptors ==
    /\ \A c, d \in Conns : fd[c] = fd[d] /\ fd[c] # NoFd => c = d
    /\ \A c \in Conns : fd[c] # NoFd => connect_fd[c] = fd[c] /\ peer[c] # "idle"
    /\ \A c \in Conns : fd[c] # NoFd /\ ~Registering(c) => event_map[fd[c]] = c
    /\ \A f \in watched : \E c \in Conns : fd[c] = f /\ ~Registering(c)

Queue ==
    /\ \A i \in DOMAIN backlog : fd[backlog[i]] = NoFd /\ peer[backlog[i]] # "idle"
    /\ \A i, j \in DOMAIN backlog : backlog[i] = backlog[j] => i = j

Handling ==
    /\ pc \in {"register", "handle", "close"} => current \in Conns /\ fd[current] # NoFd
    /\ pc = "dispatch" => current = NoConn

Events ==
    \A e \in batch :
        IF e[1] = ListenFd
        THEN e[2] = NoConn /\ backlog # <<>>
        ELSE /\ e[2] \in Conns
             /\ e[1] \in watched
             /\ fd[e[2]] = e[1]
             /\ Arrived(e[2])
             /\ e[2] # current

SInv == SocketsTypeOK /\ Descriptors /\ Queue /\ Handling /\ Events

-----------------------------------------------------------------------------
\* Facts about the constants that the steps below use.
LEMMA SocketConstants ==
    /\ NoFd \notin Fds /\ NoFd # ListenFd /\ ListenFd \notin Fds
    /\ NoConn \notin Conns
    /\ \A f \in Fds : f # ListenFd
    /\ \A c \in Conns : Segments[c] \in Nat
    /\ RecvMax \in Nat /\ RecvMax > 0
BY SocketsAssumption

\* The connection of a descriptor that is open.
LEMMA OneHolder ==
    ASSUME SocketsTypeOK, Descriptors, NEW c \in Conns, fd[c] # NoFd
    PROVE  /\ Holders(fd[c]) = {c}
           /\ Source(fd[c]) = c
           /\ fd[c] \in Fds
           /\ Readable(fd[c]) <=> Arrived(c)
<1>1. fd[c] \in Fds
  BY DEF SocketsTypeOK
<1>2. Holders(fd[c]) = {c}
  BY DEF Holders, Descriptors
<1>. QED
  BY <1>1, <1>2, SocketConstants DEF Source, Readable

LEMMA NoListenHolder ==
    ASSUME SocketsTypeOK
    PROVE  Holders(ListenFd) = {} /\ Source(ListenFd) = NoConn
<1>1. Holders(ListenFd) = {}
  BY SocketConstants DEF SocketsTypeOK, Holders
<1>. QED
  BY <1>1 DEF Source, Holders

\* The connection whose handler runs.
LEMMA Handled ==
    ASSUME SInv, pc \in {"register", "handle", "close"}
    PROVE  /\ current \in Conns /\ fd[current] # NoFd /\ fd[current] \in Fds
           /\ connect_fd[current] = fd[current] /\ peer[current] # "idle"
           /\ Holders(connect_fd[current]) = {current}
           /\ current \notin Waiting
<1>1. current \in Conns /\ fd[current] # NoFd
  BY DEF SInv, Handling
<1>. QED
  BY <1>1, OneHolder DEF SInv, Descriptors, Queue, Waiting

LEMMA SocketsInitInv == SocketsInit => SInv
<1>. SUFFICES ASSUME SocketsInit PROVE SInv
  OBVIOUS
<1>. USE SocketConstants DEF SocketsInit
<1>1. SocketsTypeOK
  BY DEF SocketsTypeOK
<1>2. Descriptors /\ Queue /\ Handling /\ Events
  BY DEF Descriptors, Queue, Handling, Events
<1>. QED
  BY <1>1, <1>2 DEF SInv

-----------------------------------------------------------------------------
\* An arrival on a connection: only its end and its inbox change, and what
\* could be read still can.
LEMMA ArrivalInv ==
    ASSUME SInv, SocketsTypeOK', NEW c \in Conns, Wake(fd[c]),
           UNCHANGED <<backlog, fd, watched, objects, handler>>,
           \A d \in Conns \ {c} : peer'[d] = peer[d] /\ inbox'[d] = inbox[d],
           peer[c] # "idle", peer'[c] # "idle",
           Arrived(c)'
    PROVE  SInv'
<1>. USE SocketConstants DEF objects, handler
<1>1. \A d \in Conns : Arrived(d) => Arrived(d)'
  BY DEF Arrived
<1>2. Descriptors'
  BY DEF SInv, Descriptors, Registering
<1>3. Queue'
  <2>1. \A i \in DOMAIN backlog : backlog[i] \in Conns
    BY DEF SInv, SocketsTypeOK
  <2>. QED
    BY <2>1 DEF SInv, Queue
<1>4. Handling'
  BY DEF SInv, Handling
<1>5. Events'
  BY <1>1 DEF SInv, Events
<1>. QED
  BY <1>2, <1>3, <1>4, <1>5 DEF SInv

LEMMA SendInv ==
    ASSUME SInv, NEW c \in Conns, SendSegment(c)
    PROVE  SInv'
<1>. USE SocketConstants DEF SendSegment, Wake, objects, handler
<1>1. SocketsTypeOK'
  <2>1. \A d \in Conns : inbox'[d] <= sent'[d] /\ sent'[d] <= Segments[d]
    <3>1. \A d \in Conns : /\ inbox[d] \in Nat /\ sent[d] \in Nat
                           /\ inbox[d] <= sent[d] /\ sent[d] <= Segments[d]
      BY DEF SInv, SocketsTypeOK
    <3>2. \A d \in Conns : /\ inbox'[d] = IF d = c THEN inbox[d] + 1 ELSE inbox[d]
                           /\ sent'[d] = IF d = c THEN sent[d] + 1 ELSE sent[d]
      BY DEF SInv, SocketsTypeOK
    <3>. QED
      BY <3>1, <3>2
  <2>2. sent' \in [Conns -> Nat] /\ inbox' \in [Conns -> Nat]
    BY DEF SInv, SocketsTypeOK
  <2>. QED
    BY <2>1, <2>2 DEF SInv, SocketsTypeOK
<1>2. inbox[c] \in Nat /\ inbox'[c] = inbox[c] + 1
  BY DEF SInv, SocketsTypeOK
<1>3. Arrived(c)'
  BY <1>2 DEF Arrived
<1>. QED
  BY <1>1, <1>3, ArrivalInv DEF SInv, SocketsTypeOK

LEMMA FinishInv ==
    ASSUME SInv, NEW c \in Conns, Finish(c)
    PROVE  SInv'
<1>. USE SocketConstants DEF Finish, Wake, objects, handler
<1>1. SocketsTypeOK'
  BY DEF SInv, SocketsTypeOK
<1>2. peer'[c] = "closing" /\ \A d \in Conns \ {c} : peer'[d] = peer[d]
  BY DEF SInv, SocketsTypeOK
<1>3. Arrived(c)'
  BY <1>2 DEF Arrived
<1>. QED
  BY <1>1, <1>2, <1>3, ArrivalInv

LEMMA ResetInv ==
    ASSUME SInv, NEW c \in Conns, Reset(c)
    PROVE  SInv'
<1>. USE SocketConstants DEF Reset, Wake, objects, handler
<1>1. SocketsTypeOK'
  BY DEF SInv, SocketsTypeOK
<1>2. /\ peer'[c] \in {"reset", "broken"}
      /\ \A d \in Conns \ {c} : peer'[d] = peer[d]
  BY DEF SInv, SocketsTypeOK
<1>3. Arrived(c)'
  BY <1>2 DEF Arrived
<1>. QED
  BY <1>1, <1>2, <1>3, ArrivalInv

\* Whoever connects had no connection, and is the last to be accepted.
LEMMA ConnectMoves ==
    ASSUME SInv, NEW c \in Conns, Connect(c)
    PROVE  /\ peer'[c] = "open" /\ peer[c] = "idle"
           /\ \A d \in Conns \ {c} : peer'[d] = peer[d]
           /\ fd[c] = NoFd /\ c \notin Waiting /\ Waiting' = Waiting \cup {c}
           /\ DOMAIN backlog' = 1..(Len(backlog) + 1)
           /\ DOMAIN backlog = 1..Len(backlog)
           /\ \A i \in 1..Len(backlog) : backlog'[i] = backlog[i] /\ backlog[i] \in Conns
           /\ backlog'[Len(backlog) + 1] = c
           /\ backlog' # <<>>
<1>. USE SocketConstants DEF Connect
<1>1. /\ peer'[c] = "open" /\ peer[c] = "idle"
      /\ \A d \in Conns \ {c} : peer'[d] = peer[d]
  BY DEF SInv, SocketsTypeOK
<1>2. fd[c] = NoFd /\ c \notin Waiting
  BY <1>1 DEF SInv, Descriptors, Queue, Waiting
<1>3. /\ backlog \in Seq(Conns)
      /\ DOMAIN backlog' = 1..(Len(backlog) + 1)
      /\ DOMAIN backlog = 1..Len(backlog)
      /\ \A i \in 1..Len(backlog) : backlog'[i] = backlog[i] /\ backlog[i] \in Conns
      /\ backlog'[Len(backlog) + 1] = c
      /\ backlog' # <<>>
  <2>1. backlog \in Seq(Conns) /\ backlog' = Append(backlog, c)
    BY DEF SInv, SocketsTypeOK
  <2>. HIDE DEF Connect
  <2>. QED
    BY <2>1
<1>4. Waiting' = Waiting \cup {c}
  BY <1>3 DEF Waiting
<1>. QED
  BY <1>1, <1>2, <1>3, <1>4

LEMMA ConnectInv ==
    ASSUME SInv, NEW c \in Conns, Connect(c)
    PROVE  SInv'
<1>. USE SocketConstants DEF Connect, Wake, objects, handler
<1>1. SocketsTypeOK'
  BY DEF SInv, SocketsTypeOK
<1>2. /\ peer'[c] = "open" /\ \A d \in Conns \ {c} : peer'[d] = peer[d]
  BY ConnectMoves
<1>3. fd[c] = NoFd /\ c \notin Waiting
  BY ConnectMoves
<1>4. /\ DOMAIN backlog' = 1..(Len(backlog) + 1) /\ DOMAIN backlog = 1..Len(backlog)
      /\ \A i \in 1..Len(backlog) : backlog'[i] = backlog[i] /\ backlog[i] \in Conns
      /\ backlog'[Len(backlog) + 1] = c /\ backlog' # <<>>
      /\ Len(backlog) \in Nat
  BY ConnectMoves DEF SInv, SocketsTypeOK
<1>5. \A d \in Conns \ {c} : Arrived(d)' <=> Arrived(d)
  BY <1>2 DEF Arrived
<1>6. Descriptors'
  BY <1>2, <1>3 DEF SInv, Descriptors, Registering
<1>7. Queue'
  BY <1>2, <1>3, <1>4 DEF SInv, Queue, Waiting
<1>8. Handling'
  BY DEF SInv, Handling
<1>9. Events'
  <2>. SUFFICES ASSUME NEW e \in batch, e[1] # ListenFd
                PROVE  /\ e[2] \in Conns /\ e[1] \in watched /\ fd[e[2]] = e[1]
                       /\ Arrived(e[2])' /\ e[2] # current
    BY <1>4 DEF SInv, Events
  <2>1. /\ e[2] \in Conns /\ e[1] \in watched /\ fd[e[2]] = e[1]
        /\ Arrived(e[2]) /\ e[2] # current
    BY DEF SInv, Events
  <2>2. e[2] # c
    BY <1>3, <2>1 DEF SInv, SocketsTypeOK
  <2>. QED
    BY <1>5, <2>1, <2>2
<1>. QED
  BY <1>1, <1>6, <1>7, <1>8, <1>9 DEF SInv

LEMMA LeaveInv ==
    ASSUME SInv, NEW c \in Conns, Leave(c)
    PROVE  SInv'
<1>. USE SocketConstants DEF Leave, kernel, objects, handler
<1>1. SocketsTypeOK'
  <2>1. /\ peer' \in [Conns -> {"idle", "open", "closing", "reset", "broken"}]
        /\ sent' \in [Conns -> Nat] /\ inbox' \in [Conns -> Nat]
    BY DEF SInv, SocketsTypeOK
  <2>2. \A d \in Conns : inbox'[d] <= sent'[d] /\ sent'[d] <= Segments[d]
    BY DEF SInv, SocketsTypeOK
  <2>. QED
    BY <2>1, <2>2 DEF SInv, SocketsTypeOK
<1>2. /\ fd[c] = NoFd /\ c \notin Waiting
      /\ \A d \in Conns \ {c} : peer'[d] = peer[d] /\ inbox'[d] = inbox[d]
  BY DEF HasConnection, SInv, SocketsTypeOK
<1>3. \A d \in Conns \ {c} : Arrived(d)' <=> Arrived(d)
  BY <1>2 DEF Arrived
<1>4. Descriptors'
  BY <1>2 DEF SInv, Descriptors, Registering
<1>5. Queue'
  <2>1. \A i \in DOMAIN backlog : backlog[i] \in Conns \ {c}
    BY <1>2 DEF SInv, SocketsTypeOK, Waiting
  <2>. QED
    BY <1>2, <2>1 DEF SInv, Queue
<1>6. Handling'
  BY DEF SInv, Handling
<1>7. Events'
  <2>1. \A e \in batch : e[1] # ListenFd => e[2] # c
    BY <1>2 DEF SInv, Events, SocketsTypeOK
  <2>. QED
    BY <1>3, <2>1 DEF SInv, Events
<1>. QED
  BY <1>1, <1>4, <1>5, <1>6, <1>7 DEF SInv

-----------------------------------------------------------------------------
(* EventPoll::loop *)

LEMMA WaitInv ==
    ASSUME SInv, Wait
    PROVE  SInv'
<1>. USE SocketConstants DEF Wait, clients, objects
<1>1. \A f \in ready \ {ListenFd} :
          Readable(f) => \E c \in Conns : fd[c] = f /\ Source(f) = c /\ Arrived(c)
  <2>. SUFFICES ASSUME NEW f \in ready, f # ListenFd, Readable(f)
                PROVE  \E c \in Conns : fd[c] = f /\ Source(f) = c /\ Arrived(c)
    OBVIOUS
  <2>1. f \in watched
    BY DEF SInv, SocketsTypeOK
  <2>2. PICK c \in Conns : fd[c] = f
    BY <2>1 DEF SInv, Descriptors
  <2>3. fd[c] # NoFd
    BY <2>1, <2>2 DEF SInv, SocketsTypeOK
  <2>. QED
    BY <2>2, <2>3, OneHolder DEF SInv
<1>2. /\ Source(ListenFd) = NoConn
      /\ Readable(ListenFd) => backlog # <<>>
  BY NoListenHolder DEF SInv, Readable
<1>3. current = NoConn
  BY DEF SInv, Handling
<1>4. SocketsTypeOK'
  <2>1. \A f \in ready : Readable(f) =>
            f \in Fds \cup {ListenFd} /\ Source(f) \in Conns \cup {NoConn}
    BY <1>1, <1>2 DEF SInv, SocketsTypeOK
  <2>2. batch' \subseteq (Fds \cup {ListenFd}) \X (Conns \cup {NoConn})
    BY <2>1
  <2>3. ready' \subseteq watched' \cup {ListenFd}
    OBVIOUS
  <2>4. /\ SocketsTypeOK
        /\ UNCHANGED <<peer, sent, inbox, backlog, fd, watched, event_map,
                      connect_fd, pc, current, taken>>
    BY DEF SInv
  <2>. QED
    BY <2>2, <2>3, <2>4 DEF SocketsTypeOK
<1>5. Descriptors' /\ Queue' /\ Handling'
  BY DEF SInv, Descriptors, Registering, Queue, Handling
<1>6. Events'
  <2>. SUFFICES ASSUME NEW f \in ready, Readable(f)
                PROVE  IF f = ListenFd
                       THEN Source(f) = NoConn /\ backlog # <<>>
                       ELSE /\ Source(f) \in Conns
                            /\ f \in watched
                            /\ fd[Source(f)] = f
                            /\ Arrived(Source(f))
                            /\ Source(f) # current
    BY DEF Events, Arrived
  <2>1. f # ListenFd => f \in watched
    BY DEF SInv, SocketsTypeOK
  <2>. QED
    BY <1>1, <1>2, <1>3, <2>1
<1>. QED
  BY <1>4, <1>5, <1>6 DEF SInv

LEMMA WaitFailsInv ==
    ASSUME SInv, WaitFails
    PROVE  SInv'
<1>. USE SocketConstants DEF WaitFails, clients, kernel, objects
<1>1. SocketsTypeOK'
  BY DEF SInv, SocketsTypeOK
<1>2. Descriptors' /\ Queue' /\ Handling'
  BY DEF SInv, Descriptors, Registering, Queue, Handling
<1>3. Events'
  BY DEF SInv, Events, Arrived
<1>. QED
  BY <1>1, <1>2, <1>3 DEF SInv

-----------------------------------------------------------------------------
(* TcpServer *)

\* The client that has waited longest gets a descriptor that nobody has.
LEMMA AcceptMoves ==
    ASSUME SInv, NEW e \in batch, Accept(e)
    PROVE  LET c == Head(backlog) IN
           /\ c \in Conns /\ c \in Waiting /\ Waiting' = Waiting \ {c}
           /\ fd[c] = NoFd /\ peer[c] # "idle"
           /\ fd'[c] \in Fds /\ connect_fd'[c] = fd'[c] /\ \A d \in Conns : fd[d] # fd'[c]
           /\ \A d \in Conns \ {c} : fd'[d] = fd[d] /\ connect_fd'[d] = connect_fd[d]
           /\ fd' \in [Conns -> Fds \cup {NoFd}] /\ connect_fd' \in [Conns -> Fds \cup {NoFd}]
           /\ backlog \in Seq(Conns) /\ c = backlog[1] /\ 1 \in DOMAIN backlog
           /\ backlog' \in Seq(Conns)
           /\ \A i \in DOMAIN backlog' : /\ i + 1 \in DOMAIN backlog /\ i + 1 # 1
                                        /\ backlog'[i] = backlog[i + 1]
                                        /\ backlog[i + 1] \in Conns
           /\ pc = "dispatch" /\ pc' = "register" /\ current = NoConn /\ current' = c
<1>. USE SocketConstants DEF Accept, clients
<1>. DEFINE c == Head(backlog)
<1>1. PICK f \in FreeFds : /\ fd' = [fd EXCEPT ![c] = f]
                           /\ connect_fd' = [connect_fd EXCEPT ![c] = f]
  OBVIOUS
<1>2. /\ backlog \in Seq(Conns) /\ backlog # <<>>
      /\ c \in Conns /\ c = backlog[1] /\ 1 \in DOMAIN backlog
      /\ backlog' \in Seq(Conns)
      /\ \A i \in DOMAIN backlog' : /\ i + 1 \in DOMAIN backlog /\ i + 1 # 1
                                   /\ backlog'[i] = backlog[i + 1]
                                   /\ backlog[i + 1] \in Conns
      /\ \A i \in DOMAIN backlog : i # 1 =>
             i - 1 \in DOMAIN backlog' /\ backlog[i] = backlog'[i - 1]
  <2>1. backlog \in Seq(Conns) /\ backlog # <<>> /\ backlog' = Tail(backlog)
    BY DEF SInv, SocketsTypeOK
  <2>. HIDE DEF Accept
  <2>. QED
    BY <2>1
<1>3. /\ f \in Fds /\ \A d \in Conns : fd[d] # f
      /\ fd[c] = NoFd /\ peer[c] # "idle" /\ c \in Waiting
  BY <1>2 DEF FreeFds, Holders, SInv, Queue, Waiting
<1>4. /\ fd'[c] = f /\ connect_fd'[c] = f
      /\ \A d \in Conns \ {c} : fd'[d] = fd[d] /\ connect_fd'[d] = connect_fd[d]
      /\ fd' \in [Conns -> Fds \cup {NoFd}] /\ connect_fd' \in [Conns -> Fds \cup {NoFd}]
  BY <1>1, <1>2, <1>3 DEF SInv, SocketsTypeOK
<1>5. current = NoConn /\ current' = c /\ pc' = "register" /\ pc = "dispatch"
  BY DEF SInv, Handling
<1>6. Waiting' = Waiting \ {c}
  <2>1. \A i \in DOMAIN backlog' : backlog'[i] # c
    BY <1>2 DEF SInv, Queue
  <2>. HIDE DEF Accept
  <2>2. ASSUME NEW d \in Waiting, d # c PROVE d \in Waiting'
    <3>1. PICK i \in DOMAIN backlog : d = backlog[i]
      BY DEF Waiting
    <3>2. i - 1 \in DOMAIN backlog' /\ d = backlog'[i - 1]
      BY <1>2, <2>2, <3>1
    <3>. QED
      BY <3>2 DEF Waiting
  <2>3. Waiting' \subseteq Waiting
    BY <1>2 DEF Waiting
  <2>. QED
    BY <2>1, <2>2, <2>3 DEF Waiting
<1>. QED
  BY <1>2, <1>3, <1>4, <1>5, <1>6

LEMMA AcceptInv ==
    ASSUME SInv, NEW e \in batch, Accept(e)
    PROVE  SInv'
<1>. USE SocketConstants DEF Accept, clients
<1>. DEFINE c == Head(backlog)
<1>1. /\ c \in Conns /\ c = backlog[1] /\ 1 \in DOMAIN backlog
      /\ backlog \in Seq(Conns) /\ backlog' \in Seq(Conns)
      /\ \A i \in DOMAIN backlog' : /\ i + 1 \in DOMAIN backlog /\ i + 1 # 1
                                   /\ backlog'[i] = backlog[i + 1]
                                   /\ backlog[i + 1] \in Conns
  BY AcceptMoves
<1>2. /\ fd'[c] \in Fds /\ \A d \in Conns : fd[d] # fd'[c]
      /\ fd[c] = NoFd /\ peer[c] # "idle" /\ connect_fd'[c] = fd'[c]
  BY AcceptMoves
<1>3. \A d \in Conns \ {c} : fd'[d] = fd[d] /\ connect_fd'[d] = connect_fd[d]
  BY AcceptMoves
<1>4. current = NoConn /\ current' = c /\ pc' = "register" /\ pc = "dispatch"
  BY AcceptMoves
<1>5. \A d \in Conns : Arrived(d)' <=> Arrived(d)
  BY DEF Arrived
<1>6. SocketsTypeOK'
  <2>1. /\ fd' \in [Conns -> Fds \cup {NoFd}]
        /\ connect_fd' \in [Conns -> Fds \cup {NoFd}]
    BY AcceptMoves
  <2>. QED
    BY <1>1, <1>4, <2>1 DEF SInv, SocketsTypeOK
<1>7. Descriptors'
  <2>1. \A d, g \in Conns : fd'[d] = fd'[g] /\ fd'[d] # NoFd => d = g
    BY <1>2, <1>3 DEF SInv, Descriptors
  <2>2. \A d \in Conns : fd'[d] # NoFd => connect_fd'[d] = fd'[d] /\ peer'[d] # "idle"
    BY <1>2, <1>3 DEF SInv, Descriptors
  <2>3. \A d \in Conns : fd'[d] # NoFd /\ ~Registering(d)' => event_map'[fd'[d]] = d
    BY <1>3, <1>4 DEF SInv, Descriptors, Registering
  <2>4. \A g \in watched : \E d \in Conns \ {c} : fd[d] = g
    BY <1>2 DEF SInv, Descriptors, SocketsTypeOK
  <2>5. \A g \in watched' : \E d \in Conns : fd'[d] = g /\ ~Registering(d)'
    BY <1>3, <1>4, <2>4 DEF Registering
  <2>. QED
    BY <2>1, <2>2, <2>3, <2>5 DEF Descriptors
<1>8. Queue'
  <2>1. \A i \in DOMAIN backlog' : backlog'[i] # c
    BY <1>1 DEF SInv, Queue
  <2>2. \A i, j \in DOMAIN backlog' : backlog'[i] = backlog'[j] => i = j
    <3>. SUFFICES ASSUME NEW i \in DOMAIN backlog', NEW j \in DOMAIN backlog',
                         backlog'[i] = backlog'[j]
                  PROVE  i = j
      OBVIOUS
    <3>1. i \in Nat /\ j \in Nat
      BY <1>1
    <3>2. i + 1 = j + 1
      BY <1>1 DEF SInv, Queue
    <3>. QED
      BY <3>1, <3>2
  <2>. QED
    BY <1>1, <1>3, <2>1, <2>2 DEF SInv, Queue
<1>9. Handling'
  BY <1>1, <1>2, <1>3, <1>4 DEF Handling
<1>10. Events'
  <2>. SUFFICES ASSUME NEW b \in batch, b # e
                PROVE  /\ b[1] # ListenFd
                       /\ b[2] \in Conns /\ b[1] \in watched /\ fd'[b[2]] = b[1]
                       /\ Arrived(b[2])' /\ b[2] # c
    BY <1>4 DEF Events
  <2>1. b = <<b[1], b[2]>> /\ e = <<e[1], e[2]>>
    BY DEF SInv, SocketsTypeOK
  <2>2. b[1] # ListenFd
    BY <2>1 DEF SInv, Events
  <2>3. b[2] \in Conns /\ b[1] \in watched /\ fd[b[2]] = b[1] /\ Arrived(b[2])
    BY <2>2 DEF SInv, Events
  <2>4. b[2] # c
    BY <1>2, <2>3 DEF SInv, SocketsTypeOK
  <2>. QED
    BY <1>3, <1>5, <2>2, <2>3, <2>4
<1>. QED
  BY <1>6, <1>7, <1>8, <1>9, <1>10 DEF SInv

\* An event that no connection needs any more is used up.
LEMMA DropInv ==
    ASSUME SInv, NEW e \in batch, batch' = batch \ {e},
           UNCHANGED <<clients, backlog, kernel, objects, pc, current, taken>>
    PROVE  SInv'
<1>. USE SocketConstants DEF clients, kernel, objects
<1>1. SocketsTypeOK'
  BY DEF SInv, SocketsTypeOK
<1>2. Descriptors' /\ Queue' /\ Handling'
  BY DEF SInv, Descriptors, Registering, Queue, Handling
<1>3. Events'
  BY DEF SInv, Events, Arrived
<1>. QED
  BY <1>1, <1>2, <1>3 DEF SInv

-----------------------------------------------------------------------------
(* TcpClient *)

\* The new connection gets its entry, and its descriptor is watched, with what
\* has arrived before, unless epoll_ctl fails.
LEMMA RegisterMoves ==
    ASSUME SInv, Register
    PROVE  LET c == current IN
           /\ c \in Conns /\ fd[c] \in Fds /\ fd[c] # NoFd /\ connect_fd[c] = fd[c]
           /\ \A d \in Conns \ {c} : fd[d] # fd[c]
           /\ event_map' \in [Fds -> Conns \cup {NoConn}] /\ event_map'[fd[c]] = c
           /\ \A g \in Fds \ {fd[c]} : event_map'[g] = event_map[g]
           /\ fd[c] \notin watched /\ ready \subseteq ready'
           /\ \/ watched' = watched
              \/ watched' = watched \cup {fd[c]} /\ (Arrived(c) => fd[c] \in ready')
           /\ pc = "register" /\ pc' = "dispatch" /\ current' = NoConn
<1>. USE SocketConstants DEF Register, clients
<1>. DEFINE c == current
             f == connect_fd[current]
<1>1. /\ c \in Conns /\ fd[c] = f /\ f # NoFd /\ f \in Fds
      /\ pc = "register" /\ pc' = "dispatch" /\ current' = NoConn
  BY DEF SInv, Handling, Descriptors, SocketsTypeOK
<1>2. /\ event_map'[f] = c
      /\ \A g \in Fds \ {f} : event_map'[g] = event_map[g]
      /\ event_map' \in [Fds -> Conns \cup {NoConn}]
  BY <1>1 DEF SInv, SocketsTypeOK
<1>3. \A d \in Conns \ {c} : fd[d] # f
  BY <1>1 DEF SInv, Descriptors
<1>4. /\ f \notin watched
      /\ ready \subseteq ready'
      /\ \/ watched' = watched
         \/ watched' = watched \cup {f} /\ (Arrived(c) => f \in ready')
  BY <1>1, <1>3 DEF SInv, Descriptors, Registering
<1>. QED
  BY <1>1, <1>2, <1>3, <1>4

LEMMA RegisterInv ==
    ASSUME SInv, Register
    PROVE  SInv'
<1>. USE SocketConstants DEF Register, clients
<1>. DEFINE c == current
             f == connect_fd[current]
<1>1. /\ c \in Conns /\ fd[c] = f /\ f # NoFd /\ f \in Fds
      /\ pc = "register" /\ pc' = "dispatch" /\ current' = NoConn
  BY RegisterMoves
<1>2. /\ event_map'[f] = c
      /\ \A g \in Fds \ {f} : event_map'[g] = event_map[g]
      /\ event_map' \in [Fds -> Conns \cup {NoConn}]
  BY RegisterMoves
<1>3. \A d \in Conns \ {c} : fd[d] # f
  BY RegisterMoves
<1>4. /\ ready \subseteq ready'
      /\ watched' = watched \/ watched' = watched \cup {f}
  BY RegisterMoves
<1>5. SocketsTypeOK'
  <2>1. watched' \subseteq Fds /\ ready' \subseteq watched' \cup {ListenFd}
    BY <1>1 DEF SInv, SocketsTypeOK
  <2>. QED
    BY <1>1, <1>2, <2>1 DEF SInv, SocketsTypeOK
<1>6. Descriptors'
  <2>1. \A d \in Conns : fd[d] # NoFd => event_map'[fd[d]] = d
    BY <1>1, <1>2, <1>3 DEF SInv, Descriptors, Registering, SocketsTypeOK
  <2>2. \A g \in watched' : \E d \in Conns : fd[d] = g
    BY <1>1, <1>4 DEF SInv, Descriptors
  <2>. QED
    BY <1>1, <2>1, <2>2 DEF SInv, Descriptors, Registering
<1>7. Queue' /\ Handling'
  BY <1>1 DEF SInv, Queue, Handling
<1>8. Events'
  BY <1>1, <1>4 DEF SInv, Events, Arrived
<1>. QED
  BY <1>5, <1>6, <1>7, <1>8 DEF SInv

\* recv takes from the connection the event is for, which is not handled yet.
LEMMA ReceiveMoves ==
    ASSUME SInv, NEW e \in batch, Receive(e)
    PROVE  LET c == e[2] IN
           /\ c \in Conns /\ fd[c] = e[1] /\ e[1] \in watched /\ e[1] \in Fds
           /\ fd[c] # NoFd /\ e = <<fd[c], c>> /\ Holders(e[1]) = {c}
           /\ pc = "dispatch" /\ current = NoConn /\ pc' = "handle" /\ current' = c
           /\ taken' \in 0..RecvMax /\ inbox[c] \in Nat /\ taken' <= inbox[c]
           /\ taken' = 0 => peer[c] # "open"
           /\ inbox'[c] = inbox[c] - taken'
           /\ \A d \in Conns \ {c} : inbox'[d] = inbox[d]
           /\ inbox' \in [Conns -> Nat]
<1>. USE SocketConstants DEF Receive, kernel, objects
<1>. DEFINE c == e[2]
<1>1. /\ c \in Conns /\ fd[c] = e[1] /\ e[1] \in watched /\ e[1] \in Fds
      /\ fd[c] # NoFd /\ e = <<fd[c], c>>
  BY DEF SInv, Events, SocketsTypeOK
<1>2. Holders(e[1]) = {c}
  BY <1>1, OneHolder DEF SInv
<1>3. pc = "dispatch" /\ current = NoConn /\ pc' = "handle" /\ current' = c
  BY <1>1 DEF SInv, Handling, Descriptors, Registering
<1>4. /\ taken' \in 0..RecvMax
      /\ inbox' = [inbox EXCEPT ![c] = @ - taken']
      /\ inbox[c] \in Nat /\ taken' <= inbox[c]
      /\ taken' = 0 => peer[c] # "open"
  <2>1. PICK h \in Holders(e[1]) :
            /\ inbox[h] > 0 \/ peer[h] \in {"closing", "broken"}
            /\ taken' = IF inbox[h] < RecvMax THEN inbox[h] ELSE RecvMax
            /\ inbox' = [inbox EXCEPT ![h] = @ - taken']
    OBVIOUS
  <2>2. h = c
    BY <1>2
  <2>. HIDE DEF Receive
  <2>3. inbox[c] \in Nat
    BY <1>1 DEF SInv, SocketsTypeOK
  <2>4. taken' = IF inbox[c] < RecvMax THEN inbox[c] ELSE RecvMax
    BY <2>1, <2>2
  <2>5. taken' \in 0..RecvMax /\ taken' <= inbox[c]
    BY <2>3, <2>4
  <2>6. taken' = 0 => peer[c] # "open"
    BY <2>1, <2>2, <2>3, <2>4
  <2>. QED
    BY <2>1, <2>2, <2>3, <2>5, <2>6
<1>5. /\ inbox'[c] = inbox[c] - taken'
      /\ \A d \in Conns \ {c} : inbox'[d] = inbox[d]
      /\ inbox' \in [Conns -> Nat]
  <2>. HIDE DEF Receive
  <2>1. inbox \in [Conns -> Nat] /\ inbox[c] - taken' \in Nat
    BY <1>4 DEF SInv, SocketsTypeOK
  <2>. QED
    BY <1>1, <1>4, <2>1
<1>. QED
  BY <1>1, <1>2, <1>3, <1>4, <1>5

LEMMA ReceiveInv ==
    ASSUME SInv, NEW e \in batch, Receive(e)
    PROVE  SInv'
<1>. USE SocketConstants DEF Receive, kernel, objects
<1>. DEFINE c == e[2]
<1>1. /\ c \in Conns /\ fd[c] = e[1] /\ e[1] \in watched /\ e[1] \in Fds
      /\ fd[c] # NoFd /\ e = <<fd[c], c>>
  BY ReceiveMoves
<1>2. pc = "dispatch" /\ current = NoConn /\ pc' = "handle" /\ current' = c
  BY ReceiveMoves
<1>3. taken' \in 0..RecvMax /\ inbox[c] \in Nat /\ taken' <= inbox[c]
  BY ReceiveMoves
<1>4. /\ inbox'[c] = inbox[c] - taken'
      /\ \A d \in Conns \ {c} : inbox'[d] = inbox[d]
      /\ inbox' \in [Conns -> Nat]
  BY ReceiveMoves
<1>5. SocketsTypeOK'
  <2>1. \A d \in Conns : inbox'[d] <= sent[d] /\ sent[d] <= Segments[d]
    <3>1. \A d \in Conns : /\ inbox[d] \in Nat /\ sent[d] \in Nat
                           /\ inbox[d] <= sent[d] /\ sent[d] <= Segments[d]
      BY DEF SInv, SocketsTypeOK
    <3>. QED
      BY <1>3, <1>4, <3>1
  <2>. QED
    BY <1>1, <1>2, <1>3, <1>4, <2>1 DEF SInv, SocketsTypeOK
<1>6. Descriptors'
  BY <1>2 DEF SInv, Descriptors, Registering
<1>7. Queue' /\ Handling'
  BY <1>1, <1>2 DEF SInv, Queue, Handling
<1>8. \A d \in Conns \ {c} : Arrived(d)' <=> Arrived(d)
  BY <1>4 DEF Arrived
<1>9. Events'
  <2>. SUFFICES ASSUME NEW b \in batch, b # e, b[1] # ListenFd
                PROVE  /\ b[2] \in Conns /\ b[1] \in watched /\ fd[b[2]] = b[1]
                       /\ Arrived(b[2])' /\ b[2] # c
    BY <1>2 DEF SInv, Events
  <2>1. b = <<b[1], b[2]>>
    BY DEF SInv, SocketsTypeOK
  <2>2. b[2] \in Conns /\ b[1] \in watched /\ fd[b[2]] = b[1] /\ Arrived(b[2])
    BY DEF SInv, Events
  <2>3. b[2] # c
    BY <1>1, <2>1, <2>2
  <2>. QED
    BY <1>8, <2>2, <2>3
<1>. QED
  BY <1>5, <1>6, <1>7, <1>9 DEF SInv

\* closeConnect closes the descriptor of its own connection and no other.
LEMMA CloseMoves ==
    ASSUME SInv, pc \in {"handle", "close"}, CloseConnect
    PROVE  /\ fd'[current] = NoFd
           /\ \A d \in Conns \ {current} : fd'[d] = fd[d] /\ fd[d] # fd[current]
           /\ fd' \in [Conns -> Fds \cup {NoFd}]
           /\ watched' = watched \ {fd[current]} /\ ready' = ready \ {fd[current]}
BY Handled DEF CloseConnect, SInv, Descriptors, SocketsTypeOK

\* closeConnect, and back to the loop.
LEMMA CloseInv ==
    ASSUME SInv, pc \in {"handle", "close"}, CloseConnect, Return,
           UNCHANGED <<clients, backlog, objects, batch>>
    PROVE  SInv'
<1>. USE SocketConstants DEF CloseConnect, Return, clients, objects
<1>. DEFINE c == current
             f == connect_fd[current]
<1>1. /\ c \in Conns /\ fd[c] = f /\ f # NoFd /\ f \in Fds
      /\ pc' = "dispatch" /\ current' = NoConn /\ taken' = 0
      /\ peer[c] # "idle" /\ c \notin Waiting
  BY Handled
<1>2. /\ fd'[c] = NoFd
      /\ \A d \in Conns \ {c} : fd'[d] = fd[d] /\ fd[d] # f
      /\ fd' \in [Conns -> Fds \cup {NoFd}]
  BY <1>1, CloseMoves
<1>3. \A d \in Conns : Arrived(d)' <=> Arrived(d)
  BY DEF Arrived
<1>4. SocketsTypeOK'
  BY <1>1, <1>2 DEF SInv, SocketsTypeOK
<1>5. Descriptors'
  <2>1. \A d, g \in Conns : fd'[d] = fd'[g] /\ fd'[d] # NoFd => d = g
    BY <1>2 DEF SInv, Descriptors
  <2>2. \A d \in Conns : fd'[d] # NoFd => connect_fd'[d] = fd'[d] /\ peer'[d] # "idle"
    BY <1>2 DEF SInv, Descriptors
  <2>3. \A d \in Conns : fd'[d] # NoFd => event_map'[fd'[d]] = d
    BY <1>2 DEF SInv, Descriptors, Registering
  <2>4. \A g \in watched' : \E d \in Conns : fd'[d] = g
    <3>. SUFFICES ASSUME NEW g \in watched, g # f PROVE \E d \in Conns : fd'[d] = g
      OBVIOUS
    <3>1. PICK d \in Conns : fd[d] = g
      BY DEF SInv, Descriptors
    <3>. QED
      BY <1>1, <1>2, <3>1
  <2>. QED
    BY <1>1, <2>1, <2>2, <2>3, <2>4 DEF Descriptors, Registering
<1>6. Queue'
  BY <1>2 DEF SInv, Queue, SocketsTypeOK
<1>7. Handling'
  BY <1>1 DEF Handling
<1>8. Events'
  <2>. SUFFICES ASSUME NEW e \in batch, e[1] # ListenFd
                PROVE  /\ e[2] \in Conns /\ e[1] \in watched' /\ fd'[e[2]] = e[1]
                       /\ Arrived(e[2])' /\ e[2] # current'
    BY DEF SInv, Events
  <2>1. /\ e[2] \in Conns /\ e[1] \in watched /\ fd[e[2]] = e[1]
        /\ Arrived(e[2]) /\ e[2] # c
    BY DEF SInv, Events
  <2>. QED
    BY <1>1, <1>2, <1>3, <2>1
<1>. QED
  BY <1>4, <1>5, <1>6, <1>7, <1>8 DEF SInv

\* The handler ends and leaves the connection open.
LEMMA ReturnInv ==
    ASSUME SInv, pc = "handle", Return,
           UNCHANGED <<clients, backlog, kernel, objects, batch>>
    PROVE  SInv'
<1>. USE SocketConstants DEF Return, clients, kernel, objects
<1>1. current \in Conns /\ pc' = "dispatch" /\ current' = NoConn /\ taken' = 0
  BY Handled
<1>2. SocketsTypeOK'
  BY <1>1 DEF SInv, SocketsTypeOK
<1>3. Descriptors' /\ Queue' /\ Handling'
  BY <1>1 DEF SInv, Descriptors, Registering, Queue, Handling
<1>4. Events'
  BY <1>1 DEF SInv, Events, Arrived
<1>. QED
  BY <1>2, <1>3, <1>4 DEF SInv

\* loop goes on to another point of the same handler, or comes to its end.
LEMMA GotoInv ==
    ASSUME SInv, pc # "register", pc' \in {"close", "ended"}, pc' = "close" => pc = "handle",
           UNCHANGED <<clients, backlog, kernel, objects, batch, current, taken>>
    PROVE  SInv'
<1>. USE SocketConstants DEF clients, kernel, objects
<1>1. SocketsTypeOK'
  BY DEF SInv, SocketsTypeOK
<1>2. Descriptors' /\ Queue' /\ Handling'
  BY DEF SInv, Descriptors, Registering, Queue, Handling
<1>3. Events'
  BY DEF SInv, Events, Arrived
<1>. QED
  BY <1>1, <1>2, <1>3 DEF SInv

LEMMA SocketsSame ==
    ASSUME SInv, UNCHANGED socketVars
    PROVE  SInv'
<1>. USE DEF socketVars, clients, kernel, objects, handler
<1>1. SocketsTypeOK' /\ Descriptors' /\ Queue' /\ Handling'
  BY DEF SInv, SocketsTypeOK, Descriptors, Registering, Queue, Handling
<1>2. Events'
  BY DEF SInv, Events, Arrived
<1>. QED
  BY <1>1, <1>2 DEF SInv

-----------------------------------------------------------------------------
LEMMA SocketClientInv ==
    ASSUME SInv, NEW c \in Conns, Client(c)
    PROVE  SInv'
BY ConnectInv, SendInv, FinishInv, ResetInv, LeaveInv DEF Client

LEMMA SocketStepInv ==
    ASSUME SInv, SocketStep
    PROVE  SInv'
BY WaitInv, RegisterInv, AcceptInv, DropInv, ReceiveInv DEF SocketStep, AcceptFails, ReceiveFails

(***************************************************************************)
(* Every event of a batch is for the connection that has its descriptor    *)
(* and its entry, and can be handled without blocking.                     *)
(***************************************************************************)
LEMMA SocketsSafe == SInv => OwnEvents /\ NeverBlocks
<1>. SUFFICES ASSUME SInv PROVE OwnEvents /\ NeverBlocks
  OBVIOUS
<1>1. ASSUME NEW e \in batch, e[1] # ListenFd
      PROVE  /\ fd[e[2]] = e[1] /\ event_map[e[1]] = e[2] /\ connect_fd[e[2]] = e[1]
             /\ Readable(e[1])
  <2>1. e[2] \in Conns /\ e[1] \in watched /\ fd[e[2]] = e[1] /\ e[2] # current /\ Arrived(e[2])
    BY <1>1 DEF SInv, Events
  <2>2. fd[e[2]] # NoFd
    BY <2>1, SocketConstants DEF SInv, SocketsTypeOK
  <2>. QED
    BY <2>1, <2>2 DEF SInv, Descriptors, Registering, Readable, Holders
<1>2. ASSUME NEW e \in batch, e[1] = ListenFd PROVE Readable(e[1])
  BY <1>2 DEF SInv, Events, Readable
<1>. QED
  BY <1>1, <1>2 DEF OwnEvents, NeverBlocks
=============================================================================
