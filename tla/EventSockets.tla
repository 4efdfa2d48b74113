---------------------------- MODULE EventSockets ----------------------------
(***************************************************************************)
(* TCP connections on the event loop: the descriptor half of EventPoll     *)
(* (addEvent, event_map_ and the dispatch in loop), TcpServer, which       *)
(* accepts, and TcpClient, which receives on and closes one connection.    *)
(* What a service does with the bytes it receives is left to the modules   *)
(* that extend this one: they act when pc = "handle".                      *)
(*                                                                         *)
(* The kernel's part is modelled from how the code uses it.  A descriptor  *)
(* is the lowest free number.  Both kinds of socket are watched with       *)
(* EPOLLET: an arrival puts the descriptor on the ready list of the epoll  *)
(* instance, once, and epoll_wait takes it off.  The sockets block.        *)
(*                                                                         *)
(* EVENTS_MAX is above the default limit of descriptors, so a call of      *)
(* epoll_wait takes all ready ones; the order in which their handlers run  *)
(* is left open.                                                           *)
(***************************************************************************)
EXTENDS Integers, Sequences, FiniteSets

CONSTANTS
    Conns,      \* clients; each makes one connection at a time
    Fds,        \* the descriptors the process may still open
    ListenFd,   \* listen_fd_
    Segments,   \* bound: segments a client sends on a connection
    RecvMax,    \* segments that fit into the 1024 bytes of receive
    NoFd,       \* no descriptor
    NoConn      \* no connection, no TcpClient object

ASSUME SocketsAssumption ==
    /\ Fds \subseteq Nat
    /\ ListenFd \in Nat \ Fds
    /\ NoFd \notin Fds \cup {ListenFd}
    /\ NoConn \notin Conns
    /\ Segments \in [Conns -> Nat]
    /\ RecvMax \in Nat \ {0}

VARIABLES
    peer,        \* the client's end: "idle", "open", "closing" (it has closed),
                 \* "reset" (by a reset alone) or "broken" (closed, then reset)
    sent,        \* segments the client has sent on it
    inbox,       \* segments that have arrived and are unread
    backlog,     \* connections that wait for accept
    fd,          \* the descriptor of each connection that was accepted
    watched,     \* descriptors in the epoll instance, apart from ListenFd
    ready,       \* its ready list
    event_map,   \* event_map_: the TcpClient registered for each descriptor
    connect_fd,  \* connect_fd_ of each TcpClient
    pc,          \* where loop is
    batch,       \* events_ still to handle, each with the connection it is for
    current,     \* the TcpClient whose handler runs
    taken        \* how many segments its recv has returned

clients     == <<peer, sent, inbox>>
kernel      == <<fd, watched, ready>>
objects     == <<event_map, connect_fd>>
handler     == <<pc, batch, current, taken>>
socketVars  == <<clients, backlog, kernel, objects, handler>>

(***************************************************************************)
(* A TcpClient is named by the connection it was created for; the object   *)
(* of an earlier connection of the same client is never used again.        *)
(***************************************************************************)
SocketsInit ==
    /\ peer = [c \in Conns |-> "idle"]
    /\ sent = [c \in Conns |-> 0]
    /\ inbox = [c \in Conns |-> 0]
    /\ backlog = <<>>
    /\ fd = [c \in Conns |-> NoFd]
    /\ watched = {}
    /\ ready = {}
    /\ event_map = [f \in Fds |-> NoConn]
    /\ connect_fd = [c \in Conns |-> NoFd]
    /\ pc = "dispatch"
    /\ batch = {}
    /\ current = NoConn
    /\ taken = 0

-----------------------------------------------------------------------------
(* The kernel *)

Waiting == {backlog[i] : i \in DOMAIN backlog}
Holders(f) == {c \in Conns : fd[c] = f}
FreeFds == {f \in Fds : Holders(f) = {}}

Arrived(c) == inbox[c] > 0 \/ peer[c] # "open"

Readable(f) ==
    \/ f = ListenFd /\ backlog # <<>>
    \/ \E c \in Holders(f) : Arrived(c)

\* An arrival on descriptor f.
Wake(f) == ready' = ready \cup ({f} \cap (watched \cup {ListenFd}))

-----------------------------------------------------------------------------
(* Clients *)

HasConnection(c) == peer[c] # "idle" /\ (c \in Waiting \/ fd[c] # NoFd)

Connect(c) ==
    /\ peer[c] = "idle"
    /\ peer' = [peer EXCEPT ![c] = "open"]
    /\ backlog' = Append(backlog, c)
    /\ Wake(ListenFd)
    /\ UNCHANGED <<sent, inbox, fd, watched, objects, handler>>

SendSegment(c) ==
    /\ HasConnection(c)
    /\ peer[c] = "open"
    /\ sent[c] < Segments[c]
    /\ sent' = [sent EXCEPT ![c] = @ + 1]
    /\ inbox' = [inbox EXCEPT ![c] = @ + 1]
    /\ Wake(fd[c])
    /\ UNCHANGED <<peer, backlog, fd, watched, objects, handler>>

\* The client closes or shuts down its end.
Finish(c) ==
    /\ HasConnection(c)
    /\ peer[c] = "open"
    /\ peer' = [peer EXCEPT ![c] = "closing"]
    /\ Wake(fd[c])
    /\ UNCHANGED <<sent, inbox, backlog, fd, watched, objects, handler>>

\* The client resets the connection, or answers with a reset what is sent to
\* it after it has closed.
Reset(c) ==
    /\ HasConnection(c)
    /\ peer[c] \in {"open", "closing"}
    /\ peer' = [peer EXCEPT ![c] = IF @ = "open" THEN "reset" ELSE "broken"]
    /\ Wake(fd[c])
    /\ UNCHANGED <<sent, inbox, backlog, fd, watched, objects, handler>>

\* The server has closed its end; the client is free to connect again.
Leave(c) ==
    /\ peer[c] # "idle"
    /\ ~HasConnection(c)
    /\ peer' = [peer EXCEPT ![c] = "idle"]
    /\ sent' = [sent EXCEPT ![c] = 0]
    /\ inbox' = [inbox EXCEPT ![c] = 0]
    /\ UNCHANGED <<backlog, kernel, objects, handler>>

Client(c) == Connect(c) \/ SendSegment(c) \/ Finish(c) \/ Reset(c) \/ Leave(c)

-----------------------------------------------------------------------------
(* EventPoll::loop *)

\* The connection an event on descriptor f is for.
Source(f) == IF Holders(f) = {} THEN NoConn ELSE CHOOSE c \in Holders(f) : TRUE

\* Mutant: the events that are left over are dropped.
WaitDrop ==
    /\ pc = "dispatch"
    /\ \E f \in ready : Readable(f)
    /\ batch' = {<<f, Source(f)>> : f \in {g \in ready : Readable(g)}}
    /\ ready' = {}
    /\ UNCHANGED <<clients, backlog, fd, watched, objects, pc, current, taken>>

\* All events of the batch are handled: epoll_wait, which leaves out those on
\* its ready list that are not readable any more.
Wait ==
    /\ pc = "dispatch"
    /\ batch = {}
    /\ \E f \in ready : Readable(f)
    /\ batch' = {<<f, Source(f)>> : f \in {g \in ready : Readable(g)}}
    /\ ready' = {}
    /\ UNCHANGED <<clients, backlog, fd, watched, objects, pc, current, taken>>

\* epoll_wait fails (a signal is enough): loop and with it main return.
WaitFails ==
    /\ pc = "dispatch"
    /\ batch = {}
    /\ pc' = "ended"
    /\ UNCHANGED <<clients, backlog, kernel, objects, batch, current, taken>>

-----------------------------------------------------------------------------
(* TcpServer::listenCli *)

\* Mutant: accepts until accept fails, on a socket that blocks.
AcceptAll(e) ==
    /\ pc = "dispatch"
    /\ e \in batch /\ e[1] = ListenFd
    /\ backlog # <<>>
    /\ \E f \in FreeFds :
        /\ \A g \in FreeFds : f <= g
        /\ fd' = [fd EXCEPT ![Head(backlog)] = f]
        /\ connect_fd' = [connect_fd EXCEPT ![Head(backlog)] = f]
    /\ current' = Head(backlog)
    /\ backlog' = Tail(backlog)
    /\ pc' = "register"
    /\ UNCHANGED <<clients, watched, ready, event_map, batch, taken>>

\* One accept for the event, and a TcpClient for the new connection.
Accept(e) ==
    /\ pc = "dispatch"
    /\ e \in batch /\ e[1] = ListenFd
    /\ backlog # <<>>
    /\ \E f \in FreeFds :
        /\ \A g \in FreeFds : f <= g
        /\ fd' = [fd EXCEPT ![Head(backlog)] = f]
        /\ connect_fd' = [connect_fd EXCEPT ![Head(backlog)] = f]
    /\ current' = Head(backlog)
    /\ backlog' = Tail(backlog)
    /\ batch' = batch \ {e}
    /\ pc' = "register"
    /\ UNCHANGED <<clients, watched, ready, event_map, taken>>

\* Mutant: the failure of accept is not noticed.
AcceptUnchecked(e) ==
    /\ pc = "dispatch"
    /\ e \in batch /\ e[1] = ListenFd
    /\ backlog # <<>> /\ FreeFds = {}
    /\ batch' = batch \ {e}
    /\ current' = Head(backlog)
    /\ pc' = "register"
    /\ UNCHANGED <<clients, backlog, kernel, objects, taken>>

\* No descriptor is left: the connection stays in the backlog.
AcceptFails(e) ==
    /\ pc = "dispatch"
    /\ e \in batch /\ e[1] = ListenFd
    /\ backlog # <<>> /\ FreeFds = {}
    /\ batch' = batch \ {e}
    /\ UNCHANGED <<clients, backlog, kernel, objects, pc, current, taken>>

-----------------------------------------------------------------------------
(* TcpClient *)

\* Mutant: event_map_.insert, which keeps the entry there is.
RegisterInsert ==
    LET f == connect_fd[current] IN
    /\ pc = "register"
    /\ event_map' = [event_map EXCEPT ![f] = IF @ = NoConn THEN current ELSE @]
    /\ \/ /\ watched' = watched \cup {f}
          /\ ready' = ready \cup (IF Arrived(current) THEN {f} ELSE {})
       \/ UNCHANGED <<watched, ready>>
    /\ pc' = "dispatch"
    /\ current' = NoConn
    /\ UNCHANGED <<clients, backlog, fd, connect_fd, batch, taken>>

\* The constructor: addEvent.  epoll_ctl reports what has arrived before; if
\* it fails, that is logged and nothing more.
Register ==
    LET f == connect_fd[current] IN
    /\ pc = "register"
    /\ event_map' = [event_map EXCEPT ![f] = current]
    /\ \/ /\ watched' = watched \cup {f}
          /\ ready' = ready \cup (IF Arrived(current) THEN {f} ELSE {})
       \/ UNCHANGED <<watched, ready>>
    /\ pc' = "dispatch"
    /\ current' = NoConn
    /\ UNCHANGED <<clients, backlog, fd, connect_fd, batch, taken>>

\* receive, called for event e: one recv, which returns up to RecvMax segments,
\* or none at the end of the stream, also when a reset has followed it.  It
\* blocks when there is nothing to return.
Receive(e) ==
    /\ pc = "dispatch"
    /\ e \in batch /\ e[1] # ListenFd
    /\ \E c \in Holders(e[1]) :
        /\ inbox[c] > 0 \/ peer[c] \in {"closing", "broken"}
        /\ taken' = IF inbox[c] < RecvMax THEN inbox[c] ELSE RecvMax
        /\ inbox' = [inbox EXCEPT ![c] = @ - taken']
    /\ current' = event_map[e[1]]
    /\ batch' = batch \ {e}
    /\ pc' = "handle"
    /\ UNCHANGED <<peer, sent, backlog, kernel, objects>>

\* All is read and the connection is reset: recv fails, and receive returns without a call of recvCallBack.
ReceiveFails(e) ==
    /\ pc = "dispatch"
    /\ e \in batch /\ e[1] # ListenFd
    /\ \A c \in Holders(e[1]) : inbox[c] = 0 /\ peer[c] = "reset"
    /\ batch' = batch \ {e}
    /\ UNCHANGED <<clients, backlog, kernel, objects, pc, current, taken>>

\* The effect of closeConnect: close of connect_fd_, which keeps its value.
CloseConnect ==
    LET f == connect_fd[current] IN
    /\ fd' = [c \in Conns |-> IF fd[c] = f THEN NoFd ELSE fd[c]]
    /\ watched' = watched \ {f}
    /\ ready' = ready \ {f}

Return ==
    /\ pc' = "dispatch"
    /\ current' = NoConn
    /\ taken' = 0

SocketStep ==
    \/ Wait \/ Register
    \/ \E e \in batch : Accept(e) \/ AcceptFails(e) \/ Receive(e) \/ ReceiveFails(e)

-----------------------------------------------------------------------------
SocketsTypeOK ==
    /\ peer \in [Conns -> {"idle", "open", "closing", "reset", "broken"}]
    /\ sent \in [Conns -> Nat]
    /\ inbox \in [Conns -> Nat]
    /\ \A c \in Conns : inbox[c] <= sent[c] /\ sent[c] <= Segments[c]
    /\ backlog \in Seq(Conns)
    /\ fd \in [Conns -> Fds \cup {NoFd}]
    /\ watched \subseteq Fds
    /\ ready \subseteq watched \cup {ListenFd}
    /\ event_map \in [Fds -> Conns \cup {NoConn}]
    /\ connect_fd \in [Conns -> Fds \cup {NoFd}]
    /\ pc \in {"dispatch", "register", "handle", "close", "ended"}
    /\ batch \subseteq (Fds \cup {ListenFd}) \X (Conns \cup {NoConn})
    /\ current \in Conns \cup {NoConn}
    /\ taken \in 0..RecvMax

(***************************************************************************)
(* A descriptor number is used for one connection after another, and       *)
(* event_map_ entries outlive theirs.  Still every event reaches the       *)
(* TcpClient of the connection that it was raised for: none that a handler *)
(* earlier in the batch has closed, none that has the number now.          *)
(***************************************************************************)
OwnEvents ==
    \A e \in batch : e[1] # ListenFd =>
        /\ fd[e[2]] = e[1]
        /\ event_map[e[1]] = e[2]
        /\ connect_fd[e[2]] = e[1]

(***************************************************************************)
(* The sockets are blocking, so a handler that calls accept or recv when   *)
(* there is nothing to return would stop the loop and everything on it.    *)
(* It never does: what an event announced is there until its handler runs. *)
(***************************************************************************)
NeverBlocks == \A e \in batch : Readable(e[1])

=============================================================================
