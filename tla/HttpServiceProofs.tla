------------------------- MODULE HttpServiceProofs -------------------------
(***************************************************************************)
(* Proofs about HttpService: for any clients, any descriptors and any      *)
(* requests, events reach their own connection, the loop never blocks, no  *)
(* edge is lost and a connection gets one answer.                          *)
(***************************************************************************)
EXTENDS HttpService, EventSocketsProofs

(***************************************************************************)
(* The strengthening: that of the connections, and that a connection that  *)
(* is not accepted yet has no answer.                                      *)
(***************************************************************************)
Answers ==
    \A c \in Conns :
        fd[c] = NoFd /\ (peer[c] = "idle" \/ c \in Waiting) => answers[c] = <<>>

AnswersType == answers \in [Conns -> Seq({"200", "404", "400"})]

IInv == SInv /\ AnswersType /\ NoLostEdge /\ OneAnswer /\ Answers

-----------------------------------------------------------------------------
LEMMA InitInv == Init => IInv
<1>. SUFFICES ASSUME Init PROVE IInv
  OBVIOUS
<1>1. SInv
  BY SocketsInitInv DEF Init
<1>. USE SocketConstants DEF Init, SocketsInit
<1>2. AnswersType /\ Answers
  BY DEF AnswersType, Answers
<1>3. NoLostEdge /\ OneAnswer
  BY DEF NoLostEdge, OneAnswer
<1>. QED
  BY <1>1, <1>2, <1>3 DEF IInv

-----------------------------------------------------------------------------
(* Edges                                                                   *)

\* An arrival on a connection puts it on the ready list.
LEMMA ArrivalEdges ==
    ASSUME SInv, NoLostEdge, NEW c \in Conns, Wake(fd[c]),
           UNCHANGED <<fd, watched, handler>>,
           \A d \in Conns \ {c} : peer'[d] = peer[d] /\ inbox'[d] = inbox[d]
    PROVE  NoLostEdge'
<1>. USE SocketConstants DEF handler
<1>. SUFFICES ASSUME NEW d \in Conns, fd[d] \in watched, d # current,
                     Arrived(d)', peer'[d] # "reset"
              PROVE  fd[d] \in ready' \/ <<fd[d], d>> \in batch
  BY DEF NoLostEdge
<1>1. CASE d = c
  BY <1>1 DEF Wake
<1>2. CASE d # c
  BY <1>2 DEF NoLostEdge, Wake, Arrived
<1>. QED
  BY <1>1, <1>2

LEMMA ClientEdges ==
    ASSUME SInv, NoLostEdge, NEW c \in Conns, Client(c)
    PROVE  NoLostEdge'
<1>. USE DEF SInv, SocketsTypeOK, kernel, objects, handler
<1>1. CASE Connect(c)
  <2>1. \A d \in Conns \ {c} : Arrived(d)' <=> Arrived(d)
    BY <1>1 DEF Connect, Arrived
  <2>2. fd[c] = NoFd
    BY <1>1, ConnectMoves
  <2>. QED
    BY <1>1, <2>1, <2>2, SocketConstants DEF Connect, Wake, NoLostEdge
<1>2. CASE SendSegment(c)
  BY <1>2, ArrivalEdges DEF SendSegment
<1>3. CASE Finish(c)
  BY <1>3, ArrivalEdges DEF Finish
<1>4. CASE Reset(c)
  BY <1>4, ArrivalEdges DEF Reset
<1>5. CASE Leave(c)
  <2>1. fd[c] = NoFd
    BY <1>5 DEF Leave, HasConnection
  <2>2. \A d \in Conns \ {c} : (Arrived(d)' <=> Arrived(d)) /\ peer'[d] = peer[d]
    BY <1>5 DEF Leave, Arrived
  <2>. QED
    BY <1>5, <2>1, <2>2, SocketConstants DEF Leave, NoLostEdge
<1>. QED
  BY <1>1, <1>2, <1>3, <1>4, <1>5 DEF Client

LEMMA WaitEdges ==
    ASSUME SInv, NoLostEdge, Wait
    PROVE  NoLostEdge'
<1>. USE SocketConstants DEF Wait, clients, objects
<1>. SUFFICES ASSUME NEW c \in Conns, fd[c] \in watched, c # current,
                     Arrived(c), peer[c] # "reset"
              PROVE  <<fd[c], c>> \in batch'
  BY DEF NoLostEdge, Arrived
<1>1. fd[c] \in ready
  BY DEF NoLostEdge
<1>2. fd[c] # NoFd
  BY DEF SInv, SocketsTypeOK
<1>3. Source(fd[c]) = c /\ Readable(fd[c])
  BY <1>2, OneHolder DEF SInv
<1>. QED
  BY <1>1, <1>3

LEMMA AcceptEdges ==
    ASSUME SInv, NoLostEdge, NEW e \in batch, Accept(e)
    PROVE  NoLostEdge'
<1>. USE SocketConstants DEF Accept, clients
<1>. DEFINE c == Head(backlog)
<1>1. \A d \in Conns \ {c} : fd'[d] = fd[d]
  BY AcceptMoves
<1>2. current = NoConn /\ current' = c
  BY AcceptMoves
<1>. SUFFICES ASSUME NEW d \in Conns, d # c, fd[d] \in watched,
                     Arrived(d), peer[d] # "reset"
              PROVE  fd[d] \in ready \/ <<fd[d], d>> \in batch \ {e}
  BY <1>1, <1>2 DEF NoLostEdge, Arrived
<1>3. fd[d] \in ready \/ <<fd[d], d>> \in batch
  BY <1>2 DEF NoLostEdge
<1>4. fd[d] # ListenFd
  BY DEF SInv, SocketsTypeOK
<1>. QED
  BY <1>3, <1>4

LEMMA RegisterEdges ==
    ASSUME SInv, NoLostEdge, Register
    PROVE  NoLostEdge'
<1>. USE DEF Register, clients
<1>. DEFINE c == current
<1>1. /\ \A d \in Conns \ {c} : fd[d] # fd[c]
      /\ fd[c] \notin watched /\ ready \subseteq ready'
      /\ \/ watched' = watched
         \/ watched' = watched \cup {fd[c]} /\ (Arrived(c) => fd[c] \in ready')
  BY RegisterMoves
<1>. SUFFICES ASSUME NEW d \in Conns, fd[d] \in watched', Arrived(d), peer[d] # "reset"
              PROVE  fd[d] \in ready' \/ <<fd[d], d>> \in batch
  BY DEF NoLostEdge, Arrived
<1>2. CASE d = c
  BY <1>1, <1>2
<1>3. CASE d # c
  BY <1>1, <1>3 DEF NoLostEdge
<1>. QED
  BY <1>2, <1>3

LEMMA ReceiveEdges ==
    ASSUME SInv, NoLostEdge, NEW e \in batch, Receive(e)
    PROVE  NoLostEdge'
<1>. DEFINE c == e[2]
<1>1. /\ e = <<fd[c], c>> /\ current = NoConn /\ current' = c
      /\ \A d \in Conns \ {c} : inbox'[d] = inbox[d]
  BY ReceiveMoves
<1>2. UNCHANGED <<peer, fd, watched, ready>> /\ batch' = batch \ {e}
  BY DEF Receive, kernel
<1>. SUFFICES ASSUME NEW d \in Conns, d # c, fd[d] \in watched,
                     Arrived(d), peer[d] # "reset"
              PROVE  fd[d] \in ready \/ <<fd[d], d>> \in batch \ {e}
  BY <1>1, <1>2 DEF NoLostEdge, Arrived
<1>3. fd[d] \in ready \/ <<fd[d], d>> \in batch
  BY <1>1, SocketConstants DEF NoLostEdge
<1>. QED
  BY <1>1, <1>3

\* An event that no connection needs any more is used up.
LEMMA DropEdges ==
    ASSUME SInv, NoLostEdge, NEW e \in batch, AcceptFails(e) \/ ReceiveFails(e)
    PROVE  NoLostEdge'
<1>. USE DEF AcceptFails, ReceiveFails, clients, kernel
<1>1. \A c \in Conns : e = <<fd[c], c>> => peer[c] = "reset"
  BY SocketConstants DEF Holders, SInv, SocketsTypeOK
<1>. QED
  BY <1>1 DEF NoLostEdge, Arrived

LEMMA StepEdges ==
    ASSUME SInv, NoLostEdge, SocketStep
    PROVE  NoLostEdge'
BY WaitEdges, RegisterEdges, AcceptEdges, ReceiveEdges, DropEdges DEF SocketStep

LEMMA CloseEdges ==
    ASSUME SInv, NoLostEdge, pc \in {"handle", "close"}, CloseConnect, Return,
           UNCHANGED <<clients, batch>>
    PROVE  NoLostEdge'
<1>. USE DEF Return, clients
<1>1. /\ fd'[current] = NoFd
      /\ \A d \in Conns \ {current} : fd'[d] = fd[d] /\ fd[d] # fd[current]
      /\ watched' = watched \ {fd[current]} /\ ready' = ready \ {fd[current]}
  BY CloseMoves
<1>. SUFFICES ASSUME NEW d \in Conns, fd'[d] \in watched', Arrived(d), peer[d] # "reset"
              PROVE  fd'[d] \in ready' \/ <<fd'[d], d>> \in batch
  BY DEF NoLostEdge, Arrived
<1>2. d # current
  BY <1>1, SocketConstants DEF SInv, SocketsTypeOK
<1>. QED
  BY <1>1, <1>2 DEF NoLostEdge

-----------------------------------------------------------------------------
(* Answers                                                                 *)

\* No step gives an answered connection to a client or takes it from the
\* handler that is about to close it.
LEMMA AnswersSame ==
    ASSUME IInv, answers' = answers,
           \A d \in Conns : fd'[d] # NoFd => fd[d] # NoFd \/ d \in Waiting,
           \A d \in Conns : fd'[d] = NoFd /\ (peer'[d] = "idle" \/ d \in Waiting')
                               => fd[d] = NoFd /\ (peer[d] = "idle" \/ d \in Waiting),
           pc = "close" => \/ pc' = "close" /\ current' = current
                           \/ fd'[current] = NoFd
    PROVE  AnswersType' /\ OneAnswer' /\ Answers'
<1>1. \A d \in Conns : d \in Waiting => fd[d] = NoFd
  BY DEF IInv, SInv, Queue, Waiting
<1>2. AnswersType' /\ Answers'
  BY DEF IInv, AnswersType, Answers
<1>3. OneAnswer'
  BY <1>1 DEF IInv, Answers, OneAnswer, Response, UrlParse
<1>. QED
  BY <1>2, <1>3

LEMMA StepAnswers ==
    ASSUME IInv, SocketStep, answers' = answers
    PROVE  AnswersType' /\ OneAnswer' /\ Answers'
<1>1. CASE \E e \in batch : Accept(e)
  <2>1. PICK e \in batch : Accept(e)
    BY <1>1
  <2>2. LET c == Head(backlog) IN
        /\ c \in Waiting /\ Waiting' = Waiting \ {c} /\ pc # "close"
        /\ fd'[c] # NoFd /\ \A d \in Conns \ {c} : fd'[d] = fd[d]
    BY <2>1, AcceptMoves, SocketConstants DEF IInv
  <2>3. peer' = peer
    BY <2>1 DEF Accept, clients
  <2>. QED
    BY <2>2, <2>3, AnswersSame
<1>2. CASE ~\E e \in batch : Accept(e)
  <2>1. UNCHANGED <<peer, fd, backlog>> /\ pc # "close"
    BY <1>2 DEF SocketStep, Wait, Register, AcceptFails, Receive, ReceiveFails, clients, kernel
  <2>. QED
    BY <2>1, AnswersSame DEF Waiting
<1>. QED
  BY <1>1, <1>2

LEMMA ClientAnswers ==
    ASSUME IInv, NEW c \in Conns, Client(c), answers' = answers, ~Leave(c)
    PROVE  AnswersType' /\ OneAnswer' /\ Answers'
<1>1. UNCHANGED <<fd, pc, current>>
  BY DEF Client, Connect, SendSegment, Finish, Reset, Leave, kernel, handler
<1>2. \A d \in Conns : peer'[d] = "idle" \/ d \in Waiting' => peer[d] = "idle" \/ d \in Waiting
  <2>1. CASE Connect(c)
    BY <2>1, ConnectMoves DEF IInv
  <2>2. CASE SendSegment(c) \/ Finish(c) \/ Reset(c)
    BY <2>2 DEF SendSegment, Finish, Reset, Waiting, IInv, SInv, SocketsTypeOK
  <2>. QED
    BY <2>1, <2>2 DEF Client
<1>. QED
  BY <1>1, <1>2, AnswersSame

LEMMA LeaveAnswers ==
    ASSUME IInv, NEW c \in Conns, Leave(c), answers' = [answers EXCEPT ![c] = <<>>]
    PROVE  AnswersType' /\ OneAnswer' /\ Answers'
<1>. USE DEF Leave, kernel, handler
<1>1. /\ AnswersType' /\ answers'[c] = <<>>
      /\ \A d \in Conns \ {c} : peer'[d] = peer[d] /\ answers'[d] = answers[d]
  BY DEF IInv, AnswersType, SInv, SocketsTypeOK
<1>2. OneAnswer'
  BY <1>1 DEF IInv, OneAnswer, Response, UrlParse
<1>3. Answers'
  BY <1>1 DEF IInv, Answers, Waiting
<1>. QED
  BY <1>1, <1>2, <1>3

-----------------------------------------------------------------------------
(* HttpClient                                                              *)

LEMMA CloseKeeps ==
    ASSUME IInv, pc \in {"handle", "close"}, CloseConnect, Return,
           UNCHANGED <<clients, backlog, objects, batch, answers>>
    PROVE  IInv'
<1>. USE DEF clients, objects
<1>1. SInv' /\ NoLostEdge'
  BY CloseInv, CloseEdges DEF IInv
<1>2. /\ fd'[current] = NoFd /\ peer[current] # "idle" /\ current \notin Waiting
      /\ \A d \in Conns \ {current} : fd'[d] = fd[d]
  BY CloseMoves, Handled DEF IInv
<1>3. AnswersType' /\ OneAnswer' /\ Answers'
  BY <1>2, AnswersSame DEF Waiting
<1>. QED
  BY <1>1, <1>3 DEF IInv

LEMMA RespondKeeps ==
    ASSUME IInv, Respond
    PROVE  IInv'
<1>. USE DEF Respond, clients, kernel, objects
<1>. DEFINE c == current
<1>1. /\ c \in Conns /\ fd[c] # NoFd /\ Holders(connect_fd[c]) = {c}
      /\ pc = "handle" /\ pc' = "close" /\ answers[c] = <<>>
  BY Handled DEF IInv, OneAnswer
<1>2. SInv'
  BY GotoInv DEF IInv
<1>3. PICK r \in {"200", "404", "400"} : r = Response(c, taken)
  BY DEF Response
<1>4. answers' = [answers EXCEPT ![c] = <<r>>]
  <2>1. answers' = [answers EXCEPT ![c] = Append(answers[c], Response(c, taken))]
    BY <1>1
  <2>2. Append(<<>>, r) = <<r>>
    OBVIOUS
  <2>. HIDE DEF Respond
  <2>. QED
    BY <1>1, <1>3, <2>1, <2>2
<1>5. AnswersType'
  <2>. HIDE DEF Respond
  <2>. QED
    BY <1>1, <1>4 DEF IInv, AnswersType
<1>6. NoLostEdge'
  BY DEF IInv, NoLostEdge, Arrived
<1>7. OneAnswer'
  <2>. SUFFICES ASSUME NEW d \in Conns
                PROVE  /\ Len(answers'[d]) <= 1
                       /\ fd[d] # NoFd /\ answers'[d] # <<>> => c = d
                       /\ Line[d] = 1 /\ answers'[d] # <<>>
                             => answers'[d] = <<Response(d, 1)>>
    BY <1>1 DEF OneAnswer, Response, UrlParse
  <2>. answers \in [Conns -> Seq({"200", "404", "400"})]
    BY DEF IInv, AnswersType
  <2>1. CASE d = c
    <3>1. taken \in Nat /\ taken > 0
      BY SocketConstants DEF IInv, SInv, SocketsTypeOK
    <3>2. Line[c] = 1 => r = Response(c, 1)
      BY <1>1, <1>3, <3>1 DEF Response, UrlParse
    <3>3. answers'[d] = <<r>>
      BY <1>1, <1>4, <2>1
    <3>4. Len(<<r>>) = 1
      OBVIOUS
    <3>. HIDE DEF Respond
    <3>. QED
      BY <2>1, <3>2, <3>3, <3>4
  <2>2. CASE d # c
    <3>1. answers'[d] = answers[d]
      BY <1>1, <1>4, <2>2
    <3>. QED
      BY <1>1, <3>1 DEF IInv, OneAnswer
  <2>. QED
    BY <2>1, <2>2
<1>8. Answers'
  BY <1>1, <1>4 DEF IInv, Answers, Waiting
<1>. QED
  BY <1>2, <1>5, <1>6, <1>7, <1>8 DEF IInv

LEMMA RespondFailsKeeps ==
    ASSUME IInv, RespondFails
    PROVE  IInv'
<1>. USE DEF RespondFails, Return, clients, kernel, objects
<1>1. SInv' /\ peer[current] = "reset"
  BY ReturnInv, Handled DEF IInv
<1>2. NoLostEdge'
  BY <1>1 DEF IInv, NoLostEdge, Arrived
<1>3. AnswersType' /\ OneAnswer' /\ Answers'
  BY AnswersSame DEF Waiting
<1>. QED
  BY <1>1, <1>2, <1>3 DEF IInv

\* The process ends.
LEMMA EndKeeps ==
    ASSUME IInv, pc \in {"dispatch", "handle"}, pc' = "ended",
           UNCHANGED <<clients, backlog, kernel, objects, batch, current, taken, answers>>
    PROVE  IInv'
<1>. USE DEF clients, kernel, objects
<1>1. SInv'
  BY GotoInv DEF IInv
<1>2. NoLostEdge'
  BY DEF IInv, NoLostEdge, Arrived
<1>3. AnswersType' /\ OneAnswer' /\ Answers'
  BY AnswersSame DEF Waiting
<1>. QED
  BY <1>1, <1>2, <1>3 DEF IInv

-----------------------------------------------------------------------------
LEMMA ClientsKeep ==
    ASSUME IInv, Clients
    PROVE  IInv'
<1>1. PICK c \in Conns :
          /\ Client(c)
          /\ answers' = IF peer'[c] = "idle" THEN [answers EXCEPT ![c] = <<>>] ELSE answers
  BY DEF Clients
<1>2. SInv' /\ NoLostEdge'
  BY <1>1, SocketClientInv, ClientEdges DEF IInv
<1>3. peer \in [Conns -> {"idle", "open", "closing", "reset", "broken"}]
  BY DEF IInv, SInv, SocketsTypeOK
<1>4. CASE Leave(c)
  <2>1. answers' = [answers EXCEPT ![c] = <<>>]
    BY <1>1, <1>3, <1>4 DEF Leave
  <2>. QED
    BY <1>2, <1>4, <2>1, LeaveAnswers DEF IInv
<1>5. CASE ~Leave(c)
  <2>1. Connect(c) \/ SendSegment(c) \/ Finish(c) \/ Reset(c)
    BY <1>1, <1>5 DEF Client
  <2>2. peer'[c] # "idle"
    BY <1>3, <2>1, SocketConstants DEF Connect, SendSegment, Finish, Reset
  <2>3. answers' = answers
    BY <1>1, <2>2
  <2>. QED
    BY <1>1, <1>2, <1>5, <2>3, ClientAnswers DEF IInv
<1>. QED
  BY <1>4, <1>5

LEMMA LoopKeeps ==
    ASSUME IInv, Loop
    PROVE  IInv'
<1>1. CASE SocketStep /\ UNCHANGED answers
  BY <1>1, SocketStepInv, StepEdges, StepAnswers DEF IInv
<1>2. CASE HandleEnd \/ CloseAnswered
  BY <1>2, CloseKeeps DEF HandleEnd, CloseAnswered
<1>3. CASE RespondKilled
  BY <1>3, EndKeeps DEF RespondKilled
<1>. QED
  BY <1>1, <1>2, <1>3, RespondKeeps, RespondFailsKeeps DEF Loop

LEMMA Step == IInv /\ [Next]_vars => IInv'
<1>. SUFFICES ASSUME IInv, [Next]_vars PROVE IInv'
  OBVIOUS
<1>1. CASE UNCHANGED vars
  <2>. USE <1>1 DEF vars, socketVars, clients, kernel, handler
  <2>1. SInv'
    BY SocketsSame DEF IInv
  <2>2. NoLostEdge'
    BY DEF IInv, NoLostEdge, Arrived
  <2>3. AnswersType' /\ OneAnswer' /\ Answers'
    BY AnswersSame DEF Waiting
  <2>. QED
    BY <2>1, <2>2, <2>3 DEF IInv
<1>2. CASE WaitFails /\ UNCHANGED answers
  BY <1>2, EndKeeps DEF WaitFails
<1>. QED
  BY <1>1, <1>2, LoopKeeps, ClientsKeep DEF Next

LEMMA Invariance == Spec => []IInv
BY InitInv, Step, PTL DEF Spec

(***************************************************************************)
(* Every variable keeps its type: in particular a ready descriptor is      *)
(* watched and no more is read on a connection than was sent on it.        *)
(***************************************************************************)
THEOREM ServiceTypes == Spec => []TypeOK
<1>1. IInv => TypeOK
  BY DEF IInv, SInv, AnswersType, TypeOK
<1>. QED
  BY <1>1, Invariance, PTL

(***************************************************************************)
(* Whatever numbers connections get, and however many events are in one    *)
(* batch, an event reaches the TcpClient of the connection that it was     *)
(* raised for.                                                             *)
(***************************************************************************)
THEOREM EventsReachTheirOwn == Spec => []OwnEvents
<1>1. IInv => OwnEvents
  BY SocketsSafe DEF IInv
<1>. QED
  BY <1>1, Invariance, PTL

(***************************************************************************)
(* No handler calls accept or recv with nothing to return: the blocking    *)
(* sockets never stop the loop.                                            *)
(***************************************************************************)
THEOREM LoopNeverBlocks == Spec => []NeverBlocks
<1>1. IInv => NeverBlocks
  BY SocketsSafe DEF IInv
<1>. QED
  BY <1>1, Invariance, PTL

(***************************************************************************)
(* What has arrived on a watched connection is on the ready list or in the *)
(* batch until its handler runs, at whatever moment it arrived.            *)
(***************************************************************************)
THEOREM EdgesAreKept == Spec => []NoLostEdge
<1>1. IInv => NoLostEdge
  BY DEF IInv
<1>. QED
  BY <1>1, Invariance, PTL

(***************************************************************************)
(* However a request is cut into segments and however many of them one     *)
(* recv takes, a connection gets at most one response, is closed right     *)
(* after it, and the response is the right one if the first line comes in  *)
(* one segment.                                                            *)
(***************************************************************************)
THEOREM AnsweredOnce == Spec => []OneAnswer
<1>1. IInv => OneAnswer
  BY DEF IInv
<1>. QED
  BY <1>1, Invariance, PTL
=============================================================================
