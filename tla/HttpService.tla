---------------------------- MODULE HttpService ----------------------------
(***************************************************************************)
(* The web server of demo/http_main.cpp: HttpClient's parsing of a request *)
(* and its two responses, each sent on the connection and then closed, on  *)
(* the connections of EventSockets.                                        *)
(*                                                                         *)
(* A request is as many segments as the client sends; what matters of it   *)
(* is how many of them its first line takes, its method and whether the    *)
(* file exists.  Responses are their status.                               *)
(***************************************************************************)
EXTENDS EventSockets

CONSTANTS
    Line,      \* segments up to the "HTTP/" of each client's request
    Method,    \* its method
    Files      \* the clients that ask for a file there is

ASSUME RequestsAssumption ==
    /\ Line \in [Conns -> Nat \ {0}]
    /\ Method \in [Conns -> {"GET", "POST"}]
    /\ Files \subseteq Conns

VARIABLE answers    \* the responses sent on each connection

vars == <<socketVars, answers>>

Init == SocketsInit /\ answers = [c \in Conns |-> <<>>]

\* urlParse of the first n segments of c's request.
UrlParse(c, n) ==
    IF n < Line[c] THEN "PROTO_ERROR"
    ELSE IF Method[c] # "GET" THEN "METHOD_ERROR" ELSE "OK"

\* responseSuccess, with its 404 for a file that cannot be opened, or
\* responseFailed.
Response(c, n) ==
    IF UrlParse(c, n) # "OK" THEN "400"
    ELSE IF c \in Files THEN "200" ELSE "404"

\* recvCallBack at the end of the stream.
HandleEnd ==
    /\ pc = "handle"
    /\ taken = 0
    /\ CloseConnect
    /\ Return
    /\ UNCHANGED <<clients, backlog, objects, batch, answers>>

\* Mutant: no closeConnect after the response.
RespondOpen ==
    /\ pc = "handle"
    /\ taken > 0
    /\ \E c \in Holders(connect_fd[current]) :
        /\ peer[c] \in {"open", "closing"}
        /\ answers' = [answers EXCEPT ![c] = Append(@, Response(c, taken))]
    /\ Return
    /\ UNCHANGED <<clients, backlog, kernel, objects, batch>>

\* recvCallBack with data: the response is sent.  A send of more than the
\* socket holds lasts until the client has read enough of it.
Respond ==
    /\ pc = "handle"
    /\ taken > 0
    /\ \E c \in Holders(connect_fd[current]) :
        /\ peer[c] \in {"open", "closing"}
        /\ answers' = [answers EXCEPT ![c] = Append(@, Response(c, taken))]
    /\ pc' = "close"
    /\ UNCHANGED <<clients, backlog, kernel, objects, batch, current, taken>>

\* send fails, and the response functions return without closeConnect.
RespondFails ==
    /\ pc = "handle"
    /\ taken > 0
    /\ \A c \in Holders(connect_fd[current]) : peer[c] = "reset"
    /\ Return
    /\ UNCHANGED <<clients, backlog, kernel, objects, batch, answers>>

\* A reset that follows the client's close makes send raise SIGPIPE, which
\* nothing in the program handles.
RespondKilled ==
    /\ pc = "handle"
    /\ taken > 0
    /\ \E c \in Holders(connect_fd[current]) : peer[c] = "broken"
    /\ pc' = "ended"
    /\ UNCHANGED <<clients, backlog, kernel, objects, batch, current, taken, answers>>

CloseAnswered ==
    /\ pc = "close"
    /\ CloseConnect
    /\ Return
    /\ UNCHANGED <<clients, backlog, objects, batch, answers>>

Loop ==
    \/ SocketStep /\ UNCHANGED answers
    \/ HandleEnd \/ Respond \/ RespondFails \/ RespondKilled \/ CloseAnswered

Clients ==
    \E c \in Conns :
        /\ Client(c)
        /\ answers' = IF peer'[c] = "idle" THEN [answers EXCEPT ![c] = <<>>] ELSE answers

Next == Loop \/ (WaitFails /\ UNCHANGED answers) \/ Clients

Spec == Init /\ [][Next]_vars

(***************************************************************************)
(* The thread of the loop runs.  That includes Respond: a client reads     *)
(* what it is sent, or resets.  Nothing is assumed of when clients         *)
(* connect, send or close.                                                 *)
(***************************************************************************)
FairSpec == Spec /\ WF_vars(Loop)

-----------------------------------------------------------------------------
TypeOK == SocketsTypeOK /\ answers \in [Conns -> Seq({"200", "404", "400"})]

(***************************************************************************)
(* Edge-triggered events are not lost: as long as a connection is not      *)
(* reset, what it has brought, its end included, is on the ready list or   *)
(* in the batch until the handler of its connection runs, whether it came  *)
(* before the descriptor was registered, while the batch was handled or    *)
(* during the handler of another connection.                               *)
(***************************************************************************)
NoLostEdge ==
    \A c \in Conns :
        /\ fd[c] \in watched
        /\ c # current
        /\ Arrived(c) /\ peer[c] # "reset"
        => fd[c] \in ready \/ <<fd[c], c>> \in batch

(***************************************************************************)
(* A request gets one response however its segments arrive, and the        *)
(* connection does not outlive it.  A client whose first line comes in one *)
(* segment gets the status it should.                                      *)
(***************************************************************************)
OneAnswer ==
    \A c \in Conns :
        /\ Len(answers[c]) <= 1
        /\ fd[c] # NoFd /\ answers[c] # <<>> => current = c /\ pc = "close"
        /\ Line[c] = 1 /\ answers[c] # <<>> => answers[c] = <<Response(c, 1)>>

(***************************************************************************)
(* One edge is one accept, so of two clients that connect at once the      *)
(* second may stay in the backlog.  But whoever connects brings on an      *)
(* accept: the client that has waited longest is accepted then, as long as *)
(* descriptors are left.                                                   *)
(***************************************************************************)
Accepted ==
    \A c \in Conns :
        Waiting # {} /\ c = Head(backlog) /\ ListenFd \in ready
            ~> c \notin Waiting \/ FreeFds = {} \/ pc = "ended"

(***************************************************************************)
(* A connection that was accepted and registered and has something to read *)
(* is closed in the end, unless the client resets it: then recv or send    *)
(* fails and the descriptor stays open for good.                           *)
(***************************************************************************)
Served ==
    \A c \in Conns :
        fd[c] \in watched /\ Arrived(c) ~> fd[c] = NoFd \/ peer[c] = "reset" \/ pc = "ended"
=============================================================================
