----------------------------- MODULE RpcService -----------------------------
(***************************************************************************)
(* The remote call of demo/rpc_main.cpp on the connections of              *)
(* EventSockets: UsrRpcClient, which answers on the server, and UsrClient, *)
(* which calls sayHello and logs the result.  Each request and each        *)
(* response is a JSON text; nothing marks where one ends, and what one     *)
(* recv returns is parsed as one text.                                     *)
(*                                                                         *)
(* Letters stand for words: f, n and p1 for "function", "name" and         *)
(* "param1", h for "sayHello", r for "result", H for "Hello " and E for    *)
(* "Error".                                                                *)
(***************************************************************************)
EXTENDS EventSockets, JsonText, SequencesExt

CONSTANTS
    Chars,     \* the characters of texts
    Names,     \* the name each client greets with each request
    Cuts       \* the ways the clients' texts may be cut into segments

\* sayHello of UsrClient: the text of a request.
SayHello(name) ==
    Format1(<<"f">>, Format2(<<"n">>, Quoted(<<"h">>), <<"p", "1">>, Quoted(name)))

\* The text a client sends is its requests.
Requests(c) == [k \in DOMAIN Names[c] |-> SayHello(Names[c][k])]
Sends(c) == FlattenSeq(Requests(c))

ASSUME CharsAssumption ==
    {"f", "n", "h", "p", "1", "r", "H", "E"} \cup Marks \cup {Quote} \subseteq Chars

Text == Seq(Chars)

\* No name holds a quote, and no segment is empty.  A client without segments
\* stays away.
ASSUME RpcAssumption ==
    /\ Names \in [Conns -> Seq(Seq(Chars \ {Quote}))]
    /\ \A cut \in Cuts, c \in Conns :
          /\ cut[c] \in Seq(Text \ {<<>>})
          /\ cut[c] # <<>> => Len(cut[c]) = Segments[c] /\ FlattenSeq(cut[c]) = Sends(c)

VARIABLES
    segments,    \* the segments each client's text is cut into
    answers,     \* the results sent to each client
    seen,        \* how many of them it has read
    shown        \* the results it has logged

calls == <<segments, answers, seen, shown>>
vars == <<socketVars, calls>>

Init ==
    /\ SocketsInit
    /\ segments \in Cuts
    /\ answers = [c \in Conns |-> <<>>]
    /\ seen = [c \in Conns |-> 0]
    /\ shown = [c \in Conns |-> <<>>]

-----------------------------------------------------------------------------
(* UsrRpcClient::recvCallBack, on the server                               *)

\* Mutant: the buffer is not cleared before recv.
ReceivedAll ==
    FlattenSeq(SubSeq(segments[current], 1, sent[current] - inbox[current]))

\* What the recv of the handler that runs has returned.
Received ==
    LET read == sent[current] - inbox[current]
    IN  FlattenSeq(SubSeq(segments[current], read - taken + 1, read))

\* The result for a text, or Throws.
Result(text) ==
    LET function == Member(Parse(text), <<"f">>)
        name     == AsString(Member(function, <<"n">>))
        param    == AsString(Member(function, <<"p", "1">>))
    IN  IF name = Throws THEN Throws
        ELSE IF name # String(<<"h">>) THEN String(<<"E">>)
        ELSE IF param = Throws THEN Throws
        ELSE String(<<"H">> \o param.text)

\* The result of each text that recv may return, worked out once.
Texts == {FlattenSeq(s) : s \in UNION {SubSeqs(cut[c]) : cut \in Cuts, c \in Conns}}
Replies == {<<text, Result(text)>> : text \in Texts}
Reply == (CHOOSE r \in Replies : r[1] = Received)[2]

\* Mutant: catches what asString throws and sends the result it has, which is
\* empty.
RespondCaught ==
    /\ pc = "handle"
    /\ \E c \in Holders(connect_fd[current]) :
        /\ peer[c] \in {"open", "closing"}
        /\ answers' = [answers EXCEPT
               ![c] = Append(@, IF Reply = Throws THEN <<>> ELSE Reply.text)]
    /\ Return
    /\ UNCHANGED <<clients, backlog, kernel, objects, batch, segments, seen, shown>>

\* The result is sent, for the end of the stream as for a request, and the
\* connection stays open.
Respond ==
    /\ pc = "handle"
    /\ Reply # Throws
    /\ \E c \in Holders(connect_fd[current]) :
        /\ peer[c] \in {"open", "closing"}
        /\ answers' = [answers EXCEPT ![c] = Append(@, Reply.text)]
    /\ Return
    /\ UNCHANGED <<clients, backlog, kernel, objects, batch, segments, seen, shown>>

\* send fails, which is logged.
RespondFails ==
    /\ pc = "handle"
    /\ Reply # Throws
    /\ \A c \in Holders(connect_fd[current]) : peer[c] = "reset"
    /\ Return
    /\ UNCHANGED <<clients, backlog, kernel, objects, batch, calls>>

\* The process ends: the text does not hold what operator[] asserts, and
\* nobody catches the exception; or the client has closed and then reset the
\* connection, and send raises SIGPIPE.
RespondKilled ==
    /\ pc = "handle"
    /\ \/ Reply = Throws
       \/ \E c \in Holders(connect_fd[current]) : peer[c] = "broken"
    /\ pc' = "ended"
    /\ UNCHANGED <<clients, backlog, kernel, objects, batch, current, taken, calls>>

-----------------------------------------------------------------------------
(* UsrClient::recvCallBack                                                 *)

\* The results that greet nobody, and the greetings a client's requests ask for.
Bare == {<<"E">>, <<"H">>}
Asked(c) == [k \in DOMAIN Names[c] |-> <<"H">> \o Names[c][k]]

Results == Bare \cup UNION {ToSet(Asked(c)) : c \in Conns}

\* What it logs for responses that come together, worked out once.
FirstResult(results) ==
    AsString(Member(Parse(FlattenSeq([i \in DOMAIN results |->
                                          Format1(<<"r">>, Quoted(results[i]))])),
                    <<"r">>)).text
Batches == UNION {[1 .. n -> Results] : n \in 1 .. RecvMax}
Logs == {<<results, FirstResult(results)>> : results \in Batches}
Logged(results) == (CHOOSE l \in Logs : l[1] = results)[2]

\* One recv of the client, of up to RecvMax responses.
LogResult(c) ==
    /\ peer[c] = "open"
    /\ \E n \in seen[c] + 1 .. seen[c] + RecvMax :
        /\ n <= Len(answers[c])
        /\ shown' = [shown EXCEPT ![c] =
                         Append(@, Logged(SubSeq(answers[c], seen[c] + 1, n)))]
        /\ seen' = [seen EXCEPT ![c] = n]
    /\ UNCHANGED <<socketVars, segments, answers>>

-----------------------------------------------------------------------------
Server ==
    \/ SocketStep /\ UNCHANGED calls
    \/ Respond \/ RespondFails \/ RespondKilled

Next ==
    \/ Server
    \/ WaitFails /\ UNCHANGED calls
    \/ \E c \in Conns : segments[c] # <<>> /\ Client(c) /\ UNCHANGED calls
    \/ \E c \in Conns : LogResult(c)

Spec == Init /\ [][Next]_vars

(***************************************************************************)
(* The loops of the server and of the clients run.  Nothing is assumed of  *)
(* when clients connect, send or close.                                    *)
(***************************************************************************)
FairSpec == Spec /\ WF_vars(Server) /\ \A c \in Conns : WF_vars(LogResult(c))

-----------------------------------------------------------------------------
TypeOK ==
    /\ SocketsTypeOK
    /\ answers \in [Conns -> Seq(Results)]
    /\ shown \in [Conns -> Seq(Results)]
    /\ seen \in [Conns -> Nat]

\* The client's requests arrive whole: no segment ends inside one.
Whole(c) == segments[c] = Requests(c)

\* Each result that greets somebody is one of those asked for, in their order.
InOrder(results, asked) ==
    \E request \in [DOMAIN results -> {0} \cup DOMAIN asked] :
        \A i \in DOMAIN results : results[i] \notin Bare =>
            /\ request[i] # 0 /\ results[i] = asked[request[i]]
            /\ \A j \in 1 .. i - 1 : results[j] \notin Bare => request[j] < request[i]

(***************************************************************************)
(* However requests and responses run together, and wherever a text is     *)
(* cut, a greeting that is answered or logged is the one asked for, in the *)
(* order of the requests, each at most once; a cut may lose its name.  A   *)
(* client whose requests arrive whole gets nothing else while it stays.    *)
(***************************************************************************)
HonestAnswers ==
    \A c \in Conns : \A results \in {answers[c], shown[c]} :
        /\ InOrder(results, Asked(c))
        /\ Whole(c) /\ peer[c] = "open" => ToSet(results) \subseteq ToSet(Asked(c))

(***************************************************************************)
(* What a client that stays has sent whole is read to the end, with those  *)
(* of other clients in between, and it logs a result for it, though maybe  *)
(* one for several requests.                                               *)
(***************************************************************************)
Answered ==
    \A c \in Conns :
        Whole(c) /\ fd[c] \in watched /\ inbox[c] > 0
            ~> \/ /\ inbox[c] = 0 /\ current # c
                  /\ shown[c] # <<>> /\ seen[c] = Len(answers[c])
               \/ peer[c] # "open" \/ pc = "ended"
=============================================================================
