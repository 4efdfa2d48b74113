---------------------------- MODULE MCRpcService ----------------------------
(***************************************************************************)
(* RpcService with two clients, each with two requests in two segments:    *)
(* one whole and one cut into a request that loses its name and a rest     *)
(* that is no object, or the latter alone and cut anywhere.                *)
(***************************************************************************)
EXTENDS RpcService, TLC

CONSTANTS whole, torn

MCChars == {"A", "B", "C", "D", "f", "n", "h", "p", "1", "r", "H", "E"} \cup Marks \cup {Quote}
MCNames == (whole :> <<<<"A">>, <<"B">>>>) @@ (torn :> <<<<"C">>, <<"D">>>>)
MCSegments == [c \in Conns |-> 2]

Halves(i) == <<SubSeq(Sends(torn), 1, i), SubSeq(Sends(torn), i + 1, Len(Sends(torn)))>>

\* The place before the name in the first request.
InRequest == Len(SayHello(<<"C">>)) - 5

MCCuts ==
    {(whole :> Requests(whole)) @@ (torn :> Halves(InRequest))}
        \cup {(whole :> <<>>) @@ (torn :> Halves(i)) : i \in 1 .. Len(Sends(torn)) - 1}
=============================================================================
