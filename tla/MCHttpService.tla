--------------------------- MODULE MCHttpService ---------------------------
(***************************************************************************)
(* HttpService with up to three clients: a GET for a file, whose first     *)
(* line is split over two segments; a POST in one segment; and a client    *)
(* that connects and sends nothing.                                        *)
(***************************************************************************)
EXTENDS HttpService

CONSTANTS get, post, silent

MCSegments == [c \in Conns |-> CASE c = get -> 2 [] c = post -> 1 [] c = silent -> 0]
MCLine     == [c \in Conns |-> IF c = get THEN 2 ELSE 1]
MCMethod   == [c \in Conns |-> IF c = post THEN "POST" ELSE "GET"]
=============================================================================
