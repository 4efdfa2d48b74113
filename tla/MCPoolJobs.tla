----------------------------- MODULE MCPoolJobs -----------------------------
(* The instance that TLC checks: a file of one object, one to which two     *)
(* objects append, one that two objects rewrite with texts of different     *)
(* length, one whose directory is missing, one edited by lines, and the two *)
(* pipes of demo/ipc_main.cpp, which read what the other writes.            *)
EXTENDS PoolJobs

MCFileOf == [page |-> "page", log1 |-> "log", log2 |-> "log", rw1 |-> "rw", rw2 |-> "rw", none |-> "none"]
MCTextOf == [page |-> <<"p", "q">>, log1 |-> <<"a", "b">>, log2 |-> <<"c">>, rw1 |-> <<"r">>,
             rw2 |-> <<"s", "t">>, none |-> <<"n">>]
MCOpsOf  == [page |-> {"readAll", "writeAll", "append"}, log1 |-> {"append"}, log2 |-> {"append", "readAll"},
             rw1 |-> {"writeAll"}, rw2 |-> {"writeAll"}, none |-> {"append"},
             reader |-> {"fifoRead"}, writer |-> {"fifoWrite"}]
MCObjects  == DOMAIN MCFileOf
MCInitFile == [page |-> <<"o">>, log |-> Absent, rw |-> <<>>, none |-> Absent, list |-> <<"x", NL, NL, "y">>]

MCChars == {"a", "b", "c", "e", "n", "o", "p", "q", "r", "s", "t", "x", "y"}

MCLineTexts == {<<"e">>}

MCReadFifo  == [reader |-> "1111", writer |-> "2222"]
MCWriteFifo == [reader |-> "2222", writer |-> "1111"]
=============================================================================
