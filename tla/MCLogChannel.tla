---------------------------- MODULE MCLogChannel ----------------------------
(***************************************************************************)
(* LogChannel with two producers, of which one logs below the level of the *)
(* device, and four records for a ring of three slots.                     *)
(***************************************************************************)
EXTENDS LogChannel

CONSTANTS info, debug

MCPriority == [t \in Producers |-> IF t = info THEN 2 ELSE 1]
\* Record 3 is stamped after midnight and record 4, claimed later, before it.
MCDayOf == <<1, 1, 2, 1>>
=============================================================================
