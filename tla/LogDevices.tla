----------------------------- MODULE LogDevices -----------------------------
(***************************************************************************)
(* The devices a log record goes to, as the settings of Logger.cpp make    *)
(* them and FNLog runs them: the file device with its rotation by size and *)
(* by day, and the filter by priority.  Operators only; the state of a     *)
(* file device is a record that its user keeps.                            *)
(*                                                                         *)
(* A record is its id, its priority and the day of its timestamp; every    *)
(* record is RecordLen bytes long.                                         *)
(***************************************************************************)
EXTENDS Integers, Sequences, SequencesExt, TLC

CONSTANTS
    RecordLen,    \* bytes of a record
    MB,           \* bytes of a megabyte
    IntRange,     \* how many values an int has
    Rollback      \* old files a file device keeps

ASSUME DevicesAssumption ==
    /\ {RecordLen, MB, IntRange, Rollback} \subseteq Nat \ {0}
    /\ IntRange % 2 = 0

\* limit_size * 1024 * 1024 as addLoggerToFile computes it, in an int.
LimitOf(limit_size) ==
    LET v == (limit_size * MB) % IntRange
    IN  IF 2 * v >= IntRange THEN v - IntRange ELSE v

\* A file device before its first record; day 0 is long past.  "older" are
\* the rolled files, newest first, each the sequence of the ids in it;
\* "written" is the history of all that was ever written.
NewFile ==
    [open |-> FALSE, day |-> 0, size |-> 0, tried |-> FALSE,
     exists |-> FALSE, text |-> <<>>, older |-> <<>>, written |-> <<>>]

\* FileHandler::rollback: path becomes path.1, path.1 becomes path.2, and
\* what was path.Rollback is removed.
RolledFile(f) ==
    IF f.exists
    THEN [f EXCEPT !.exists = FALSE, !.text = <<>>,
                   !.older = LET all == <<f.text>> \o f.older
                             IN  SubSeq(all, 1, IF Len(all) < Rollback
                                                THEN Len(all) ELSE Rollback)]
    ELSE f

\* Mutant: the limit is compared before the record is added.
FileOverLate(f, limit) == limit > 0 /\ f.size > limit

\* The record does not fit under the limit.
FileOver(f, limit) == limit > 0 /\ f.size + RecordLen > limit

\* OpenFileDevice: the file stays open for records of its day that fit,
\* otherwise it is rolled and opened again; the set of outcomes, as the open
\* may fail.
OpenedFile(f, limit, day, mayfail) ==
    LET sameday == day = f.day
        fresh   == ~sameday \/ FileOver(f, limit)
        rolled  == RolledFile(f)
    IN  IF f.open /\ ~fresh THEN {f}
        ELSE {[rolled EXCEPT !.open = TRUE, !.day = day, !.tried = FALSE,
                             !.exists = TRUE, !.size = 0]}
             \cup {[rolled EXCEPT !.open = FALSE, !.tried = TRUE,
                                  !.size = IF fresh THEN 0 ELSE @] :
                        failed \in {TRUE} \cap {mayfail}}

\* EnterProcOutFileDevice: the outcomes of handing it a record.  For five
\* seconds after an open that failed, records are dropped.
WrittenFile(f, limit, id, day, mayfail) ==
    (IF ~f.open /\ f.tried THEN {f} ELSE {})
    \cup {IF g.open
          THEN [g EXCEPT !.text = Append(@, id), !.size = @ + RecordLen,
                     !.written = Append(@, id)]
          ELSE g : g \in OpenedFile(f, limit, day, mayfail)}

\* What can still be read of a file device is the end of all it wrote, cut
\* into its files: cut[0] records came before path, cut[i] before path.i.
KeepsTheLatest(f) ==
    \E cut \in [0 .. Len(f.older) -> 0 .. Len(f.written)] :
        /\ f.text = SubSeq(f.written, cut[0] + 1, Len(f.written))
        /\ \A i \in 1 .. Len(f.older) :
              /\ cut[i] <= cut[i - 1]
              /\ f.older[i] = SubSeq(f.written, cut[i] + 1, cut[i - 1])

\* DispatchLog's filter.
Admits(device, priority) == priority >= device.level
=============================================================================
