--------------------------- MODULE MCRecordCache ---------------------------
(***************************************************************************)
(* An instance of RecordCache for TLC.                                     *)
(***************************************************************************)
EXTENDS RecordCache

CONSTANTS c1, c2

\* Every request looks its record up first, but for an import: a write of one
\* handler meets the reads and the writes of the other.
Shared == [c \in Clients |->
    IF c = c1 THEN {"update", "import"} ELSE {"get", "delete"}]

\* A delete of record 1 takes record 2 along.
OneTakesTwo == [i \in Ids |-> IF i = 1 THEN {2} ELSE {}]
=============================================================================
