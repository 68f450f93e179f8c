--------------------------- MODULE MCWriteManager ---------------------------
(***************************************************************************)
(* An instance of WriteManager for TLC.  The requests are named, because   *)
(* their sizes differ: big is a BulkInsert of two rows.                    *)
(***************************************************************************)
EXTENDS WriteManager

CONSTANTS a, b, c, big

MCReqs == {a, b, c, big}
MCRows == [r \in MCReqs |-> IF r = big THEN 2 ELSE 1]
=============================================================================
