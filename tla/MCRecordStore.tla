--------------------------- MODULE MCRecordStore ---------------------------
(***************************************************************************)
(* Instances of RecordStore for TLC: what the clients may ask for and the  *)
(* records they find.                                                      *)
(***************************************************************************)
EXTENDS RecordStore, TLC

CONSTANTS c1, c2, v1, v2

D(v, r) == [val |-> v, ref |-> r]
Rec(f) == [i \in Ids |-> IF i \in DOMAIN f THEN f[i] ELSE None]

Creates(vs, refs) == [kind : {"create"}, data : [val : vs, ref : refs]]
Imports(ids, vs) == [kind : {"import"}, id : ids, data : [val : vs, ref : {NoRef}]]
ValUpdates(ids, vs) == [kind : {"update"}, id : ids, field : {"val"}, to : vs]
Deletes(ids) == [kind : {"delete"}, id : ids]

\* At the same time: creations of the value that an update or a delete of
\* record 4 gives back, an import, and cascades through the cycle 1 -> 2 -> 1 that meet.
Cycle == Rec(<<D(Null, 2), D(Null, 1), D(Null, 2), D(v1, NoRef)>>)
ConcurrentRequests == [c \in Calls |->
    Creates({v1, v2}, {NoRef}) \cup Creates({v2}, {1}) \cup Imports({5}, {v2})
    \cup ValUpdates({4}, {v2, Null}) \cup Deletes(1..4)]
=============================================================================
