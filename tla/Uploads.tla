------------------------------ MODULE Uploads ------------------------------
(***************************************************************************)
(* Resumable uploads (api/storage/tus.rs), plain uploads and deletions of  *)
(* stored files (api/storage/files.rs, connections/files.rs) and the quota *)
(* of the tmp directory (check_temp_quota in utils.rs).                    *)
(*                                                                         *)
(* An upload session is two files in the scope's tmp directory, info and   *)
(* part.  A PATCH checks that both exist and that the client's offset is   *)
(* the length of part, appends its body and, when the declared size is     *)
(* reached, stores the bytes of part under the name of the session, writes *)
(* a row of _storage_files and removes part and info.  Nothing locks the   *)
(* session.  The bytes of a client's file are the numbers 1..Size.         *)
(***************************************************************************)
EXTENDS Naturals, Sequences, FiniteSets

CONSTANTS
    Clients,    \* requests at a time
    Uploads,    \* sessions and, by plain uploads, names
    Size,       \* declared size
    Quota,      \* bytes allowed in the tmp directory
    MaxRows,    \* bound on the rows written
    MaxFaults   \* bound on the storage and database errors

Nobody == "nobody"
Gone == <<0>>   \* no such file
Whole == [i \in 1..Size |-> i]

VARIABLES
    opened,     \* the uploads begun so far
    info,       \* those that have an info file
    part,       \* the bytes of each part file, or Gone
    stored,     \* the bytes of the stored file, or Gone
    rows,       \* _storage_files: the upload of each row, Nobody when deleted
    call,       \* the request of each client
    faults,
    crowded,    \* a session was admitted while another had bytes to come
    raced,      \* uploads on which two requests were at work at once
    broken      \* uploads whose completion or deletion has failed half-way

vars == <<opened, info, part, stored, rows, call, faults, crowded, raced, broken>>

NoCall == [step |-> "idle", id |-> Nobody, plain |-> FALSE, offset |-> 0, bytes |-> << >>, row |-> 0]
At(c, step) == call[c].step = step
Return(c) == call' = [call EXCEPT ![c] = NoCall]
Goto(c, step) == call' = [call EXCEPT ![c].step = step]

Init ==
    /\ opened = {} /\ info = {}
    /\ part = [u \in Uploads |-> Gone] /\ stored = [u \in Uploads |-> Gone]
    /\ rows = << >>
    /\ call = [c \in Clients |-> NoCall]
    /\ faults = 0 /\ crowded = FALSE /\ raced = {} /\ broken = {}

Held(u) == IF part[u] = Gone THEN 0 ELSE Len(part[u])
TempBytes == Cardinality(UNION {{u} \X (1..Held(u)) : u \in Uploads})
AtWork(u, c) == \E x \in Clients \ {c} : call[x].id = u
Enter(c, k) ==
    /\ call' = [call EXCEPT ![c] = k]
    /\ raced' = IF AtWork(k.id, c) THEN raced \cup {k.id} ELSE raced

\* A step of the storage or the database fails: the request ends with an error.
Fail(c) ==
    /\ faults < MaxFaults /\ faults' = faults + 1
    /\ broken' = broken \cup {call[c].id}
    /\ Return(c)
    /\ UNCHANGED <<opened, info, part, stored, rows, crowded, raced>>

-----------------------------------------------------------------------------
(* POST: tus_create and upload_file.                                       *)

\* check_temp_quota, on the bytes that are in the directory.
\* Mutant: without the bytes to come.
MutFits(held) == held <= Quota
Fits(held) == held + Size <= Quota

Admit(c) ==
    /\ At(c, "idle")
    /\ \E u \in Uploads \ opened :
          /\ Fits(TempBytes)
          /\ opened' = opened \cup {u}
          /\ Enter(c, [NoCall EXCEPT !.step = "make", !.id = u])
    /\ crowded' = (crowded \/ (\E x \in Clients : At(x, "make"))
                           \/ (\E u \in info : part[u] # Gone /\ Held(u) < Size))
    /\ UNCHANGED <<info, part, stored, rows, faults, broken>>

\* The files, with the first bytes if the request has any.
Make(c) ==
    /\ At(c, "make")
    /\ \E n \in 0..Size : part' = [part EXCEPT ![call[c].id] = [i \in 1..n |-> i]]
    /\ info' = info \cup {call[c].id}
    /\ Return(c)
    /\ UNCHANGED <<opened, stored, rows, faults, crowded, raced, broken>>

\* upload_file: the whole file under a new name.
Plain(c) ==
    /\ At(c, "idle")
    /\ \E u \in Uploads \ opened :
          /\ opened' = opened \cup {u}
          /\ Enter(c, [NoCall EXCEPT !.step = "save", !.id = u, !.plain = TRUE, !.bytes = Whole])
    /\ UNCHANGED <<info, part, stored, rows, faults, crowded, broken>>

-----------------------------------------------------------------------------
(* PATCH.                                                                  *)

\* Mutant: the client's offset is believed.
MutMatches(client, current) == TRUE
Matches(client, current) == client = current

Check(c) ==
    /\ At(c, "idle")
    /\ \E u \in info :
          /\ part[u] # Gone
          /\ \E from \in 0..Size : \E n \in 0..(Size - from) :
                /\ Matches(from, Held(u))
                /\ Enter(c, [NoCall EXCEPT !.step = "append", !.id = u, !.offset = Held(u),
                                           !.bytes = [i \in 1..n |-> from + i]])
    /\ UNCHANGED <<opened, info, part, stored, rows, faults, crowded, broken>>

\* open(create, append) and write_all: a part file that is gone starts again.
Append_(c) ==
    LET k == call[c] IN
    /\ At(c, "append")
    /\ part' = [part EXCEPT ![k.id] = (IF @ = Gone THEN << >> ELSE @) \o k.bytes]
    /\ Goto(c, IF k.offset + Len(k.bytes) >= Size THEN "read" ELSE "note")
    /\ UNCHANGED <<opened, info, stored, rows, faults, crowded, raced, broken>>

\* The info file with the new offset.
Note(c) ==
    /\ At(c, "note")
    /\ info' = info \cup {call[c].id}
    /\ Return(c)
    /\ UNCHANGED <<opened, part, stored, rows, faults, crowded, raced, broken>>

Read(c) ==
    /\ At(c, "read")
    /\ IF part[call[c].id] = Gone
         THEN Return(c)
         ELSE call' = [call EXCEPT ![c].step = "save", ![c].bytes = part[call[c].id]]
    /\ UNCHANGED <<opened, info, part, stored, rows, faults, crowded, raced, broken>>

Save(c) ==
    /\ At(c, "save")
    /\ \/ /\ stored' = [stored EXCEPT ![call[c].id] = call[c].bytes]
          /\ Goto(c, "row")
          /\ UNCHANGED <<opened, info, part, rows, faults, crowded, raced, broken>>
       \/ Fail(c)

\* create_file_metadata
Row(c) ==
    /\ At(c, "row")
    /\ \/ /\ Len(rows) < MaxRows
          /\ rows' = Append(rows, call[c].id)
          /\ IF call[c].plain THEN Return(c) ELSE Goto(c, "unpart")
          /\ UNCHANGED <<opened, info, part, stored, faults, crowded, raced, broken>>
       \/ Fail(c)

RemovePart(c) ==
    /\ At(c, "unpart")
    /\ part' = [part EXCEPT ![call[c].id] = Gone]
    /\ Goto(c, "uninfo")
    /\ UNCHANGED <<opened, info, stored, rows, faults, crowded, raced, broken>>

RemoveInfo(c) ==
    /\ At(c, "uninfo")
    /\ info' = info \ {call[c].id}
    /\ Return(c)
    /\ UNCHANGED <<opened, part, stored, rows, faults, crowded, raced, broken>>

-----------------------------------------------------------------------------
(* DELETE of a session and of a stored file.                               *)

Terminate(c) ==
    /\ At(c, "idle")
    /\ \E u \in opened : /\ info' = info \ {u}
                         /\ Enter(c, [NoCall EXCEPT !.step = "terminate", !.id = u])
    /\ UNCHANGED <<opened, part, stored, rows, faults, crowded, broken>>

TerminatePart(c) ==
    /\ At(c, "terminate")
    /\ part' = [part EXCEPT ![call[c].id] = Gone]
    /\ Return(c)
    /\ UNCHANGED <<opened, info, stored, rows, faults, crowded, raced, broken>>

DeleteFile(c) ==
    /\ At(c, "idle")
    /\ \E r \in 1..Len(rows) :
          /\ rows[r] # Nobody
          /\ Enter(c, [NoCall EXCEPT !.step = "unstore", !.id = rows[r], !.row = r])
    /\ UNCHANGED <<opened, info, part, stored, rows, faults, crowded, broken>>

Unstore(c) ==
    /\ At(c, "unstore")
    /\ stored' = [stored EXCEPT ![call[c].id] = Gone]
    /\ Goto(c, "unrow")
    /\ UNCHANGED <<opened, info, part, rows, faults, crowded, raced, broken>>

\* delete_file_metadata.  Mutant: the row stays.
MutWithoutRow(r) == rows
WithoutRow(r) == [rows EXCEPT ![r] = Nobody]

Unrow(c) ==
    /\ At(c, "unrow")
    /\ \/ /\ rows' = WithoutRow(call[c].row)
          /\ Return(c)
          /\ UNCHANGED <<opened, info, part, stored, faults, crowded, raced, broken>>
       \/ Fail(c)

Next == \E c \in Clients :
    \/ Admit(c) \/ Make(c) \/ Plain(c)
    \/ Check(c) \/ Append_(c) \/ Note(c) \/ Read(c) \/ Save(c) \/ Row(c) \/ RemovePart(c) \/ RemoveInfo(c)
    \/ Terminate(c) \/ TerminatePart(c) \/ DeleteFile(c) \/ Unstore(c) \/ Unrow(c)

Spec == Init /\ [][Next]_vars

-----------------------------------------------------------------------------
TypeOK ==
    /\ info \subseteq opened /\ opened \subseteq Uploads
    /\ \A u \in Uploads : Held(u) <= Size * (Cardinality(Clients) + 1)
    /\ rows \in Seq(Uploads \cup {Nobody}) /\ Len(rows) <= MaxRows
    /\ faults \in 0..MaxFaults

RowsOf(u) == {r \in 1..Len(rows) : rows[r] = u}

\* Assembled: what is stored is the client's file, whole and in order, unless
\* two requests were at work on the session at once.
Assembled == \A u \in Uploads \ raced : stored[u] \in {Gone, Whole}

\* OneRow: a stored file is told by one row, and a row tells a stored file,
\* unless requests raced or one of them failed half-way; only a deletion that
\* is under way takes the file before the row.
OneRow == \A u \in Uploads \ (raced \cup broken) :
    /\ Cardinality(RowsOf(u)) <= 1
    /\ RowsOf(u) # {} => stored[u] # Gone \/ \E c \in Clients : At(c, "unrow") /\ call[c].id = u

\* TempBound: the tmp directory stays within the quota, unless a session was
\* admitted while another still had bytes to come, or requests raced.
TempBound == ~crowded /\ raced = {} => TempBytes <= Quota
=============================================================================
