-------------------------- MODULE RecordStoreProofs --------------------------
(***************************************************************************)
(* What holds of RecordStore for any number of calls at the same time, all *)
(* values and all records at the start.                                    *)
(***************************************************************************)
EXTENDS RecordStore, FiniteSetTheorems, TLAPS

-----------------------------------------------------------------------------
(* What a step does to the state of its call.                              *)

\* Call c becomes e; the other calls stay as they are.
Becomes(c, e) ==
    /\ e \in CallState /\ call'[c] = e
    /\ call' \in [Calls -> CallState]
    /\ \A d \in Calls \ {c} : call'[d] = call[d]

\* An assignment to call[c] is such a step.
LEMMA AssignedCall ==
    ASSUME TypeOK, NEW c \in Calls, NEW e \in CallState, call' = [call EXCEPT ![c] = e]
    PROVE  Becomes(c, e)
  BY DEF TypeOK, Becomes

\* The state of a call is a record of CallState.
LEMMA TypeOfCall ==
    ASSUME TypeOK, NEW c \in Calls
    PROVE  call[c] \in CallState
  BY DEF TypeOK

\* The same, field by field.
LEMMA StateOfCall ==
    ASSUME TypeOK, NEW c \in Calls
    PROVE  /\ call[c] \in CallState
           /\ call[c] = [req |-> call[c].req, step |-> call[c].step, id |-> call[c].id,
                         data |-> call[c].data, uq |-> call[c].uq, rl |-> call[c].rl,
                         todo |-> call[c].todo, seen |-> call[c].seen, del |-> call[c].del,
                         res |-> call[c].res]
  BY DEF TypeOK, CallState

\* The two halves of a row that are written next.
LEMMA ExceptJoin ==
    ASSUME NEW r \in CallState
    PROVE  [r EXCEPT !.step = "join", !.uq = "clear", !.rl = "clear"] \in CallState
  BY DEF CallState, Steps

\* The record that a deletion takes up next.
LEMMA ExceptPurge ==
    ASSUME NEW r \in CallState, NEW i \in 0..MaxId, NEW t \in SUBSET Ids
    PROVE  [r EXCEPT !.id = i, !.todo = t, !.del = "record"] \in CallState
  BY DEF CallState

\* The end of a call.
LEMMA ReturnFacts ==
    ASSUME TypeOK, NEW c \in Calls, NEW v \in {"ok", "err"}, Return(c, v)
    PROVE  Becomes(c, [call[c] EXCEPT !.step = "done", !.res = v])
  <1> DEFINE e == [call[c] EXCEPT !.step = "done", !.res = v]
  <1>1. e \in CallState
    BY TypeOfCall DEF CallState, Steps
  <1>2. call' = [call EXCEPT ![c] = e]
    BY DEF Return, TypeOK
  <1>3. QED
    BY <1>1, <1>2, AssignedCall

\* A field of the record that a request changes.
LEMMA PatchedData ==
    ASSUME ConstantsAssumption, NEW x \in Data, NEW r \in Request, r.kind = "update"
    PROVE  [x EXCEPT ![r.field] = r.to] \in Data
  <1>1. \/ r \in [kind : {"update"}, id : Ids, field : {"val"}, to : Vals \cup {Null}]
        \/ r \in [kind : {"update"}, id : Ids, field : {"ref"}, to : Ids \cup {NoRef}]
    BY DEF Request
  <1>2. CASE r \in [kind : {"update"}, id : Ids, field : {"val"}, to : Vals \cup {Null}]
    <2>1. r.field = "val" /\ r.to \in Vals \cup {Null}
      BY <1>2
    <2>2. [x EXCEPT !["val"] = r.to] \in Data
      BY <2>1 DEF Data
    <2>3. QED
      BY <2>1, <2>2
  <1>3. CASE r \in [kind : {"update"}, id : Ids, field : {"ref"}, to : Ids \cup {NoRef}]
    <2>1. r.field = "ref" /\ r.to \in Ids \cup {NoRef}
      BY <1>3
    <2>2. [x EXCEPT !["ref"] = r.to] \in Data
      BY <2>1 DEF Data
    <2>3. QED
      BY <2>1, <2>2
  <1>4. QED
    BY <1>1, <1>2, <1>3

\* The parts of a request.
LEMMA RequestParts ==
    ASSUME NEW r \in Request
    PROVE  /\ r.kind \in {"create", "import", "update", "delete"}
           /\ r.kind \in {"create", "import"} => r.data \in Data
           /\ r.kind \in {"import", "update", "delete"} => r.id \in Ids
  <1>1. CASE r \in [kind : {"create"}, data : Data]
    BY <1>1
  <1>2. CASE r \in [kind : {"import"}, id : Ids, data : Data]
    BY <1>2
  <1>3. CASE r \in [kind : {"update"}, id : Ids, field : {"val"}, to : Vals \cup {Null}]
    BY <1>3
  <1>4. CASE r \in [kind : {"update"}, id : Ids, field : {"ref"}, to : Ids \cup {NoRef}]
    BY <1>4
  <1>5. CASE r \in [kind : {"delete"}, id : Ids]
    BY <1>5
  <1>6. QED
    BY <1>1, <1>2, <1>3, <1>4, <1>5 DEF Request

\* A creation takes the next id.
LEMMA InsertFacts ==
    ASSUME ConstantsAssumption, TypeOK, NEW c \in Calls, InsertRecord(c)
    PROVE  Becomes(c, [call[c] EXCEPT !.step = "join", !.id = FreshId, !.uq = "clear", !.rl = "clear"])
  <1> DEFINE e == [call[c] EXCEPT !.step = "join", !.id = FreshId, !.uq = "clear", !.rl = "clear"]
  <1>1. e \in CallState
    <2>1. FreshId \in 0..MaxId
      BY DEF TypeOK, InsertRecord, FreshId, ConstantsAssumption
    <2>2. [call[c] EXCEPT !.id = FreshId] \in CallState
      BY <2>1, TypeOfCall DEF CallState
    <2>3. e = [[call[c] EXCEPT !.id = FreshId] EXCEPT !.step = "join", !.uq = "clear", !.rl = "clear"]
      BY StateOfCall
    <2>4. QED
      BY <2>2, <2>3, ExceptJoin
  <1>2. call' = [call EXCEPT ![c] = e]
    BY DEF InsertRecord, TypeOK
  <1>3. QED
    BY <1>1, <1>2, AssignedCall

\* The update of a row is followed by those of its index and links.
LEMMA UpdateFacts ==
    ASSUME TypeOK, NEW c \in Calls, UpdateRecord(c)
    PROVE  Becomes(c, [call[c] EXCEPT !.step = "join", !.uq = "clear", !.rl = "clear"])
  <1> DEFINE e == [call[c] EXCEPT !.step = "join", !.uq = "clear", !.rl = "clear"]
  <1>1. e \in CallState
    BY TypeOfCall DEF CallState, Steps
  <1>2. call' = [call EXCEPT ![c] = e]
    BY DEF UpdateRecord, TypeOK
  <1>3. QED
    BY <1>1, <1>2, AssignedCall

\* The old entry of the index is gone.
LEMMA ClearUniqueFacts ==
    ASSUME TypeOK, NEW c \in Calls, ClearUnique(c)
    PROVE  Becomes(c, [call[c] EXCEPT !.step = AfterStatement(c), !.uq = IF call[c].data.val = Null THEN "end" ELSE "put"])
  <1> DEFINE e == [call[c] EXCEPT !.step = AfterStatement(c), !.uq = IF call[c].data.val = Null THEN "end" ELSE "put"]
  <1>1. e \in CallState
    <2>1. AfterStatement(c) \in Steps
      BY DEF AfterStatement, Steps
    <2>2. QED
      BY <2>1, TypeOfCall DEF CallState
  <1>2. call' = [call EXCEPT ![c] = e]
    BY DEF ClearUnique, TypeOK
  <1>3. QED
    BY <1>1, <1>2, AssignedCall

\* The new entry of the index is there.
LEMMA PutUniqueFacts ==
    ASSUME TypeOK, NEW c \in Calls, PutUnique(c)
    PROVE  Becomes(c, [call[c] EXCEPT !.step = AfterStatement(c), !.uq = "end"])
  <1> DEFINE e == [call[c] EXCEPT !.step = AfterStatement(c), !.uq = "end"]
  <1>1. e \in CallState
    <2>1. AfterStatement(c) \in Steps
      BY DEF AfterStatement, Steps
    <2>2. QED
      BY <2>1, TypeOfCall DEF CallState
  <1>2. call' = [call EXCEPT ![c] = e]
    BY DEF PutUnique, TypeOK
  <1>3. QED
    BY <1>1, <1>2, AssignedCall

\* The old links are gone.
LEMMA ClearLinksFacts ==
    ASSUME TypeOK, NEW c \in Calls, ClearLinks(c)
    PROVE  Becomes(c, [call[c] EXCEPT !.step = AfterStatement(c), !.rl = IF call[c].data.ref = NoRef THEN "end" ELSE "put"])
  <1> DEFINE e == [call[c] EXCEPT !.step = AfterStatement(c), !.rl = IF call[c].data.ref = NoRef THEN "end" ELSE "put"]
  <1>1. e \in CallState
    <2>1. AfterStatement(c) \in Steps
      BY DEF AfterStatement, Steps
    <2>2. QED
      BY <2>1, TypeOfCall DEF CallState
  <1>2. call' = [call EXCEPT ![c] = e]
    BY DEF ClearLinks, TypeOK
  <1>3. QED
    BY <1>1, <1>2, AssignedCall

\* The new link is there.
LEMMA PutLinkFacts ==
    ASSUME TypeOK, NEW c \in Calls, PutLink(c)
    PROVE  Becomes(c, [call[c] EXCEPT !.step = AfterStatement(c), !.rl = "end"])
  <1> DEFINE e == [call[c] EXCEPT !.step = AfterStatement(c), !.rl = "end"]
  <1>1. e \in CallState
    <2>1. AfterStatement(c) \in Steps
      BY DEF AfterStatement, Steps
    <2>2. QED
      BY <2>1, TypeOfCall DEF CallState
  <1>2. call' = [call EXCEPT ![c] = e]
    BY DEF PutLink, TypeOK
  <1>3. QED
    BY <1>1, <1>2, AssignedCall

\* Nothing is left in the channel.
LEMMA DrainEndsFacts ==
    ASSUME TypeOK, NEW c \in Calls, DrainEnds(c)
    PROVE  Becomes(c, [call[c] EXCEPT !.step = "done"])
  <1> DEFINE e == [call[c] EXCEPT !.step = "done"]
  <1>1. e \in CallState
    BY TypeOfCall DEF CallState, Steps
  <1>2. call' = [call EXCEPT ![c] = e]
    BY DEF DrainEnds, TypeOK
  <1>3. QED
    BY <1>1, <1>2, AssignedCall

\* All records to delete are known.
LEMMA ScanEndsFacts ==
    ASSUME TypeOK, NEW c \in Calls, ScanEnds(c)
    PROVE  Becomes(c, [call[c] EXCEPT !.step = "purge", !.todo = call[c].seen, !.del = "next"])
  <1> DEFINE e == [call[c] EXCEPT !.step = "purge", !.todo = call[c].seen, !.del = "next"]
  <1>1. e \in CallState
    BY TypeOfCall DEF CallState, Steps
  <1>2. call' = [call EXCEPT ![c] = e]
    BY DEF ScanEnds, TypeOK
  <1>3. QED
    BY <1>1, <1>2, AssignedCall

\* The row is gone.
LEMMA PurgeRecordFacts ==
    ASSUME TypeOK, NEW c \in Calls, PurgeRecord(c)
    PROVE  Becomes(c, [call[c] EXCEPT !.del = "unique"])
  <1> DEFINE e == [call[c] EXCEPT !.del = "unique"]
  <1>1. e \in CallState
    BY TypeOfCall DEF CallState, Steps
  <1>2. call' = [call EXCEPT ![c] = e]
    BY DEF PurgeRecord, TypeOK
  <1>3. QED
    BY <1>1, <1>2, AssignedCall

\* Its entry of the index is gone.
LEMMA PurgeUniqueFacts ==
    ASSUME TypeOK, NEW c \in Calls, PurgeUnique(c)
    PROVE  Becomes(c, [call[c] EXCEPT !.del = "from"])
  <1> DEFINE e == [call[c] EXCEPT !.del = "from"]
  <1>1. e \in CallState
    BY TypeOfCall DEF CallState, Steps
  <1>2. call' = [call EXCEPT ![c] = e]
    BY DEF PurgeUnique, TypeOK
  <1>3. QED
    BY <1>1, <1>2, AssignedCall

\* Its links are gone.
LEMMA PurgeLinksFromFacts ==
    ASSUME TypeOK, NEW c \in Calls, PurgeLinksFrom(c)
    PROVE  Becomes(c, [call[c] EXCEPT !.del = "to"])
  <1> DEFINE e == [call[c] EXCEPT !.del = "to"]
  <1>1. e \in CallState
    BY TypeOfCall DEF CallState, Steps
  <1>2. call' = [call EXCEPT ![c] = e]
    BY DEF PurgeLinksFrom, TypeOK
  <1>3. QED
    BY <1>1, <1>2, AssignedCall

\* The links to it are gone.
LEMMA PurgeLinksToFacts ==
    ASSUME TypeOK, NEW c \in Calls, PurgeLinksTo(c)
    PROVE  Becomes(c, [call[c] EXCEPT !.del = "next"])
  <1> DEFINE e == [call[c] EXCEPT !.del = "next"]
  <1>1. e \in CallState
    BY TypeOfCall DEF CallState, Steps
  <1>2. call' = [call EXCEPT ![c] = e]
    BY DEF PurgeLinksTo, TypeOK
  <1>3. QED
    BY <1>1, <1>2, AssignedCall

\* The beginning of a call.
LEMMA StartFacts ==
    ASSUME ConstantsAssumption, TypeOK, NEW c \in Calls, Start(c)
    PROVE  \E r \in Request : Becomes(c,
              [Idle EXCEPT !.req = r,
                  !.step = CASE r.kind \in {"create", "import"} -> "check"
                             [] r.kind = "update" -> "read"
                             [] r.kind = "delete" -> "scan",
                  !.id = IF r.kind = "create" THEN 0 ELSE r.id,
                  !.data = IF r.kind \in {"create", "import"} THEN r.data ELSE None,
                  !.todo = IF r.kind = "delete" THEN {r.id} ELSE {}])
  <1>1. PICK r \in Requests[c] :
            call' = [call EXCEPT ![c] = [Idle EXCEPT !.req = r,
                  !.step = CASE r.kind \in {"create", "import"} -> "check"
                             [] r.kind = "update" -> "read"
                             [] r.kind = "delete" -> "scan",
                  !.id = IF r.kind = "create" THEN 0 ELSE r.id,
                  !.data = IF r.kind \in {"create", "import"} THEN r.data ELSE None,
                  !.todo = IF r.kind = "delete" THEN {r.id} ELSE {}]]
    BY DEF Start
  <1>2. r \in Request
    BY DEF ConstantsAssumption
  <1> DEFINE s == CASE r.kind \in {"create", "import"} -> "check"
                    [] r.kind = "update" -> "read"
                    [] r.kind = "delete" -> "scan"
             i == IF r.kind = "create" THEN 0 ELSE r.id
             x == IF r.kind \in {"create", "import"} THEN r.data ELSE None
             T == IF r.kind = "delete" THEN {r.id} ELSE {}
  <1>3. s \in Steps /\ i \in 0..MaxId /\ x \in Data \cup {None} /\ T \in SUBSET Ids
    BY <1>2, RequestParts DEF Steps, Ids, ConstantsAssumption
  <1> HIDE DEF s, i, x, T
  <1>4. [Idle EXCEPT !.req = r, !.step = s, !.id = i, !.data = x, !.todo = T] \in CallState
    BY <1>2, <1>3 DEF CallState, Idle
  <1>5. Becomes(c, [Idle EXCEPT !.req = r, !.step = s, !.id = i, !.data = x, !.todo = T])
    BY <1>1, <1>4, AssignedCall DEF s, i, x, T
  <1>6. QED
    BY <1>2, <1>5 DEF s, i, x, T

\* The record that a call updates is read and merged with the request.
LEMMA ReadFacts ==
    ASSUME ConstantsAssumption, TypeOK, NEW c \in Calls, ReadExisting(c),
           call[c].req \in Request, call[c].req.kind = "update", call[c].id = call[c].req.id
    PROVE  \/ Becomes(c, [call[c] EXCEPT !.step = "done", !.res = "err"])
           \/ \E x \in Data : Becomes(c, [call[c] EXCEPT !.step = "check", !.data = x])
  <1>1. CASE ~Exists(call[c].id)
    BY <1>1, ReturnFacts DEF ReadExisting
  <1>2. CASE Exists(call[c].id)
    <2> DEFINE x == [records[call[c].id] EXCEPT ![Req(c).field] = Req(c).to]
               e == [call[c] EXCEPT !.step = "check", !.data = x]
    <2>1. records[call[c].id] \in Data
      BY <1>2 DEF Exists, TypeOK
    <2>2. x \in Data
      BY <2>1, PatchedData DEF Req
    <2>3. call' = [call EXCEPT ![c] = e]
      BY <1>2 DEF ReadExisting, TypeOK
    <2> HIDE DEF x
    <2>4. e \in CallState
      <3>1. [call[c] EXCEPT !.data = x] \in CallState
        BY <2>2, TypeOfCall DEF CallState
      <3>2. \A r \in CallState : [r EXCEPT !.step = "check"] \in CallState
        BY DEF CallState, Steps
      <3>3. e = [[call[c] EXCEPT !.data = x] EXCEPT !.step = "check"]
        BY StateOfCall
      <3>4. QED
        BY <3>1, <3>2, <3>3
    <2>5. QED
      BY <2>2, <2>3, <2>4, AssignedCall
  <1>3. QED
    BY <1>1, <1>2

\* The check of the unique field.
LEMMA CheckFacts ==
    ASSUME TypeOK, NEW c \in Calls, CheckUnique(c)
    PROVE  \/ Becomes(c, [call[c] EXCEPT !.step = "done", !.res = "err"])
           \/ Becomes(c, [call[c] EXCEPT !.step = "write"])
  <1>1. CASE Return(c, "err")
    BY <1>1, ReturnFacts
  <1>2. CASE call' = [call EXCEPT ![c].step = "write"]
    <2> DEFINE e == [call[c] EXCEPT !.step = "write"]
    <2>1. e \in CallState
      BY TypeOfCall DEF CallState, Steps
    <2>2. call' = [call EXCEPT ![c] = e]
      BY <1>2 DEF TypeOK
    <2>3. QED
      BY <2>1, <2>2, AssignedCall
  <1>3. QED
    BY <1>1, <1>2 DEF CheckUnique

\* An import that finds its id free stores the record.
LEMMA ImportFacts ==
    ASSUME TypeOK, NEW c \in Calls, ImportRecord(c), ~Exists(call[c].id)
    PROVE  Becomes(c, [call[c] EXCEPT !.step = "join", !.uq = "clear", !.rl = "clear"])
  <1> DEFINE e == [call[c] EXCEPT !.step = "join", !.uq = "clear", !.rl = "clear"]
  <1>1. e \in CallState
    BY TypeOfCall DEF CallState, Steps
  <1>2. call' = [call EXCEPT ![c] = e]
    BY DEF ImportRecord, TypeOK
  <1>3. QED
    BY <1>1, <1>2, AssignedCall

\* One of the futures fails.
LEMMA JoinFailsFacts ==
    ASSUME TypeOK, NEW c \in Calls, JoinFails(c)
    PROVE  \E s \in {"done", "drain"}, u \in {"clear", "put", "end"}, l \in {"clear", "put", "end"} :
              /\ Becomes(c, [call[c] EXCEPT !.step = s, !.res = "err", !.uq = u, !.rl = l])
              /\ u \in {call[c].uq, "end"} /\ l \in {call[c].rl, "end"}
  <1>1. \A s \in {"done", "drain"}, u \in {"clear", "put", "end"}, l \in {"clear", "put", "end"} :
            [call[c] EXCEPT !.step = s, !.res = "err", !.uq = u, !.rl = l] \in CallState
    <2> SUFFICES ASSUME NEW s \in {"done", "drain"}, NEW u \in {"clear", "put", "end"},
                        NEW l \in {"clear", "put", "end"}
                 PROVE  [call[c] EXCEPT !.step = s, !.res = "err", !.uq = u, !.rl = l] \in CallState
      OBVIOUS
    <2>1. s \in Steps /\ "err" \in {None, "ok", "err"}
      BY DEF Steps
    <2>2. QED
      BY <2>1, TypeOfCall DEF CallState
  <1>2. \E s \in {"done", "drain"}, u \in {"clear", "put", "end"}, l \in {"clear", "put", "end"} :
            /\ call' = [call EXCEPT ![c] =
                         [call[c] EXCEPT !.step = s, !.res = "err", !.uq = u, !.rl = l]]
            /\ u \in {call[c].uq, "end"} /\ l \in {call[c].rl, "end"}
    <2> DEFINE e(s, u, l) == [call[c] EXCEPT !.step = s, !.res = "err", !.uq = u, !.rl = l]
    <2>1. call[c].uq \in {"clear", "put", "end"} /\ call[c].rl \in {"clear", "put", "end"}
      BY StateOfCall DEF CallState
    <2>2. CASE call' = [call EXCEPT ![c].res = "err", ![c].uq = "end",
                            ![c].step = IF call[c].rl = "end" THEN "done" ELSE "drain"]
      <3> DEFINE s == IF call[c].rl = "end" THEN "done" ELSE "drain"
      <3>1. e(s, "end", call[c].rl) = [call[c] EXCEPT !.res = "err", !.uq = "end", !.step = s]
        BY StateOfCall
      <3>2. call' = [call EXCEPT ![c] = e(s, "end", call[c].rl)]
        BY <2>2, <3>1 DEF TypeOK
      <3>3. QED
        BY <2>1, <3>2
    <2>3. CASE call' = [call EXCEPT ![c].res = "err", ![c].rl = "end",
                            ![c].step = IF call[c].uq = "end" THEN "done" ELSE "drain"]
      <3> DEFINE s == IF call[c].uq = "end" THEN "done" ELSE "drain"
      <3>1. e(s, call[c].uq, "end") = [call[c] EXCEPT !.res = "err", !.rl = "end", !.step = s]
        BY StateOfCall
      <3>2. call' = [call EXCEPT ![c] = e(s, call[c].uq, "end")]
        BY <2>3, <3>1 DEF TypeOK
      <3>3. QED
        BY <2>1, <3>2
    <2>4. QED
      BY <2>2, <2>3 DEF JoinFails
  <1>3. QED
    BY <1>1, <1>2, AssignedCall

\* A record that is found is visited, and those that refer to it are found.
LEMMA ScanFacts ==
    ASSUME TypeOK, NEW c \in Calls, Scan(c)
    PROVE  \E i \in call[c].todo : Becomes(c,
              [call[c] EXCEPT !.seen = call[c].seen \cup {i},
                              !.todo = (call[c].todo \ {i}) \cup Origins(c, i)])
  <1>1. PICK i \in call[c].todo :
            call' = [call EXCEPT ![c].seen = @ \cup {i}, ![c].todo = (@ \ {i}) \cup Origins(c, i)]
    BY DEF Scan
  <1> DEFINE T == (call[c].todo \ {i}) \cup Origins(c, i)
             e == [call[c] EXCEPT !.seen = call[c].seen \cup {i}, !.todo = T]
  <1>2. call[c].seen \cup {i} \in SUBSET Ids /\ T \in SUBSET Ids
    BY TypeOfCall DEF CallState, Origins
  <1>3. call' = [call EXCEPT ![c] = e]
    BY <1>1 DEF TypeOK
  <1> HIDE DEF T
  <1>4. e \in CallState
    BY <1>2, TypeOfCall DEF CallState
  <1>5. Becomes(c, e)
    BY <1>3, <1>4, AssignedCall
  <1>6. QED
    BY <1>5 DEF T

\* The next record to delete is chosen.
LEMMA PurgeNextFacts ==
    ASSUME ConstantsAssumption, TypeOK, NEW c \in Calls, PurgeNext(c)
    PROVE  \E i \in call[c].todo : Becomes(c,
              [call[c] EXCEPT !.id = i, !.todo = call[c].todo \ {i}, !.del = "record"])
  <1>1. PICK i \in call[c].todo :
            call' = [call EXCEPT ![c].id = i, ![c].todo = @ \ {i}, ![c].del = "record"]
    BY DEF PurgeNext
  <1> DEFINE e == [call[c] EXCEPT !.id = i, !.todo = call[c].todo \ {i}, !.del = "record"]
  <1>2. i \in 0..MaxId /\ call[c].todo \ {i} \in SUBSET Ids
    <2>1. call[c].todo \in SUBSET Ids
      BY StateOfCall DEF CallState
    <2>2. i \in Ids /\ call[c].todo \ {i} \in SUBSET Ids
      BY <2>1
    <2>3. QED
      BY <2>2 DEF Ids, ConstantsAssumption
  <1>3. e \in CallState
    BY <1>2, TypeOfCall, ExceptPurge
  <1>4. call' = [call EXCEPT ![c] = e]
    BY <1>1 DEF TypeOK
  <1>5. QED
    BY <1>3, <1>4, AssignedCall

\* A statement of a deletion fails; the next one is executed all the same.
LEMMA PurgeFailsFacts ==
    ASSUME TypeOK, NEW c \in Calls, PurgeFails(c), call[c].del # "end"
    PROVE  \E x \in {"unique", "from", "to", "next"} :
              Becomes(c, [call[c] EXCEPT !.res = "err", !.del = x])
  <1> DEFINE x == CASE call[c].del = "record" -> "unique" [] call[c].del = "unique" -> "from"
                    [] call[c].del = "from" -> "to"       [] call[c].del = "to" -> "next"
             e == [call[c] EXCEPT !.res = "err", !.del = x]
  <1>1. x \in {"unique", "from", "to", "next"}
    BY StateOfCall DEF PurgeFails, CallState
  <1>2. call' = [call EXCEPT ![c] = e]
    <2>1. call' = [call EXCEPT ![c].res = "err",
                     ![c].del = CASE @ = "record" -> "unique" [] @ = "unique" -> "from"
                                  [] @ = "from" -> "to"       [] @ = "to" -> "next"]
      BY DEF PurgeFails
    <2>2. call' = [call EXCEPT ![c].res = "err", ![c].del = x]
      BY <2>1, StateOfCall, Zenon DEF TypeOK
    <2> HIDE DEF x
    <2>3. QED
      BY <2>2 DEF TypeOK
  <1> HIDE DEF x
  <1>3. e \in CallState
    BY <1>1, TypeOfCall DEF CallState
  <1>4. QED
    BY <1>1, <1>2, <1>3, AssignedCall

-----------------------------------------------------------------------------
(* What a call has in hand at each of its steps.                           *)

\* e is the state of a call that got there by the program.
Sound(e) ==
    /\ e.step # "idle" => e.req \in Request
    /\ e.step = "idle" => e.id = 0 /\ e.data = None /\ e.seen = {}
    /\ e.step = "read" => e.req.kind = "update" /\ e.data = None
    /\ e.step \in {"check", "write", "join", "drain"} =>
          e.req.kind \in {"create", "import", "update"} /\ e.data \in Data
    /\ e.step \in {"scan", "purge"} => e.req.kind = "delete"
    /\ e.step # "idle" /\ e.req.kind \in {"import", "update"} => e.id = e.req.id
    /\ e.step \in {"check", "write"} /\ e.req.kind = "create" => e.id = 0
    /\ e.step \in {"join", "drain"} => e.id \in Ids
    /\ e.step \in {"join", "drain"} /\ e.uq = "put" => e.data.val # Null
    /\ e.step \in {"join", "drain"} /\ e.rl = "put" => e.data.ref # NoRef
    /\ e.step = "drain" => e.res = "err"
    /\ e.step = "purge" => e.todo \subseteq e.seen /\ e.del # "end"
    /\ e.step = "purge" /\ e.del # "next" => e.id \in e.seen

\* Every call is; ids are handed out upwards.
BaseInv ==
    /\ TypeOK
    /\ \A c \in Calls : Sound(call[c])
    /\ LastId =< lastId

\* A step of one call that leaves the tables alone.
LEMMA TablesKept ==
    ASSUME BaseInv, NEW c \in Calls, NEW e, Becomes(c, e), Sound(e),
           UNCHANGED <<records, uniq, links, lastId>>
    PROVE  BaseInv'
  <1>1. TypeOK'
    BY DEF BaseInv, TypeOK, Becomes
  <1>2. \A d \in Calls : Sound(call'[d])
    BY DEF BaseInv, Becomes
  <1>3. QED
    BY <1>1, <1>2 DEF BaseInv

\* A step of one call that leaves the rows alone.
LEMMA RowsKept ==
    ASSUME BaseInv, NEW c \in Calls, NEW e, Becomes(c, e), Sound(e),
           UNCHANGED <<records, lastId>>,
           uniq' \in [Vals -> Ids \cup {0}], links' \subseteq Ids \X Ids
    PROVE  BaseInv'
  <1>1. TypeOK'
    BY DEF BaseInv, TypeOK, Becomes
  <1>2. \A d \in Calls : Sound(call'[d])
    BY DEF BaseInv, Becomes
  <1>3. QED
    BY <1>1, <1>2 DEF BaseInv

\* A step of one call that writes a row.
LEMMA RowWritten ==
    ASSUME ConstantsAssumption, BaseInv, NEW c \in Calls, NEW e, Becomes(c, e), Sound(e),
           UNCHANGED <<uniq, links>>, lastId' \in 0..MaxId, lastId =< lastId',
           NEW i \in Ids, NEW x \in Data \cup {None}, records' = [records EXCEPT ![i] = x],
           x # None => i =< lastId'
    PROVE  BaseInv'
  <1>1. records' \in [Ids -> Data \cup {None}]
    BY DEF BaseInv, TypeOK
  <1>2. \A j \in Ids : records'[j] # None => j =< lastId'
    <2> SUFFICES ASSUME NEW j \in Ids, records'[j] # None
                 PROVE  j =< lastId'
      OBVIOUS
    <2>1. CASE j = i
      BY <2>1 DEF BaseInv, TypeOK
    <2>2. CASE j # i
      <3>1. records[j] # None
        BY <2>2 DEF BaseInv, TypeOK
      <3>2. j =< lastId
        BY <3>1 DEF BaseInv, TypeOK
      <3>3. j \in Nat /\ lastId \in Nat /\ lastId' \in Nat
        BY DEF BaseInv, TypeOK, Ids, ConstantsAssumption
      <3>4. QED
        BY <3>2, <3>3
    <2>3. QED
      BY <2>1, <2>2
  <1>3. TypeOK'
    BY <1>1, <1>2 DEF BaseInv, TypeOK, Becomes
  <1>4. \A d \in Calls : Sound(call'[d])
    BY DEF BaseInv, Becomes
  <1>5. LastId =< lastId'
    BY DEF BaseInv, TypeOK, ConstantsAssumption
  <1>6. QED
    BY <1>3, <1>4, <1>5 DEF BaseInv

\* It holds at the start.
LEMMA BaseInit ==
    ASSUME ConstantsAssumption, Init
    PROVE  BaseInv
  <1>1. Idle \in CallState /\ Sound(Idle)
    BY DEF Idle, CallState, Steps, Sound, ConstantsAssumption
  <1>2. call \in [Calls -> CallState] /\ \A c \in Calls : Sound(call[c])
    BY <1>1 DEF Init
  <1>3. uniq \in [Vals -> Ids \cup {0}]
    <2>1. \A v \in Vals : (IF \E i \in Ids : Initial[i] # None /\ Initial[i].val = v
                             THEN CHOOSE i \in Ids : Initial[i] # None /\ Initial[i].val = v
                             ELSE 0) \in Ids \cup {0}
      OBVIOUS
    <2>2. QED
      BY <2>1 DEF Init
  <1>4. links \subseteq Ids \X Ids
    BY DEF Init, LinksOf
  <1>5. lastId \in 0..MaxId /\ LastId =< lastId
    BY DEF Init, ConstantsAssumption
  <1>6. records \in [Ids -> Data \cup {None}] /\ \A i \in Ids : records[i] # None => i =< lastId
    BY DEF Init, ConstantsAssumption
  <1>7. QED
    BY <1>2, <1>3, <1>4, <1>5, <1>6 DEF BaseInv, TypeOK

-----------------------------------------------------------------------------
(* What a step of a call means for the records the call has created or     *)
(* asked for.                                                              *)

\* The call asked for an update or a delete of record i, or found it.
Touches(e, i) ==
    \/ e.step # "idle" /\ e.req.kind # "create" /\ e.req.id = i
    \/ i \in e.seen

\* The call has created the record e.id.
Making(e) == e.step \in {"join", "drain", "done"} /\ e.req.kind = "create" /\ e.id # 0

\* The value of the record is in the index, if it has one.
InIndex(e) == \/ e.step = "join" /\ e.uq = "end"
              \/ e.step = "done" /\ e.res = "ok"

\* The call is no cascade that has failed, and writes no reference.
CleanCall(e) ==
    /\ e.res = "err" => ~(e.step # "idle" /\ e.req.kind = "delete")
    /\ e.data # None => e.data.ref = NoRef

\* A call in state d keeps to the order of its steps when it goes on to e.
Orders(d, e) ==
    /\ e.step \in {"join", "drain"} =>
          d.step = "write" \/ (d.step \in {"join", "drain"} /\ e.id = d.id)
    /\ e.step = "scan" => d.step = "scan" \/ e.seen = {}
    /\ e.step = "purge" => d.step \in {"scan", "purge"}

\* A call in state d goes on to e: it forgets no record it asked for, no
\* failure and no reference.
GoesOn(d, e) ==
    /\ Sound(e)
    /\ \A i \in Ids : Touches(d, i) => Touches(e, i)
    /\ CleanCall(e) => CleanCall(d)
    /\ Orders(d, e)
\* It creates nothing.
MakesNothing(d, e) == Making(e) => Making(d) /\ e.id = d.id /\ e.data = d.data
\* It enters nothing into the index.
EntersNothing(d, e) == Making(e) /\ InIndex(e) => InIndex(d) \/ e.data.val = Null

\* The creation of a row makes the call the one that created it.
LEMMA InsertRecordMoves ==
    ASSUME ConstantsAssumption, BaseInv, NEW c \in Calls, InsertRecord(c)
    PROVE  \E e \in CallState : Becomes(c, e) /\ GoesOn(call[c], e) /\ EntersNothing(call[c], e)
  <1> DEFINE e == [call[c] EXCEPT !.step = "join", !.id = FreshId, !.uq = "clear", !.rl = "clear"]
  <1>1. Becomes(c, e)
    BY InsertFacts DEF BaseInv, InsertRecord
  <1>2. call[c] \in CallState /\ e \in CallState /\ Sound(call[c])
    BY <1>1, StateOfCall DEF BaseInv, Becomes
  <1>3. FreshId \in Ids
    BY DEF InsertRecord, FreshId, BaseInv, TypeOK, Ids, ConstantsAssumption
  <1>4. Sound(e)
    BY <1>2, <1>3 DEF InsertRecord, At, Req, Sound, CallState
  <1>5. \A i \in Ids : Touches(call[c], i) => Touches(e, i)
    BY <1>2 DEF InsertRecord, At, Req, Sound, CallState, Touches
  <1>c. CleanCall(e) => CleanCall(call[c])
    BY <1>2 DEF InsertRecord, At, Req, Sound, CallState, CleanCall
  <1>o. Orders(call[c], e)
    BY <1>2 DEF InsertRecord, At, Req, CallState, Orders
  <1>6. EntersNothing(call[c], e)
    BY <1>2 DEF InsertRecord, At, Req, Sound, CallState, MakesNothing, EntersNothing, Making, InIndex
  <1>7. QED
    BY <1>1, <1>2, <1>4, <1>5, <1>6, <1>c, <1>o DEF GoesOn

\* The update of a row.
LEMMA UpdateRecordMoves ==
    ASSUME ConstantsAssumption, BaseInv, NEW c \in Calls, UpdateRecord(c)
    PROVE  \E e \in CallState : Becomes(c, e) /\ GoesOn(call[c], e) /\ MakesNothing(call[c], e) /\ EntersNothing(call[c], e)
  <1> DEFINE e == [call[c] EXCEPT !.step = "join", !.uq = "clear", !.rl = "clear"]
  <1>1. Becomes(c, e)
    BY UpdateFacts DEF BaseInv, UpdateRecord
  <1>2. call[c] \in CallState /\ e \in CallState /\ Sound(call[c])
    BY <1>1, StateOfCall DEF BaseInv, Becomes
  <1>3. call[c].req.id \in Ids
    BY <1>2, RequestParts DEF Sound, UpdateRecord, At, Req
  <1>4. Sound(e)
    BY <1>2, <1>3 DEF UpdateRecord, At, Req, Sound, CallState
  <1>5. \A i \in Ids : Touches(call[c], i) => Touches(e, i)
    BY <1>2 DEF UpdateRecord, At, Req, Sound, CallState, Touches
  <1>c. CleanCall(e) => CleanCall(call[c])
    BY <1>2 DEF UpdateRecord, At, Req, Sound, CallState, CleanCall
  <1>o. Orders(call[c], e)
    BY <1>2 DEF UpdateRecord, At, Req, CallState, Orders
  <1>6. MakesNothing(call[c], e) /\ EntersNothing(call[c], e)
    BY <1>2 DEF UpdateRecord, At, Req, Sound, CallState, MakesNothing, EntersNothing, Making, InIndex
  <1>7. QED
    BY <1>1, <1>2, <1>4, <1>5, <1>6, <1>c, <1>o DEF GoesOn

\* A row that is not written.
LEMMA WriteFailsMoves ==
    ASSUME ConstantsAssumption, BaseInv, NEW c \in Calls, WriteFails(c)
    PROVE  \E e \in CallState : Becomes(c, e) /\ GoesOn(call[c], e) /\ MakesNothing(call[c], e) /\ EntersNothing(call[c], e)
  <1> DEFINE e == [call[c] EXCEPT !.step = "done", !.res = "err"]
  <1>1. Becomes(c, e)
    BY ReturnFacts DEF BaseInv, WriteFails
  <1>2. call[c] \in CallState /\ e \in CallState /\ Sound(call[c])
    BY <1>1, StateOfCall DEF BaseInv, Becomes
  <1>3. Sound(e)
    BY <1>2 DEF WriteFails, At, Req, Sound, CallState
  <1>4. \A i \in Ids : Touches(call[c], i) => Touches(e, i)
    BY <1>2 DEF WriteFails, At, Req, Sound, CallState, Touches
  <1>c. CleanCall(e) => CleanCall(call[c])
    BY <1>2 DEF WriteFails, At, Req, Sound, CallState, CleanCall
  <1>o. Orders(call[c], e)
    BY <1>2 DEF WriteFails, At, Req, CallState, Orders
  <1>5. MakesNothing(call[c], e) /\ EntersNothing(call[c], e)
    BY <1>2 DEF WriteFails, At, Req, Sound, CallState, MakesNothing, EntersNothing, Making, InIndex
  <1>6. QED
    BY <1>1, <1>2, <1>3, <1>4, <1>5, <1>c, <1>o DEF GoesOn

\* The deletion of the old entry; a record without a value needs no new one.
LEMMA ClearUniqueMoves ==
    ASSUME ConstantsAssumption, BaseInv, NEW c \in Calls, ClearUnique(c)
    PROVE  \E e \in CallState : Becomes(c, e) /\ GoesOn(call[c], e) /\ MakesNothing(call[c], e) /\ EntersNothing(call[c], e)
  <1> DEFINE e == [call[c] EXCEPT !.step = AfterStatement(c), !.uq = IF call[c].data.val = Null THEN "end" ELSE "put"]
  <1>1. Becomes(c, e)
    BY ClearUniqueFacts DEF BaseInv, ClearUnique
  <1>2. call[c] \in CallState /\ e \in CallState /\ Sound(call[c])
    BY <1>1, StateOfCall DEF BaseInv, Becomes
  <1>3. Sound(e)
    BY <1>2 DEF ClearUnique, At, Req, AfterStatement, Sound, CallState
  <1>4. \A i \in Ids : Touches(call[c], i) => Touches(e, i)
    BY <1>2 DEF ClearUnique, At, Req, AfterStatement, Sound, CallState, Touches
  <1>c. CleanCall(e) => CleanCall(call[c])
    BY <1>2 DEF ClearUnique, At, Req, AfterStatement, Sound, CallState, CleanCall
  <1>o. Orders(call[c], e)
    BY <1>2 DEF ClearUnique, At, Req, AfterStatement, CallState, Orders
  <1>5. MakesNothing(call[c], e) /\ EntersNothing(call[c], e)
    BY <1>2 DEF ClearUnique, At, Req, AfterStatement, Sound, CallState, MakesNothing, EntersNothing, Making, InIndex
  <1>6. QED
    BY <1>1, <1>2, <1>3, <1>4, <1>5, <1>c, <1>o DEF GoesOn

\* The new entry.
LEMMA PutUniqueMoves ==
    ASSUME ConstantsAssumption, BaseInv, NEW c \in Calls, PutUnique(c)
    PROVE  \E e \in CallState : Becomes(c, e) /\ GoesOn(call[c], e) /\ MakesNothing(call[c], e)
  <1> DEFINE e == [call[c] EXCEPT !.step = AfterStatement(c), !.uq = "end"]
  <1>1. Becomes(c, e)
    BY PutUniqueFacts DEF BaseInv, PutUnique
  <1>2. call[c] \in CallState /\ e \in CallState /\ Sound(call[c])
    BY <1>1, StateOfCall DEF BaseInv, Becomes
  <1>3. Sound(e)
    BY <1>2 DEF PutUnique, At, Req, AfterStatement, Sound, CallState
  <1>4. \A i \in Ids : Touches(call[c], i) => Touches(e, i)
    BY <1>2 DEF PutUnique, At, Req, AfterStatement, Sound, CallState, Touches
  <1>c. CleanCall(e) => CleanCall(call[c])
    BY <1>2 DEF PutUnique, At, Req, AfterStatement, Sound, CallState, CleanCall
  <1>o. Orders(call[c], e)
    BY <1>2 DEF PutUnique, At, Req, AfterStatement, CallState, Orders
  <1>5. MakesNothing(call[c], e)
    BY <1>2 DEF PutUnique, At, Req, AfterStatement, Sound, CallState, MakesNothing, EntersNothing, Making, InIndex
  <1>6. QED
    BY <1>1, <1>2, <1>3, <1>4, <1>5, <1>c, <1>o DEF GoesOn

\* The deletion of the old links.
LEMMA ClearLinksMoves ==
    ASSUME ConstantsAssumption, BaseInv, NEW c \in Calls, ClearLinks(c)
    PROVE  \E e \in CallState : Becomes(c, e) /\ GoesOn(call[c], e) /\ MakesNothing(call[c], e) /\ EntersNothing(call[c], e)
  <1> DEFINE e == [call[c] EXCEPT !.step = AfterStatement(c), !.rl = IF call[c].data.ref = NoRef THEN "end" ELSE "put"]
  <1>1. Becomes(c, e)
    BY ClearLinksFacts DEF BaseInv, ClearLinks
  <1>2. call[c] \in CallState /\ e \in CallState /\ Sound(call[c])
    BY <1>1, StateOfCall DEF BaseInv, Becomes
  <1>3. Sound(e)
    BY <1>2 DEF ClearLinks, At, Req, AfterStatement, Sound, CallState
  <1>4. \A i \in Ids : Touches(call[c], i) => Touches(e, i)
    BY <1>2 DEF ClearLinks, At, Req, AfterStatement, Sound, CallState, Touches
  <1>c. CleanCall(e) => CleanCall(call[c])
    BY <1>2 DEF ClearLinks, At, Req, AfterStatement, Sound, CallState, CleanCall
  <1>o. Orders(call[c], e)
    BY <1>2 DEF ClearLinks, At, Req, AfterStatement, CallState, Orders
  <1>5. MakesNothing(call[c], e) /\ EntersNothing(call[c], e)
    BY <1>2 DEF ClearLinks, At, Req, AfterStatement, Sound, CallState, MakesNothing, EntersNothing, Making, InIndex
  <1>6. QED
    BY <1>1, <1>2, <1>3, <1>4, <1>5, <1>c, <1>o DEF GoesOn

\* The new link.
LEMMA PutLinkMoves ==
    ASSUME ConstantsAssumption, BaseInv, NEW c \in Calls, PutLink(c)
    PROVE  \E e \in CallState : Becomes(c, e) /\ GoesOn(call[c], e) /\ MakesNothing(call[c], e) /\ EntersNothing(call[c], e)
  <1> DEFINE e == [call[c] EXCEPT !.step = AfterStatement(c), !.rl = "end"]
  <1>1. Becomes(c, e)
    BY PutLinkFacts DEF BaseInv, PutLink
  <1>2. call[c] \in CallState /\ e \in CallState /\ Sound(call[c])
    BY <1>1, StateOfCall DEF BaseInv, Becomes
  <1>3. Sound(e)
    BY <1>2 DEF PutLink, At, Req, AfterStatement, Sound, CallState
  <1>4. \A i \in Ids : Touches(call[c], i) => Touches(e, i)
    BY <1>2 DEF PutLink, At, Req, AfterStatement, Sound, CallState, Touches
  <1>c. CleanCall(e) => CleanCall(call[c])
    BY <1>2 DEF PutLink, At, Req, AfterStatement, Sound, CallState, CleanCall
  <1>o. Orders(call[c], e)
    BY <1>2 DEF PutLink, At, Req, AfterStatement, CallState, Orders
  <1>5. MakesNothing(call[c], e) /\ EntersNothing(call[c], e)
    BY <1>2 DEF PutLink, At, Req, AfterStatement, Sound, CallState, MakesNothing, EntersNothing, Making, InIndex
  <1>6. QED
    BY <1>1, <1>2, <1>3, <1>4, <1>5, <1>c, <1>o DEF GoesOn

\* The end of a call that has failed.
LEMMA DrainEndsMoves ==
    ASSUME ConstantsAssumption, BaseInv, NEW c \in Calls, DrainEnds(c)
    PROVE  \E e \in CallState : Becomes(c, e) /\ GoesOn(call[c], e) /\ MakesNothing(call[c], e) /\ EntersNothing(call[c], e)
  <1> DEFINE e == [call[c] EXCEPT !.step = "done"]
  <1>1. Becomes(c, e)
    BY DrainEndsFacts DEF BaseInv, DrainEnds
  <1>2. call[c] \in CallState /\ e \in CallState /\ Sound(call[c])
    BY <1>1, StateOfCall DEF BaseInv, Becomes
  <1>3. Sound(e)
    BY <1>2 DEF DrainEnds, At, Req, Sound, CallState
  <1>4. \A i \in Ids : Touches(call[c], i) => Touches(e, i)
    BY <1>2 DEF DrainEnds, At, Req, Sound, CallState, Touches
  <1>c. CleanCall(e) => CleanCall(call[c])
    BY <1>2 DEF DrainEnds, At, Req, Sound, CallState, CleanCall
  <1>o. Orders(call[c], e)
    BY <1>2 DEF DrainEnds, At, Req, CallState, Orders
  <1>5. MakesNothing(call[c], e) /\ EntersNothing(call[c], e)
    BY <1>2 DEF DrainEnds, At, Req, Sound, CallState, MakesNothing, EntersNothing, Making, InIndex
  <1>6. QED
    BY <1>1, <1>2, <1>3, <1>4, <1>5, <1>c, <1>o DEF GoesOn

\* The end of a call that has succeeded.
LEMMA JoinEndsMoves ==
    ASSUME ConstantsAssumption, BaseInv, NEW c \in Calls, JoinEnds(c)
    PROVE  \E e \in CallState : Becomes(c, e) /\ GoesOn(call[c], e) /\ MakesNothing(call[c], e) /\ EntersNothing(call[c], e)
  <1> DEFINE e == [call[c] EXCEPT !.step = "done", !.res = "ok"]
  <1>1. Becomes(c, e)
    BY ReturnFacts DEF BaseInv, JoinEnds
  <1>2. call[c] \in CallState /\ e \in CallState /\ Sound(call[c])
    BY <1>1, StateOfCall DEF BaseInv, Becomes
  <1>3. Sound(e)
    BY <1>2 DEF JoinEnds, At, Req, Sound, CallState
  <1>4. \A i \in Ids : Touches(call[c], i) => Touches(e, i)
    BY <1>2 DEF JoinEnds, At, Req, Sound, CallState, Touches
  <1>c. CleanCall(e) => CleanCall(call[c])
    BY <1>2 DEF JoinEnds, At, Req, Sound, CallState, CleanCall
  <1>o. Orders(call[c], e)
    BY <1>2 DEF JoinEnds, At, Req, CallState, Orders
  <1>5. MakesNothing(call[c], e) /\ EntersNothing(call[c], e)
    BY <1>2 DEF JoinEnds, At, Req, Sound, CallState, MakesNothing, EntersNothing, Making, InIndex
  <1>6. QED
    BY <1>1, <1>2, <1>3, <1>4, <1>5, <1>c, <1>o DEF GoesOn

\* The deletions begin.
LEMMA ScanEndsMoves ==
    ASSUME ConstantsAssumption, BaseInv, NEW c \in Calls, ScanEnds(c)
    PROVE  \E e \in CallState : Becomes(c, e) /\ GoesOn(call[c], e) /\ MakesNothing(call[c], e) /\ EntersNothing(call[c], e)
  <1> DEFINE e == [call[c] EXCEPT !.step = "purge", !.todo = call[c].seen, !.del = "next"]
  <1>1. Becomes(c, e)
    BY ScanEndsFacts DEF BaseInv, ScanEnds
  <1>2. call[c] \in CallState /\ e \in CallState /\ Sound(call[c])
    BY <1>1, StateOfCall DEF BaseInv, Becomes
  <1>3. Sound(e)
    BY <1>2 DEF ScanEnds, At, Req, Sound, CallState
  <1>4. \A i \in Ids : Touches(call[c], i) => Touches(e, i)
    BY <1>2 DEF ScanEnds, At, Req, Sound, CallState, Touches
  <1>c. CleanCall(e) => CleanCall(call[c])
    BY <1>2 DEF ScanEnds, At, Req, Sound, CallState, CleanCall
  <1>o. Orders(call[c], e)
    BY <1>2 DEF ScanEnds, At, Req, CallState, Orders
  <1>5. MakesNothing(call[c], e) /\ EntersNothing(call[c], e)
    BY <1>2 DEF ScanEnds, At, Req, Sound, CallState, MakesNothing, EntersNothing, Making, InIndex
  <1>6. QED
    BY <1>1, <1>2, <1>3, <1>4, <1>5, <1>c, <1>o DEF GoesOn

\* The deletion of a row.
LEMMA PurgeRecordMoves ==
    ASSUME ConstantsAssumption, BaseInv, NEW c \in Calls, PurgeRecord(c)
    PROVE  \E e \in CallState : Becomes(c, e) /\ GoesOn(call[c], e) /\ MakesNothing(call[c], e) /\ EntersNothing(call[c], e)
  <1> DEFINE e == [call[c] EXCEPT !.del = "unique"]
  <1>1. Becomes(c, e)
    BY PurgeRecordFacts DEF BaseInv, PurgeRecord
  <1>2. call[c] \in CallState /\ e \in CallState /\ Sound(call[c])
    BY <1>1, StateOfCall DEF BaseInv, Becomes
  <1>3. Sound(e)
    BY <1>2 DEF PurgeRecord, At, Req, Sound, CallState
  <1>4. \A i \in Ids : Touches(call[c], i) => Touches(e, i)
    BY <1>2 DEF PurgeRecord, At, Req, Sound, CallState, Touches
  <1>c. CleanCall(e) => CleanCall(call[c])
    BY <1>2 DEF PurgeRecord, At, Req, Sound, CallState, CleanCall
  <1>o. Orders(call[c], e)
    BY <1>2 DEF PurgeRecord, At, Req, CallState, Orders
  <1>5. MakesNothing(call[c], e) /\ EntersNothing(call[c], e)
    BY <1>2 DEF PurgeRecord, At, Req, Sound, CallState, MakesNothing, EntersNothing, Making, InIndex
  <1>6. QED
    BY <1>1, <1>2, <1>3, <1>4, <1>5, <1>c, <1>o DEF GoesOn

\* The deletion of its entry.
LEMMA PurgeUniqueMoves ==
    ASSUME ConstantsAssumption, BaseInv, NEW c \in Calls, PurgeUnique(c)
    PROVE  \E e \in CallState : Becomes(c, e) /\ GoesOn(call[c], e) /\ MakesNothing(call[c], e) /\ EntersNothing(call[c], e)
  <1> DEFINE e == [call[c] EXCEPT !.del = "from"]
  <1>1. Becomes(c, e)
    BY PurgeUniqueFacts DEF BaseInv, PurgeUnique
  <1>2. call[c] \in CallState /\ e \in CallState /\ Sound(call[c])
    BY <1>1, StateOfCall DEF BaseInv, Becomes
  <1>3. Sound(e)
    BY <1>2 DEF PurgeUnique, At, Req, Sound, CallState
  <1>4. \A i \in Ids : Touches(call[c], i) => Touches(e, i)
    BY <1>2 DEF PurgeUnique, At, Req, Sound, CallState, Touches
  <1>c. CleanCall(e) => CleanCall(call[c])
    BY <1>2 DEF PurgeUnique, At, Req, Sound, CallState, CleanCall
  <1>o. Orders(call[c], e)
    BY <1>2 DEF PurgeUnique, At, Req, CallState, Orders
  <1>5. MakesNothing(call[c], e) /\ EntersNothing(call[c], e)
    BY <1>2 DEF PurgeUnique, At, Req, Sound, CallState, MakesNothing, EntersNothing, Making, InIndex
  <1>6. QED
    BY <1>1, <1>2, <1>3, <1>4, <1>5, <1>c, <1>o DEF GoesOn

\* The deletion of its links.
LEMMA PurgeLinksFromMoves ==
    ASSUME ConstantsAssumption, BaseInv, NEW c \in Calls, PurgeLinksFrom(c)
    PROVE  \E e \in CallState : Becomes(c, e) /\ GoesOn(call[c], e) /\ MakesNothing(call[c], e) /\ EntersNothing(call[c], e)
  <1> DEFINE e == [call[c] EXCEPT !.del = "to"]
  <1>1. Becomes(c, e)
    BY PurgeLinksFromFacts DEF BaseInv, PurgeLinksFrom
  <1>2. call[c] \in CallState /\ e \in CallState /\ Sound(call[c])
    BY <1>1, StateOfCall DEF BaseInv, Becomes
  <1>3. Sound(e)
    BY <1>2 DEF PurgeLinksFrom, At, Req, Sound, CallState
  <1>4. \A i \in Ids : Touches(call[c], i) => Touches(e, i)
    BY <1>2 DEF PurgeLinksFrom, At, Req, Sound, CallState, Touches
  <1>c. CleanCall(e) => CleanCall(call[c])
    BY <1>2 DEF PurgeLinksFrom, At, Req, Sound, CallState, CleanCall
  <1>o. Orders(call[c], e)
    BY <1>2 DEF PurgeLinksFrom, At, Req, CallState, Orders
  <1>5. MakesNothing(call[c], e) /\ EntersNothing(call[c], e)
    BY <1>2 DEF PurgeLinksFrom, At, Req, Sound, CallState, MakesNothing, EntersNothing, Making, InIndex
  <1>6. QED
    BY <1>1, <1>2, <1>3, <1>4, <1>5, <1>c, <1>o DEF GoesOn

\* The deletion of the links to it.
LEMMA PurgeLinksToMoves ==
    ASSUME ConstantsAssumption, BaseInv, NEW c \in Calls, PurgeLinksTo(c)
    PROVE  \E e \in CallState : Becomes(c, e) /\ GoesOn(call[c], e) /\ MakesNothing(call[c], e) /\ EntersNothing(call[c], e)
  <1> DEFINE e == [call[c] EXCEPT !.del = "next"]
  <1>1. Becomes(c, e)
    BY PurgeLinksToFacts DEF BaseInv, PurgeLinksTo
  <1>2. call[c] \in CallState /\ e \in CallState /\ Sound(call[c])
    BY <1>1, StateOfCall DEF BaseInv, Becomes
  <1>3. Sound(e)
    BY <1>2 DEF PurgeLinksTo, At, Req, Sound, CallState
  <1>4. \A i \in Ids : Touches(call[c], i) => Touches(e, i)
    BY <1>2 DEF PurgeLinksTo, At, Req, Sound, CallState, Touches
  <1>c. CleanCall(e) => CleanCall(call[c])
    BY <1>2 DEF PurgeLinksTo, At, Req, Sound, CallState, CleanCall
  <1>o. Orders(call[c], e)
    BY <1>2 DEF PurgeLinksTo, At, Req, CallState, Orders
  <1>5. MakesNothing(call[c], e) /\ EntersNothing(call[c], e)
    BY <1>2 DEF PurgeLinksTo, At, Req, Sound, CallState, MakesNothing, EntersNothing, Making, InIndex
  <1>6. QED
    BY <1>1, <1>2, <1>3, <1>4, <1>5, <1>c, <1>o DEF GoesOn

\* The beginning of a call.
LEMMA StartMoves ==
    ASSUME ConstantsAssumption, BaseInv, NEW c \in Calls, Start(c)
    PROVE  \E e \in CallState : Becomes(c, e) /\ GoesOn(call[c], e) /\ ~Making(e)
  <1>1. PICK r \in Request : Becomes(c,
              [Idle EXCEPT !.req = r,
                  !.step = CASE r.kind \in {"create", "import"} -> "check"
                             [] r.kind = "update" -> "read"
                             [] r.kind = "delete" -> "scan",
                  !.id = IF r.kind = "create" THEN 0 ELSE r.id,
                  !.data = IF r.kind \in {"create", "import"} THEN r.data ELSE None,
                  !.todo = IF r.kind = "delete" THEN {r.id} ELSE {}])
    BY StartFacts DEF BaseInv
  <1> DEFINE s == CASE r.kind \in {"create", "import"} -> "check"
                    [] r.kind = "update" -> "read"
                    [] r.kind = "delete" -> "scan"
             i == IF r.kind = "create" THEN 0 ELSE r.id
             x == IF r.kind \in {"create", "import"} THEN r.data ELSE None
             T == IF r.kind = "delete" THEN {r.id} ELSE {}
             e == [Idle EXCEPT !.req = r, !.step = s, !.id = i, !.data = x, !.todo = T]
  <1>2. Becomes(c, e)
    BY <1>1
  <1>3. /\ r.kind \in {"create", "import"} => s = "check" /\ x \in Data
        /\ r.kind = "update" => s = "read" /\ x = None
        /\ r.kind = "delete" => s = "scan"
        /\ r.kind \in {"create", "import", "update", "delete"}
    BY RequestParts
  <1>4. (r.kind = "create" => i = 0) /\ (r.kind # "create" => i = r.id)
    OBVIOUS
  <1>5. call[c] \in CallState /\ Sound(call[c]) /\ call[c].step = "idle"
    BY StateOfCall DEF BaseInv, Start, At
  <1> HIDE DEF s, i, x, T
  <1>e. /\ e.req = r /\ e.step = s /\ e.id = i /\ e.data = x
        /\ e.seen = {} /\ e.uq = "end" /\ e.rl = "end"
    BY DEF Idle
  <1> HIDE DEF e
  <1>6. e \in CallState
    BY <1>2 DEF Becomes
  <1>7. Sound(e)
    BY <1>3, <1>4, <1>e DEF Sound
  <1>8. \A k \in Ids : ~Touches(call[c], k)
    BY <1>5 DEF Touches, Sound
  <1>c. CleanCall(e) => CleanCall(call[c])
    BY <1>5 DEF Sound, CallState, CleanCall
  <1>o. Orders(call[c], e)
    BY <1>3, <1>e DEF Orders
  <1>9. ~Making(e)
    BY <1>3, <1>e DEF Making
  <1>10. QED
    BY <1>2, <1>6, <1>7, <1>8, <1>9, <1>c, <1>o DEF GoesOn

\* An end that tells the caller of an error.
LEMMA ErrorMoves ==
    ASSUME ConstantsAssumption, BaseInv, NEW c \in Calls, call[c].step \notin {"idle", "join", "drain"},
           Becomes(c, [call[c] EXCEPT !.step = "done", !.res = "err"])
    PROVE  \E e \in CallState :
              Becomes(c, e) /\ GoesOn(call[c], e) /\ MakesNothing(call[c], e) /\ EntersNothing(call[c], e)
  <1> DEFINE e == [call[c] EXCEPT !.step = "done", !.res = "err"]
  <1>1. Becomes(c, e)
    OBVIOUS
  <1>2. call[c] \in CallState /\ e \in CallState /\ Sound(call[c])
    BY <1>1, StateOfCall DEF BaseInv, Becomes
  <1>3. call[c].step \in {"read", "check", "write", "scan", "purge", "done"}
    BY <1>2 DEF CallState, Steps
  <1>4. Sound(e)
    BY <1>2, <1>3 DEF Sound, CallState
  <1>5. \A i \in Ids : Touches(call[c], i) => Touches(e, i)
    BY <1>2, <1>3 DEF CallState, Touches
  <1>c. CleanCall(e) => CleanCall(call[c])
    BY <1>2, <1>3 DEF CallState, Sound, CleanCall
  <1>o. Orders(call[c], e)
    BY <1>2, <1>3 DEF CallState, Orders
  <1>6. MakesNothing(call[c], e) /\ EntersNothing(call[c], e)
    BY <1>2, <1>3 DEF Sound, CallState, MakesNothing, EntersNothing, Making, InIndex
  <1>7. QED
    BY <1>1, <1>2, <1>4, <1>5, <1>6, <1>c, <1>o DEF GoesOn

\* The record to update is read.
LEMMA ReadMoves ==
    ASSUME ConstantsAssumption, BaseInv, NEW c \in Calls, ReadExisting(c)
    PROVE  \E e \in CallState :
              Becomes(c, e) /\ GoesOn(call[c], e) /\ MakesNothing(call[c], e) /\ EntersNothing(call[c], e)
  <1>1. call[c] \in CallState /\ Sound(call[c]) /\ call[c].step = "read"
    BY StateOfCall DEF BaseInv, ReadExisting, At
  <1>2. call[c].req \in Request /\ call[c].req.kind = "update" /\ call[c].id = call[c].req.id
    BY <1>1 DEF Sound
  <1>3. CASE Becomes(c, [call[c] EXCEPT !.step = "done", !.res = "err"])
    BY <1>1, <1>3, ErrorMoves
  <1>4. ASSUME NEW x \in Data, Becomes(c, [call[c] EXCEPT !.step = "check", !.data = x])
        PROVE  \E e \in CallState :
              Becomes(c, e) /\ GoesOn(call[c], e) /\ MakesNothing(call[c], e) /\ EntersNothing(call[c], e)
    <2> DEFINE e == [call[c] EXCEPT !.step = "check", !.data = x]
    <2>1. e \in CallState
      BY <1>4 DEF Becomes
    <2>2. Sound(e)
      BY <1>1, <1>2 DEF Sound, CallState
    <2>3. \A i \in Ids : Touches(call[c], i) => Touches(e, i)
      BY <1>1 DEF CallState, Touches
    <2>c. CleanCall(e) => CleanCall(call[c])
      BY <1>1 DEF CallState, Sound, CleanCall
    <2>o. Orders(call[c], e)
      BY <1>1 DEF CallState, Orders
    <2>4. MakesNothing(call[c], e) /\ EntersNothing(call[c], e)
      BY <1>1 DEF CallState, MakesNothing, EntersNothing, Making
    <2>5. QED
      BY <1>4, <2>1, <2>2, <2>3, <2>4, <2>c, <2>o DEF GoesOn
  <1>5. QED
    BY <1>2, <1>3, <1>4, ReadFacts DEF BaseInv

\* The unique field is checked.
LEMMA CheckMoves ==
    ASSUME ConstantsAssumption, BaseInv, NEW c \in Calls, CheckUnique(c)
    PROVE  \E e \in CallState :
              Becomes(c, e) /\ GoesOn(call[c], e) /\ MakesNothing(call[c], e) /\ EntersNothing(call[c], e)
  <1>1. call[c] \in CallState /\ Sound(call[c]) /\ call[c].step = "check"
    BY StateOfCall DEF BaseInv, CheckUnique, At
  <1>2. CASE Becomes(c, [call[c] EXCEPT !.step = "done", !.res = "err"])
    BY <1>1, <1>2, ErrorMoves
  <1>3. CASE Becomes(c, [call[c] EXCEPT !.step = "write"])
    <2> DEFINE e == [call[c] EXCEPT !.step = "write"]
    <2>1. e \in CallState
      BY <1>3 DEF Becomes
    <2>2. Sound(e)
      BY <1>1 DEF Sound, CallState
    <2>3. \A i \in Ids : Touches(call[c], i) => Touches(e, i)
      BY <1>1 DEF CallState, Touches
    <2>c. CleanCall(e) => CleanCall(call[c])
      BY <1>1 DEF CallState, Sound, CleanCall
    <2>o. Orders(call[c], e)
      BY <1>1 DEF CallState, Orders
    <2>4. MakesNothing(call[c], e) /\ EntersNothing(call[c], e)
      BY <1>1 DEF CallState, MakesNothing, EntersNothing, Making
    <2>5. QED
      BY <1>3, <2>1, <2>2, <2>3, <2>4, <2>c, <2>o DEF GoesOn
  <1>4. QED
    BY <1>2, <1>3, CheckFacts DEF BaseInv

\* An import, whether its id was free or taken.
LEMMA ImportMoves ==
    ASSUME ConstantsAssumption, BaseInv, NEW c \in Calls, ImportRecord(c)
    PROVE  \E e \in CallState :
              Becomes(c, e) /\ GoesOn(call[c], e) /\ MakesNothing(call[c], e) /\ EntersNothing(call[c], e)
  <1>1. call[c] \in CallState /\ Sound(call[c]) /\ call[c].step = "write" /\ call[c].req.kind = "import"
    BY StateOfCall DEF BaseInv, ImportRecord, At, Req
  <1>2. CASE Exists(call[c].id)
    <2>1. Becomes(c, [call[c] EXCEPT !.step = "done", !.res = "err"])
      BY <1>2, ReturnFacts DEF ImportRecord, BaseInv
    <2>2. QED
      BY <1>1, <2>1, ErrorMoves
  <1>3. CASE ~Exists(call[c].id)
    <2> DEFINE e == [call[c] EXCEPT !.step = "join", !.uq = "clear", !.rl = "clear"]
    <2>1. Becomes(c, e)
      BY <1>3, ImportFacts DEF BaseInv
    <2>2. e \in CallState
      BY <2>1 DEF Becomes
    <2>3. call[c].req.id \in Ids
      BY <1>1, RequestParts DEF Sound
    <2>4. Sound(e)
      BY <1>1, <2>3 DEF Sound, CallState
    <2>5. \A i \in Ids : Touches(call[c], i) => Touches(e, i)
      BY <1>1 DEF CallState, Touches
    <2>c. CleanCall(e) => CleanCall(call[c])
      BY <1>1 DEF CallState, Sound, CleanCall
    <2>o. Orders(call[c], e)
      BY <1>1 DEF CallState, Orders
    <2>6. MakesNothing(call[c], e) /\ EntersNothing(call[c], e)
      BY <1>1 DEF CallState, MakesNothing, EntersNothing, Making
    <2>7. QED
      BY <2>1, <2>2, <2>4, <2>5, <2>6, <2>c, <2>o DEF GoesOn
  <1>4. QED
    BY <1>2, <1>3

\* A failure of one half of a row.
LEMMA JoinFailsMoves ==
    ASSUME ConstantsAssumption, BaseInv, NEW c \in Calls, JoinFails(c)
    PROVE  \E e \in CallState :
              Becomes(c, e) /\ GoesOn(call[c], e) /\ MakesNothing(call[c], e) /\ EntersNothing(call[c], e)
  <1>1. call[c] \in CallState /\ Sound(call[c]) /\ call[c].step = "join"
    BY StateOfCall DEF BaseInv, JoinFails, At
  <1>2. PICK s \in {"done", "drain"}, u \in {"clear", "put", "end"}, l \in {"clear", "put", "end"} :
            /\ Becomes(c, [call[c] EXCEPT !.step = s, !.res = "err", !.uq = u, !.rl = l])
            /\ u \in {call[c].uq, "end"} /\ l \in {call[c].rl, "end"}
    BY JoinFailsFacts DEF BaseInv
  <1> DEFINE e == [call[c] EXCEPT !.step = s, !.res = "err", !.uq = u, !.rl = l]
  <1>3. e \in CallState
    BY <1>2 DEF Becomes
  <1>4. Sound(e)
    BY <1>1, <1>2 DEF Sound, CallState
  <1>5. \A i \in Ids : Touches(call[c], i) => Touches(e, i)
    BY <1>1, <1>2 DEF CallState, Touches
  <1>c. CleanCall(e) => CleanCall(call[c])
    BY <1>1, <1>2 DEF CallState, Sound, CleanCall
  <1>o. Orders(call[c], e)
    BY <1>1, <1>2 DEF CallState, Orders
  <1>6. MakesNothing(call[c], e) /\ EntersNothing(call[c], e)
    BY <1>1, <1>2 DEF CallState, MakesNothing, EntersNothing, Making, InIndex
  <1>7. QED
    BY <1>2, <1>3, <1>4, <1>5, <1>6, <1>c, <1>o DEF GoesOn

\* A record is visited.
LEMMA ScanMoves ==
    ASSUME ConstantsAssumption, BaseInv, NEW c \in Calls, Scan(c)
    PROVE  \E e \in CallState :
              Becomes(c, e) /\ GoesOn(call[c], e) /\ MakesNothing(call[c], e) /\ EntersNothing(call[c], e)
  <1>1. call[c] \in CallState /\ Sound(call[c]) /\ call[c].step = "scan"
    BY StateOfCall DEF BaseInv, Scan, At
  <1>2. PICK i \in call[c].todo : Becomes(c,
              [call[c] EXCEPT !.seen = call[c].seen \cup {i},
                              !.todo = (call[c].todo \ {i}) \cup Origins(c, i)])
    BY ScanFacts DEF BaseInv
  <1> DEFINE T == (call[c].todo \ {i}) \cup Origins(c, i)
             e == [call[c] EXCEPT !.seen = call[c].seen \cup {i}, !.todo = T]
  <1> HIDE DEF T
  <1>3. Becomes(c, e)
    BY <1>2 DEF T
  <1>4. e \in CallState
    BY <1>3 DEF Becomes
  <1>5. Sound(e)
    BY <1>1 DEF Sound, CallState
  <1>6. \A k \in Ids : Touches(call[c], k) => Touches(e, k)
    BY <1>1 DEF CallState, Touches
  <1>c. CleanCall(e) => CleanCall(call[c])
    BY <1>1 DEF CallState, Sound, CleanCall
  <1>o. Orders(call[c], e)
    BY <1>1 DEF CallState, Orders
  <1>7. MakesNothing(call[c], e) /\ EntersNothing(call[c], e)
    BY <1>1 DEF CallState, MakesNothing, EntersNothing, Making
  <1>8. QED
    BY <1>3, <1>4, <1>5, <1>6, <1>7, <1>c, <1>o DEF GoesOn

\* The next deletion begins.
LEMMA PurgeNextMoves ==
    ASSUME ConstantsAssumption, BaseInv, NEW c \in Calls, PurgeNext(c)
    PROVE  \E e \in CallState :
              Becomes(c, e) /\ GoesOn(call[c], e) /\ MakesNothing(call[c], e) /\ EntersNothing(call[c], e)
  <1>1. call[c] \in CallState /\ Sound(call[c]) /\ call[c].step = "purge"
    BY StateOfCall DEF BaseInv, PurgeNext, At
  <1>2. PICK i \in call[c].todo : Becomes(c,
              [call[c] EXCEPT !.id = i, !.todo = call[c].todo \ {i}, !.del = "record"])
    BY PurgeNextFacts DEF BaseInv
  <1> DEFINE e == [call[c] EXCEPT !.id = i, !.todo = call[c].todo \ {i}, !.del = "record"]
  <1>3. e \in CallState
    BY <1>2 DEF Becomes
  <1>4. Sound(e)
    BY <1>1, <1>2 DEF Sound, CallState
  <1>5. \A k \in Ids : Touches(call[c], k) => Touches(e, k)
    BY <1>1 DEF CallState, Touches
  <1>c. CleanCall(e) => CleanCall(call[c])
    BY <1>1 DEF CallState, Sound, CleanCall
  <1>o. Orders(call[c], e)
    BY <1>1 DEF CallState, Orders
  <1>6. MakesNothing(call[c], e) /\ EntersNothing(call[c], e)
    BY <1>1 DEF CallState, MakesNothing, EntersNothing, Making
  <1>7. QED
    BY <1>2, <1>3, <1>4, <1>5, <1>6, <1>c, <1>o DEF GoesOn

\* A deletion fails.
LEMMA PurgeFailsMoves ==
    ASSUME ConstantsAssumption, BaseInv, NEW c \in Calls, PurgeFails(c)
    PROVE  \E e \in CallState :
              Becomes(c, e) /\ GoesOn(call[c], e) /\ MakesNothing(call[c], e) /\ EntersNothing(call[c], e)
  <1>1. call[c] \in CallState /\ Sound(call[c]) /\ call[c].step = "purge" /\ call[c].del # "next"
    BY StateOfCall DEF BaseInv, PurgeFails, At
  <1>2. PICK x \in {"unique", "from", "to", "next"} :
            Becomes(c, [call[c] EXCEPT !.res = "err", !.del = x])
    BY <1>1, PurgeFailsFacts DEF BaseInv, Sound
  <1> DEFINE e == [call[c] EXCEPT !.res = "err", !.del = x]
  <1>3. e \in CallState
    BY <1>2 DEF Becomes
  <1>4. Sound(e)
    BY <1>1, <1>2 DEF Sound, CallState
  <1>5. \A k \in Ids : Touches(call[c], k) => Touches(e, k)
    BY <1>1 DEF CallState, Touches
  <1>c. CleanCall(e) => CleanCall(call[c])
    BY <1>1 DEF CallState, Sound, CleanCall
  <1>o. Orders(call[c], e)
    BY <1>1 DEF CallState, Orders
  <1>6. MakesNothing(call[c], e) /\ EntersNothing(call[c], e)
    BY <1>1 DEF CallState, MakesNothing, EntersNothing, Making
  <1>7. QED
    BY <1>2, <1>3, <1>4, <1>5, <1>6, <1>c, <1>o DEF GoesOn

\* The deletions are over.
LEMMA PurgeEndsMoves ==
    ASSUME ConstantsAssumption, BaseInv, NEW c \in Calls, PurgeEnds(c)
    PROVE  \E e \in CallState :
              Becomes(c, e) /\ GoesOn(call[c], e) /\ MakesNothing(call[c], e) /\ EntersNothing(call[c], e)
  <1> DEFINE v == IF call[c].res = "err" THEN "err" ELSE "ok"
             e == [call[c] EXCEPT !.step = "done", !.res = v]
  <1>1. call[c] \in CallState /\ Sound(call[c]) /\ call[c].step = "purge"
    BY StateOfCall DEF BaseInv, PurgeEnds, At
  <1>2. v \in {"ok", "err"} /\ (call[c].res = "err" => v = "err")
    OBVIOUS
  <1>3. Becomes(c, e)
    BY <1>2, ReturnFacts DEF PurgeEnds, BaseInv
  <1> HIDE DEF v
  <1>4. e \in CallState
    BY <1>3 DEF Becomes
  <1>5. Sound(e)
    BY <1>1 DEF Sound, CallState
  <1>6. \A k \in Ids : Touches(call[c], k) => Touches(e, k)
    BY <1>1 DEF CallState, Touches
  <1>c. CleanCall(e) => CleanCall(call[c])
    BY <1>1, <1>2 DEF CallState, Sound, CleanCall
  <1>o. Orders(call[c], e)
    BY <1>1, <1>2 DEF CallState, Orders
  <1>7. MakesNothing(call[c], e) /\ EntersNothing(call[c], e)
    BY <1>1 DEF Sound, CallState, MakesNothing, EntersNothing, Making
  <1>8. QED
    BY <1>3, <1>4, <1>5, <1>6, <1>7, <1>c, <1>o DEF GoesOn

\* Every step of a call is one of these.
LEMMA CallMoves ==
    ASSUME ConstantsAssumption, BaseInv, NEW c \in Calls, Start(c) \/ Step(c)
    PROVE  \E e \in CallState :
              /\ Becomes(c, e) /\ GoesOn(call[c], e)
              /\ InsertRecord(c) \/ MakesNothing(call[c], e)
              /\ PutUnique(c) \/ EntersNothing(call[c], e)
  <1>1. CASE Start(c)
    BY <1>1, StartMoves DEF MakesNothing, EntersNothing
  <1>2. CASE Create(c)
    BY <1>2, InsertRecordMoves, ImportMoves DEF Create
  <1>3. CASE Update(c)
    BY <1>3, ReadMoves, UpdateRecordMoves DEF Update
  <1>4. CASE CheckUnique(c) \/ WriteFails(c)
    BY <1>4, CheckMoves, WriteFailsMoves
  <1>5. CASE Join(c)
    BY <1>5, ClearUniqueMoves, PutUniqueMoves, ClearLinksMoves, PutLinkMoves, JoinFailsMoves,
       DrainEndsMoves, JoinEndsMoves DEF Join
  <1>6. CASE Delete(c)
    BY <1>6, ScanMoves, ScanEndsMoves, PurgeNextMoves, PurgeRecordMoves, PurgeUniqueMoves,
       PurgeLinksFromMoves, PurgeLinksToMoves, PurgeFailsMoves, PurgeEndsMoves DEF Delete
  <1>7. QED
    BY <1>1, <1>2, <1>3, <1>4, <1>5, <1>6 DEF Step

\* A step changes one table, or none.
LEMMA TableMoves ==
    ASSUME NEW c \in Calls, Start(c) \/ Step(c)
    PROVE  \/ UNCHANGED <<records, uniq, links, lastId>>
           \/ /\ ClearUnique(c) \/ PutUnique(c) \/ PurgeUnique(c)
              /\ UNCHANGED <<records, links, lastId>>
           \/ /\ ClearLinks(c) \/ PutLink(c) \/ PurgeLinksFrom(c) \/ PurgeLinksTo(c)
              /\ UNCHANGED <<records, uniq, lastId>>
           \/ /\ \/ InsertRecord(c)
                 \/ ImportRecord(c) /\ ~Exists(call[c].id)
                 \/ UpdateRecord(c) /\ Exists(call[c].id)
                 \/ PurgeRecord(c)
              /\ UNCHANGED <<uniq, links>>
  <1>1. CASE Start(c)
    BY <1>1 DEF Start
  <1>2. CASE Create(c)
    BY <1>2 DEF Create, InsertRecord, ImportRecord
  <1>3. CASE Update(c)
    BY <1>3 DEF Update, ReadExisting, UpdateRecord
  <1>4. CASE CheckUnique(c) \/ WriteFails(c)
    BY <1>4 DEF CheckUnique, WriteFails
  <1>5. CASE Join(c)
    BY <1>5 DEF Join, ClearUnique, PutUnique, ClearLinks, PutLink, JoinFails, DrainEnds, JoinEnds
  <1>6. CASE Delete(c)
    BY <1>6 DEF Delete, Scan, ScanEnds, PurgeNext, PurgeRecord, PurgeUnique, PurgeLinksFrom,
       PurgeLinksTo, PurgeFails, PurgeEnds
  <1>7. QED
    BY <1>1, <1>2, <1>3, <1>4, <1>5, <1>6 DEF Step

\* What a call that writes its row has in hand.
LEMMA AtWrite ==
    ASSUME ConstantsAssumption, BaseInv, NEW c \in Calls, call[c].step = "write"
    PROVE  /\ call[c].data \in Data /\ call[c].data # None
           /\ call[c].req.kind \in {"import", "update"} =>
                  call[c].id \in Ids /\ call[c].id = call[c].req.id
  <1>1. Sound(call[c])
    BY DEF BaseInv
  <1>2. call[c].req \in Request
    BY <1>1 DEF Sound
  <1>3. call[c].data \in Data
    BY <1>1 DEF Sound
  <1>4. call[c].req.kind \in {"import", "update"} =>
            call[c].id \in Ids /\ call[c].id = call[c].req.id
    BY <1>1, <1>2, RequestParts DEF Sound
  <1>5. QED
    BY <1>3, <1>4 DEF ConstantsAssumption

\* What a call whose row is written has in hand.
LEMMA AtJoin ==
    ASSUME ConstantsAssumption, BaseInv, NEW c \in Calls, call[c].step \in {"join", "drain"}
    PROVE  /\ call[c].data \in Data /\ call[c].data # None /\ call[c].id \in Ids
           /\ call[c].req.kind # "create" => call[c].id = call[c].req.id
           /\ call[c].uq = "put" => call[c].data.val \in Vals
  <1>1. Sound(call[c])
    BY DEF BaseInv
  <1>2. QED
    BY <1>1 DEF Sound, Data, Null, ConstantsAssumption

\* What a call that deletes a record has in hand.
LEMMA AtPurge ==
    ASSUME ConstantsAssumption, BaseInv, NEW c \in Calls, call[c].step = "purge",
           call[c].del # "next"
    PROVE  call[c].id \in Ids /\ call[c].id \in call[c].seen
  <1>1. Sound(call[c]) /\ call[c] \in CallState
    BY StateOfCall DEF BaseInv
  <1>2. QED
    BY <1>1 DEF Sound, CallState

\* What becomes of the rows: the id written, and what is written.
LEMMA RowMoves ==
    ASSUME ConstantsAssumption, BaseInv, NEW c \in Calls,
           \/ InsertRecord(c)
           \/ ImportRecord(c) /\ ~Exists(call[c].id)
           \/ UpdateRecord(c) /\ Exists(call[c].id)
           \/ PurgeRecord(c)
    PROVE  \E i \in Ids, x \in Data \cup {None} :
              /\ records' = [records EXCEPT ![i] = x]
              /\ lastId' \in 0..MaxId /\ lastId =< lastId'
              /\ x # None => i =< lastId'
              /\ x # None => x = call[c].data
              /\ ~InsertRecord(c) => Touches(call[c], i)
              /\ InsertRecord(c) => i = FreshId /\ x = call[c].data
  <1> lastId \in 0..MaxId /\ MaxId \in Nat
    BY DEF BaseInv, TypeOK, ConstantsAssumption
  <1>1. CASE InsertRecord(c)
    <2>1. FreshId \in Ids /\ LastIdWith(FreshId) = FreshId /\ lastId =< FreshId
      BY <1>1 DEF InsertRecord, FreshId, LastIdWith, Ids
    <2>2. call[c].data \in Data
      BY <1>1, AtWrite DEF InsertRecord, At
    <2>3. records' = [records EXCEPT ![FreshId] = call[c].data] /\ lastId' = FreshId
      BY <1>1, <2>1 DEF InsertRecord
    <2>4. FreshId \in 0..MaxId /\ FreshId =< FreshId
      BY <2>1 DEF Ids
    <2>5. QED
      BY <1>1, <2>1, <2>2, <2>3, <2>4
  <1>2. CASE ImportRecord(c) /\ ~Exists(call[c].id)
    <2>1. call[c].data \in Data /\ call[c].id \in Ids /\ call[c].id = call[c].req.id
      BY <1>2, AtWrite DEF ImportRecord, At, Req
    <2>2. records' = [records EXCEPT ![call[c].id] = call[c].data] /\ lastId' = LastIdWith(call[c].id)
      BY <1>2 DEF ImportRecord
    <2>3. LastIdWith(call[c].id) \in 0..MaxId /\ lastId =< LastIdWith(call[c].id)
          /\ call[c].id =< LastIdWith(call[c].id)
      BY <2>1 DEF LastIdWith, Ids
    <2>4. Touches(call[c], call[c].id) /\ ~InsertRecord(c)
      BY <1>2, <2>1 DEF Touches, ImportRecord, InsertRecord, At, Req
    <2>5. QED
      BY <2>1, <2>2, <2>3, <2>4
  <1>3. CASE UpdateRecord(c) /\ Exists(call[c].id)
    <2>1. call[c].data \in Data /\ call[c].id \in Ids /\ call[c].id = call[c].req.id
      BY <1>3, AtWrite DEF UpdateRecord, At, Req
    <2>2. records' = [records EXCEPT ![call[c].id] = call[c].data] /\ lastId' = lastId
      BY <1>3 DEF UpdateRecord
    <2>3. call[c].id =< lastId
      BY <1>3 DEF Exists, BaseInv, TypeOK
    <2>4. Touches(call[c], call[c].id) /\ ~InsertRecord(c)
      BY <1>3, <2>1 DEF Touches, UpdateRecord, InsertRecord, At, Req
    <2>5. lastId' \in 0..MaxId /\ lastId =< lastId' /\ call[c].id =< lastId'
      BY <2>1, <2>2, <2>3 DEF Ids
    <2>6. QED
      BY <2>1, <2>2, <2>4, <2>5
  <1>4. CASE PurgeRecord(c)
    <2>1. call[c].id \in Ids /\ call[c].id \in call[c].seen
      BY <1>4, AtPurge DEF PurgeRecord, At
    <2>2. records' = [records EXCEPT ![call[c].id] = None] /\ lastId' = lastId
      BY <1>4 DEF PurgeRecord
    <2>3. Touches(call[c], call[c].id) /\ ~InsertRecord(c)
      BY <1>4, <2>1 DEF Touches, PurgeRecord, InsertRecord, At
    <2>4. lastId' \in 0..MaxId /\ lastId =< lastId'
      BY <2>2
    <2>5. QED
      BY <2>1, <2>2, <2>3, <2>4
  <1>5. QED
    BY <1>1, <1>2, <1>3, <1>4

\* BaseInv is kept.
LEMMA BaseNext ==
    ASSUME ConstantsAssumption, BaseInv, [Next]_vars
    PROVE  BaseInv'
  <1>1. CASE UNCHANGED vars
    BY <1>1 DEF BaseInv, TypeOK, vars
  <1>2. ASSUME NEW c \in Calls, Start(c) \/ Step(c)
        PROVE  BaseInv'
    <2>1. PICK e \in CallState : Becomes(c, e) /\ Sound(e)
      BY <1>2, CallMoves DEF GoesOn
    <2>2. CASE UNCHANGED <<records, uniq, links, lastId>>
      BY <2>1, <2>2, TablesKept
    <2>3. CASE /\ ClearUnique(c) \/ PutUnique(c) \/ PurgeUnique(c)
               /\ UNCHANGED <<records, links, lastId>>
      <3>1. uniq \in [Vals -> Ids \cup {0}] /\ links \subseteq Ids \X Ids
        BY DEF BaseInv, TypeOK
      <3>2. PutUnique(c) => call[c].id \in Ids
        BY AtJoin DEF PutUnique, At
      <3>3. uniq' \in [Vals -> Ids \cup {0}]
        BY <2>3, <3>1, <3>2 DEF ClearUnique, PutUnique, PurgeUnique, UniqueWithout
      <3>4. QED
        BY <2>1, <2>3, <3>1, <3>3, RowsKept
    <2>4. CASE /\ ClearLinks(c) \/ PutLink(c) \/ PurgeLinksFrom(c) \/ PurgeLinksTo(c)
               /\ UNCHANGED <<records, uniq, lastId>>
      <3>1. uniq \in [Vals -> Ids \cup {0}] /\ links \subseteq Ids \X Ids
        BY DEF BaseInv, TypeOK
      <3>2. PutLink(c) => <<call[c].id, call[c].data.ref>> \in Ids \X Ids
        <4>1. ASSUME PutLink(c) PROVE call[c].id \in Ids /\ call[c].data \in Data /\ call[c].rl = "put"
          BY <4>1, AtJoin DEF PutLink, At
        <4>2. Sound(call[c])
          BY DEF BaseInv
        <4>3. QED
          BY <4>1, <4>2 DEF Sound, Data, PutLink, At
      <3>3. links' \subseteq Ids \X Ids
        BY <2>4, <3>1, <3>2 DEF ClearLinks, PutLink, PurgeLinksFrom, PurgeLinksTo
      <3>4. QED
        BY <2>1, <2>4, <3>1, <3>3, RowsKept
    <2>5. CASE /\ \/ InsertRecord(c)
                  \/ ImportRecord(c) /\ ~Exists(call[c].id)
                  \/ UpdateRecord(c) /\ Exists(call[c].id)
                  \/ PurgeRecord(c)
               /\ UNCHANGED <<uniq, links>>
      BY <2>1, <2>5, RowMoves, RowWritten
    <2>6. QED
      BY <1>2, <2>2, <2>3, <2>4, <2>5, TableMoves
  <1>3. QED
    BY <1>1, <1>2 DEF Next

-----------------------------------------------------------------------------
(* The records that nobody but their creator has asked for.                *)

\* The ids that were handed out belong to one call each.
MakersInv ==
    \A c \in Calls : Making(call[c]) =>
        /\ LastId < call[c].id /\ call[c].id =< lastId
        /\ call[c].id \in Ids /\ call[c].data \in Data
        /\ \A d \in Calls : Making(call[d]) /\ call[d].id = call[c].id => d = c

\* No call has asked for record i or found it.
Untouched(i) == \A c \in Calls : ~Touches(call[c], i)
\* Record i was x at the start, or a call has created it with x.
Owned(i, x) ==
    \/ Initial[i] # None /\ x = Initial[i]
    \/ \E c \in Calls : Making(call[c]) /\ call[c].id = i /\ call[c].data = x
\* The value of record i was in the index at the start, or its creator put it there.
Indexed(i) ==
    \/ Initial[i] # None
    \/ \E c \in Calls : Making(call[c]) /\ call[c].id = i /\ InIndex(call[c])

\* A record that nobody has asked for is what its creator wrote, and the index
\* has its value from the moment on that the creator entered it.
OwnInv ==
    \A i \in Ids, x \in Data :
        Untouched(i) /\ Owned(i, x) =>
            /\ records[i] = x
            /\ Indexed(i) /\ x.val # Null => uniq[x.val] = i

\* Ids are handed out upwards.
LEMMA LastIdGrows ==
    ASSUME ConstantsAssumption, BaseInv, NEW c \in Calls, Start(c) \/ Step(c)
    PROVE  lastId \in Nat /\ lastId' \in Nat /\ LastId \in Nat /\ lastId =< lastId'
  <1>1. lastId \in Nat /\ LastId \in Nat
    BY DEF BaseInv, TypeOK, ConstantsAssumption
  <1>2. lastId' = lastId \/ (lastId' \in 0..MaxId /\ lastId =< lastId')
    BY TableMoves, RowMoves
  <1>3. QED
    BY <1>1, <1>2

\* A creation makes its call the owner of the next id.
LEMMA InsertMakes ==
    ASSUME ConstantsAssumption, BaseInv, NEW c \in Calls, InsertRecord(c)
    PROVE  \E e \in CallState :
              /\ Becomes(c, e) /\ e.id = FreshId /\ e.data = call[c].data
              /\ e.step = "join" /\ Making(e) /\ ~InIndex(e) /\ ~Making(call[c])
  <1> DEFINE e == [call[c] EXCEPT !.step = "join", !.id = FreshId, !.uq = "clear", !.rl = "clear"]
  <1>1. Becomes(c, e)
    BY InsertFacts DEF BaseInv
  <1>2. call[c] \in CallState /\ e \in CallState
    BY <1>1, StateOfCall DEF BaseInv, Becomes
  <1>3. e.id = FreshId /\ e.data = call[c].data /\ e.step = "join" /\ e.uq = "clear"
        /\ e.req = call[c].req
    BY <1>2 DEF CallState
  <1>4. FreshId # 0
    BY DEF FreshId, BaseInv, TypeOK
  <1>5. call[c].req.kind = "create" /\ call[c].step = "write"
    BY DEF InsertRecord, At, Req
  <1> HIDE DEF e
  <1>6. QED
    BY <1>1, <1>2, <1>3, <1>4, <1>5 DEF Making, InIndex

\* The owners are kept.
LEMMA MakersNext ==
    ASSUME ConstantsAssumption, BaseInv, MakersInv, [Next]_vars
    PROVE  MakersInv'
  <1>1. CASE UNCHANGED vars
    BY <1>1 DEF MakersInv, vars
  <1>2. ASSUME NEW c \in Calls, Start(c) \/ Step(c)
        PROVE  MakersInv'
    <2>1. lastId \in Nat /\ lastId' \in Nat /\ LastId \in Nat /\ lastId =< lastId'
      BY <1>2, LastIdGrows
    <2>2. CASE InsertRecord(c)
      <3>1. PICK e \in CallState :
                /\ Becomes(c, e) /\ e.id = FreshId /\ e.data = call[c].data
                /\ e.step = "join" /\ Making(e) /\ ~InIndex(e) /\ ~Making(call[c])
        BY <2>2, InsertMakes
      <3>2. FreshId \in Ids /\ lastId < FreshId /\ FreshId =< lastId' /\ LastId =< lastId
        BY <2>1, <2>2 DEF InsertRecord, FreshId, LastIdWith, Ids, BaseInv, TypeOK
      <3>3. call[c].data \in Data
        BY <2>2, AtWrite DEF InsertRecord, At
      <3>4. \A d \in Calls \ {c} : Making(call'[d]) =>
                /\ LastId < call'[d].id /\ call'[d].id =< lastId
                /\ call'[d].id \in Ids /\ call'[d].data \in Data
                /\ \A f \in Calls \ {c} : Making(call'[f]) /\ call'[f].id = call'[d].id => f = d
        BY <3>1 DEF MakersInv, Becomes
      <3>5. \A d \in Calls \ {c} : Making(call'[d]) =>
                call'[d].id # FreshId /\ call'[d].id =< lastId'
        <4>1. \A k \in Ids : k =< lastId => k # FreshId /\ k =< lastId'
          BY <2>1, <3>2 DEF Ids
        <4>2. QED
          BY <3>4, <4>1
      <3>6. call'[c] = e
        BY <3>1 DEF Becomes
      <3>7. LastId < FreshId
        BY <2>1, <3>2 DEF Ids
      <3>8. QED
        BY <3>1, <3>2, <3>3, <3>4, <3>5, <3>6, <3>7 DEF MakersInv
    <2>3. CASE ~InsertRecord(c)
      <3>1. PICK e \in CallState : Becomes(c, e) /\ MakesNothing(call[c], e)
        BY <1>2, <2>3, CallMoves
      <3>2. \A d \in Calls : Making(call'[d]) =>
                Making(call[d]) /\ call'[d].id = call[d].id /\ call'[d].data = call[d].data
        BY <3>1 DEF Becomes, MakesNothing
      <3>3. \A k \in Ids : k =< lastId => k =< lastId'
        BY <2>1 DEF Ids
      <3>4. QED
        BY <3>2, <3>3 DEF MakersInv
    <2>4. QED
      BY <2>2, <2>3
  <1>3. QED
    BY <1>1, <1>2 DEF Next

\* The creator of a record is alone in owning it.
LEMMA OwnedBy ==
    ASSUME ConstantsAssumption, BaseInv, MakersInv, NEW c \in Calls, Making(call[c])
    PROVE  /\ Initial[call[c].id] = None
           /\ \A x \in Data : Owned(call[c].id, x) => x = call[c].data
           /\ Indexed(call[c].id) => InIndex(call[c])
  <1>1. LastId < call[c].id /\ call[c].id \in Ids
    BY DEF MakersInv
  <1>2. Initial[call[c].id] = None
    BY <1>1 DEF ConstantsAssumption, Ids
  <1>3. QED
    BY <1>2 DEF Owned, Indexed, MakersInv

\* What owners there are after a step that creates nothing were there before.
LEMMA OwnersKept ==
    ASSUME ConstantsAssumption, BaseInv, MakersInv, NEW c \in Calls, NEW e,
           Becomes(c, e), GoesOn(call[c], e), MakesNothing(call[c], e),
           NEW i \in Ids, NEW x \in Data, Untouched(i)', Owned(i, x)'
    PROVE  /\ Untouched(i) /\ Owned(i, x)
           /\ Indexed(i)' /\ x.val # Null =>
                 Indexed(i) \/ (Making(e) /\ e.id = i /\ InIndex(e) /\ ~InIndex(call[c]))
  <1>1. \A d \in Calls : Touches(call[d], i) => Touches(call'[d], i)
    BY DEF Becomes, GoesOn
  <1>2. \A d \in Calls : Making(call'[d]) =>
            Making(call[d]) /\ call'[d].id = call[d].id /\ call'[d].data = call[d].data
    BY DEF Becomes, MakesNothing
  <1>3. Untouched(i) /\ Owned(i, x)
    BY <1>1, <1>2 DEF Untouched, Owned
  <1>4. ASSUME Indexed(i)', ~Indexed(i)
        PROVE  Making(e) /\ e.id = i /\ InIndex(e) /\ ~InIndex(call[c])
    <2>1. Initial[i] = None
      BY <1>4 DEF Indexed
    <2>2. PICK d \in Calls : Making(call'[d]) /\ call'[d].id = i /\ InIndex(call'[d])
      BY <1>4, <2>1 DEF Indexed
    <2>3. ~InIndex(call[d])
      BY <1>2, <1>4, <2>2 DEF Indexed
    <2>4. d = c
      BY <2>2, <2>3 DEF Becomes
    <2>5. QED
      BY <2>2, <2>3, <2>4 DEF Becomes
  <1>5. QED
    BY <1>3, <1>4

\* A deletion from the index leaves the values of other records there.
LEMMA UniqueWithoutKeeps ==
    ASSUME BaseInv, NEW i \in Ids, NEW k, i # k, NEW v \in Vals, uniq[v] = i,
           uniq' = UniqueWithout(k)
    PROVE  uniq'[v] = i
  BY DEF UniqueWithout

\* The records in the hands of their creator are as it wrote them, at the start.
LEMMA OwnInit ==
    ASSUME ConstantsAssumption, Init
    PROVE  MakersInv /\ OwnInv
  <1>1. \A c \in Calls : ~Making(call[c])
    BY DEF Init, Idle, Making
  <1>2. MakersInv
    BY <1>1 DEF MakersInv
  <1>3. ASSUME NEW i \in Ids, NEW x \in Data, Owned(i, x)
        PROVE  /\ records[i] = x
               /\ x.val # Null => uniq[x.val] = i
    <2>1. Initial[i] # None /\ x = Initial[i]
      BY <1>1, <1>3 DEF Owned
    <2>2. records[i] = x
      BY <2>1 DEF Init
    <2>3. ASSUME x.val # Null
          PROVE  uniq[x.val] = i
      <3>1. x.val \in Vals
        BY <2>3 DEF Data
      <3>2. \E j \in Ids : Initial[j] # None /\ Initial[j].val = x.val
        BY <2>1
      <3>3. uniq[x.val] = CHOOSE j \in Ids : Initial[j] # None /\ Initial[j].val = x.val
        BY <3>1, <3>2 DEF Init
      <3>4. /\ uniq[x.val] \in Ids /\ Initial[uniq[x.val]] # None
            /\ Initial[uniq[x.val]].val = x.val
        BY <3>2, <3>3
      <3>5. QED
        BY <2>1, <2>3, <3>4 DEF ConstantsAssumption
    <2>4. QED
      BY <2>2, <2>3
  <1>4. QED
    BY <1>2, <1>3 DEF OwnInv

\* They stay as it wrote them.
LEMMA OwnNext ==
    ASSUME ConstantsAssumption, BaseInv, MakersInv, OwnInv, [Next]_vars
    PROVE  OwnInv'
  <1>1. CASE UNCHANGED vars
    BY <1>1 DEF OwnInv, Untouched, Owned, Indexed, vars
  <1>2. ASSUME NEW c \in Calls, Start(c) \/ Step(c)
        PROVE  OwnInv'
    <2> SUFFICES ASSUME NEW i \in Ids, NEW x \in Data, Untouched(i)', Owned(i, x)'
                 PROVE  /\ records'[i] = x
                        /\ Indexed(i)' /\ x.val # Null => uniq'[x.val] = i
      BY DEF OwnInv
    <2>1. CASE InsertRecord(c)
      <3>1. PICK e \in CallState :
                /\ Becomes(c, e) /\ e.id = FreshId /\ e.data = call[c].data
                /\ e.step = "join" /\ Making(e) /\ ~InIndex(e) /\ ~Making(call[c])
        BY <2>1, InsertMakes
      <3>2. lastId \in Nat /\ LastId =< lastId /\ FreshId = lastId + 1 /\ FreshId \in Ids
        BY <2>1 DEF BaseInv, TypeOK, InsertRecord, FreshId, Ids, ConstantsAssumption
      <3>3. records' = [records EXCEPT ![FreshId] = call[c].data] /\ uniq' = uniq
        BY <2>1 DEF InsertRecord
      <3>4. call'[c] = e /\ \A d \in Calls \ {c} : call'[d] = call[d]
        BY <3>1 DEF Becomes
      <3>5. \A d \in Calls : Touches(call[d], i) => Touches(call'[d], i)
        <4>1. PICK f \in CallState : Becomes(c, f) /\ GoesOn(call[c], f)
          BY <1>2, CallMoves
        <4>2. QED
          BY <4>1 DEF Becomes, GoesOn
      <3>6. Untouched(i)
        BY <3>5 DEF Untouched
      <3>7. CASE i = FreshId
        <4>1. \A d \in Calls : Making(call[d]) => call[d].id # i
          BY <3>2, <3>7 DEF MakersInv
        <4>2. Initial[i] = None
          BY <3>2, <3>7 DEF ConstantsAssumption
        <4>3. x = call[c].data
          BY <3>1, <3>4, <4>1, <4>2 DEF Owned
        <4>4. records'[i] = x
          BY <3>3, <3>7, <4>3 DEF BaseInv, TypeOK
        <4>5. ~Indexed(i)'
          BY <3>1, <3>4, <4>1, <4>2 DEF Indexed
        <4>6. QED
          BY <4>4, <4>5
      <3>8. CASE i # FreshId
        <4>1. Owned(i, x)
          BY <3>1, <3>4, <3>8 DEF Owned
        <4>2. Indexed(i)' => Indexed(i)
          BY <3>1, <3>4, <3>8 DEF Indexed
        <4>3. records'[i] = records[i]
          BY <3>3, <3>8 DEF BaseInv, TypeOK
        <4>4. QED
          BY <3>3, <3>6, <4>1, <4>2, <4>3 DEF OwnInv
      <3>9. QED
        BY <3>7, <3>8
    <2>2. CASE ~InsertRecord(c)
      <3>1. PICK e \in CallState :
                /\ Becomes(c, e) /\ GoesOn(call[c], e) /\ MakesNothing(call[c], e)
                /\ PutUnique(c) \/ EntersNothing(call[c], e)
        BY <1>2, <2>2, CallMoves
      <3>2. /\ Untouched(i) /\ Owned(i, x)
            /\ Indexed(i)' /\ x.val # Null =>
                  Indexed(i) \/ (Making(e) /\ e.id = i /\ InIndex(e) /\ ~InIndex(call[c]))
        BY <3>1, OwnersKept
      <3>3. ~PutUnique(c) /\ Indexed(i)' /\ x.val # Null => Indexed(i)
        <4> SUFFICES ASSUME ~PutUnique(c), Making(e), e.id = i, InIndex(e), ~InIndex(call[c])
                     PROVE  x.val = Null
          BY <3>2
        <4>1. e.data.val = Null
          BY <3>1 DEF EntersNothing
        <4>2. Making(call[c]) /\ call[c].id = i /\ call[c].data = e.data
          BY <3>1 DEF MakesNothing
        <4>3. x = call[c].data
          BY <3>2, <4>2, OwnedBy
        <4>4. QED
          BY <4>1, <4>2, <4>3
      <3>4. records[i] = x /\ (Indexed(i) /\ x.val # Null => uniq[x.val] = i)
        BY <3>2 DEF OwnInv
      <3>5. CASE UNCHANGED <<records, uniq, links, lastId>> /\ ~PutUnique(c)
        BY <3>3, <3>4, <3>5
      <3>6. CASE ClearUnique(c) \/ PurgeUnique(c)
        <4>1. uniq' = UniqueWithout(call[c].id) /\ records' = records /\ ~PutUnique(c)
          BY <3>6 DEF ClearUnique, PurgeUnique, PutUnique, At
        <4>2. ASSUME Indexed(i), call[c].id = i
              PROVE  FALSE
          <5>1. CASE PurgeUnique(c)
            <6>1. Touches(call[c], i)
              BY <4>2, <5>1, AtPurge DEF Touches, PurgeUnique, At
            <6>2. QED
              BY <3>2, <6>1 DEF Untouched
          <5>2. CASE ClearUnique(c) /\ call[c].req.kind # "create"
            <6>1. Touches(call[c], i)
              BY <4>2, <5>2, AtJoin DEF Touches, ClearUnique, At
            <6>2. QED
              BY <3>2, <6>1 DEF Untouched
          <5>3. CASE ClearUnique(c) /\ call[c].req.kind = "create"
            <6>1. Making(call[c]) /\ ~InIndex(call[c])
              BY <4>2, <5>3 DEF Making, InIndex, ClearUnique, At, Ids
            <6>2. QED
              BY <4>2, <6>1, OwnedBy
          <5>4. QED
            BY <3>6, <5>1, <5>2, <5>3
        <4>3. x.val # Null => x.val \in Vals
          BY DEF Data
        <4>4. QED
          BY <3>3, <3>4, <4>1, <4>2, <4>3, UniqueWithoutKeeps
      <3>7. CASE PutUnique(c)
        <4>1. /\ records' = records /\ uniq' = [uniq EXCEPT ![call[c].data.val] = call[c].id]
              /\ uniq[call[c].data.val] = 0 /\ call[c].data.val \in Vals
          BY <3>7, AtJoin DEF PutUnique, Taken, At
        <4>2. CASE Indexed(i) /\ x.val # Null
          <5>1. uniq[x.val] = i /\ i # 0
            BY <3>4, <4>2 DEF Ids
          <5>2. x.val # call[c].data.val
            BY <4>1, <5>1
          <5>3. uniq'[x.val] = uniq[x.val]
            BY <4>1, <5>2 DEF BaseInv, TypeOK
          <5>4. QED
            BY <3>4, <4>1, <5>1, <5>3
        <4>3. CASE ~Indexed(i) /\ Indexed(i)' /\ x.val # Null
          <5>1. Making(call[c]) /\ call[c].id = i
            BY <3>1, <3>2, <4>3 DEF MakesNothing
          <5>2. x = call[c].data
            BY <3>2, <5>1, OwnedBy
          <5>3. uniq'[x.val] = i
            BY <4>1, <5>1, <5>2 DEF BaseInv, TypeOK
          <5>4. QED
            BY <3>4, <4>1, <5>3
        <4>4. QED
          BY <3>4, <4>1, <4>2, <4>3
      <3>8. CASE /\ \/ ImportRecord(c) /\ ~Exists(call[c].id)
                    \/ UpdateRecord(c) /\ Exists(call[c].id)
                    \/ PurgeRecord(c)
                 /\ UNCHANGED <<uniq, links>>
        <4>1. PICK k \in Ids, y \in Data \cup {None} :
                  records' = [records EXCEPT ![k] = y] /\ Touches(call[c], k)
          BY <2>2, <3>8, RowMoves
        <4>2. k # i
          BY <3>2, <4>1 DEF Untouched
        <4>3. records'[i] = records[i]
          BY <4>1, <4>2 DEF BaseInv, TypeOK
        <4>4. ~PutUnique(c)
          BY <3>8 DEF ImportRecord, UpdateRecord, PurgeRecord, PutUnique, At
        <4>5. QED
          BY <3>3, <3>4, <3>8, <4>3, <4>4
      <3>9. CASE /\ ClearLinks(c) \/ PutLink(c) \/ PurgeLinksFrom(c) \/ PurgeLinksTo(c)
                 /\ UNCHANGED <<records, uniq, lastId>>
        BY <3>3, <3>4, <3>7, <3>9
      <3>10. QED
        BY <1>2, <2>2, <3>5, <3>6, <3>7, <3>8, <3>9, TableMoves
    <2>3. QED
      BY <2>1, <2>2
  <1>3. QED
    BY <1>1, <1>2 DEF Next

\* Two acknowledged creations that nobody has touched differ in the unique field.
LEMMA AckedUniqueHolds ==
    ASSUME ConstantsAssumption, BaseInv, MakersInv, OwnInv
    PROVE  AckedUnique
  <1> SUFFICES ASSUME NEW i \in Ids, NEW j \in Ids, Created(i), Created(j),
                      i # j, records[i].val # Null, records[i].val = records[j].val
               PROVE  FALSE
    BY DEF AckedUnique
  <1>1. ASSUME NEW k \in Ids, Created(k), records[k].val # Null
        PROVE  uniq[records[k].val] = k
    <2>1. records[k] \in Data /\ Untouched(k)
      BY <1>1 DEF Created, Exists, Untouched, Touched, Touches, Req, BaseInv, TypeOK
    <2>2. Indexed(k) /\ \E x \in Data : Owned(k, x)
      <3>1. CASE Initial[k] # None
        BY <3>1 DEF Indexed, Owned, ConstantsAssumption
      <3>2. CASE Initial[k] = None
        <4>1. PICK c \in Calls : /\ call[c].step = "done" /\ call[c].id = k
                                 /\ call[c].res = "ok" /\ call[c].req.kind = "create"
          BY <1>1, <3>2 DEF Created, At, Req
        <4>2. Making(call[c]) /\ InIndex(call[c])
          BY <4>1 DEF Making, InIndex, Ids
        <4>3. QED
          BY <4>1, <4>2 DEF Indexed, Owned, MakersInv
      <3>3. QED
        BY <3>1, <3>2
    <2>3. QED
      BY <1>1, <2>1, <2>2 DEF OwnInv
  <1>2. QED
    BY <1>1

-----------------------------------------------------------------------------
(* The cascades.                                                           *)

\* No cascade has failed, and the other calls write records that refer to none.
Clean == \A c \in Calls : CleanCall(call[c])

\* Record o is there and refers to t.
Refers(o, t) == records[o] # None /\ records[o].ref = t
\* The records that a call is going to delete.
DoomedBy(e) ==
    IF e.step = "purge" THEN e.todo \cup (IF e.del = "record" THEN {e.id} ELSE {}) ELSE {}
Doomed(o) == \E d \in Calls : o \in DoomedBy(call[d])

\* A reference is in the table of links, or its origin is about to be deleted.
LinkedInv == \A o, t \in Ids : Refers(o, t) => <<o, t>> \in links \/ Doomed(o)
\* A record that refers to a deleted one is about to be deleted.
GoneInv == \A o, t \in Ids : Refers(o, t) /\ records[t] = None => Doomed(o)
\* A record whose links a call rewrites refers to nothing.
WrittenInv ==
    \A c \in Calls, t \in Ids :
        call[c].step \in {"join", "drain"} => ~Refers(call[c].id, t)
\* The origins of a visited record are visited, found or about to be deleted.
ScanInv ==
    \A d \in Calls, o, t \in Ids :
        call[d].step = "scan" /\ t \in call[d].seen /\ Refers(o, t)
            => o \in call[d].seen \cup call[d].todo \/ Doomed(o)
\* The origins of a record that a call deletes are about to be deleted, by it or another.
ClosedInv ==
    \A d \in Calls, o, t \in Ids :
        call[d].step = "purge" /\ t \in call[d].seen /\ Refers(o, t) => Doomed(o)
\* What a call has visited and not yet deleted, it is about to delete.
PurgedInv ==
    \A d \in Calls, o, t \in Ids :
        call[d].step = "purge" /\ o \in call[d].seen /\ Refers(o, t) => o \in DoomedBy(call[d])

CascadeInv ==
    Clean => LinkedInv /\ GoneInv /\ WrittenInv /\ ScanInv /\ ClosedInv /\ PurgedInv

\* At the start every reference is linked and leads to a record.
LEMMA CascadeInit ==
    ASSUME ConstantsAssumption, Init
    PROVE  CascadeInv
  <1>1. \A c \in Calls : call[c].step = "idle"
    BY DEF Init, Idle
  <1>2. LinkedInv
    BY DEF LinkedInv, Refers, Init, LinksOf
  <1>3. GoneInv
    <2> SUFFICES ASSUME NEW o \in Ids, NEW t \in Ids, Refers(o, t), records[t] = None
                 PROVE  FALSE
      BY DEF GoneInv
    <2>1. Initial[o] # None /\ Initial[o].ref = t /\ Initial[t] = None /\ t # NoRef
      BY DEF Refers, Init, NoRef, Ids
    <2>2. QED
      BY <2>1 DEF ConstantsAssumption
  <1>4. QED
    BY <1>1, <1>2, <1>3 DEF CascadeInv, WrittenInv, ScanInv, ClosedInv, PurgedInv

\* What is about to be deleted stays so until it is.
LEMMA DoomedKept ==
    ASSUME NEW c \in Calls, NEW e, Becomes(c, e), NEW o, Doomed(o),
           o \in DoomedBy(call[c]) => o \in DoomedBy(e)
    PROVE  Doomed(o)'
  BY DEF Doomed, Becomes

\* A step of call c that writes no reference and takes nothing off its list.
LEMMA CascadeKept ==
    ASSUME ConstantsAssumption, BaseInv, NEW c \in Calls, NEW e, Becomes(c, e),
           LinkedInv, GoneInv, WrittenInv, ScanInv, ClosedInv, PurgedInv,
           \A o, t \in Ids : Refers(o, t)' => Refers(o, t),
           \A o, t \in Ids : Refers(o, t)' /\ o \in DoomedBy(call[c]) => o \in DoomedBy(e),
           \A o, t \in Ids : Refers(o, t)' /\ <<o, t>> \in links => <<o, t>> \in links' \/ Doomed(o),
           \A o, t \in Ids : Refers(o, t)' /\ records'[t] = None => records[t] = None \/ Doomed(o),
           \A t \in Ids : e.step \in {"join", "drain"} => ~Refers(e.id, t)',
           \A o, t \in Ids : e.step = "scan" /\ t \in e.seen /\ Refers(o, t)'
                                 => o \in e.seen \cup e.todo \/ Doomed(o)',
           \A o, t \in Ids : e.step = "purge" /\ t \in e.seen /\ Refers(o, t)' => Doomed(o)',
           \A o, t \in Ids : e.step = "purge" /\ o \in e.seen /\ Refers(o, t)' => o \in DoomedBy(e)
    PROVE  CascadeInv'
  <1>1. \A o, t \in Ids : Refers(o, t)' /\ Doomed(o) => Doomed(o)'
    BY DoomedKept
  <1>2. call'[c] = e /\ \A d \in Calls \ {c} : call'[d] = call[d]
    BY DEF Becomes
  <1>3. LinkedInv'
    BY <1>1 DEF LinkedInv
  <1>4. GoneInv'
    BY <1>1 DEF GoneInv
  <1>5. WrittenInv'
    <2> SUFFICES ASSUME NEW d \in Calls, NEW t \in Ids, call'[d].step \in {"join", "drain"},
                        records'[call'[d].id] # None, records'[call'[d].id].ref = t
                 PROVE  FALSE
      BY DEF WrittenInv, Refers
    <2>1. d # c /\ call'[d] = call[d]
      BY <1>2 DEF Refers
    <2>2. call[d].id \in Ids
      BY <2>1, AtJoin
    <2>3. Refers(call[d].id, t)
      BY <2>1, <2>2 DEF Refers
    <2>4. QED
      BY <2>1, <2>3 DEF WrittenInv
  <1>6. ScanInv'
    <2> SUFFICES ASSUME NEW d \in Calls, NEW o \in Ids, NEW t \in Ids,
                        call'[d].step = "scan", t \in call'[d].seen, Refers(o, t)'
                 PROVE  o \in call'[d].seen \cup call'[d].todo \/ Doomed(o)'
      BY DEF ScanInv
    <2>1. CASE d = c
      BY <1>2, <2>1
    <2>2. CASE d # c
      BY <1>1, <1>2, <2>2 DEF ScanInv
    <2>3. QED
      BY <2>1, <2>2
  <1>7. ClosedInv'
    <2> SUFFICES ASSUME NEW d \in Calls, NEW o \in Ids, NEW t \in Ids,
                        call'[d].step = "purge", t \in call'[d].seen, Refers(o, t)'
                 PROVE  Doomed(o)'
      BY DEF ClosedInv
    <2>1. CASE d = c
      BY <1>2, <2>1
    <2>2. CASE d # c
      BY <1>1, <1>2, <2>2 DEF ClosedInv
    <2>3. QED
      BY <2>1, <2>2
  <1>8. PurgedInv'
    <2> SUFFICES ASSUME NEW d \in Calls, NEW o \in Ids, NEW t \in Ids,
                        call'[d].step = "purge", o \in call'[d].seen, Refers(o, t)'
                 PROVE  o \in DoomedBy(call'[d])
      BY DEF PurgedInv
    <2>1. CASE d = c
      BY <1>2, <2>1
    <2>2. CASE d # c
      BY <1>1, <1>2, <2>2 DEF PurgedInv
    <2>3. QED
      BY <2>1, <2>2
  <1>9. QED
    BY <1>3, <1>4, <1>5, <1>6, <1>7, <1>8 DEF CascadeInv

\* What was clean after a step was clean before.
LEMMA CleanBefore ==
    ASSUME ConstantsAssumption, BaseInv, NEW c \in Calls, Start(c) \/ Step(c), Clean'
    PROVE  Clean
  <1>1. PICK e \in CallState : Becomes(c, e) /\ GoesOn(call[c], e)
    BY CallMoves
  <1>2. CleanCall(call[c])
    BY <1>1 DEF GoesOn, Becomes, Clean
  <1>3. \A d \in Calls \ {c} : CleanCall(call[d])
    BY <1>1 DEF Becomes, Clean
  <1>4. QED
    BY <1>2, <1>3 DEF Clean

\* No call writes a reference.
LEMMA RefersBefore ==
    ASSUME ConstantsAssumption, BaseInv, NEW c \in Calls, Start(c) \/ Step(c), Clean
    PROVE  \A o, t \in Ids : Refers(o, t)' => Refers(o, t)
  <1>1. CASE records' = records
    BY <1>1 DEF Refers
  <1>2. CASE \/ InsertRecord(c)
             \/ ImportRecord(c) /\ ~Exists(call[c].id)
             \/ UpdateRecord(c) /\ Exists(call[c].id)
             \/ PurgeRecord(c)
    <2>1. PICK i \in Ids, x \in Data \cup {None} :
              /\ records' = [records EXCEPT ![i] = x]
              /\ x # None => x = call[c].data
      BY <1>2, RowMoves
    <2>2. x # None => x.ref = NoRef
      BY <2>1 DEF Clean, CleanCall
    <2>3. \A t \in Ids : t # NoRef
      BY DEF Ids, NoRef
    <2>4. QED
      BY <2>1, <2>2, <2>3 DEF Refers, BaseInv, TypeOK
  <1>3. QED
    BY <1>1, <1>2, TableMoves

\* A step of a call that neither writes its row nor deletes.
LEMMA CascadeAside ==
    ASSUME ConstantsAssumption, BaseInv, NEW c \in Calls, Start(c) \/ Step(c), Clean, CascadeInv,
           call[c].step \notin {"write", "scan", "purge"}
    PROVE  CascadeInv'
  <1>1. LinkedInv /\ GoneInv /\ WrittenInv /\ ScanInv /\ ClosedInv /\ PurgedInv
    BY DEF CascadeInv
  <1>2. PICK e \in CallState : Becomes(c, e) /\ Orders(call[c], e)
    BY CallMoves DEF GoesOn
  <1>3. \A o, t \in Ids : Refers(o, t)' => Refers(o, t)
    BY RefersBefore
  <1>4. records' = records
    BY TableMoves DEF InsertRecord, ImportRecord, UpdateRecord, PurgeRecord, At
  <1>5. DoomedBy(call[c]) = {}
    BY DEF DoomedBy
  <1>6. ASSUME NEW o \in Ids, NEW t \in Ids, Refers(o, t)', <<o, t>> \in links
        PROVE  <<o, t>> \in links'
    <2>1. CASE ClearLinks(c)
      <3>1. o # call[c].id
        BY <1>1, <1>3, <1>6, <2>1 DEF WrittenInv, ClearLinks, At
      <3>2. QED
        BY <1>6, <2>1, <3>1 DEF ClearLinks
    <2>2. CASE ~ClearLinks(c)
      <3>1. links \subseteq links'
        BY <2>2, TableMoves DEF PutLink, PurgeLinksFrom, PurgeLinksTo, InsertRecord, ImportRecord,
           UpdateRecord, PurgeRecord, At
      <3>2. QED
        BY <1>6, <3>1
    <2>3. QED
      BY <2>1, <2>2
  <1>7. \A t \in Ids : e.step \in {"join", "drain"} => ~Refers(e.id, t)'
    BY <1>1, <1>2, <1>4 DEF Orders, WrittenInv, Refers
  <1>8. e.step = "scan" => e.seen = {}
    BY <1>2 DEF Orders
  <1>9. e.step # "purge"
    BY <1>2 DEF Orders
  <1>10. QED
    BY <1>1, <1>2, <1>3, <1>4, <1>5, <1>6, <1>7, <1>8, <1>9, CascadeKept

\* A step of a call that writes its row, or fails to.
LEMMA CascadeWrite ==
    ASSUME ConstantsAssumption, BaseInv, NEW c \in Calls, Start(c) \/ Step(c), Clean, CascadeInv,
           call[c].step = "write"
    PROVE  CascadeInv'
  <1>1. LinkedInv /\ GoneInv /\ WrittenInv /\ ScanInv /\ ClosedInv /\ PurgedInv
    BY DEF CascadeInv
  <1>2. \A o, t \in Ids : Refers(o, t)' => Refers(o, t)
    BY RefersBefore
  <1>3. DoomedBy(call[c]) = {}
    BY DEF DoomedBy
  <1>4. call[c].data \in Data /\ call[c].data # None /\ call[c].data.ref = NoRef
    BY AtWrite DEF Clean, CleanCall
  <1>5. InsertRecord(c) \/ ImportRecord(c) \/ UpdateRecord(c) \/ WriteFails(c)
    BY DEF Step, Start, Create, Update, Join, Delete, ReadExisting, CheckUnique, ClearUnique, PutUnique,
       ClearLinks, PutLink, JoinFails, DrainEnds, JoinEnds, Scan, ScanEnds, PurgeNext, PurgeRecord,
       PurgeUnique, PurgeLinksFrom, PurgeLinksTo, PurgeFails, PurgeEnds, At
  <1>6. links' = links
    BY <1>5 DEF InsertRecord, ImportRecord, UpdateRecord, WriteFails
  <1>7. \A t \in Ids : t # NoRef
    BY DEF Ids, NoRef
  <1>8. \E e \in CallState :
            /\ Becomes(c, e) /\ e.step \in {"join", "done"}
            /\ \A t \in Ids : e.step = "join" => ~Refers(e.id, t)'
    <2>1. call[c] \in CallState
      BY StateOfCall DEF BaseInv
    <2>2. CASE WriteFails(c) \/ (ImportRecord(c) /\ Exists(call[c].id))
      <3> DEFINE e == [call[c] EXCEPT !.step = "done", !.res = "err"]
      <3>1. Becomes(c, e)
        BY <2>2, ReturnFacts DEF WriteFails, ImportRecord, BaseInv
      <3>2. e \in CallState /\ e.step = "done"
        BY <2>1, <3>1 DEF Becomes, CallState
      <3>3. QED
        BY <3>1, <3>2
    <2>3. CASE InsertRecord(c)
      <3>1. PICK e \in CallState :
                /\ Becomes(c, e) /\ e.id = FreshId /\ Making(e) /\ e.step = "join"
        BY <2>3, InsertMakes
      <3>2. FreshId \in Ids
        BY <2>3 DEF InsertRecord, FreshId, BaseInv, TypeOK, Ids, ConstantsAssumption
      <3>3. records'[FreshId] = call[c].data
        BY <2>3, <3>2 DEF InsertRecord, BaseInv, TypeOK
      <3>4. QED
        BY <1>4, <1>7, <3>1, <3>3 DEF Refers
    <2>4. CASE ImportRecord(c) /\ ~Exists(call[c].id)
      <3> DEFINE e == [call[c] EXCEPT !.step = "join", !.uq = "clear", !.rl = "clear"]
      <3>1. Becomes(c, e)
        BY <2>4, ImportFacts DEF BaseInv
      <3>2. e \in CallState /\ e.step = "join" /\ e.id = call[c].id
        BY <2>1, <3>1 DEF Becomes, CallState
      <3>3. call[c].id \in Ids
        BY <2>4, AtWrite DEF ImportRecord, Req
      <3>4. records'[call[c].id] = call[c].data
        BY <2>4, <3>3 DEF ImportRecord, BaseInv, TypeOK
      <3> HIDE DEF e
      <3>5. QED
        BY <1>4, <1>7, <3>1, <3>2, <3>4 DEF Refers
    <2>5. CASE UpdateRecord(c)
      <3> DEFINE e == [call[c] EXCEPT !.step = "join", !.uq = "clear", !.rl = "clear"]
      <3>1. Becomes(c, e)
        BY <2>5, UpdateFacts DEF BaseInv
      <3>2. e \in CallState /\ e.step = "join" /\ e.id = call[c].id
        BY <2>1, <3>1 DEF Becomes, CallState
      <3>3. call[c].id \in Ids
        BY <2>5, AtWrite DEF UpdateRecord, Req
      <3>4. records'[call[c].id] \in {call[c].data, None}
        BY <2>5, <3>3 DEF UpdateRecord, Exists, BaseInv, TypeOK
      <3> HIDE DEF e
      <3>5. QED
        BY <1>4, <1>7, <3>1, <3>2, <3>4 DEF Refers
    <2>6. QED
      BY <1>5, <2>2, <2>3, <2>4, <2>5
  <1>9. \A t \in Ids : records'[t] = None => records[t] = None
    BY <1>4, <1>5 DEF InsertRecord, ImportRecord, UpdateRecord, WriteFails, BaseInv, TypeOK
  <1>10. PICK e \in CallState :
            /\ Becomes(c, e) /\ e.step \in {"join", "done"}
            /\ \A t \in Ids : e.step = "join" => ~Refers(e.id, t)'
    BY <1>8
  <1>11. QED
    BY <1>1, <1>2, <1>3, <1>6, <1>9, <1>10, CascadeKept

\* The visit of a record finds the origins of its links.
LEMMA CascadeScan ==
    ASSUME ConstantsAssumption, BaseInv, NEW c \in Calls, Scan(c), Clean, CascadeInv
    PROVE  CascadeInv'
  <1>1. LinkedInv /\ GoneInv /\ WrittenInv /\ ScanInv /\ ClosedInv /\ PurgedInv
    BY DEF CascadeInv
  <1>2. PICK i \in call[c].todo : Becomes(c,
              [call[c] EXCEPT !.seen = call[c].seen \cup {i},
                              !.todo = (call[c].todo \ {i}) \cup Origins(c, i)])
    BY ScanFacts DEF BaseInv
  <1> DEFINE T == (call[c].todo \ {i}) \cup Origins(c, i)
             e == [call[c] EXCEPT !.seen = call[c].seen \cup {i}, !.todo = T]
  <1>3. call[c] \in CallState /\ call[c].step = "scan"
    BY StateOfCall DEF BaseInv, Scan, At
  <1>4. Becomes(c, e)
    BY <1>2
  <1>5. e.step = "scan" /\ e.seen = call[c].seen \cup {i} /\ e.todo = T
    BY <1>3 DEF CallState
  <1>6. records' = records /\ links' = links
    BY DEF Scan
  <1>7. DoomedBy(call[c]) = {}
    BY <1>3 DEF DoomedBy
  <1>8. \A o, t \in Ids : Refers(o, t)' <=> Refers(o, t)
    BY <1>6 DEF Refers
  <1> HIDE DEF e
  <1>9. \A o \in Ids : Doomed(o) => Doomed(o)'
    BY <1>4, <1>7, DoomedKept
  <1>10. ASSUME NEW o \in Ids, NEW t \in Ids, t \in e.seen, Refers(o, t)
         PROVE  o \in e.seen \cup e.todo \/ Doomed(o)'
    <2>1. CASE t \in call[c].seen
      <3>1. o \in call[c].seen \cup call[c].todo \/ Doomed(o)
        BY <1>1, <1>3, <1>10, <2>1 DEF ScanInv
      <3>2. QED
        BY <1>5, <1>9, <3>1
    <2>2. CASE t = i
      <3>1. <<o, i>> \in links \/ Doomed(o)
        BY <1>1, <1>10, <2>2 DEF LinkedInv
      <3>2. <<o, i>> \in links => o \in Origins(c, i) \cup call[c].seen \cup {i}
        BY DEF Origins
      <3>3. QED
        BY <1>5, <1>9, <3>1, <3>2
    <2>3. QED
      BY <1>5, <1>10, <2>1, <2>2
  <1> HIDE DEF T
  <1>11. QED
    BY <1>1, <1>4, <1>5, <1>6, <1>7, <1>8, <1>10, CascadeKept

\* All the records that were visited are about to be deleted.
LEMMA CascadeScanEnds ==
    ASSUME ConstantsAssumption, BaseInv, NEW c \in Calls, ScanEnds(c), Clean, CascadeInv
    PROVE  CascadeInv'
  <1>1. LinkedInv /\ GoneInv /\ WrittenInv /\ ScanInv /\ ClosedInv /\ PurgedInv
    BY DEF CascadeInv
  <1> DEFINE e == [call[c] EXCEPT !.step = "purge", !.todo = call[c].seen, !.del = "next"]
  <1>2. Becomes(c, e)
    BY ScanEndsFacts DEF BaseInv
  <1>3. call[c] \in CallState /\ call[c].step = "scan" /\ call[c].todo = {}
    BY StateOfCall DEF BaseInv, ScanEnds, At
  <1>4. e.step = "purge" /\ e.seen = call[c].seen /\ e.todo = call[c].seen /\ e.del = "next"
    BY <1>3 DEF CallState
  <1>5. records' = records /\ links' = links
    BY DEF ScanEnds
  <1>6. DoomedBy(call[c]) = {}
    BY <1>3 DEF DoomedBy
  <1>7. \A o, t \in Ids : Refers(o, t)' <=> Refers(o, t)
    BY <1>5 DEF Refers
  <1> HIDE DEF e
  <1>8. DoomedBy(e) = call[c].seen
    BY <1>4 DEF DoomedBy
  <1>9. \A o \in Ids : Doomed(o) => Doomed(o)'
    BY <1>2, <1>6, DoomedKept
  <1>10. \A o \in Ids : o \in call[c].seen => Doomed(o)'
    BY <1>2, <1>8 DEF Doomed, Becomes
  <1>11. \A o, t \in Ids : t \in e.seen /\ Refers(o, t) => Doomed(o)'
    BY <1>1, <1>3, <1>4, <1>9, <1>10 DEF ScanInv
  <1>12. QED
    BY <1>1, <1>2, <1>4, <1>5, <1>6, <1>7, <1>8, <1>11, CascadeKept

\* A step of a cascade that deletes no row; what it takes off the links is gone
\* or about to be.
LEMMA CascadePurge ==
    ASSUME ConstantsAssumption, BaseInv, NEW c \in Calls, NEW e, Becomes(c, e), Clean, CascadeInv,
           call[c].step = "purge", e.step \in {"purge", "done"}, e.seen = call[c].seen,
           DoomedBy(e) = DoomedBy(call[c]), records' = records,
           \A o, t \in Ids : Refers(o, t) /\ <<o, t>> \in links => <<o, t>> \in links' \/ Doomed(o)
    PROVE  CascadeInv'
  <1>1. LinkedInv /\ GoneInv /\ WrittenInv /\ ScanInv /\ ClosedInv /\ PurgedInv
    BY DEF CascadeInv
  <1>2. \A o, t \in Ids : Refers(o, t)' <=> Refers(o, t)
    BY DEF Refers
  <1>3. \A o \in Ids : Doomed(o) => Doomed(o)'
    BY DoomedKept
  <1>4. \A o, t \in Ids : e.step = "purge" /\ t \in e.seen /\ Refers(o, t) => Doomed(o)'
    BY <1>1, <1>3 DEF ClosedInv
  <1>5. \A o, t \in Ids : e.step = "purge" /\ o \in e.seen /\ Refers(o, t) => o \in DoomedBy(e)
    BY <1>1 DEF PurgedInv
  <1>6. QED
    BY <1>1, <1>2, <1>4, <1>5, CascadeKept

\* The row of a record whose origins are gone, or about to be, is deleted.
LEMMA CascadePurgeRecord ==
    ASSUME ConstantsAssumption, BaseInv, NEW c \in Calls, PurgeRecord(c), Clean, CascadeInv
    PROVE  CascadeInv'
  <1>1. LinkedInv /\ GoneInv /\ WrittenInv /\ ScanInv /\ ClosedInv /\ PurgedInv
    BY DEF CascadeInv
  <1> DEFINE e == [call[c] EXCEPT !.del = "unique"]
  <1>2. Becomes(c, e)
    BY PurgeRecordFacts DEF BaseInv
  <1>3. call[c] \in CallState /\ call[c].step = "purge" /\ call[c].del = "record"
    BY StateOfCall DEF BaseInv, PurgeRecord, At
  <1>4. e.step = "purge" /\ e.seen = call[c].seen /\ e.todo = call[c].todo /\ e.del = "unique"
    BY <1>3 DEF CallState
  <1>5. call[c].id \in Ids /\ call[c].id \in call[c].seen
    BY <1>3, AtPurge
  <1>6. records' = [records EXCEPT ![call[c].id] = None] /\ links' = links
    BY DEF PurgeRecord
  <1> HIDE DEF e
  <1>7. DoomedBy(call[c]) = call[c].todo \cup {call[c].id} /\ DoomedBy(e) = call[c].todo
    BY <1>3, <1>4 DEF DoomedBy
  <1>8. \A o, t \in Ids : Refers(o, t)' => Refers(o, t) /\ o # call[c].id
    BY <1>5, <1>6 DEF Refers, BaseInv, TypeOK
  <1>9. \A o, t \in Ids : Refers(o, t)' /\ o \in DoomedBy(call[c]) => o \in DoomedBy(e)
    BY <1>7, <1>8
  <1>10. \A o, t \in Ids : Refers(o, t)' /\ Doomed(o) => Doomed(o)'
    BY <1>2, <1>9, DoomedKept
  <1>11. \A o, t \in Ids : Refers(o, t)' /\ records'[t] = None => records[t] = None \/ Doomed(o)
    BY <1>1, <1>3, <1>5, <1>6, <1>8 DEF ClosedInv, BaseInv, TypeOK
  <1>12. \A o, t \in Ids : t \in e.seen /\ Refers(o, t)' => Doomed(o)'
    BY <1>1, <1>3, <1>4, <1>8, <1>10 DEF ClosedInv
  <1>13. \A o, t \in Ids : o \in e.seen /\ Refers(o, t)' => o \in DoomedBy(e)
    BY <1>1, <1>3, <1>4, <1>8, <1>9 DEF PurgedInv
  <1>14. QED
    BY <1>1, <1>2, <1>4, <1>6, <1>8, <1>9, <1>11, <1>12, <1>13, CascadeKept

\* The other steps of the deletions.
LEMMA CascadeDelete ==
    ASSUME ConstantsAssumption, BaseInv, NEW c \in Calls, Start(c) \/ Step(c), Clean, Clean',
           CascadeInv, call[c].step = "purge"
    PROVE  CascadeInv'
  <1>1. LinkedInv /\ GoneInv /\ WrittenInv /\ ScanInv /\ ClosedInv /\ PurgedInv
    BY DEF CascadeInv
  <1>2. call[c] \in CallState /\ Sound(call[c])
    BY StateOfCall DEF BaseInv
  <1>3. \/ PurgeNext(c) \/ PurgeRecord(c) \/ PurgeUnique(c) \/ PurgeLinksFrom(c)
        \/ PurgeLinksTo(c) \/ PurgeFails(c) \/ PurgeEnds(c)
    BY DEF Step, Start, Create, Update, Join, Delete, InsertRecord, ImportRecord, UpdateRecord,
       WriteFails, ReadExisting, CheckUnique, ClearUnique, PutUnique,
       ClearLinks, PutLink, JoinFails, DrainEnds, JoinEnds, Scan, ScanEnds, At
  <1>4. CASE PurgeNext(c)
    <2>1. PICK i \in call[c].todo : Becomes(c,
                [call[c] EXCEPT !.id = i, !.todo = call[c].todo \ {i}, !.del = "record"])
      BY <1>4, PurgeNextFacts DEF BaseInv
    <2> DEFINE e == [call[c] EXCEPT !.id = i, !.todo = call[c].todo \ {i}, !.del = "record"]
    <2>2. /\ e.step = "purge" /\ e.seen = call[c].seen /\ e.todo = call[c].todo \ {i}
          /\ e.id = i /\ e.del = "record" /\ call[c].del = "next"
      BY <1>2, <1>4 DEF CallState, PurgeNext
    <2>3. Becomes(c, e) /\ records' = records /\ links' = links
      BY <1>4, <2>1 DEF PurgeNext
    <2> HIDE DEF e
    <2>4. DoomedBy(e) = DoomedBy(call[c])
      BY <2>1, <2>2 DEF DoomedBy
    <2>5. QED
      BY <2>2, <2>3, <2>4, CascadePurge
  <1>5. CASE PurgeRecord(c)
    BY <1>5, CascadePurgeRecord
  <1>6. CASE PurgeUnique(c)
    <2> DEFINE e == [call[c] EXCEPT !.del = "from"]
    <2>1. e.step = "purge" /\ e.seen = call[c].seen /\ e.todo = call[c].todo /\ e.del = "from"
          /\ call[c].del = "unique"
      BY <1>2, <1>6 DEF CallState, PurgeUnique
    <2>2. Becomes(c, e) /\ records' = records /\ links' = links
      BY <1>6, PurgeUniqueFacts DEF PurgeUnique, BaseInv
    <2> HIDE DEF e
    <2>3. DoomedBy(e) = DoomedBy(call[c])
      BY <2>1 DEF DoomedBy
    <2>4. QED
      BY <2>1, <2>2, <2>3, CascadePurge
  <1>7. CASE PurgeLinksFrom(c)
    <2> DEFINE e == [call[c] EXCEPT !.del = "to"]
    <2>1. e.step = "purge" /\ e.seen = call[c].seen /\ e.todo = call[c].todo /\ e.del = "to"
          /\ call[c].del = "from"
      BY <1>2, <1>7 DEF CallState, PurgeLinksFrom
    <2>2. /\ Becomes(c, e) /\ records' = records
          /\ links' = {l \in links : l[1] # call[c].id}
      BY <1>7, PurgeLinksFromFacts DEF PurgeLinksFrom, BaseInv
    <2>3. call[c].id \in Ids /\ call[c].id \in call[c].seen
      BY <2>1, AtPurge
    <2> HIDE DEF e
    <2>4. DoomedBy(e) = DoomedBy(call[c])
      BY <2>1 DEF DoomedBy
    <2>5. \A o, t \in Ids : Refers(o, t) /\ <<o, t>> \in links => <<o, t>> \in links' \/ Doomed(o)
      BY <1>1, <2>2, <2>3 DEF PurgedInv, Doomed
    <2>6. QED
      BY <2>1, <2>2, <2>4, <2>5, CascadePurge
  <1>8. CASE PurgeLinksTo(c)
    <2> DEFINE e == [call[c] EXCEPT !.del = "next"]
    <2>1. e.step = "purge" /\ e.seen = call[c].seen /\ e.todo = call[c].todo /\ e.del = "next"
          /\ call[c].del = "to"
      BY <1>2, <1>8 DEF CallState, PurgeLinksTo
    <2>2. /\ Becomes(c, e) /\ records' = records
          /\ links' = {l \in links : l[2] # call[c].id}
      BY <1>8, PurgeLinksToFacts DEF PurgeLinksTo, BaseInv
    <2>3. call[c].id \in Ids /\ call[c].id \in call[c].seen
      BY <2>1, AtPurge
    <2> HIDE DEF e
    <2>4. DoomedBy(e) = DoomedBy(call[c])
      BY <2>1 DEF DoomedBy
    <2>5. \A o, t \in Ids : Refers(o, t) /\ <<o, t>> \in links => <<o, t>> \in links' \/ Doomed(o)
      BY <1>1, <2>2, <2>3 DEF ClosedInv
    <2>6. QED
      BY <2>1, <2>2, <2>4, <2>5, CascadePurge
  <1>9. CASE PurgeFails(c)
    <2>1. PICK x \in {"unique", "from", "to", "next"} :
              Becomes(c, [call[c] EXCEPT !.res = "err", !.del = x])
      BY <1>2, <1>9, PurgeFailsFacts DEF BaseInv, Sound
    <2> DEFINE e == [call[c] EXCEPT !.res = "err", !.del = x]
    <2>2. e.res = "err" /\ e.step = "purge" /\ e.req.kind = "delete"
      BY <1>2 DEF CallState, Sound
    <2>3. call'[c] = e
      BY <2>1 DEF Becomes
    <2> HIDE DEF e
    <2>4. ~CleanCall(e)
      BY <2>2 DEF CleanCall
    <2>5. QED
      BY <2>3, <2>4 DEF Clean
  <1>10. CASE PurgeEnds(c)
    <2>1. call[c].res # "err" /\ call[c].todo = {} /\ call[c].del = "next"
      BY <1>2, <1>10 DEF PurgeEnds, Clean, CleanCall, Sound
    <2> DEFINE e == [call[c] EXCEPT !.step = "done", !.res = "ok"]
    <2>2. Return(c, "ok") /\ records' = records /\ links' = links
      BY <1>10, <2>1 DEF PurgeEnds
    <2>3. Becomes(c, e)
      BY <2>2, ReturnFacts DEF BaseInv
    <2>4. e.step = "done" /\ e.seen = call[c].seen
      BY <1>2 DEF CallState
    <2> HIDE DEF e
    <2>5. DoomedBy(e) = DoomedBy(call[c])
      BY <2>1, <2>4 DEF DoomedBy
    <2>6. QED
      BY <2>2, <2>3, <2>4, <2>5, CascadePurge
  <1>11. QED
    BY <1>3, <1>4, <1>5, <1>6, <1>7, <1>8, <1>9, <1>10

\* CascadeInv is kept.
LEMMA CascadeNext ==
    ASSUME ConstantsAssumption, BaseInv, CascadeInv, [Next]_vars
    PROVE  CascadeInv'
  <1>1. CASE UNCHANGED vars
    BY <1>1 DEF CascadeInv, LinkedInv, GoneInv, WrittenInv, ScanInv, ClosedInv, PurgedInv, Clean,
       Refers, Doomed, vars
  <1>2. ASSUME NEW c \in Calls, Start(c) \/ Step(c)
        PROVE  CascadeInv'
    <2>1. CASE ~Clean'
      BY <2>1 DEF CascadeInv
    <2>2. CASE Clean'
      <3>1. Clean
        BY <1>2, <2>2, CleanBefore
      <3>2. CASE call[c].step = "scan"
        <4>1. Scan(c) \/ ScanEnds(c)
          BY <1>2, <3>2 DEF Step, Start, Create, Update, Join, Delete, InsertRecord, ImportRecord,
             UpdateRecord, WriteFails, ReadExisting, CheckUnique, ClearUnique, PutUnique,
             ClearLinks, PutLink, JoinFails, DrainEnds, JoinEnds, PurgeNext, PurgeRecord,
             PurgeUnique, PurgeLinksFrom, PurgeLinksTo, PurgeFails, PurgeEnds, At
        <4>2. QED
          BY <3>1, <4>1, CascadeScan, CascadeScanEnds
      <3>3. CASE call[c].step = "purge"
        BY <1>2, <2>2, <3>1, <3>3, CascadeDelete
      <3>4. CASE call[c].step = "write"
        BY <1>2, <3>1, <3>4, CascadeWrite
      <3>5. QED
        BY <1>2, <3>1, <3>2, <3>3, <3>4, CascadeAside
    <2>3. QED
      BY <2>1, <2>2
  <1>3. QED
    BY <1>1, <1>2 DEF Next

\* When cascades that met are over, no record refers to one that was deleted.
LEMMA NoDanglingHolds ==
    ASSUME ConstantsAssumption, BaseInv, CascadeInv
    PROVE  NoDangling
  <1> SUFFICES ASSUME Quiet,
                      \A c \in Calls : /\ call[c].res = "err" => Req(c).kind # "delete"
                                       /\ call[c].data # None => call[c].data.ref = NoRef,
                      NEW i \in Ids, Exists(i), records[i].ref # NoRef
               PROVE  Exists(records[i].ref)
    BY DEF NoDangling
  <1>1. Clean
    BY DEF Clean, CleanCall, Req
  <1>2. records[i].ref \in Ids
    BY DEF Exists, BaseInv, TypeOK, Data
  <1>3. ~Doomed(i)
    BY DEF Quiet, Active, Doomed, DoomedBy
  <1>4. records[records[i].ref] # None
    BY <1>1, <1>2, <1>3 DEF CascadeInv, GoneInv, Refers, Exists
  <1>5. QED
    BY <1>2, <1>4 DEF Exists

-----------------------------------------------------------------------------
(* One call at a time, and no statement fails: the tables agree.           *)

OneByOne == MaxActive = 1 /\ ~Faulty

Busy(e) == e.step \notin {"idle", "done"}

\* The index, and the links, say of record i what its row says.
IndexSays(r, u, i) == \A v \in Vals : u[v] = i <=> r[i] # None /\ r[i].val = v
LinksSay(r, l, i) == \A t \in Ids : <<i, t>> \in l <=> r[i] # None /\ r[i].ref = t
Exact(r, u, l, i) == IndexSays(r, u, i) /\ LinksSay(r, l, i)

\* No row, entry or link of record i is left.
NoEntry(u, i) == \A v \in Vals : u[v] # i
NoLinks(l, i) == \A t \in Ids : <<i, t>> \notin l
Gone(r, u, l, i) == r[i] = None /\ NoEntry(u, i) /\ NoLinks(l, i)

\* The records whose tables a call is changing.
Flux(e) ==
    IF e.step = "join" THEN {e.id} ELSE IF e.step = "purge" THEN e.seen ELSE {}

\* The value that the call writes is nobody else's.
Free(e, u) == e.data.val # Null => u[e.data.val] \in {0, e.id}

\* How far a call in state e has come with its row, its entry and its links.
JoinInHand(e, r, u, l) ==
    /\ r[e.id] = e.data
    /\ e.uq = "clear" => Free(e, u)
    /\ e.uq = "put" => u[e.data.val] = 0 /\ NoEntry(u, e.id)
    /\ e.uq = "end" => IndexSays(r, u, e.id)
    /\ e.rl = "put" => NoLinks(l, e.id)
    /\ e.rl = "end" => LinksSay(r, l, e.id)

\* The same of the record that a cascade deletes, and of those before it.
PurgeInHand(e, r, u, l) ==
    /\ \A o \in Ids \ e.seen, t \in e.seen : <<o, t>> \notin l
    /\ \A i \in e.seen \ e.todo : i # e.id \/ e.del = "next" => Gone(r, u, l, i)
    /\ e.del # "next" => e.id \notin e.todo
    /\ e.del \in {"unique", "from", "to"} => r[e.id] = None
    /\ e.del \in {"from", "to"} => NoEntry(u, e.id)
    /\ e.del = "to" => NoLinks(l, e.id)

InHand(e, r, u, l) ==
    /\ e.step # "drain"
    /\ e.step \in {"check", "write"} /\ e.req.kind = "update" => r[e.id] # None
    /\ e.step = "write" => Free(e, u)
    /\ e.step = "join" => JoinInHand(e, r, u, l)
    /\ e.step \in {"scan", "purge"} => e.res # "err"
    /\ e.step = "scan" => \A o \in Ids, t \in e.seen : <<o, t>> \in l => o \in e.seen \cup e.todo
    /\ e.step = "purge" => PurgeInHand(e, r, u, l)

\* One call is under way at most; all records but those it is changing are exact.
ExactInv ==
    /\ \A c, d \in Calls : Busy(call[c]) /\ Busy(call[d]) => c = d
    /\ \A c \in Calls : InHand(call[c], records, uniq, links)
    /\ \A i \in Ids : (\A c \in Calls : i \notin Flux(call[c])) => Exact(records, uniq, links, i)

\* The store at the start is exact.
LEMMA ExactInit ==
    ASSUME ConstantsAssumption, Init
    PROVE  ExactInv
  <1>1. \A c \in Calls : call[c].step = "idle"
    BY DEF Init, Idle
  <1>2. \A i \in Ids : LinksSay(records, links, i)
    BY DEF LinksSay, Init, LinksOf
  <1>3. ASSUME NEW i \in Ids, NEW v \in Vals
        PROVE  uniq[v] = i <=> records[i] # None /\ records[i].val = v
    <2>1. records = Initial /\ Initial \in [Ids -> Data \cup {None}]
      BY DEF Init, ConstantsAssumption
    <2>2. CASE \E j \in Ids : Initial[j] # None /\ Initial[j].val = v
      <3>1. uniq[v] = CHOOSE j \in Ids : Initial[j] # None /\ Initial[j].val = v
        BY <2>2 DEF Init
      <3>2. uniq[v] \in Ids /\ Initial[uniq[v]] # None /\ Initial[uniq[v]].val = v
        BY <2>2, <3>1
      <3>3. v # Null
        BY DEF ConstantsAssumption, Null
      <3>4. Initial[i] # None /\ Initial[i].val = v => i = uniq[v]
        BY <3>2, <3>3 DEF ConstantsAssumption
      <3>5. QED
        BY <2>1, <3>2, <3>4
    <2>3. CASE ~\E j \in Ids : Initial[j] # None /\ Initial[j].val = v
      <3>1. uniq[v] = 0 /\ i # 0
        BY <2>3 DEF Init, Ids
      <3>2. QED
        BY <2>1, <2>3, <3>1
    <2>4. QED
      BY <2>2, <2>3
  <1>4. QED
    BY <1>1, <1>2, <1>3 DEF ExactInv, Busy, InHand, Exact, IndexSays

\* The call under way is alone.
LEMMA AloneView ==
    ASSUME ConstantsAssumption, OneByOne, ExactInv, NEW c \in Calls, Start(c) \/ Busy(call[c])
    PROVE  /\ \A d \in Calls \ {c} : ~Busy(call[d])
           /\ InHand(call[c], records, uniq, links)
           /\ \A i \in Ids \ Flux(call[c]) : Exact(records, uniq, links, i)
  <1>1. \A d \in Calls \ {c} : ~Busy(call[d])
    <2>1. CASE Busy(call[c])
      BY <2>1 DEF ExactInv
    <2>2. CASE Start(c)
      <3>1. SUFFICES ASSUME NEW d \in Calls, Busy(call[d])
                     PROVE  FALSE
        OBVIOUS
      <3>2. Active = {d}
        BY <3>1 DEF ExactInv, Active, Busy
      <3>3. Cardinality(Active) = 1
        BY <3>2, FS_Singleton
      <3>4. QED
        BY <2>2, <3>3 DEF Start, OneByOne
    <2>3. QED
      BY <2>1, <2>2
  <1>2. \A d \in Calls \ {c} : Flux(call[d]) = {}
    BY <1>1 DEF Flux, Busy
  <1>3. QED
    BY <1>1, <1>2 DEF ExactInv

\* A step of the call that is alone.
LEMMA ExactKept ==
    ASSUME NEW c \in Calls, NEW e, Becomes(c, e), \A d \in Calls \ {c} : ~Busy(call[d]),
           InHand(e, records', uniq', links'),
           \A i \in Ids \ Flux(e) : Exact(records', uniq', links', i)
    PROVE  ExactInv'
  <1>1. call'[c] = e /\ \A d \in Calls \ {c} : call'[d] = call[d]
    BY DEF Becomes
  <1>2. \A d \in Calls \ {c} : InHand(call'[d], records', uniq', links')
    BY <1>1 DEF InHand, Busy
  <1>3. QED
    BY <1>1, <1>2 DEF ExactInv

\* A step that leaves the tables alone and after which nothing is in flux.
LEMMA ExactAside ==
    ASSUME ConstantsAssumption, OneByOne, BaseInv, ExactInv, NEW c \in Calls, Start(c) \/ Busy(call[c]),
           Flux(call[c]) = {}, NEW e, Becomes(c, e), Flux(e) = {},
           InHand(e, records, uniq, links), UNCHANGED <<records, uniq, links>>
    PROVE  ExactInv'
  BY AloneView, ExactKept

\* A call begins.
LEMMA ExactStart ==
    ASSUME ConstantsAssumption, OneByOne, BaseInv, ExactInv, NEW c \in Calls, Start(c)
    PROVE  ExactInv'
  <1>1. PICK r \in Request : Becomes(c,
              [Idle EXCEPT !.req = r,
                  !.step = CASE r.kind \in {"create", "import"} -> "check"
                             [] r.kind = "update" -> "read"
                             [] r.kind = "delete" -> "scan",
                  !.id = IF r.kind = "create" THEN 0 ELSE r.id,
                  !.data = IF r.kind \in {"create", "import"} THEN r.data ELSE None,
                  !.todo = IF r.kind = "delete" THEN {r.id} ELSE {}])
    BY StartFacts DEF BaseInv
  <1> DEFINE s == CASE r.kind \in {"create", "import"} -> "check"
                    [] r.kind = "update" -> "read"
                    [] r.kind = "delete" -> "scan"
             i == IF r.kind = "create" THEN 0 ELSE r.id
             x == IF r.kind \in {"create", "import"} THEN r.data ELSE None
             T == IF r.kind = "delete" THEN {r.id} ELSE {}
             e == [Idle EXCEPT !.req = r, !.step = s, !.id = i, !.data = x, !.todo = T]
  <1>2. Becomes(c, e)
    BY <1>1
  <1>3. s \in {"check", "read", "scan"} /\ (s = "check" => r.kind # "update")
    BY RequestParts
  <1> HIDE DEF s, i, x, T
  <1>4. e.req = r /\ e.step = s /\ e.seen = {} /\ e.res = None
    BY DEF Idle
  <1> HIDE DEF e
  <1>5. Flux(e) = {} /\ Flux(call[c]) = {}
    BY <1>3, <1>4 DEF Flux, Start, At
  <1>6. InHand(e, records, uniq, links)
    BY <1>3, <1>4 DEF InHand, ConstantsAssumption
  <1>7. QED
    BY <1>2, <1>5, <1>6, ExactAside DEF Start

\* A call ends that has nothing in hand.
LEMMA ExactReturn ==
    ASSUME ConstantsAssumption, OneByOne, BaseInv, ExactInv, NEW c \in Calls, Busy(call[c]),
           Flux(call[c]) = {}, NEW v \in {"ok", "err"}, Return(c, v),
           UNCHANGED <<records, uniq, links>>
    PROVE  ExactInv'
  <1> DEFINE e == [call[c] EXCEPT !.step = "done", !.res = v]
  <1>1. Becomes(c, e)
    BY ReturnFacts DEF BaseInv
  <1>2. call[c] \in CallState
    BY StateOfCall DEF BaseInv
  <1>3. e.step = "done"
    BY <1>2 DEF CallState
  <1> HIDE DEF e
  <1>4. Flux(e) = {} /\ InHand(e, records, uniq, links)
    BY <1>3 DEF Flux, InHand
  <1>5. QED
    BY <1>1, <1>4, ExactAside

\* The record to update is there when the call has read it.
LEMMA ExactRead ==
    ASSUME ConstantsAssumption, OneByOne, BaseInv, ExactInv, NEW c \in Calls, ReadExisting(c)
    PROVE  ExactInv'
  <1>1. call[c] \in CallState /\ Sound(call[c]) /\ call[c].step = "read"
    BY StateOfCall DEF BaseInv, ReadExisting, At
  <1>2. Busy(call[c]) /\ Flux(call[c]) = {} /\ UNCHANGED <<records, uniq, links>>
    BY <1>1 DEF Busy, Flux, ReadExisting
  <1>3. CASE ~Exists(call[c].id)
    BY <1>2, <1>3, ExactReturn DEF ReadExisting
  <1>4. CASE Exists(call[c].id)
    <2>1. call[c].req \in Request /\ call[c].req.kind = "update" /\ call[c].id = call[c].req.id
      BY <1>1 DEF Sound
    <2>2. PICK x \in Data : Becomes(c, [call[c] EXCEPT !.step = "check", !.data = x])
      <3> DEFINE x == [records[call[c].id] EXCEPT ![Req(c).field] = Req(c).to]
                 e == [call[c] EXCEPT !.step = "check", !.data = x]
      <3>1. call'[c].step = "check"
        BY <1>1, <1>4 DEF ReadExisting, BaseInv, TypeOK, CallState
      <3>2. ~Becomes(c, [call[c] EXCEPT !.step = "done", !.res = "err"])
        BY <1>1, <3>1 DEF Becomes, CallState
      <3>3. QED
        BY <2>1, <3>2, ReadFacts DEF BaseInv
    <2> DEFINE e == [call[c] EXCEPT !.step = "check", !.data = x]
    <2>3. e.step = "check" /\ e.id = call[c].id
      BY <1>1 DEF CallState
    <2>4. Becomes(c, e)
      BY <2>2
    <2> HIDE DEF e
    <2>5. Flux(e) = {} /\ InHand(e, records, uniq, links)
      BY <1>4, <2>3 DEF Flux, InHand, Exists
    <2>6. QED
      BY <1>2, <2>4, <2>5, ExactAside
  <1>5. QED
    BY <1>3, <1>4

\* The value of a call that passes the check is free.
LEMMA ExactCheck ==
    ASSUME ConstantsAssumption, OneByOne, BaseInv, ExactInv, NEW c \in Calls, CheckUnique(c)
    PROVE  ExactInv'
  <1>1. call[c] \in CallState /\ call[c].step = "check"
    BY StateOfCall DEF BaseInv, CheckUnique, At
  <1>2. Busy(call[c]) /\ Flux(call[c]) = {} /\ UNCHANGED <<records, uniq, links>>
    BY <1>1 DEF Busy, Flux, CheckUnique
  <1>3. CASE Conflict(c)
    BY <1>2, <1>3, ExactReturn DEF CheckUnique
  <1>4. CASE ~Conflict(c)
    <2> DEFINE e == [call[c] EXCEPT !.step = "write"]
    <2>1. e \in CallState /\ call' = [call EXCEPT ![c] = e]
      BY <1>1, <1>4 DEF CheckUnique, BaseInv, TypeOK, CallState, Steps
    <2>2. Becomes(c, e)
      BY <2>1, AssignedCall DEF BaseInv
    <2>3. /\ e.step = "write" /\ e.id = call[c].id /\ e.data = call[c].data
          /\ e.req = call[c].req
      BY <1>1 DEF CallState
    <2> HIDE DEF e
    <2>4. InHand(call[c], records, uniq, links)
      BY <1>2, AloneView
    <2>5. Free(e, uniq)
      BY <1>4, <2>3 DEF Conflict, Free
    <2>6. Flux(e) = {} /\ InHand(e, records, uniq, links)
      BY <1>1, <2>3, <2>4, <2>5 DEF Flux, InHand
    <2>7. QED
      BY <1>2, <2>2, <2>6, ExactAside
  <1>5. QED
    BY <1>3, <1>4

\* A row is written whose value is free.
LEMMA ExactWritten ==
    ASSUME ConstantsAssumption, OneByOne, BaseInv, ExactInv, NEW c \in Calls, NEW e, Becomes(c, e),
           call[c].step = "write", e.step = "join", e.id \in Ids, e.uq = "clear", e.rl = "clear",
           e.data = call[c].data, e.id = call[c].id \/ call[c].id = 0,
           records' = [records EXCEPT ![e.id] = call[c].data], UNCHANGED <<uniq, links>>
    PROVE  ExactInv'
  <1>1. /\ \A d \in Calls \ {c} : ~Busy(call[d])
        /\ InHand(call[c], records, uniq, links)
        /\ \A i \in Ids : Exact(records, uniq, links, i)
    BY AloneView DEF Busy, Flux
  <1>2. records'[e.id] = e.data /\ \A i \in Ids \ {e.id} : records'[i] = records[i]
    BY DEF BaseInv, TypeOK
  <1>3. Free(e, uniq)
    BY <1>1 DEF InHand, Free
  <1>4. InHand(e, records', uniq', links')
    BY <1>2, <1>3 DEF InHand, JoinInHand
  <1>5. \A i \in Ids \ Flux(e) : Exact(records', uniq', links', i)
    BY <1>1, <1>2 DEF Flux, Exact, IndexSays, LinksSay
  <1>6. QED
    BY <1>1, <1>4, <1>5, ExactKept

\* The step of a call that writes its row.
LEMMA ExactWrite ==
    ASSUME ConstantsAssumption, OneByOne, BaseInv, ExactInv, NEW c \in Calls,
           InsertRecord(c) \/ ImportRecord(c) \/ UpdateRecord(c)
    PROVE  ExactInv'
  <1>1. call[c] \in CallState /\ Sound(call[c]) /\ call[c].step = "write"
    BY StateOfCall DEF BaseInv, InsertRecord, ImportRecord, UpdateRecord, At
  <1>2. Busy(call[c]) /\ Flux(call[c]) = {}
    BY <1>1 DEF Busy, Flux
  <1>3. CASE InsertRecord(c)
    <2> DEFINE e == [call[c] EXCEPT !.step = "join", !.id = FreshId, !.uq = "clear", !.rl = "clear"]
    <2>1. Becomes(c, e)
      BY <1>3, InsertFacts DEF BaseInv
    <2>2. /\ e.step = "join" /\ e.id = FreshId /\ e.uq = "clear" /\ e.rl = "clear"
          /\ e.data = call[c].data
      BY <1>1 DEF CallState
    <2>3. FreshId \in Ids /\ call[c].id = 0
      BY <1>1, <1>3 DEF InsertRecord, FreshId, BaseInv, TypeOK, Ids, ConstantsAssumption, Sound, Req
    <2>4. /\ records' = [records EXCEPT ![FreshId] = call[c].data]
          /\ UNCHANGED <<uniq, links>>
      BY <1>3 DEF InsertRecord
    <2> HIDE DEF e
    <2>5. QED
      BY <1>1, <2>1, <2>2, <2>3, <2>4, ExactWritten
  <1>4. CASE ImportRecord(c) /\ Exists(call[c].id)
    BY <1>2, <1>4, ExactReturn DEF ImportRecord
  <1>5. CASE (ImportRecord(c) /\ ~Exists(call[c].id)) \/ UpdateRecord(c)
    <2> DEFINE e == [call[c] EXCEPT !.step = "join", !.uq = "clear", !.rl = "clear"]
    <2>1. Becomes(c, e)
      BY <1>5, ImportFacts, UpdateFacts DEF BaseInv
    <2>2. /\ e.step = "join" /\ e.id = call[c].id /\ e.uq = "clear" /\ e.rl = "clear"
          /\ e.data = call[c].data
      BY <1>1 DEF CallState
    <2>3. call[c].id \in Ids
      BY <1>1, <1>5, AtWrite DEF ImportRecord, UpdateRecord, Req
    <2>4. UpdateRecord(c) => Exists(call[c].id)
      BY <1>1, <1>2, <2>3, AloneView DEF InHand, UpdateRecord, Req, Exists
    <2>5. /\ records' = [records EXCEPT ![call[c].id] = call[c].data]
          /\ UNCHANGED <<uniq, links>>
      BY <1>5, <2>4 DEF ImportRecord, UpdateRecord
    <2> HIDE DEF e
    <2>6. QED
      BY <1>1, <2>1, <2>2, <2>3, <2>5, ExactWritten
  <1>6. QED
    BY <1>3, <1>4, <1>5

\* A call whose row is written is at that step and not yet on its way out.
LEMMA ExactAtJoin ==
    ASSUME ConstantsAssumption, OneByOne, BaseInv, ExactInv, NEW c \in Calls,
           call[c].step \in {"join", "drain"}
    PROVE  /\ call[c].step = "join" /\ AfterStatement(c) = "join"
           /\ call[c].data \in Data /\ call[c].data # None
           /\ call[c].id \in Ids /\ call[c].id # 0
           /\ JoinInHand(call[c], records, uniq, links)
  <1>1. Busy(call[c])
    BY DEF Busy
  <1>2. InHand(call[c], records, uniq, links)
    BY <1>1, AloneView
  <1>3. call[c].step = "join"
    BY <1>2 DEF InHand
  <1>4. AfterStatement(c) = "join"
    BY <1>3 DEF AfterStatement, At
  <1>5. call[c].id # 0
    BY AtJoin DEF Ids
  <1>6. QED
    BY <1>2, <1>3, <1>4, <1>5, AtJoin DEF InHand

\* A step of the call on the index or the links of its record.
LEMMA ExactJoined ==
    ASSUME ConstantsAssumption, OneByOne, BaseInv, ExactInv, NEW c \in Calls, call[c].step = "join",
           NEW e, Becomes(c, e), e.step = "join", e.id = call[c].id, UNCHANGED records,
           JoinInHand(e, records, uniq', links'),
           \A i \in Ids \ {e.id} :
              Exact(records, uniq, links, i) => Exact(records, uniq', links', i)
    PROVE  ExactInv'
  <1>1. /\ \A d \in Calls \ {c} : ~Busy(call[d])
        /\ \A i \in Ids \ {e.id} : Exact(records, uniq, links, i)
    BY AloneView DEF Busy, Flux
  <1>2. InHand(e, records', uniq', links')
    BY DEF InHand
  <1>3. \A i \in Ids \ Flux(e) : Exact(records', uniq', links', i)
    BY <1>1 DEF Flux
  <1>4. QED
    BY <1>1, <1>2, <1>3, ExactKept

\* The old entry of the index is deleted; the new value is still free.
LEMMA ExactClearUnique ==
    ASSUME ConstantsAssumption, OneByOne, BaseInv, ExactInv, NEW c \in Calls, ClearUnique(c)
    PROVE  ExactInv'
  <1> DEFINE q == IF call[c].data.val = Null THEN "end" ELSE "put"
             e == [call[c] EXCEPT !.step = "join", !.uq = q]
  <1>1. /\ call[c].step \in {"join", "drain"} /\ call[c].uq = "clear"
        /\ uniq' = UniqueWithout(call[c].id) /\ UNCHANGED <<records, links>>
    BY DEF ClearUnique, At
  <1>2. /\ call[c].step = "join" /\ AfterStatement(c) = "join"
        /\ call[c].data \in Data /\ call[c].id \in Ids /\ call[c].id # 0 /\ call[c].data # None
        /\ JoinInHand(call[c], records, uniq, links)
    BY <1>1, ExactAtJoin
  <1>3. Becomes(c, e)
    BY <1>2, ClearUniqueFacts DEF BaseInv
  <1>4. q = "put" => call[c].data.val \in Vals
    BY <1>2 DEF Data
  <1>5. q = "end" => call[c].data.val = Null
    OBVIOUS
  <1>6. q \in {"end", "put"}
    OBVIOUS
  <1> HIDE DEF q
  <1>7. /\ e.step = "join" /\ e.id = call[c].id /\ e.data = call[c].data
        /\ e.uq = q /\ e.rl = call[c].rl
    <2>1. call[c] \in CallState
      BY TypeOfCall DEF BaseInv
    <2>2. QED
      BY <2>1 DEF CallState
  <1> HIDE DEF e
  <1>8. /\ \A v \in Vals : uniq'[v] = IF uniq[v] = e.id THEN 0 ELSE uniq[v]
        /\ NoEntry(uniq', e.id)
    BY <1>1, <1>2, <1>7 DEF UniqueWithout, NoEntry
  <1>9. q = "put" => uniq'[e.data.val] = 0
    BY <1>1, <1>2, <1>4, <1>7, <1>8 DEF JoinInHand, Free, Null, ConstantsAssumption
  <1>10. q = "end" => IndexSays(records, uniq', e.id)
    <2> SUFFICES ASSUME q = "end", NEW v \in Vals
                 PROVE  uniq'[v] # e.id /\ records[e.id].val # v
      BY DEF IndexSays
    <2>1. records[e.id].val = Null
      BY <1>2, <1>5, <1>7 DEF JoinInHand
    <2>2. v # Null
      BY DEF Null, ConstantsAssumption
    <2>3. QED
      BY <1>8, <2>1, <2>2 DEF NoEntry
  <1>11. JoinInHand(e, records, uniq', links')
    BY <1>1, <1>2, <1>6, <1>7, <1>8, <1>9, <1>10 DEF JoinInHand
  <1>12. ASSUME NEW i \in Ids \ {e.id}, Exact(records, uniq, links, i)
         PROVE  Exact(records, uniq', links', i)
    <2>1. \A v \in Vals : uniq'[v] = i <=> uniq[v] = i
      BY <1>8 DEF Ids
    <2>2. QED
      BY <1>1, <1>12, <2>1 DEF Exact, IndexSays
  <1>13. QED
    BY <1>1, <1>2, <1>3, <1>7, <1>11, <1>12, ExactJoined

\* The new entry is the record's only one.
LEMMA ExactPutUnique ==
    ASSUME ConstantsAssumption, OneByOne, BaseInv, ExactInv, NEW c \in Calls, PutUnique(c)
    PROVE  ExactInv'
  <1> DEFINE e == [call[c] EXCEPT !.step = "join", !.uq = "end"]
  <1>1. /\ call[c].step \in {"join", "drain"} /\ call[c].uq = "put"
        /\ uniq' = [uniq EXCEPT ![call[c].data.val] = call[c].id]
        /\ UNCHANGED <<records, links>>
    BY DEF PutUnique, At
  <1>2. /\ call[c].step = "join" /\ AfterStatement(c) = "join"
        /\ call[c].data \in Data /\ call[c].id \in Ids /\ call[c].id # 0 /\ call[c].data # None
        /\ JoinInHand(call[c], records, uniq, links)
    BY <1>1, ExactAtJoin
  <1>3. Becomes(c, e)
    BY <1>2, PutUniqueFacts DEF BaseInv
  <1>4. call[c].data.val \in Vals
    BY <1>1, AtJoin
  <1>5. /\ e.step = "join" /\ e.id = call[c].id /\ e.data = call[c].data
        /\ e.uq = "end" /\ e.rl = call[c].rl
    <2>1. call[c] \in CallState
      BY TypeOfCall DEF BaseInv
    <2>2. QED
      BY <2>1 DEF CallState
  <1> HIDE DEF e
  <1>6. \A v \in Vals : uniq'[v] = IF v = e.data.val THEN e.id ELSE uniq[v]
    BY <1>1, <1>4, <1>5 DEF BaseInv, TypeOK
  <1>7. uniq[e.data.val] = 0 /\ NoEntry(uniq, e.id) /\ records[e.id] = e.data
    BY <1>1, <1>2, <1>5 DEF JoinInHand
  <1>8. IndexSays(records, uniq', e.id)
    BY <1>2, <1>5, <1>6, <1>7 DEF IndexSays, NoEntry
  <1>9. JoinInHand(e, records, uniq', links')
    BY <1>1, <1>2, <1>5, <1>7, <1>8 DEF JoinInHand
  <1>10. ASSUME NEW i \in Ids \ {e.id}, Exact(records, uniq, links, i)
         PROVE  Exact(records, uniq', links', i)
    <2>1. i # 0
      BY DEF Ids
    <2>2. \A v \in Vals : uniq'[v] = i <=> uniq[v] = i
      BY <1>6, <1>7, <2>1
    <2>3. QED
      BY <1>1, <1>10, <2>2 DEF Exact, IndexSays
  <1>11. QED
    BY <1>1, <1>2, <1>3, <1>5, <1>9, <1>10, ExactJoined

\* The old links of the record are deleted.
LEMMA ExactClearLinks ==
    ASSUME ConstantsAssumption, OneByOne, BaseInv, ExactInv, NEW c \in Calls, ClearLinks(c)
    PROVE  ExactInv'
  <1> DEFINE q == IF call[c].data.ref = NoRef THEN "end" ELSE "put"
             e == [call[c] EXCEPT !.step = "join", !.rl = q]
  <1>1. /\ call[c].step \in {"join", "drain"} /\ call[c].rl = "clear"
        /\ links' = {l \in links : l[1] # call[c].id} /\ UNCHANGED <<records, uniq>>
    BY DEF ClearLinks, At
  <1>2. /\ call[c].step = "join" /\ AfterStatement(c) = "join"
        /\ call[c].id \in Ids /\ JoinInHand(call[c], records, uniq, links)
    BY <1>1, ExactAtJoin
  <1>3. Becomes(c, e)
    BY <1>2, ClearLinksFacts DEF BaseInv
  <1>4. q = "end" => call[c].data.ref = 0
    BY DEF NoRef
  <1>5. q \in {"end", "put"}
    OBVIOUS
  <1> HIDE DEF q
  <1>6. /\ e.step = "join" /\ e.id = call[c].id /\ e.data = call[c].data
        /\ e.uq = call[c].uq /\ e.rl = q
    <2>1. call[c] \in CallState
      BY TypeOfCall DEF BaseInv
    <2>2. QED
      BY <2>1 DEF CallState
  <1> HIDE DEF e
  <1>7. NoLinks(links', e.id)
    BY <1>1, <1>6 DEF NoLinks
  <1>8. q = "end" => LinksSay(records, links', e.id)
    <2> SUFFICES ASSUME q = "end", NEW t \in Ids
                 PROVE  <<e.id, t>> \notin links' /\ records[e.id].ref # t
      BY DEF LinksSay
    <2>1. records[e.id].ref = 0 /\ t # 0
      BY <1>2, <1>4, <1>6 DEF JoinInHand, Ids
    <2>2. QED
      BY <1>7, <2>1 DEF NoLinks
  <1>9. JoinInHand(e, records, uniq', links')
    BY <1>1, <1>2, <1>5, <1>6, <1>7, <1>8 DEF JoinInHand, Free
  <1>10. ASSUME NEW i \in Ids \ {e.id}, Exact(records, uniq, links, i)
         PROVE  Exact(records, uniq', links', i)
    <2>1. \A t \in Ids : <<i, t>> \in links' <=> <<i, t>> \in links
      BY <1>1, <1>6
    <2>2. QED
      BY <1>1, <1>10, <2>1 DEF Exact, LinksSay
  <1>11. QED
    BY <1>1, <1>2, <1>3, <1>6, <1>9, <1>10, ExactJoined

\* The new link is the record's only one.
LEMMA ExactPutLink ==
    ASSUME ConstantsAssumption, OneByOne, BaseInv, ExactInv, NEW c \in Calls, PutLink(c)
    PROVE  ExactInv'
  <1> DEFINE e == [call[c] EXCEPT !.step = "join", !.rl = "end"]
  <1>1. /\ call[c].step \in {"join", "drain"} /\ call[c].rl = "put"
        /\ links' = links \cup {<<call[c].id, call[c].data.ref>>} /\ UNCHANGED <<records, uniq>>
    BY DEF PutLink, At
  <1>2. /\ call[c].step = "join" /\ AfterStatement(c) = "join" /\ call[c].data # None
        /\ call[c].id \in Ids /\ JoinInHand(call[c], records, uniq, links)
    BY <1>1, ExactAtJoin
  <1>3. Becomes(c, e)
    BY <1>2, PutLinkFacts DEF BaseInv
  <1>4. /\ e.step = "join" /\ e.id = call[c].id /\ e.data = call[c].data
        /\ e.uq = call[c].uq /\ e.rl = "end"
    <2>1. call[c] \in CallState
      BY TypeOfCall DEF BaseInv
    <2>2. QED
      BY <2>1 DEF CallState
  <1> HIDE DEF e
  <1>5. NoLinks(links, e.id) /\ records[e.id] = e.data
    BY <1>1, <1>2, <1>4 DEF JoinInHand
  <1>6. LinksSay(records, links', e.id)
    BY <1>1, <1>2, <1>4, <1>5 DEF LinksSay, NoLinks
  <1>7. JoinInHand(e, records, uniq', links')
    BY <1>1, <1>2, <1>4, <1>5, <1>6 DEF JoinInHand, Free
  <1>8. ASSUME NEW i \in Ids \ {e.id}, Exact(records, uniq, links, i)
        PROVE  Exact(records, uniq', links', i)
    <2>1. \A t \in Ids : <<i, t>> \in links' <=> <<i, t>> \in links
      BY <1>1, <1>4
    <2>2. QED
      BY <1>1, <1>8, <2>1 DEF Exact, LinksSay
  <1>9. QED
    BY <1>1, <1>2, <1>3, <1>4, <1>7, <1>8, ExactJoined

\* Neither future fails, because the value is free and no statement fails.
LEMMA NoJoinFails ==
    ASSUME ConstantsAssumption, OneByOne, BaseInv, ExactInv, NEW c \in Calls
    PROVE  ~JoinFails(c) /\ ~DrainEnds(c) /\ ~PurgeFails(c) /\ ~WriteFails(c)
  <1>1. ~DrainEnds(c)
    BY ExactAtJoin DEF DrainEnds, At
  <1>2. ~PurgeFails(c) /\ ~WriteFails(c)
    BY DEF OneByOne, PurgeFails, WriteFails
  <1>3. ~JoinFails(c)
    <2> SUFFICES ASSUME JoinFails(c) PROVE FALSE
      OBVIOUS
    <2>1. call[c].step = "join" /\ call[c].uq = "put" /\ Taken(c)
      BY DEF JoinFails, OneByOne, At
    <2>2. uniq[call[c].data.val] = 0
      BY <2>1, ExactAtJoin DEF JoinInHand
    <2>3. QED
      BY <2>1, <2>2 DEF Taken
  <1>4. QED
    BY <1>1, <1>2, <1>3

\* Both futures are done: the tables say what the row says.
LEMMA ExactJoinEnds ==
    ASSUME ConstantsAssumption, OneByOne, BaseInv, ExactInv, NEW c \in Calls, JoinEnds(c)
    PROVE  ExactInv'
  <1> DEFINE e == [call[c] EXCEPT !.step = "done", !.res = "ok"]
  <1>1. /\ call[c].step = "join" /\ call[c].uq = "end" /\ call[c].rl = "end"
        /\ UNCHANGED <<records, uniq, links>> /\ Return(c, "ok")
    BY DEF JoinEnds, At
  <1>2. JoinInHand(call[c], records, uniq, links)
    BY <1>1, ExactAtJoin
  <1>3. Becomes(c, e)
    BY <1>1, ReturnFacts DEF BaseInv
  <1>4. e.step = "done"
    BY TypeOfCall DEF BaseInv, CallState
  <1> HIDE DEF e
  <1>5. /\ \A d \in Calls \ {c} : ~Busy(call[d])
        /\ \A i \in Ids \ {call[c].id} : Exact(records, uniq, links, i)
    BY <1>1, AloneView DEF Busy, Flux
  <1>6. Exact(records, uniq, links, call[c].id)
    BY <1>1, <1>2 DEF JoinInHand, Exact
  <1>7. InHand(e, records', uniq', links')
    BY <1>4 DEF InHand
  <1>8. \A i \in Ids \ Flux(e) : Exact(records', uniq', links', i)
    BY <1>1, <1>5, <1>6
  <1>9. QED
    BY <1>3, <1>5, <1>7, <1>8, ExactKept

\* What a call that deletes finds.
LEMMA ExactAtPurge ==
    ASSUME ConstantsAssumption, OneByOne, BaseInv, ExactInv, NEW c \in Calls, call[c].step = "purge"
    PROVE  /\ call[c].seen \subseteq Ids /\ call[c].todo \subseteq call[c].seen
           /\ call[c].res # "err" /\ PurgeInHand(call[c], records, uniq, links)
           /\ call[c].del # "next" => call[c].id \in Ids /\ call[c].id \in call[c].seen
           /\ \A d \in Calls \ {c} : ~Busy(call[d])
           /\ \A i \in Ids \ call[c].seen : Exact(records, uniq, links, i)
  <1>1. call[c] \in CallState /\ Sound(call[c])
    BY StateOfCall DEF BaseInv
  <1>2. /\ \A d \in Calls \ {c} : ~Busy(call[d])
        /\ InHand(call[c], records, uniq, links)
        /\ \A i \in Ids \ call[c].seen : Exact(records, uniq, links, i)
    BY AloneView DEF Busy, Flux
  <1>3. call[c].seen \subseteq Ids
    BY <1>1 DEF CallState
  <1>4. call[c].todo \subseteq call[c].seen
    BY <1>1 DEF Sound
  <1>5. QED
    BY <1>2, <1>3, <1>4, AtPurge DEF InHand

\* A step of the call on the tables of the records it deletes.
LEMMA ExactPurged ==
    ASSUME ConstantsAssumption, OneByOne, BaseInv, ExactInv, NEW c \in Calls, call[c].step = "purge",
           NEW e, Becomes(c, e), e.step = "purge", e.seen = call[c].seen, e.res = call[c].res,
           PurgeInHand(e, records', uniq', links'),
           \A i \in Ids \ e.seen :
              Exact(records, uniq, links, i) => Exact(records', uniq', links', i)
    PROVE  ExactInv'
  <1>1. /\ \A d \in Calls \ {c} : ~Busy(call[d])
        /\ \A i \in Ids \ e.seen : Exact(records, uniq, links, i)
        /\ e.res # "err"
    BY ExactAtPurge
  <1>2. InHand(e, records', uniq', links')
    BY <1>1 DEF InHand
  <1>3. \A i \in Ids \ Flux(e) : Exact(records', uniq', links', i)
    BY <1>1 DEF Flux
  <1>4. QED
    BY <1>1, <1>2, <1>3, ExactKept

\* A record that refers to a visited one is visited, or will be.
LEMMA ExactScan ==
    ASSUME ConstantsAssumption, OneByOne, BaseInv, ExactInv, NEW c \in Calls, Scan(c)
    PROVE  ExactInv'
  <1>1. call[c] \in CallState /\ call[c].step = "scan" /\ UNCHANGED <<records, uniq, links>>
    BY StateOfCall DEF BaseInv, Scan, At
  <1>2. PICK i \in call[c].todo : Becomes(c,
              [call[c] EXCEPT !.seen = call[c].seen \cup {i},
                              !.todo = (call[c].todo \ {i}) \cup Origins(c, i)])
    BY ScanFacts DEF BaseInv
  <1> DEFINE S == call[c].seen \cup {i}
             T == (call[c].todo \ {i}) \cup Origins(c, i)
             e == [call[c] EXCEPT !.seen = S, !.todo = T]
  <1>3. Becomes(c, e)
    BY <1>2
  <1>4. InHand(call[c], records, uniq, links)
    BY <1>1, AloneView DEF Busy
  <1>5. \A o \in Ids, t \in S : <<o, t>> \in links => o \in S \cup T
    BY <1>1, <1>4 DEF InHand, Origins
  <1> HIDE DEF S, T
  <1>6. e.step = "scan" /\ e.seen = S /\ e.todo = T /\ e.res = call[c].res
    BY <1>1 DEF CallState
  <1> HIDE DEF e
  <1>7. call[c].res # "err"
    BY <1>1, <1>4 DEF InHand
  <1>8. InHand(e, records, uniq, links)
    BY <1>5, <1>6, <1>7 DEF InHand
  <1>9. Busy(call[c]) /\ Flux(call[c]) = {} /\ Flux(e) = {}
    BY <1>1, <1>6 DEF Busy, Flux
  <1>10. QED
    BY <1>1, <1>3, <1>8, <1>9, ExactAside

\* Every record that refers to a visited one is visited.
LEMMA ExactScanEnds ==
    ASSUME ConstantsAssumption, OneByOne, BaseInv, ExactInv, NEW c \in Calls, ScanEnds(c)
    PROVE  ExactInv'
  <1> DEFINE e == [call[c] EXCEPT !.step = "purge", !.todo = call[c].seen, !.del = "next"]
  <1>1. /\ call[c] \in CallState /\ call[c].step = "scan" /\ call[c].todo = {}
        /\ UNCHANGED <<records, uniq, links>>
    BY StateOfCall DEF BaseInv, ScanEnds, At
  <1>2. Becomes(c, e)
    BY ScanEndsFacts DEF BaseInv
  <1>3. /\ e.step = "purge" /\ e.seen = call[c].seen /\ e.todo = call[c].seen /\ e.del = "next"
        /\ e.res = call[c].res
    BY <1>1 DEF CallState
  <1> HIDE DEF e
  <1>4. /\ \A d \in Calls \ {c} : ~Busy(call[d])
        /\ InHand(call[c], records, uniq, links)
        /\ \A i \in Ids : Exact(records, uniq, links, i)
    BY <1>1, AloneView DEF Busy, Flux
  <1>5. \A o \in Ids \ e.seen, t \in e.seen : <<o, t>> \notin links
    BY <1>1, <1>3, <1>4 DEF InHand
  <1>6. InHand(e, records', uniq', links')
    BY <1>1, <1>3, <1>4, <1>5 DEF InHand, PurgeInHand
  <1>7. QED
    BY <1>1, <1>2, <1>4, <1>6, ExactKept

\* The next record is taken up.
LEMMA ExactPurgeNext ==
    ASSUME ConstantsAssumption, OneByOne, BaseInv, ExactInv, NEW c \in Calls, PurgeNext(c)
    PROVE  ExactInv'
  <1>1. /\ call[c] \in CallState /\ call[c].step = "purge" /\ call[c].del = "next"
        /\ UNCHANGED <<records, uniq, links>>
    BY StateOfCall DEF BaseInv, PurgeNext, At
  <1>2. PICK i \in call[c].todo : Becomes(c,
              [call[c] EXCEPT !.id = i, !.todo = call[c].todo \ {i}, !.del = "record"])
    BY PurgeNextFacts DEF BaseInv
  <1> DEFINE T == call[c].todo \ {i}
             e == [call[c] EXCEPT !.id = i, !.todo = T, !.del = "record"]
  <1>3. Becomes(c, e)
    BY <1>2
  <1>4. i \notin T /\ call[c].seen \ T \subseteq (call[c].seen \ call[c].todo) \cup {i}
    OBVIOUS
  <1> HIDE DEF T
  <1>5. /\ e.step = "purge" /\ e.seen = call[c].seen /\ e.todo = T /\ e.del = "record"
        /\ e.id = i /\ e.res = call[c].res
    BY <1>1 DEF CallState
  <1> HIDE DEF e
  <1>6. PurgeInHand(call[c], records, uniq, links)
    BY <1>1, ExactAtPurge
  <1>7. PurgeInHand(e, records', uniq', links')
    BY <1>1, <1>4, <1>5, <1>6 DEF PurgeInHand
  <1>8. QED
    BY <1>1, <1>3, <1>5, <1>7, ExactPurged

\* The row of the record is deleted.
LEMMA ExactPurgeRecord ==
    ASSUME ConstantsAssumption, OneByOne, BaseInv, ExactInv, NEW c \in Calls, PurgeRecord(c)
    PROVE  ExactInv'
  <1> DEFINE e == [call[c] EXCEPT !.del = "unique"]
  <1>1. /\ call[c] \in CallState /\ call[c].step = "purge" /\ call[c].del = "record"
        /\ records' = [records EXCEPT ![call[c].id] = None] /\ UNCHANGED <<uniq, links>>
    BY StateOfCall DEF BaseInv, PurgeRecord, At
  <1>2. Becomes(c, e)
    BY PurgeRecordFacts DEF BaseInv
  <1>3. /\ e.step = "purge" /\ e.seen = call[c].seen /\ e.todo = call[c].todo /\ e.del = "unique"
        /\ e.id = call[c].id /\ e.res = call[c].res
    BY <1>1 DEF CallState
  <1> HIDE DEF e
  <1>4. /\ PurgeInHand(call[c], records, uniq, links)
        /\ e.id \in Ids /\ e.id \in e.seen /\ e.seen \subseteq Ids
    BY <1>1, <1>3, ExactAtPurge
  <1>5. records'[e.id] = None /\ \A i \in Ids \ {e.id} : records'[i] = records[i]
    BY <1>1, <1>3, <1>4 DEF BaseInv, TypeOK
  <1>6. \A i \in e.seen \ e.todo : i # e.id => Gone(records', uniq', links', i)
    BY <1>1, <1>3, <1>4, <1>5 DEF PurgeInHand, Gone
  <1>7. PurgeInHand(e, records', uniq', links')
    BY <1>1, <1>3, <1>4, <1>5, <1>6 DEF PurgeInHand
  <1>8. \A i \in Ids \ e.seen : Exact(records, uniq, links, i) => Exact(records', uniq', links', i)
    BY <1>1, <1>4, <1>5 DEF Exact, IndexSays, LinksSay
  <1>9. QED
    BY <1>1, <1>2, <1>3, <1>7, <1>8, ExactPurged

\* Its entry of the index is deleted.
LEMMA ExactPurgeUnique ==
    ASSUME ConstantsAssumption, OneByOne, BaseInv, ExactInv, NEW c \in Calls, PurgeUnique(c)
    PROVE  ExactInv'
  <1> DEFINE e == [call[c] EXCEPT !.del = "from"]
  <1>1. /\ call[c] \in CallState /\ call[c].step = "purge" /\ call[c].del = "unique"
        /\ uniq' = UniqueWithout(call[c].id) /\ UNCHANGED <<records, links>>
    BY StateOfCall DEF BaseInv, PurgeUnique, At
  <1>2. Becomes(c, e)
    BY PurgeUniqueFacts DEF BaseInv
  <1>3. /\ e.step = "purge" /\ e.seen = call[c].seen /\ e.todo = call[c].todo /\ e.del = "from"
        /\ e.id = call[c].id /\ e.res = call[c].res
    BY <1>1 DEF CallState
  <1> HIDE DEF e
  <1>4. /\ PurgeInHand(call[c], records, uniq, links)
        /\ e.id \in Ids /\ e.id \in e.seen /\ e.seen \subseteq Ids
    BY <1>1, <1>3, ExactAtPurge
  <1>5. \A v \in Vals : uniq'[v] = IF uniq[v] = e.id THEN 0 ELSE uniq[v]
    BY <1>1, <1>3 DEF UniqueWithout
  <1>6. \A i \in Ids : i # 0
    BY DEF Ids
  <1>7. NoEntry(uniq', e.id) /\ \A i \in Ids : NoEntry(uniq, i) => NoEntry(uniq', i)
    BY <1>4, <1>5, <1>6 DEF NoEntry
  <1>8. \A i \in e.seen \ e.todo : i # e.id => Gone(records', uniq', links', i)
    BY <1>1, <1>3, <1>4, <1>7 DEF PurgeInHand, Gone
  <1>9. PurgeInHand(e, records', uniq', links')
    BY <1>1, <1>3, <1>4, <1>7, <1>8 DEF PurgeInHand
  <1>10. ASSUME NEW i \in Ids \ e.seen, Exact(records, uniq, links, i)
         PROVE  Exact(records', uniq', links', i)
    <2>1. \A v \in Vals : uniq'[v] = i <=> uniq[v] = i
      BY <1>4, <1>5, <1>6
    <2>2. QED
      BY <1>1, <1>10, <2>1 DEF Exact, IndexSays
  <1>11. QED
    BY <1>1, <1>2, <1>3, <1>9, <1>10, ExactPurged

\* Its links are deleted.
LEMMA ExactPurgeLinksFrom ==
    ASSUME ConstantsAssumption, OneByOne, BaseInv, ExactInv, NEW c \in Calls, PurgeLinksFrom(c)
    PROVE  ExactInv'
  <1> DEFINE e == [call[c] EXCEPT !.del = "to"]
  <1>1. /\ call[c] \in CallState /\ call[c].step = "purge" /\ call[c].del = "from"
        /\ links' = {l \in links : l[1] # call[c].id} /\ UNCHANGED <<records, uniq>>
    BY StateOfCall DEF BaseInv, PurgeLinksFrom, At
  <1>2. Becomes(c, e)
    BY PurgeLinksFromFacts DEF BaseInv
  <1>3. /\ e.step = "purge" /\ e.seen = call[c].seen /\ e.todo = call[c].todo /\ e.del = "to"
        /\ e.id = call[c].id /\ e.res = call[c].res
    BY <1>1 DEF CallState
  <1> HIDE DEF e
  <1>4. /\ PurgeInHand(call[c], records, uniq, links)
        /\ e.id \in Ids /\ e.id \in e.seen /\ e.seen \subseteq Ids
    BY <1>1, <1>3, ExactAtPurge
  <1>5. links' \subseteq links /\ NoLinks(links', e.id)
    BY <1>1, <1>3 DEF NoLinks
  <1>6. \A i \in e.seen \ e.todo : i # e.id => Gone(records', uniq', links', i)
    BY <1>1, <1>3, <1>4, <1>5 DEF PurgeInHand, Gone, NoLinks
  <1>7. \A o \in Ids \ e.seen, t \in e.seen : <<o, t>> \notin links'
    BY <1>3, <1>4, <1>5 DEF PurgeInHand
  <1>8. PurgeInHand(e, records', uniq', links')
    BY <1>1, <1>3, <1>4, <1>5, <1>6, <1>7 DEF PurgeInHand
  <1>9. ASSUME NEW i \in Ids \ e.seen, Exact(records, uniq, links, i)
        PROVE  Exact(records', uniq', links', i)
    <2>1. \A t \in Ids : <<i, t>> \in links' <=> <<i, t>> \in links
      BY <1>1, <1>3, <1>4
    <2>2. QED
      BY <1>1, <1>9, <2>1 DEF Exact, LinksSay
  <1>10. QED
    BY <1>1, <1>2, <1>3, <1>8, <1>9, ExactPurged

\* The links to it are deleted; no record outside the cascade has one.
LEMMA ExactPurgeLinksTo ==
    ASSUME ConstantsAssumption, OneByOne, BaseInv, ExactInv, NEW c \in Calls, PurgeLinksTo(c)
    PROVE  ExactInv'
  <1> DEFINE e == [call[c] EXCEPT !.del = "next"]
  <1>1. /\ call[c] \in CallState /\ call[c].step = "purge" /\ call[c].del = "to"
        /\ links' = {l \in links : l[2] # call[c].id} /\ UNCHANGED <<records, uniq>>
    BY StateOfCall DEF BaseInv, PurgeLinksTo, At
  <1>2. Becomes(c, e)
    BY PurgeLinksToFacts DEF BaseInv
  <1>3. /\ e.step = "purge" /\ e.seen = call[c].seen /\ e.todo = call[c].todo /\ e.del = "next"
        /\ e.id = call[c].id /\ e.res = call[c].res
    BY <1>1 DEF CallState
  <1> HIDE DEF e
  <1>4. /\ PurgeInHand(call[c], records, uniq, links)
        /\ e.id \in Ids /\ e.id \in e.seen /\ e.seen \subseteq Ids
    BY <1>1, <1>3, ExactAtPurge
  <1>5. links' \subseteq links
    BY <1>1
  <1>6. Gone(records, uniq, links, e.id)
    BY <1>1, <1>3, <1>4 DEF PurgeInHand, Gone
  <1>7. \A i \in e.seen \ e.todo : Gone(records, uniq, links, i)
    BY <1>3, <1>4, <1>6 DEF PurgeInHand
  <1>8. \A i \in e.seen \ e.todo : Gone(records', uniq', links', i)
    BY <1>1, <1>5, <1>7 DEF Gone, NoLinks
  <1>9. \A o \in Ids \ e.seen, t \in e.seen : <<o, t>> \notin links
    BY <1>3, <1>4 DEF PurgeInHand
  <1>10. PurgeInHand(e, records', uniq', links')
    BY <1>3, <1>5, <1>8, <1>9 DEF PurgeInHand
  <1>11. ASSUME NEW i \in Ids \ e.seen, Exact(records, uniq, links, i)
         PROVE  Exact(records', uniq', links', i)
    <2>1. \A t \in Ids : <<i, t>> \in links' <=> <<i, t>> \in links
      BY <1>1, <1>3, <1>4, <1>9
    <2>2. QED
      BY <1>1, <1>11, <2>1 DEF Exact, LinksSay
  <1>12. QED
    BY <1>1, <1>2, <1>3, <1>10, <1>11, ExactPurged

\* All the records of the cascade are gone.
LEMMA ExactPurgeEnds ==
    ASSUME ConstantsAssumption, OneByOne, BaseInv, ExactInv, NEW c \in Calls, PurgeEnds(c)
    PROVE  ExactInv'
  <1> DEFINE e == [call[c] EXCEPT !.step = "done", !.res = "ok"]
  <1>1. /\ call[c].step = "purge" /\ call[c].del = "next" /\ UNCHANGED <<records, uniq, links>>
    BY DEF PurgeEnds, At
  <1>2. /\ call[c].seen \subseteq Ids /\ call[c].res # "err"
        /\ PurgeInHand(call[c], records, uniq, links)
        /\ \A d \in Calls \ {c} : ~Busy(call[d])
        /\ \A i \in Ids \ call[c].seen : Exact(records, uniq, links, i)
    BY <1>1, ExactAtPurge
  <1>3. Return(c, "ok") /\ call[c].todo = {}
    BY <1>2 DEF PurgeEnds
  <1>4. Becomes(c, e)
    BY <1>3, ReturnFacts DEF BaseInv
  <1>5. e.step = "done"
    BY TypeOfCall DEF BaseInv, CallState
  <1> HIDE DEF e
  <1>6. \A i \in call[c].seen : Gone(records, uniq, links, i)
    BY <1>1, <1>2, <1>3 DEF PurgeInHand
  <1>7. \A i \in call[c].seen : Exact(records, uniq, links, i)
    BY <1>2, <1>6 DEF Gone, NoEntry, NoLinks, Exact, IndexSays, LinksSay
  <1>8. InHand(e, records', uniq', links')
    BY <1>5 DEF InHand
  <1>9. \A i \in Ids \ Flux(e) : Exact(records', uniq', links', i)
    BY <1>1, <1>2, <1>7
  <1>10. QED
    BY <1>2, <1>4, <1>8, <1>9, ExactKept

\* A stuttering step.
LEMMA ExactStutter ==
    ASSUME ExactInv, UNCHANGED vars
    PROVE  ExactInv'
  BY DEF ExactInv, vars

\* ExactInv is preserved by every step.
LEMMA ExactNext ==
    ASSUME ConstantsAssumption, OneByOne, BaseInv, ExactInv, [Next]_vars
    PROVE  ExactInv'
  <1>1. CASE UNCHANGED vars
    BY <1>1, ExactStutter
  <1>2. ASSUME NEW c \in Calls, Start(c) \/ Step(c) PROVE ExactInv'
    <2>1. CASE Start(c)
      BY <2>1, ExactStart
    <2>2. CASE Create(c) \/ Update(c)
      BY <2>2, ExactWrite, ExactRead DEF Create, Update
    <2>3. CASE CheckUnique(c) \/ WriteFails(c)
      BY <2>3, ExactCheck, NoJoinFails
    <2>4. CASE Join(c)
      BY <2>4, ExactClearUnique, ExactPutUnique, ExactClearLinks, ExactPutLink, NoJoinFails,
         ExactJoinEnds DEF Join
    <2>5. CASE Delete(c)
      BY <2>5, ExactScan, ExactScanEnds, ExactPurgeNext, ExactPurgeRecord, ExactPurgeUnique,
         ExactPurgeLinksFrom, ExactPurgeLinksTo, NoJoinFails, ExactPurgeEnds DEF Delete
    <2>6. QED
      BY <1>2, <2>1, <2>2, <2>3, <2>4, <2>5 DEF Step
  <1>3. QED
    BY <1>1, <1>2 DEF Next

\* Between calls the index and the links are exact.
LEMMA IndexExactHolds ==
    ASSUME ConstantsAssumption, BaseInv, ExactInv
    PROVE  IndexExact
  <1> SUFFICES ASSUME Quiet
               PROVE  /\ \A v \in Vals, i \in Ids :
                            uniq[v] = i <=> records[i] # None /\ records[i].val = v
                      /\ links = LinksOf(records)
    BY DEF IndexExact
  <1>1. \A c \in Calls : Flux(call[c]) = {}
    BY DEF Quiet, Active, Flux
  <1>2. \A i \in Ids : Exact(records, uniq, links, i)
    BY <1>1 DEF ExactInv
  <1>3. \A i, t \in Ids : <<i, t>> \in links <=> records[i] # None /\ records[i].ref = t
    BY <1>2 DEF Exact, LinksSay
  <1>4. links \subseteq Ids \X Ids
    BY DEF BaseInv, TypeOK
  <1>5. links = LinksOf(records)
    BY <1>3, <1>4 DEF LinksOf
  <1>6. QED
    BY <1>2, <1>5 DEF Exact, IndexSays

\* An exact index has one record for each value.
LEMMA UniqueValuesHolds ==
    ASSUME ConstantsAssumption, BaseInv, IndexExact
    PROVE  UniqueValues
  <1> SUFFICES ASSUME Quiet, NEW i \in Ids, NEW j \in Ids, Exists(i), Exists(j), i # j,
                      records[i].val # Null, records[i].val = records[j].val
               PROVE  FALSE
    BY DEF UniqueValues
  <1>1. records[i].val \in Vals
    BY DEF BaseInv, TypeOK, Exists, Data
  <1>2. uniq[records[i].val] = i /\ uniq[records[i].val] = j
    BY <1>1 DEF IndexExact, Exists
  <1>3. QED
    BY <1>2

-----------------------------------------------------------------------------
(* The theorems.                                                           *)

\* The types of RecordStore hold in every behaviour: no id is beyond the last
\* one handed out, and no entry of the tables beyond the ids.
THEOREM TypeCorrect == ASSUME ConstantsAssumption PROVE Spec => []TypeOK
  <1>1. Init => BaseInv
    BY BaseInit
  <1>2. BaseInv /\ [Next]_vars => BaseInv'
    BY BaseNext
  <1>3. BaseInv => TypeOK
    BY DEF BaseInv
  <1>4. QED
    BY <1>1, <1>2, <1>3, PTL DEF Spec

\* ConcurrentSafe holds in every behaviour, for any number of calls at the same
\* time and whatever statements fail: two acknowledged creations never share a
\* value of the unique field although the check and the entry are separate
\* statements (commit_uniqueness), and delete_record leaves no reference to a
\* deleted record although each cascade reads the links at its own time.
THEOREM CallsAreSafe == ASSUME ConstantsAssumption PROVE Spec => []ConcurrentSafe
  <1> DEFINE Inv == BaseInv /\ MakersInv /\ OwnInv /\ CascadeInv
  <1>1. Init => Inv
    BY BaseInit, OwnInit, CascadeInit
  <1>2. Inv /\ [Next]_vars => Inv'
    BY BaseNext, MakersNext, OwnNext, CascadeNext
  <1>3. Inv => ConcurrentSafe
    BY AckedUniqueHolds, NoDanglingHolds DEF ConcurrentSafe
  <1>4. QED
    BY <1>1, <1>2, <1>3, PTL DEF Spec

\* Run one after the other, and if no statement fails, the calls leave the tables
\* exact: between two calls `_unique_values` and `_relations` say what the records
\* say, and no two records share a value of the unique field. So the futures of a
\* call (try_join!) and the statements of a cascade leave nothing behind.
THEOREM TablesAgree ==
    ASSUME ConstantsAssumption, OneByOne
    PROVE  Spec => [](IndexExact /\ UniqueValues)
  <1> DEFINE Inv == BaseInv /\ ExactInv
  <1>1. Init => Inv
    BY BaseInit, ExactInit
  <1>2. Inv /\ [Next]_vars => Inv'
    BY BaseNext, ExactNext
  <1>3. Inv => IndexExact /\ UniqueValues
    BY IndexExactHolds, UniqueValuesHolds
  <1>4. QED
    BY <1>1, <1>2, <1>3, PTL DEF Spec
=============================================================================
