------------------------- MODULE RecordCacheProofs -------------------------
(***************************************************************************)
(* What holds of RecordCache for every set of handlers and records, every  *)
(* cascade and every number of writes.                                     *)
(***************************************************************************)
EXTENDS RecordCache, TLAPS

-----------------------------------------------------------------------------
(* Every variable has its type, and only a replica has changesets to apply. *)

LEMMA InitType == Init => TypeOK
<1> SUFFICES ASSUME Init PROVE TypeOK
  OBVIOUS
<1> USE ConstantsAssumption
<1>1. NoCall \in Calls /\ NoCall.step = "idle"
  BY DEF NoCall, Calls, Versions, Steps, AllOps
<1>2. CallOK
  BY <1>1 DEF Init, CallOK
<1>3. 0 \in Contents /\ None \in Versions /\ 0 \in Versions
  BY DEF Versions, Contents
<1>4. RowsOK
  BY <1>3 DEF Init, RowsOK
<1>5. ReplicaOK
  BY DEF Init, ReplicaOK
<1> QED BY <1>2, <1>4, <1>5 DEF TypeOK

\* A handler that goes on keeps the type of its call.
LEMMA GotoType ==
    ASSUME CallOK, NEW c \in Clients, NEW s \in Steps, Goto(c, s),
           call[c].id \in Ids
    PROVE  CallOK'
  BY DEF CallOK, Calls, Goto

LEMMA ReturnType ==
    ASSUME CallOK, NEW c \in Clients, Return(c)
    PROVE  CallOK'
<1>1. NoCall \in Calls /\ NoCall.step = "idle"
  BY ConstantsAssumption DEF NoCall, Calls, Versions, Steps, AllOps
<1> QED BY <1>1 DEF CallOK, Return

LEMMA FoundType ==
    ASSUME CallOK, NEW c \in Clients, Found(c), call[c].id \in Ids
    PROVE  CallOK'
<1> USE ConstantsAssumption
<1>0. call[c] \in Calls
  BY DEF CallOK
<1>1. CASE call[c].op = "get"
  BY <1>1, ReturnType DEF Found
<1>2. CASE call[c].op = "update"
  BY <1>0, <1>2 DEF Found, CallOK, Calls, Versions, Steps
<1>3. CASE call[c].op = "delete"
  BY <1>0, <1>3 DEF Found, CallOK, Calls, Versions, Steps
<1> QED BY <1>1, <1>2, <1>3 DEF Found

\* A step of a handler that leaves the rows alone.
LEMMA ReadType ==
    ASSUME TypeOK, NEW c \in Clients,
           LookupHit(c) \/ LookupMiss(c) \/ Fill(c) \/ Check(c)
             \/ Rest(c) \/ Refused(c) \/ Invalidate(c)
    PROVE  TypeOK'
<1> USE ConstantsAssumption
<1>0. /\ CallOK /\ RowsOK /\ ReplicaOK
      /\ call[c] \in Calls
      /\ call[c].step # "idle" => call[c].id \in Ids
  BY DEF TypeOK, CallOK
<1>1. ReplicaOK'
  BY <1>0 DEF ReplicaOK, file, LookupHit, LookupMiss, Fill, Check, Rest, Refused, Invalidate
<1>2. CallOK'
  <2>1. CASE LookupHit(c)
    BY <1>0, <2>1, FoundType DEF LookupHit, At
  <2>2. CASE LookupMiss(c)
    <3>1. CASE rows[call[c].id] = None
      BY <1>0, <2>2, <3>1, ReturnType DEF LookupMiss
    <3>2. CASE rows[call[c].id] # None
      <4>1. call[c].id \in Ids /\ rows[call[c].id] \in Versions
        BY <1>0, <2>2 DEF LookupMiss, At, RowsOK
      <4>2. call' = [call EXCEPT ![c].step = "fill", ![c].seen = rows[call[c].id]]
        BY <2>2, <3>2 DEF LookupMiss
      <4> QED BY <1>0, <4>1, <4>2 DEF CallOK, Calls, Steps
    <3> QED BY <3>1, <3>2
  <2>3. CASE Fill(c)
    BY <1>0, <2>3, FoundType DEF Fill, At
  <2>4. CASE Check(c)
    BY <1>0, <2>4, ReturnType, GotoType DEF Check, At, Steps
  <2>5. CASE Rest(c)
    BY <1>0, <2>5, GotoType DEF Rest, AfterRest, At, Steps
  <2>6. CASE Refused(c)
    BY <1>0, <2>6, ReturnType, GotoType DEF Refused, At, Steps
  <2>7. CASE Invalidate(c)
    BY <1>0, <2>7, ReturnType DEF Invalidate
  <2> QED BY <2>1, <2>2, <2>3, <2>4, <2>5, <2>6, <2>7
<1>3. RowsOK'
  <2>1. CASE LookupHit(c) \/ LookupMiss(c) \/ Check(c) \/ Rest(c)
    BY <1>0, <2>1 DEF RowsOK, LookupHit, LookupMiss, Check, Rest, file
  <2>2. CASE Fill(c)
    <3>1. call[c].id \in Ids /\ call[c].seen \in Versions
      BY <1>0, <2>2 DEF Fill, At, Calls
    <3> QED BY <1>0, <2>2, <3>1 DEF RowsOK, Fill, file
  <2>3. CASE Refused(c)
    BY <1>0, <2>3 DEF RowsOK, Refused, At, file
  <2>4. CASE Invalidate(c)
    BY <1>0, <2>4 DEF RowsOK, Invalidate, At, file, Versions
  <2> QED BY <2>1, <2>2, <2>3, <2>4
<1> QED BY <1>1, <1>2, <1>3 DEF TypeOK

\* A statement keeps the types of the rows.
LEMMA CommitType ==
    ASSUME RowsOK, ReplicaOK, NEW i \in Ids, NEW v \in Versions, Commit(i, v)
    PROVE  /\ rows' \in [Ids -> Versions]
           /\ stream' \in Seq(Changes)
           /\ stream' # <<>> => stream # <<>> \/ replica
<1>1. CASE replica
  <2>1. [id |-> i, content |-> v] \in Changes
    BY DEF Changes
  <2> QED BY <1>1, <2>1 DEF Commit, RowsOK
<1>2. CASE ~replica
  BY <1>2 DEF Commit, RowsOK
<1> QED BY <1>1, <1>2

\* A statement of a handler.
LEMMA WriteType ==
    ASSUME TypeOK, NEW c \in Clients,
           Update(c) \/ Import(c) \/ (\E i \in Ids : Delete(c, i))
    PROVE  TypeOK'
<1> USE ConstantsAssumption
<1>0. /\ CallOK /\ RowsOK /\ ReplicaOK
      /\ call[c] \in Calls
      /\ call[c].step # "idle" => call[c].id \in Ids
  BY DEF TypeOK, CallOK
<1>1. /\ None \in Versions
      /\ writes < MaxWrites => writes + 1 \in Contents /\ writes + 1 \in Versions
  BY <1>0 DEF Versions, Contents, RowsOK
<1>2. CASE Update(c)
  <2>0. call[c].id \in Ids /\ writes' \in Contents /\ writes' \in Versions
    BY <1>0, <1>1, <1>2 DEF Update, At
  <2>1. CallOK'
    BY <1>0, <1>2, <2>0, GotoType DEF Update, Steps
  <2>2. /\ rows' \in [Ids -> Versions] /\ stream' \in Seq(Changes)
        /\ stream' # <<>> => stream # <<>> \/ replica
    BY <1>0, <1>2, <2>0, CommitType DEF Update, RowsOK
  <2> QED BY <1>0, <1>2, <2>0, <2>1, <2>2 DEF Update, TypeOK, RowsOK, ReplicaOK
<1>3. CASE Import(c)
  <2>0. call[c].id \in Ids /\ writes' \in Contents /\ writes' \in Versions
    BY <1>0, <1>1, <1>3 DEF Import, At
  <2>1. CallOK'
    BY <1>0, <1>3, <2>0, GotoType DEF Import, Steps
  <2>2. /\ rows' \in [Ids -> Versions] /\ stream' \in Seq(Changes)
        /\ stream' # <<>> => stream # <<>> \/ replica
    BY <1>0, <1>3, <2>0, CommitType DEF Import, RowsOK
  <2> QED BY <1>0, <1>3, <2>0, <2>1, <2>2 DEF Import, TypeOK, RowsOK, ReplicaOK
<1>4. ASSUME NEW i \in Ids, Delete(c, i) PROVE TypeOK'
  <2>0. call[c].id \in Ids
    BY <1>0, <1>4 DEF Delete, At
  <2>1. CallOK'
    BY <1>0, <1>4, <2>0 DEF Delete, CallOK, Calls, Steps
  <2>2. /\ rows' \in [Ids -> Versions] /\ stream' \in Seq(Changes)
        /\ stream' # <<>> => stream # <<>> \/ replica
    BY <1>0, <1>1, <1>4, CommitType DEF Delete, RowsOK
  <2> QED BY <1>0, <1>4, <2>1, <2>2 DEF Delete, TypeOK, RowsOK, ReplicaOK
<1> QED BY <1>2, <1>3, <1>4

LEMMA NextType == TypeOK /\ [Next]_vars => TypeOK'
<1> SUFFICES ASSUME TypeOK, [Next]_vars PROVE TypeOK'
  OBVIOUS
<1> USE ConstantsAssumption
<1>0. CallOK /\ RowsOK /\ ReplicaOK
  BY DEF TypeOK
<1>1. ASSUME NEW c \in Clients, NEW op \in AllOps, NEW i \in Ids, Begin(c, op, i)
      PROVE  TypeOK'
  <2>1. [NoCall EXCEPT !.step = IF op = "import" THEN "write" ELSE "lookup",
                       !.op = op, !.id = i] \in Calls
    BY DEF NoCall, Calls, Versions, Steps, AllOps
  <2>2. CallOK'
    BY <1>0, <1>1, <2>1 DEF Begin, CallOK, Calls
  <2>3. RowsOK' /\ ReplicaOK'
    BY <1>0, <1>1 DEF Begin, RowsOK, ReplicaOK, file
  <2> QED BY <2>2, <2>3 DEF TypeOK
<1>2. ASSUME NEW c \in Clients, Handler(c) PROVE TypeOK'
  BY <1>2, ReadType, WriteType DEF Handler
<1>3. ASSUME NEW i \in Ids, Expire(i) PROVE TypeOK'
  BY <1>0, <1>3 DEF Expire, TypeOK, CallOK, RowsOK, ReplicaOK, file, Versions
<1>4. ASSUME NEW i \in Ids, Foreign(i) PROVE TypeOK'
  <2>1. writes' \in Contents /\ writes' \in Versions
    BY <1>0, <1>4 DEF Foreign, RowsOK, Contents, Versions
  <2>2. /\ rows' \in [Ids -> Versions] /\ stream' \in Seq(Changes)
    BY <1>0, <1>4, <2>1, CommitType DEF Foreign
  <2> QED
    BY <1>0, <1>4, <2>1, <2>2 DEF Foreign, TypeOK, CallOK, RowsOK, ReplicaOK, server
<1>5. CASE Apply
  <2>1. Head(stream) \in Changes /\ Tail(stream) \in Seq(Changes) /\ replica
    BY <1>0, <1>5 DEF Apply, RowsOK, ReplicaOK
  <2> QED
    BY <1>0, <1>5, <2>1 DEF Apply, TypeOK, CallOK, RowsOK, ReplicaOK, server, Changes
<1>6. CASE Reload
  BY <1>0, <1>6 DEF Reload, TypeOK, CallOK, RowsOK, ReplicaOK, Versions
<1>7. CASE UNCHANGED vars
  BY <1>0, <1>7 DEF vars, server, file, TypeOK, CallOK, RowsOK, ReplicaOK
<1> QED BY <1>1, <1>2, <1>3, <1>4, <1>5, <1>6, <1>7 DEF Next

\* TypeOK: the handlers, the rows with their copies and the changesets of a
\* replica have the types that CachedDb and the handlers give them.
THEOREM TypeCorrect == Spec => []TypeOK
BY InitType, NextType, PTL DEF Spec

-----------------------------------------------------------------------------
(* The cache holds nothing old without a reason.                           *)

WritingSteps == {"write", "rest", "invalidate"}

\* A write of another handler goes on.
LEMMA OthersWrite ==
    ASSUME NEW c \in Clients, NEW i, Writing(i),
           \A d \in Clients \ {c} : call'[d] = call[d],
           call[c].id # i \/ call[c].step \notin WritingSteps
    PROVE  Writing(i)'
  BY DEF Writing, WritingSteps

\* A step of handler c changes the state of no other.
LEMMA OthersStay ==
    ASSUME CallOK, NEW c \in Clients,
           Handler(c) \/ (\E op \in AllOps, i \in Ids : Begin(c, op, i))
    PROVE  \A d \in Clients \ {c} : call'[d] = call[d]
  BY DEF CallOK, Handler, Begin, LookupHit, LookupMiss, Fill, Check, Update, Import,
         Delete, Rest, AfterRest, Refused, Invalidate, Found, Goto, Return

\* Every way in which an entry and its row part leaves a reason behind: with
\* the types, the statement is inductive as it stands.
LEMMA NextExplained ==
    TypeOK /\ CacheExplained /\ [Next]_vars => CacheExplained'
<1> SUFFICES ASSUME TypeOK, CacheExplained, [Next]_vars,
                    NEW i \in Ids, cache'[i] # None, cache'[i] # rows'[i]
             PROVE  i \in late' \/ Writing(i)' \/ applied'
  BY DEF CacheExplained
<1> USE DEF WritingSteps
<1>0. /\ CallOK /\ RowsOK /\ ReplicaOK
      /\ cache[i] # None /\ cache[i] # rows[i] => i \in late \/ Writing(i) \/ applied
  BY DEF TypeOK, CacheExplained
\* Nothing but the state of one handler has changed.
<1>1. ASSUME NEW c \in Clients, \A d \in Clients \ {c} : call'[d] = call[d],
             cache'[i] = cache[i], rows'[i] = rows[i], i \in late => i \in late',
             applied' = applied,
             call[c].id # i \/ call[c].step \notin WritingSteps
      PROVE  i \in late' \/ Writing(i)' \/ applied'
  BY <1>0, <1>1, OthersWrite
<1>2. ASSUME NEW c \in Clients, NEW op \in AllOps, NEW j \in Ids, Begin(c, op, j)
      PROVE  i \in late' \/ Writing(i)' \/ applied'
  BY <1>0, <1>1, <1>2, OthersStay DEF Begin, At, file
<1>3. ASSUME NEW c \in Clients, Handler(c)
      PROVE  i \in late' \/ Writing(i)' \/ applied'
  <2>0. /\ \A d \in Clients \ {c} : call'[d] = call[d]
        /\ call[c] \in Calls
        /\ call[c].step # "idle" => call[c].id \in Ids
    BY <1>0, <1>3, OthersStay DEF CallOK
  <2>1. CASE LookupHit(c) \/ LookupMiss(c) \/ Check(c)
    BY <1>1, <2>0, <2>1 DEF LookupHit, LookupMiss, Check, At, file
  <2>2. CASE Fill(c)
    <3>1. CASE i = call[c].id
      BY <1>0, <2>2, <3>1 DEF Fill, RowsOK, file
    <3>2. CASE i # call[c].id
      BY <1>0, <1>1, <2>0, <2>2, <3>2 DEF Fill, RowsOK, At, file
    <3> QED BY <3>1, <3>2
  <2>3. CASE Update(c) \/ Import(c)
    <3>1. CASE i = call[c].id
      BY <1>0, <2>0, <2>3, <3>1 DEF Update, Import, Goto, Writing, CallOK, Calls
    <3>2. CASE i # call[c].id
      BY <1>0, <1>1, <2>0, <2>3, <3>2 DEF Update, Import, Commit, RowsOK
    <3> QED BY <3>1, <3>2
  <2>4. ASSUME NEW j \in Ids, Delete(c, j)
        PROVE  i \in late' \/ Writing(i)' \/ applied'
    <3>1. CASE i = call[c].id
      BY <1>0, <2>0, <2>4, <3>1 DEF Delete, Writing, CallOK, Calls
    <3>2. CASE i # call[c].id /\ (i # j \/ rows' = rows)
      BY <1>0, <1>1, <2>0, <2>4, <3>2 DEF Delete, Commit, RowsOK
    <3>3. CASE i # call[c].id /\ i = j /\ rows' # rows
      BY <2>4, <3>3 DEF Delete
    <3> QED BY <3>1, <3>2, <3>3
  <2>5. CASE Rest(c)
    <3>1. CASE i = call[c].id
      BY <1>0, <2>0, <2>5, <3>1 DEF Rest, AfterRest, Goto, Writing, CallOK, Calls
    <3>2. CASE i # call[c].id
      BY <1>1, <2>0, <2>5, <3>2 DEF Rest, file
    <3> QED BY <3>1, <3>2
  <2>6. CASE Refused(c)
    <3>1. CASE i = call[c].id
      BY <2>6, <3>1 DEF Refused, file
    <3>2. CASE i # call[c].id
      BY <1>1, <2>0, <2>6, <3>2 DEF Refused, file
    <3> QED BY <3>1, <3>2
  <2>7. CASE Invalidate(c)
    <3>1. i # call[c].id
      BY <1>0, <2>7 DEF Invalidate, RowsOK
    <3> QED BY <1>0, <1>1, <2>0, <2>7, <3>1 DEF Invalidate, RowsOK, file
  <2> QED BY <1>3, <2>1, <2>2, <2>3, <2>4, <2>5, <2>6, <2>7 DEF Handler
<1>4. ASSUME NEW j \in Ids, Expire(j)
      PROVE  i \in late' \/ Writing(i)' \/ applied'
  BY <1>0, <1>4 DEF Expire, RowsOK, Writing, file
<1>5. ASSUME NEW j \in Ids, Foreign(j)
      PROVE  i \in late' \/ Writing(i)' \/ applied'
  BY <1>0, <1>5 DEF Foreign, Commit, Writing, server
<1>6. CASE Apply
  BY <1>6 DEF Apply
<1>7. CASE Reload
  BY <1>0, <1>7 DEF Reload, RowsOK
<1>8. CASE UNCHANGED vars
  BY <1>0, <1>8 DEF vars, server, file, Writing
<1> QED BY <1>2, <1>3, <1>4, <1>5, <1>6, <1>7, <1>8 DEF Next

\* CacheExplained: an old record stays in the cache only for a reason that the
\* definition of `late` names, while its write is finishing, or while a
\* changeset is being applied.
THEOREM CacheIsExplained == Spec => []CacheExplained
<1>1. Init => CacheExplained
  BY DEF Init, CacheExplained
<1> QED BY <1>1, NextExplained, TypeCorrect, PTL DEF Spec
=============================================================================
