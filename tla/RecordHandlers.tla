-------------------------- MODULE RecordHandlers --------------------------
(***************************************************************************)
(* The record handlers of the API (apexkit-api/src/api/data/records.rs)    *)
(* with the hooks they run (hooks.rs) and the core operation they call     *)
(* (connections/records.rs).  A request is a sequence of awaits and takes  *)
(* no lock, so requests for one record interleave at each of them:         *)
(*   create  policy, before-hook, owner injection, INSERT, event, jobs;    *)
(*   update  read and policy, before-hook, second read, merge, UPDATE,     *)
(*           unique values and relations, event, after-hook, jobs;         *)
(*   delete  read and policy, before-hook, DELETE, clean-up, event.        *)
(* The policy is "owner": the signed-in user must be the record's owner.   *)
(* A mutation of GraphQL (graphql/builder.rs) is the policy and the core   *)
(* operation alone.                                                        *)
(* A record has two fields, owner (auto) and text (vectorized).            *)
(***************************************************************************)
EXTENDS Naturals, FiniteSets

CONSTANTS
    Clients,
    Users,
    HookText,       \* the text a before-hook puts in place of the request's
    Absent,         \* no value for a field in a request
    NoRow,          \* no record
    MaxRecords,     \* bound on the record ids
    MaxCalls        \* bound on the requests

ConstantsAssumption ==
    /\ MaxRecords \in Nat \ {0} /\ MaxCalls \in Nat
    /\ HookText \notin Clients /\ Absent \notin Clients \cup Users \cup {HookText}

Ids == 1..MaxRecords
Fields == {"owner", "text"}
Texts == Clients \cup {HookText}
Data == [owner : Users, text : Texts]
Patch == [owner : Users \cup {Absent}, text : Texts \cup {Absent}]
Set(patch) == {f \in Fields : patch[f] # Absent}

VARIABLES
    rows,       \* the table records
    call,       \* the request of each client
    calls,      \* requests made
    version,    \* commits on each id
    view,       \* each record as a subscriber to the events knows it
    stray,      \* why the last event of an id need not tell its row
    job,        \* text of the last GenerateEmbedding job of each id
    missed,     \* the last text committed has no job, or not the last one
    wrote,      \* the values last sent for the fields of each id
    lost        \* fields whose last value an overtaken update has undone

vars == <<rows, call, calls, version, view, stray, job, missed, wrote, lost>>

NoCall == [step |-> "idle"]
At(c, step) == call[c].step = step
Return(c) == call' = [call EXCEPT ![c] = NoCall]

Init ==
    \E d \in Data :
        /\ rows = [i \in Ids |-> IF i = 1 THEN d ELSE NoRow]
        /\ view = rows
        /\ wrote = [i \in Ids |-> d]
        /\ job = [i \in Ids |-> d.text]
        /\ call = [c \in Clients |-> NoCall]
        /\ calls = 0
        /\ version = [i \in Ids |-> IF i = 1 THEN 1 ELSE 0]
        /\ stray = [i \in Ids |-> {}]
        /\ missed = [i \in Ids |-> {}]
        /\ lost = [i \in Ids |-> {}]

ghosts == <<version, view, stray, job, missed, wrote, lost>>

Before(op) == IF op = "update" THEN "read" ELSE "write"
NewCall(c, via, op, id, u, patch, existing) ==
    [step |-> IF via = "rest" THEN "hook" ELSE Before(op), via |-> via, op |-> op, id |-> id, user |-> u, sent |-> patch, patch |-> patch,
     existing |-> existing, base |-> existing, version |-> 0, overtaken |-> {},
     moved |-> FALSE, void |-> FALSE]

\* check_access with the policy "owner", on the record as it is stored.
\* Mutant: the request's own data is consulted.
MutAllowed(u, existing, patch) == patch.owner = u \/ existing.owner = u
Allowed(u, existing, patch) == existing.owner = u

\* The first half of update_record and delete_record.
Open(c, via, op) ==
    /\ At(c, "idle") /\ calls < MaxCalls
    /\ calls' = calls + 1
    /\ \E id \in Ids, u \in Users, patch \in Patch :
          /\ patch.text \in {c, Absent} /\ Set(patch) # {}
          /\ op = "delete" => Set(patch) = {"text"}
          /\ rows[id] # NoRow /\ Allowed(u, rows[id], patch)
          /\ call' = [call EXCEPT ![c] = NewCall(c, via, op, id, u, patch, rows[id])]
    /\ UNCHANGED <<rows, ghosts>>

\* create_record: any signed-in user; the id is the database's.
OpenCreate(c, via) ==
    /\ At(c, "idle") /\ calls < MaxCalls
    /\ calls' = calls + 1
    /\ \E u \in Users : call' = [call EXCEPT
          ![c] = NewCall(c, via, "create", 0, u, [owner |-> Absent, text |-> c], NoRow)]
    /\ UNCHANGED <<rows, ghosts>>

UpdateMutation(c) == Open(c, "graphql", "update")
DeleteMutation(c) == Open(c, "graphql", "delete")
CreateMutation(c) == OpenCreate(c, "graphql")

\* trigger_hooks before the operation: no script, a script that returns other
\* data, or one that fails and ends the request.
BeforeHook(c) ==
    /\ At(c, "hook")
    /\ \/ call' = [call EXCEPT ![c].step = Before(call[c].op)]
       \/ /\ call[c].op # "delete"
          /\ call' = [call EXCEPT ![c].step = Before(call[c].op),
                                  ![c].patch.text = HookText]
       \/ Return(c)
    /\ UNCHANGED <<rows, calls, ghosts>>

\* The row an update merges into.
\* Mutant: the one the handler read for the policy.
MutRowToMerge(existing, row) == existing
RowToMerge(existing, row) == row

ReadBase(c) ==
    LET row == rows[call[c].id] IN
    /\ At(c, "read")
    /\ IF row = NoRow
         THEN Return(c)
         ELSE call' = [call EXCEPT ![c].step = "write", ![c].base = RowToMerge(call[c].existing, row),
                                   ![c].overtaken = {}]
    /\ UNCHANGED <<rows, calls, ghosts>>

Merge(base, patch) == [f \in Fields |-> IF patch[f] = Absent THEN base[f] ELSE patch[f]]

\* What a commit on record id does to the other requests' knowledge of it.
Overtake(c, id, fields, owner, after) ==
    [x \in Clients |->
        IF x = c THEN after
        ELSE IF At(x, "idle") \/ call[x].id # id THEN call[x]
        ELSE [call[x] EXCEPT !.overtaken = @ \cup fields, !.moved = @ \/ owner]]

\* sanitize_and_validate or enforce_uniqueness refuses.
Refuse(c) ==
    /\ At(c, "write") /\ call[c].op # "delete"
    /\ Return(c)
    /\ UNCHANGED <<rows, calls, ghosts>>

\* inject_auto_fields: the owner, where the request gives none.
Injected(patch, u) == [patch EXCEPT !.owner = IF @ = Absent THEN u ELSE @]

Insert(c) ==
    LET data == Injected(call[c].patch, call[c].user) IN
    /\ At(c, "write") /\ call[c].op = "create"
    /\ \E id \in Ids :
          /\ version[id] = 0 /\ \A i \in 1..(id - 1) : version[i] > 0
          /\ rows' = [rows EXCEPT ![id] = data]
          /\ version' = [version EXCEPT ![id] = 1]
          /\ wrote' = [wrote EXCEPT ![id] = data]
          /\ call' = [call EXCEPT ![c].step = "settle", ![c].id = id, ![c].version = 1,
                                  ![c].patch = data, ![c].base = data]
    /\ UNCHANGED <<calls, view, stray, job, missed, lost>>

\* The UPDATE touches no row when the record has been deleted: no error.
Update(c) ==
    LET k == call[c]  id == k.id  data == Merge(k.base, k.patch)  found == rows[id] # NoRow
        n == version[id] + (IF found THEN 1 ELSE 0) IN
    /\ At(c, "write") /\ k.op = "update"
    /\ rows' = [rows EXCEPT ![id] = IF found THEN data ELSE NoRow]
    /\ version' = [version EXCEPT ![id] = n]
    /\ call' = Overtake(c, id, IF found THEN Set(k.patch) ELSE {}, found /\ data.owner # rows[id].owner,
                        [k EXCEPT !.step = "settle", !.base = data, !.version = n, !.void = ~found])
    /\ wrote' = [wrote EXCEPT ![id] = Merge(@, k.patch)]
    /\ lost' = [lost EXCEPT ![id] = (@ \cup k.overtaken) \ Set(k.patch)]
    /\ UNCHANGED <<calls, view, stray, job, missed>>

\* delete_record: the first DELETE of the cascade is the record's.
Delete(c) ==
    LET id == call[c].id  n == version[id] + 1 IN
    /\ At(c, "write") /\ call[c].op = "delete"
    /\ rows' = [rows EXCEPT ![id] = NoRow]
    /\ version' = [version EXCEPT ![id] = n]
    /\ call' = Overtake(c, id, Fields, TRUE, [call[c] EXCEPT !.step = "settle", !.version = n])
    /\ UNCHANGED <<calls, view, stray, job, missed, wrote, lost>>

\* commit_uniqueness and sync_relations, or the rest of a deletion.  Where one
\* fails the client gets an error and nothing more happens: the row stays.
\* A mutation of GraphQL ends here, too: it has no event, no hook and no job.
Settle(c) ==
    LET id == call[c].id IN
    /\ At(c, "settle")
    /\ \/ /\ call[c].via = "rest"
          /\ call' = [call EXCEPT ![c].step = "send"]
          /\ UNCHANGED <<stray, missed>>
       \/ /\ Return(c)
          /\ \E why \in {"failed"} \cup ({call[c].via} \cap {"graphql"}) :
                /\ stray' = [stray EXCEPT ![id] = @ \cup {why}]
                /\ missed' = [missed EXCEPT ![id] = @ \cup {why}]
    /\ UNCHANGED <<rows, calls, version, view, job, wrote, lost>>

\* The data of the event: of an update, the merged record.
\* Mutant: only what the request changed.
MutTold(k) == k.patch
Told(k) == IF k.op = "delete" THEN NoRow ELSE k.base

\* state.tx.send
Send(c) ==
    LET k == call[c]  id == k.id IN
    /\ At(c, "send")
    /\ view' = [view EXCEPT ![id] = Told(k)]
    /\ stray' = [stray EXCEPT ![id] =
          IF k.void THEN {"void"}
          ELSE IF k.version = version[id] THEN {}
          ELSE @ \cup {"late"}]
    /\ call' = [call EXCEPT ![c].step = "jobs"]
    /\ UNCHANGED <<rows, calls, version, job, missed, wrote, lost>>

\* The text of the job is the one of data_updates.
\* Mutant: of the request, which the hook may have changed.
MutContent(k) == k.sent.text
Content(k) == k.patch.text

\* After-hooks (their errors are ignored) and the embedding job of the field.
Finish(c) ==
    LET k == call[c]  id == k.id IN
    /\ At(c, "jobs")
    /\ Return(c)
    /\ IF k.op = "delete" \/ Content(k) = Absent
         THEN UNCHANGED <<job, missed>>
         ELSE /\ job' = [job EXCEPT ![id] = Content(k)]
              /\ missed' = [missed EXCEPT ![id] = IF k.version = version[id] THEN {} ELSE @ \cup {"late"}]
    /\ UNCHANGED <<rows, calls, version, view, stray, wrote, lost>>

Next == \E c \in Clients :
    \/ Open(c, "rest", "update") \/ Open(c, "rest", "delete") \/ OpenCreate(c, "rest")
    \/ UpdateMutation(c) \/ DeleteMutation(c) \/ CreateMutation(c)
    \/ BeforeHook(c) \/ ReadBase(c) \/ Refuse(c)
    \/ Insert(c) \/ Update(c) \/ Delete(c)
    \/ Settle(c) \/ Send(c) \/ Finish(c)

Spec == Init /\ [][Next]_vars

-----------------------------------------------------------------------------
TypeOK ==
    /\ rows \in [Ids -> Data \cup {NoRow}] /\ view \in [Ids -> Data \cup {NoRow}]
    /\ calls \in 0..MaxCalls /\ version \in [Ids -> 0..(MaxCalls + 1)]
    /\ wrote \in [Ids -> Data] /\ lost \in [Ids -> SUBSET Fields]
    /\ \A c \in Clients : ~At(c, "idle") => call[c].patch \in Patch

\* Nobody is between the commit and the event of record id.
Quiet(id) == \A c \in Clients : call[c].step \in {"settle", "send"} => call[c].id # id
Idle(id) == \A c \in Clients : call[c].step \in {"settle", "send", "jobs"} => call[c].id # id

\* LostExplained: a stored field has the value last sent for it, unless an
\* update that does not name the field read the row before that value and was
\* written after it: no other step of a handler or hook undoes a write.
LostExplained == \A id \in Ids : rows[id] # NoRow =>
    \A f \in Fields : rows[id][f] = wrote[id][f] \/ f \in lost[id]

\* EventsMatch: what a subscriber knows of a record is what is stored, unless
\* two commits sent their events in the other order, a request failed after
\* its commit, an update met a deletion, or the write was a GraphQL mutation.
EventsMatch == \A id \in Ids : Quiet(id) /\ stray[id] = {} => view[id] = rows[id]

\* JobsMatch: the text last queued for embedding is the text stored, unless an
\* update was overtaken, came late, failed after its commit or was a mutation.
JobsMatch == \A id \in Ids :
    rows[id] # NoRow /\ Idle(id) /\ missed[id] = {} /\ "text" \notin lost[id]
        => job[id] = rows[id].text \/ version[id] = 0

Commits(c) == At(c, "write") /\ call[c].op # "create" /\ call'[c].step = "settle"

\* PolicyHeld: a write or deletion meets a record of the user who asked for it,
\* unless the record has changed hands since the policy was checked.
PolicyHeldStep ==
    \A c \in Clients : Commits(c) /\ rows[call[c].id] # NoRow =>
        rows[call[c].id].owner = call[c].user \/ call[c].moved

PolicyHeld == [][PolicyHeldStep]_vars
=============================================================================
