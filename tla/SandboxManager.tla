--------------------------- MODULE SandboxManager ---------------------------
(***************************************************************************)
(* The sandboxes of one tenant: SandboxManager                             *)
(* (apexkit-api/src/workspaces_manager/sandbox.rs), the handlers of        *)
(* api/workspace/sandbox.rs and the scripts' admin API.                    *)
(*                                                                         *)
(* A sandbox is a row in _sandboxes of the root database, a directory and  *)
(* a cached context.  The handler that creates one counts the rows first   *)
(* and registers last; the files of a sandbox that ends are removed by a   *)
(* task of its own.                                                        *)
(*                                                                         *)
(* What the databases hold is left out: the clone task has a module of its *)
(* own (SandboxClone), and a publication writes to the parent only.        *)
(***************************************************************************)
EXTENDS Naturals, FiniteSets

CONSTANTS
    Clients,
    Sandboxes,  \* ids; a creation of the API draws a new one (a UUID)
    Scripted,   \* ids that the scripts' API creates, too
    Visited,    \* ids that get requests
    MaxDirs,    \* bound on the directories made for one id
    Limit,      \* max_sandboxes: 3 in the code
    Faults,     \* subset of FaultKinds
    None

\* size - a full copy exceeds max_sandbox_storage_mb
\* sql  - the metadata of a published sandbox cannot be deleted
FaultKinds == {"size", "sql"}

ConstantsAssumption ==
    /\ Scripted \subseteq Sandboxes /\ Visited \subseteq Sandboxes
    /\ {Limit, MaxDirs} \subseteq Nat \ {0}
    /\ Faults \subseteq FaultKinds
    /\ None \notin Sandboxes

VARIABLES
    rows,       \* the registered sandboxes
    used,       \* number of directories made for an id so far
    dir,        \* the directory that exists, 0 when there is none
    cache,      \* the cached context: the directory it has open, 0 when none
    late,       \* the cached context was loaded while its sandbox was removed
    cleanup,    \* the task of cleanup_sandbox: "none", "invalidate" or "remove"
    call,       \* what each client is doing
    \* history, read by the properties only
    wiped       \* sandboxes whose files went while they stayed registered

files == <<used, dir>>
context == <<cache, late>>
vars == <<rows, files, context, cleanup, call, wiped>>

NoCall == [step |-> "idle", op |-> "get", id |-> None, late |-> FALSE,
           raced |-> FALSE, ctx |-> 0]
Steps == {"idle", "make", "get", "insert", "register", "owned", "unregister"}

Init ==
    /\ rows = {}
    /\ used = [s \in Sandboxes |-> 0]
    /\ dir = [s \in Sandboxes |-> 0]
    /\ cache = [s \in Sandboxes |-> 0]
    /\ late = [s \in Sandboxes |-> FALSE]
    /\ cleanup = [s \in Sandboxes |-> "none"]
    /\ call = [c \in Clients |-> NoCall]
    /\ wiped = {}

At(c, step) == call[c].step = step
Goto(c, step) == call' = [call EXCEPT ![c].step = step]
Return(c) == call' = [call EXCEPT ![c] = NoCall]
Begin(c, s, op, step) ==
    /\ At(c, "idle")
    /\ call' = [call EXCEPT ![c] = [NoCall EXCEPT !.step = step, !.op = op, !.id = s]]

-----------------------------------------------------------------------------
(* create_sandbox_handler and create_sandbox                               *)

\* Mutant: one sandbox too many.
MutBelowLimit(n) == n <= Limit
\* The rows are counted before anything is made, and registered at the end.
BelowLimit(n) == n < Limit

Fresh(s) == used[s] = 0 /\ \A c \in Clients : call[c].id # s

\* Nobody has the id before the creation has answered.
Known(s) ==
    /\ used[s] # 0
    /\ \A c \in Clients : ~(call[c].op = "create" /\ call[c].id = s)

Create(c, s) ==
    /\ Fresh(s)
    /\ BelowLimit(Cardinality(rows))
    /\ Begin(c, s, "create", "make")
    /\ UNCHANGED <<rows, files, context, cleanup, wiped>>

\* admin_create_sandbox: no limit, no row, any id.
ScriptCreate(c, s) ==
    /\ s \in Scripted /\ (Fresh(s) \/ Known(s))
    /\ Begin(c, s, "script", "make")
    /\ UNCHANGED <<rows, files, context, cleanup, wiped>>

\* A directory that is there is removed, and a new one made; the cache is not
\* told.  A full copy may be refused for its size.
Make(c) ==
    LET s == call[c].id IN
    /\ At(c, "make") /\ used[s] < MaxDirs
    /\ used' = [used EXCEPT ![s] = @ + 1]
    /\ \/ /\ "size" \in Faults
          /\ dir' = [dir EXCEPT ![s] = 0]
          /\ wiped' = wiped \cup (rows \cap {s})
          /\ Return(c)
       \/ /\ dir' = [dir EXCEPT ![s] = used'[s]]
          /\ Goto(c, "get")
          /\ UNCHANGED wiped
    /\ UNCHANGED <<rows, context, cleanup>>

\* Creations that are under way have counted without this one.
Register(c) ==
    /\ At(c, "register")
    /\ rows' = rows \cup {call[c].id}
    /\ call' = [d \in Clients |->
                   IF d = c THEN NoCall
                   ELSE IF call[d].op = "create" THEN [call[d] EXCEPT !.raced = TRUE]
                   ELSE call[d]]
    /\ UNCHANGED <<files, context, cleanup, wiped>>

-----------------------------------------------------------------------------
(* get_sandbox, for requests, for create and for publish.                  *)

\* A request, and the creation of a script, is done here as far as the manager
\* goes; the manifest of a publication goes to the parent before its row goes.
WithContext(c, n) ==
    CASE call[c].op = "create" -> call' = [call EXCEPT ![c].step = "register", ![c].ctx = n]
      [] call[c].op = "publish" -> call' = [call EXCEPT ![c].step = "unregister", ![c].ctx = 0]
      [] OTHER -> Return(c)

Get(c) ==
    LET s == call[c].id IN
    /\ At(c, "get")
    /\ IF cache[s] # 0 THEN WithContext(c, cache[s])
       ELSE IF dir[s] = 0 THEN Return(c)
       ELSE call' = [call EXCEPT ![c].step = "insert", ![c].ctx = dir[s]]
    /\ UNCHANGED <<rows, files, context, cleanup, wiped>>

Insert(c) ==
    LET s == call[c].id IN
    /\ At(c, "insert")
    /\ cache' = [cache EXCEPT ![s] = call[c].ctx]
    /\ late' = [late EXCEPT ![s] = call[c].late \/ cleanup[s] = "remove"]
    /\ WithContext(c, call[c].ctx)
    /\ UNCHANGED <<rows, files, cleanup, wiped>>

\* sandbox_lifecycle_middleware asks for no row.
Request(c, s) ==
    /\ s \in Visited /\ Known(s)
    /\ Begin(c, s, "get", "get")
    /\ UNCHANGED <<rows, files, context, cleanup, wiped>>

\* Idle for three minutes, one of more than 100, or trigger_scope_reload.
Evict(s) ==
    /\ cache[s] # 0
    /\ cache' = [cache EXCEPT ![s] = 0]
    /\ late' = [late EXCEPT ![s] = FALSE]
    /\ UNCHANGED <<rows, files, cleanup, call, wiped>>

-----------------------------------------------------------------------------
(* delete, publish, update, and the task they spawn.                       *)

\* The owned sandboxes are listed first.
Own(c, s, op) ==
    /\ s \in rows
    /\ Begin(c, s, op, "owned")
    /\ UNCHANGED <<rows, files, context, cleanup, wiped>>

\* Mutant: the row is left to the task.
MutUnregistered(s) == rows
Unregistered(s) == rows \ {s}

StartCleanup(s) == cleanup' = [cleanup EXCEPT ![s] = IF @ = "none" THEN "invalidate" ELSE @]

DeleteOwned(c) ==
    LET s == call[c].id IN
    /\ At(c, "owned") /\ call[c].op = "delete"
    /\ rows' = Unregistered(s)
    /\ StartCleanup(s)
    /\ Return(c)
    /\ UNCHANGED <<files, context, wiped>>

\* admin_delete_sandbox asks nobody.
ScriptDelete(c, s) ==
    /\ At(c, "idle") /\ Known(s)
    /\ rows' = Unregistered(s)
    /\ StartCleanup(s)
    /\ UNCHANGED <<files, context, call, wiped>>

\* admin_update_sandbox updates the row and calls cleanup_sandbox, which
\* removes the files.
ScriptUpdate(c, s) ==
    /\ At(c, "idle") /\ s \in rows
    /\ StartCleanup(s)
    /\ wiped' = wiped \cup {s}
    /\ UNCHANGED <<rows, files, context, call>>

PublishOwned(c) ==
    /\ At(c, "owned") /\ call[c].op = "publish"
    /\ Goto(c, "get")
    /\ UNCHANGED <<rows, files, context, cleanup, wiped>>

\* A failure to delete the row is ignored.
Unregister(c) ==
    LET s == call[c].id IN
    /\ At(c, "unregister")
    /\ \/ rows' = Unregistered(s) /\ UNCHANGED wiped
       \/ /\ "sql" \in Faults
          /\ wiped' = wiped \cup {s}
          /\ UNCHANGED rows
    /\ StartCleanup(s)
    /\ Return(c)
    /\ UNCHANGED <<files, context>>

Marked(s) ==
    [c \in Clients |-> IF call[c].id = s THEN [call[c] EXCEPT !.late = TRUE] ELSE call[c]]

\* Mutant: the context stays.
MutInvalidated(s) == cache[s]
Invalidated(s) == 0

Invalidate(s) ==
    /\ cleanup[s] = "invalidate"
    /\ cleanup' = [cleanup EXCEPT ![s] = "remove"]
    /\ cache' = [cache EXCEPT ![s] = Invalidated(s)]
    /\ late' = [late EXCEPT ![s] = FALSE]
    /\ call' = Marked(s)
    /\ UNCHANGED <<rows, files, wiped>>

Remove(s) ==
    /\ cleanup[s] = "remove"
    /\ cleanup' = [cleanup EXCEPT ![s] = "none"]
    /\ dir' = [dir EXCEPT ![s] = 0]
    /\ call' = Marked(s)
    /\ UNCHANGED <<rows, used, context, wiped>>

-----------------------------------------------------------------------------
Api(c, s) ==
    \/ Create(c, s) \/ Request(c, s)
    \/ Own(c, s, "delete") \/ Own(c, s, "publish")

Script(c, s) == ScriptCreate(c, s) \/ ScriptUpdate(c, s) \/ ScriptDelete(c, s)

Handler(c) ==
    \/ Make(c) \/ Get(c) \/ Insert(c) \/ Register(c)
    \/ DeleteOwned(c) \/ PublishOwned(c) \/ Unregister(c)

Task(s) == Invalidate(s) \/ Remove(s)

Next ==
    \/ \E c \in Clients, s \in Sandboxes : Api(c, s) \/ Script(c, s)
    \/ \E c \in Clients : Handler(c)
    \/ \E s \in Sandboxes : Task(s) \/ Evict(s)

Spec == Init /\ [][Next]_vars

-----------------------------------------------------------------------------
Calls ==
    [step : Steps, op : {"create", "script", "get", "delete", "publish"},
     id : Sandboxes \cup {None}, late : BOOLEAN, raced : BOOLEAN, ctx : 0..MaxDirs]

TypeOK ==
    /\ rows \subseteq Sandboxes /\ wiped \subseteq Sandboxes
    /\ {used, dir, cache} \subseteq [Sandboxes -> 0..MaxDirs]
    /\ \A s \in Sandboxes : dir[s] <= used[s] /\ cache[s] <= used[s]
    /\ late \in [Sandboxes -> BOOLEAN]
    /\ cleanup \in [Sandboxes -> {"none", "invalidate", "remove"}]
    /\ call \in [Clients -> Calls]

\* WithinLimit: a tenant gets more sandboxes than the limit only from creations
\* that counted before another one was registered; one after the other they
\* never exceed it.
WithinLimitStep ==
    Cardinality(rows') > Limit =>
        rows' \subseteq rows \/ \E c \in Clients : At(c, "register") /\ call[c].raced

WithinLimit == [][WithinLimitStep]_vars

\* RegisteredHasFiles: a sandbox that is listed can be opened, whatever
\* deletes, publications and loads run at a time, unless a script updated it
\* or removed its files, or its row could not be deleted.
RegisteredHasFiles ==
    \A s \in rows \ wiped : dir[s] # 0

\* ContextCurrent: requests write to the directory that exists, unless the
\* context was loaded while the directory was removed, or a script created
\* the sandbox again.
ContextCurrent ==
    \A s \in Sandboxes \ Scripted :
        cache[s] # 0 /\ ~late[s] /\ cleanup[s] = "none" => cache[s] = dir[s]

\* UpdateKeepsFiles: "We just want to invalidate cache" (context.rs:528); a
\* sandbox that is registered and that nobody deletes keeps its files.
UpdateKeepsFiles ==
    \A s \in rows : dir[s] # 0 \/ \E c \in Clients : call[c].id = s

-----------------------------------------------------------------------------
(* The inductive invariant.                                                *)

\* StepKnown: which operation is where.
StepKnown(c) ==
    /\ IF At(c, "idle") THEN call[c].op = "get" /\ call[c].id = None
                        ELSE call[c].id \in Sandboxes
    /\ At(c, "make") => call[c].op \in {"create", "script"}
    /\ At(c, "register") => call[c].op = "create"
    /\ call[c].op = "create" => call[c].step \in {"make", "get", "insert", "register"}
    /\ call[c].op = "script" => call[c].id \in Scripted
    /\ ~At(c, "idle") /\ ~At(c, "make") => used[call[c].id] # 0

\* CreationAlone: until a creation has answered, its sandbox has no row, no
\* cleanup, and nobody else that uses it.
CreationAlone(c) ==
    LET s == call[c].id IN call[c].op = "create" =>
        /\ s \notin rows /\ cleanup[s] = "none"
        /\ \A d \in Clients \ {c} : call[d].id # s
        /\ IF At(c, "make") THEN used[s] = 0 ELSE dir[s] # 0
        /\ ~At(c, "register") => cache[s] = 0
        /\ ~call[c].raced => Cardinality(rows) < Limit

\* LoadKnown: what a load has opened is the directory that exists.
LoadKnown(c) ==
    LET s == call[c].id IN At(c, "insert") =>
        /\ call[c].ctx <= used[s]
        /\ s \notin Scripted /\ ~call[c].late => call[c].ctx = dir[s]

\* RowInv: a task works on sandboxes that are listed no more, or are wiped.
RowInv(s) ==
    /\ used[s] = 0 => s \notin rows /\ cleanup[s] = "none"
    /\ cleanup[s] # "none" => s \notin rows \ wiped
    /\ s \in rows \ wiped => dir[s] # 0

\* ContextInv: ContextCurrent, until the directory is about to be removed.
ContextInv(s) ==
    /\ cleanup[s] = "remove" => cache[s] = 0 \/ late[s]
    /\ s \notin Scripted /\ cache[s] # 0 /\ ~late[s] => cache[s] = dir[s]

SandboxInv ==
    /\ TypeOK /\ IsFiniteSet(rows)
    /\ \A c \in Clients : StepKnown(c) /\ CreationAlone(c) /\ LoadKnown(c)
    /\ \A s \in Sandboxes : RowInv(s) /\ ContextInv(s)
=============================================================================
