--------------------------- MODULE TenantManager ---------------------------
(***************************************************************************)
(* The tenants of one server: TenantManager                                *)
(* (apexkit-api/src/workspaces_manager/tenant.rs), the handlers of         *)
(* api/workspace/tenant.rs and of the scripts' admin API, and the way of a *)
(* request through tenant_resolver_middleware and auth_middleware.         *)
(*                                                                         *)
(* Three places know of a tenant: its row in _tenants of the root          *)
(* database, its directory, and the cache of opened contexts, which keeps  *)
(* the status the row had when the context was loaded.  A load awaits      *)
(* between reading the row, looking for the files, opening them and the    *)
(* insertion into the cache, and nothing makes two loads, or a load and a  *)
(* handler of the admin, wait for each other.                              *)
(*                                                                         *)
(* The server is a master (ensure_replica_env returns at once); the hook   *)
(* that runs before a request may block it and changes nothing here.       *)
(***************************************************************************)
EXTENDS Naturals, FiniteSets

CONSTANTS
    Tenants,
    Clients,    \* requests and handlers at a time
    Operators,  \* the clients that also use the admin's handlers
    MaxDirs,    \* bound on the directories created for a tenant
    None

Statuses == {"active", "suspended", "archived"}
Ops == {"create", "update", "delete", "resolve", "auth"}

ConstantsAssumption ==
    /\ Operators \subseteq Clients
    /\ MaxDirs \in Nat \ {0}
    /\ None \notin Tenants \cup Statuses \cup Ops

VARIABLES
    registry,   \* the status in _tenants, "not_found" without a row
    made,       \* number of directories created so far
    dir,        \* the directory that exists: its number, 0 when there is none
    files,      \* its databases have been created
    cache,      \* the entry of the tenant in the manager's cache
    call        \* what each client is doing

vars == <<registry, made, dir, files, cache, call>>

\* A context holds the status it was loaded with and the open files of a
\* directory; late says that it was loaded, in part at least, while the tenant
\* was invalidated or deleted.
NoContext == [status |-> "none", dir |-> 0, late |-> FALSE]

Loads == {"status", "exists", "open", "insert"}
Steps == Loads \cup {"idle", "mkdir", "invalidate", "remove", "auth", "check", "serve"}
NoCall == [step |-> "idle", tenant |-> None, op |-> None, root |-> FALSE,
           status |-> "none", ctx |-> NoContext, db |-> NoContext, late |-> FALSE]

Init ==
    /\ registry = [t \in Tenants |-> "not_found"]
    /\ made = [t \in Tenants |-> 0]
    /\ dir = [t \in Tenants |-> 0]
    /\ files = [t \in Tenants |-> FALSE]
    /\ cache = [t \in Tenants |-> None]
    /\ call = [c \in Clients |-> NoCall]

At(c, step) == call[c].step = step
Goto(c, step) == call' = [call EXCEPT ![c].step = step]
Return(c) == call' = [call EXCEPT ![c] = NoCall]

Begin(c, t, op, step) ==
    /\ At(c, "idle")
    /\ call' = [call EXCEPT ![c] = [NoCall EXCEPT !.step = step, !.tenant = t, !.op = op]]

-----------------------------------------------------------------------------
(* The admin's handlers.                                                   *)

\* The rows of _tenants: register_tenant keeps the status of a row that exists,
\* an update may find no row.
Registered(t) == [registry EXCEPT ![t] = IF @ = "not_found" THEN "active" ELSE @]
WithStatus(t, s) == [registry EXCEPT ![t] = IF @ = "not_found" THEN @ ELSE s]
Unregistered(t) == [registry EXCEPT ![t] = "not_found"]

\* create_tenant_handler registers first.
Create(c, t) ==
    /\ c \in Operators
    /\ Begin(c, t, "create", "mkdir")
    /\ registry' = Registered(t)
    /\ UNCHANGED <<made, dir, files, cache>>

\* admin_create_tenant of the scripts does not register.
ScriptCreate(c, t) ==
    /\ c \in Operators
    /\ Begin(c, t, "create", "mkdir")
    /\ UNCHANGED <<registry, made, dir, files, cache>>

\* create_tenant: "already exists", or a new directory that is loaded then.
MakeDir(c) ==
    LET t == call[c].tenant IN
    /\ At(c, "mkdir")
    /\ IF dir[t] # 0
         THEN Return(c) /\ UNCHANGED <<made, dir>>
         ELSE /\ made[t] < MaxDirs
              /\ made' = [made EXCEPT ![t] = @ + 1]
              /\ dir' = [dir EXCEPT ![t] = made'[t]]
              /\ Goto(c, "status")
    /\ UNCHANGED <<registry, files, cache>>

\* update_tenant_status, and admin_update_tenant of the scripts.
SetStatus(c, t, s) ==
    /\ c \in Operators
    /\ Begin(c, t, "update", "invalidate")
    /\ registry' = WithStatus(t, s)
    /\ UNCHANGED <<made, dir, files, cache>>

\* delete_tenant_handler and admin_delete_tenant: the row first.
Delete(c, t) ==
    /\ c \in Operators
    /\ Begin(c, t, "delete", "invalidate")
    /\ registry' = Unregistered(t)
    /\ UNCHANGED <<made, dir, files, cache>>

\* Mutant: the contexts that are in use stay in the cache.
MutInvalidated(t) ==
    IF \E c \in Clients : call[c].tenant = t /\ call[c].step = "serve" THEN cache[t] ELSE None
Invalidated(t) == None

\* The calls of t that are under way are marked: they may hold what has changed.
Mark(calls, t) ==
    [d \in Clients |-> IF calls[d].tenant = t THEN [calls[d] EXCEPT !.late = TRUE] ELSE calls[d]]

Invalidate(c) ==
    LET t == call[c].tenant IN
    /\ At(c, "invalidate")
    /\ cache' = [cache EXCEPT ![t] = Invalidated(t)]
    /\ call' = Mark([call EXCEPT ![c] = IF call[c].op = "delete"
                                          THEN [@ EXCEPT !.step = "remove"]
                                          ELSE NoCall], t)
    /\ UNCHANGED <<registry, made, dir, files>>

RemoveDir(c) ==
    LET t == call[c].tenant IN
    /\ At(c, "remove")
    /\ dir' = [dir EXCEPT ![t] = 0]
    /\ files' = [files EXCEPT ![t] = FALSE]
    /\ call' = Mark([call EXCEPT ![c] = NoCall], t)
    /\ UNCHANGED <<registry, made, cache>>

-----------------------------------------------------------------------------
(* load_tenant                                                             *)

ReadStatus(c) ==
    /\ At(c, "status")
    /\ call' = [call EXCEPT ![c].step = "exists", ![c].status = registry[call[c].tenant]]
    /\ UNCHANGED <<registry, made, dir, files, cache>>

\* Mutant: a tenant without row is loaded as any other.
MutMayLoad(status, there) == TRUE
\* Files without a row are taken for the lag of a replica.
MayLoad(status, there) == status # "not_found" \/ there

LookForFiles(c) ==
    /\ At(c, "exists")
    /\ IF MayLoad(call[c].status, files[call[c].tenant]) THEN Goto(c, "open") ELSE Return(c)
    /\ UNCHANGED <<registry, made, dir, files, cache>>

\* init_filesystem creates what is missing.
Open(c) ==
    LET t == call[c].tenant
        there == dir[t] # 0
        n == IF there THEN dir[t] ELSE made[t] + 1
        status == IF call[c].status = "not_found" THEN "active" ELSE call[c].status
    IN
    /\ At(c, "open")
    /\ n <= MaxDirs
    /\ made' = [made EXCEPT ![t] = IF there THEN @ ELSE n]
    /\ dir' = [dir EXCEPT ![t] = n]
    /\ files' = [files EXCEPT ![t] = TRUE]
    /\ call' = [call EXCEPT ![c].step = "insert",
                            ![c].ctx = [status |-> status, dir |-> n, late |-> FALSE]]
    /\ UNCHANGED <<registry, cache>>

\* A deletion has invalidated the cache and has not removed the directory yet.
Deleting(t) == \E d \in Clients : call[d].tenant = t /\ At(d, "remove")

\* The request goes on with the context it has got.
WithContext(c, ctx) ==
    IF call[c].op = "resolve"
      THEN call' = [call EXCEPT ![c].step = "auth", ![c].status = "none",
                                ![c].db = ctx, ![c].ctx = NoContext]
      ELSE call' = [call EXCEPT ![c].step = "check", ![c].status = "none", ![c].ctx = ctx]

\* cache.insert replaces what another load has put there.
Insert(c) ==
    LET t == call[c].tenant
        ctx == [call[c].ctx EXCEPT !.late = call[c].late \/ Deleting(t)]
    IN
    /\ At(c, "insert")
    /\ cache' = [cache EXCEPT ![t] = ctx]
    /\ IF call[c].op = "create" THEN Return(c) ELSE WithContext(c, ctx)
    /\ UNCHANGED <<registry, made, dir, files>>

-----------------------------------------------------------------------------
(* A request: the resolver gets the context whose database the handler     *)
(* uses, auth_middleware gets it again for the status.                     *)

\* get_tenant_context
GetContext(c, t, op, root) ==
    LET hit == cache[t] # None
        next == [call[c] EXCEPT !.tenant = t, !.op = op, !.root = root]
    IN
    call' = [call EXCEPT ![c] =
        IF ~hit THEN [next EXCEPT !.step = "status"]
        ELSE IF op = "resolve" THEN [next EXCEPT !.step = "auth", !.db = cache[t]]
        ELSE [next EXCEPT !.step = "check", !.ctx = cache[t]]]

Request(c, t, root) ==
    /\ At(c, "idle")
    /\ GetContext(c, t, "resolve", root)
    /\ UNCHANGED <<registry, made, dir, files, cache>>

Authenticate(c) ==
    /\ At(c, "auth")
    /\ GetContext(c, call[c].tenant, "auth", call[c].root)
    /\ UNCHANGED <<registry, made, dir, files, cache>>

\* Mutant: only one of the two statuses is looked for.
MutShut(status) == status = "suspended"
Shut(status) == status \in {"suspended", "archived"}

\* Only an admin of the root scope gets into a tenant that is shut.
Check(c) ==
    /\ At(c, "check")
    /\ IF Shut(call[c].ctx.status) /\ ~call[c].root THEN Return(c) ELSE Goto(c, "serve")
    /\ UNCHANGED <<registry, made, dir, files, cache>>

Respond(c) ==
    /\ At(c, "serve")
    /\ Return(c)
    /\ UNCHANGED <<registry, made, dir, files, cache>>

\* An idle context is dropped, and one too many.
Evict(t) ==
    /\ cache[t] # None
    /\ cache' = [cache EXCEPT ![t] = None]
    /\ UNCHANGED <<registry, made, dir, files, call>>

Restart ==
    /\ cache' = [t \in Tenants |-> None]
    /\ call' = [c \in Clients |-> NoCall]
    /\ UNCHANGED <<registry, made, dir, files>>

-----------------------------------------------------------------------------
Admin(c, t) ==
    \/ Create(c, t) \/ ScriptCreate(c, t) \/ Delete(c, t)
    \/ \E s \in Statuses : SetStatus(c, t, s)

Handler(c) == MakeDir(c) \/ Invalidate(c) \/ RemoveDir(c)
Load(c) == ReadStatus(c) \/ LookForFiles(c) \/ Open(c) \/ Insert(c)
Visit(c) == Authenticate(c) \/ Check(c) \/ Respond(c)

Next ==
    \/ \E c \in Clients, t \in Tenants :
          Admin(c, t) \/ \E root \in BOOLEAN : Request(c, t, root)
    \/ \E c \in Clients : Handler(c) \/ Load(c) \/ Visit(c)
    \/ \E t \in Tenants : Evict(t)
    \/ Restart

Spec == Init /\ [][Next]_vars

-----------------------------------------------------------------------------
Contexts == [status : Statuses \cup {"none"}, dir : 0..MaxDirs, late : BOOLEAN]
Calls ==
    [step : Steps, tenant : Tenants \cup {None}, op : Ops \cup {None}, root : BOOLEAN,
     status : Statuses \cup {"not_found", "none"}, ctx : Contexts, db : Contexts, late : BOOLEAN]

TypeOK ==
    /\ registry \in [Tenants -> Statuses \cup {"not_found"}]
    /\ made \in [Tenants -> 0..MaxDirs]
    /\ dir \in [Tenants -> 0..MaxDirs]
    /\ files \in [Tenants -> BOOLEAN]
    /\ cache \in [Tenants -> Contexts \cup {None}]
    /\ call \in [Clients -> Calls]

\* An update or a deletion of t has written the row and not invalidated yet.
Updating(t) == \E d \in Clients : call[d].tenant = t /\ At(d, "invalidate")

Effective(t) == IF registry[t] = "not_found" THEN "active" ELSE registry[t]

\* StatusCurrent: the status a cached context answers with is the one of the
\* row, unless an update is about to invalidate it, or its load overlapped
\* with an invalidation: that one keeps the old status until it is evicted.
StatusCurrent ==
    \A t \in Tenants :
        cache[t] # None /\ ~cache[t].late /\ ~Updating(t) => cache[t].status = Effective(t)

\* FilesCurrent: a cached context, and a request that is served, writes to the
\* directory that exists, unless the load of the context, or the request,
\* overlapped with a deletion.
FilesCurrent ==
    \A t \in Tenants : ~Updating(t) =>
        /\ cache[t] # None /\ ~cache[t].late => cache[t].dir = dir[t]
        /\ \A c \in Clients :
              call[c].tenant = t /\ At(c, "serve") /\ ~call[c].late /\ ~call[c].db.late
              => call[c].db.dir = dir[t]

\* ShutOut: a request of a tenant's own user that began after a suspension was
\* answered is not served, unless the context it was checked with was late.
ShutOut ==
    \A c \in Clients :
        LET t == call[c].tenant IN
        /\ At(c, "serve") /\ ~call[c].root
        /\ ~call[c].late /\ ~call[c].ctx.late /\ ~Updating(t)
        => Effective(t) = "active"

\* NoRevival: a directory comes into being for a handler that creates the
\* tenant, for a tenant that has a row, or through a load that overlapped with
\* its deletion; a deleted tenant does not come back by itself.
NoRevivalStep ==
    \A t \in Tenants : dir[t] = 0 /\ dir'[t] # 0 =>
      \/ registry[t] # "not_found" \/ Updating(t) \/ Deleting(t)
      \/ \E c \in Clients :
            call[c].tenant = t /\ (At(c, "mkdir") \/ (At(c, "open") /\ call[c].late))

NoRevival == [][NoRevivalStep]_vars

\* SuspensionImmediate: the comment of update_tenant_status says that the
\* invalidation applies a suspension immediately (api/workspace/tenant.rs:192).
SuspensionImmediate ==
    \A t \in Tenants :
        cache[t] # None /\ ~Updating(t) /\ Shut(registry[t]) => Shut(cache[t].status)

-----------------------------------------------------------------------------
(* The inductive invariant.                                                *)

\* StepKnown: which operation is where.
StepKnown(c) ==
    /\ At(c, "idle") => call[c].op = None
    /\ ~At(c, "idle") => call[c].tenant \in Tenants
    /\ At(c, "mkdir") => call[c].op = "create"
    /\ call[c].step \in Loads => call[c].op \in {"create", "resolve", "auth"}
    /\ At(c, "auth") => call[c].op = "resolve"
    /\ call[c].step \in {"check", "serve"} => call[c].op = "auth"

\* LoadKnown: what a load has read is what it would read now, or the tenant was
\* invalidated, or removed, since; a row may have come meanwhile.
LoadKnown(c) ==
    LET t == call[c].tenant IN ~call[c].late =>
        /\ call[c].step \in {"exists", "open"} /\ ~Updating(t) =>
              \/ call[c].status = registry[t]
              \/ call[c].status = "not_found" /\ registry[t] = "active"
        /\ At(c, "open") /\ call[c].status = "not_found" => files[t]
        /\ At(c, "insert") => call[c].ctx.dir # 0 /\ call[c].ctx.dir = dir[t]
        /\ At(c, "insert") /\ ~Updating(t) => call[c].ctx.status = Effective(t)

\* VisitKnown: a request holds the database of the directory that exists, and
\* was checked with the status of the row.
VisitKnown(c) ==
    LET t == call[c].tenant IN
    /\ ~call[c].late /\ ~call[c].db.late /\ (At(c, "auth") \/ call[c].op = "auth") =>
          call[c].db.dir # 0 /\ call[c].db.dir = dir[t]
    /\ ~call[c].late /\ ~call[c].ctx.late /\ call[c].step \in {"check", "serve"}
       /\ ~Updating(t) => call[c].ctx.status = Effective(t)
    /\ At(c, "serve") /\ ~call[c].root => ~Shut(call[c].ctx.status)

CallInv == \A c \in Clients : StepKnown(c) /\ LoadKnown(c) /\ VisitKnown(c)

\* CacheInv: so does a cached context; what is inserted during a deletion is
\* late.
CacheInv ==
    \A t \in Tenants : cache[t] # None =>
        /\ Deleting(t) => cache[t].late
        /\ ~cache[t].late => cache[t].dir # 0 /\ cache[t].dir = dir[t]
        /\ ~cache[t].late /\ ~Updating(t) => cache[t].status = Effective(t)

\* FilesInv: databases are in a directory.
FilesInv == \A t \in Tenants : files[t] => dir[t] # 0

TenantInv == TypeOK /\ CallInv /\ CacheInv /\ FilesInv
=============================================================================
