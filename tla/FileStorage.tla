---------------------------- MODULE FileStorage ----------------------------
(***************************************************************************)
(* Where the bytes of stored files are (api/storage/backends.rs): one      *)
(* local directory per node and scope, the bucket of the root settings     *)
(* with a prefix per scope, and the bucket of a tenant that has settings   *)
(* of its own.  The root's requests go through DynamicStorage, which keeps *)
(* the backend it resolved for a minute; a tenant's go through             *)
(* ScopedDynamicStorage, which resolves at every call.  A replica saves    *)
(* its uploads locally and forwards them, and fetches what it misses.      *)
(* migrate_storage (api/storage/admin.rs) copies page by page.             *)
(***************************************************************************)
EXTENDS Naturals, Sequences, FiniteSets

CONSTANTS
    Nodes,      \* "master", and the replicas
    Scopes,     \* "root", and the tenants
    Names,      \* names of files
    Page,       \* rows per page of a migration (50)
    MaxSwitch   \* bound on the changes of settings

Nothing == "none"
NoStore == <<"none">>
Local(n, s) == <<"local", n, s>>
Shared(s) == <<"root bucket", s>>
Own(s) == <<"own bucket", s>>
RootOf(s) == IF s = "root" THEN Shared(s) ELSE <<"own bucket, the root's prefix", s>>
Stores ==
    {Local(n, s) : n \in Nodes, s \in Scopes}
        \cup UNION {{Shared(s), Own(s), RootOf(s)} : s \in Scopes}

VARIABLES
    s3,         \* the scopes whose settings say s3, enabled
    cached,     \* the backend DynamicStorage keeps on each node
    files,      \* the names in each store
    rows,       \* _storage_files: name and scope, newest first
    scope,      \* the scope of each name, Nothing before its upload
    jobs,       \* uploads, deletions, forwards and fetches under way
    home,       \* node and store of each upload
    told,       \* the deletions so far: name, node, store resolved
    copied,     \* names a forward, a fetch or a migration put somewhere else
    migration,
    switches

vars == <<s3, cached, files, rows, scope, home, jobs, told, copied, migration, switches>>

Idle == [step |-> "idle", of |-> Nothing, from |-> NoStore, to |-> NoStore, offset |-> 0,
         todo |-> << >>, begun |-> {}, errors |-> 0, shifted |-> FALSE]

Init ==
    /\ s3 = {} /\ cached = [n \in Nodes |-> NoStore]
    /\ files = [x \in Stores |-> {}]
    /\ rows = << >> /\ scope = [f \in Names |-> Nothing] /\ home = [f \in Names |-> <<Nothing, NoStore>>]
    /\ jobs = {} /\ told = {} /\ copied = {}
    /\ migration = Idle /\ switches = 0

-----------------------------------------------------------------------------
(* Resolution.                                                             *)

Configured(n) == IF "root" \in s3 THEN Shared("root") ELSE Local(n, "root")

\* resolve_backend: the backend of the last minute, or a new one, which is kept.
Backend(n) == IF cached[n] = NoStore THEN Configured(n) ELSE cached[n]

\* ScopedDynamicStorage::resolve: own settings, the root's settings, the disk.
Scoped(n, s) ==
    CASE s \in s3 -> Own(s)
      [] s \notin s3 /\ "root" \in s3 -> Shared(s)
      [] OTHER -> Local(n, s)

Resolve(n, s) == IF s = "root" THEN Backend(n) ELSE Scoped(n, s)
Keep(n, s) == cached' = IF s = "root" THEN [cached EXCEPT ![n] = Backend(n)] ELSE cached

Expire(n) ==
    /\ cached[n] # NoStore
    /\ cached' = [cached EXCEPT ![n] = NoStore]
    /\ UNCHANGED <<s3, files, rows, scope, home, jobs, told, copied, migration, switches>>

\* The settings handler writes the group; the kept backend stays.
Switch(s) ==
    /\ switches < MaxSwitch /\ switches' = switches + 1
    /\ s3' = (s3 \ {s}) \cup ({s} \ s3)
    /\ UNCHANGED <<cached, files, rows, scope, home, jobs, told, copied, migration>>

\* get: the backend, the tenant's directory when the bucket is the root's, and
\* for a request of serve_file the root's directory on this node.
Served(n, f) ==
    LET s == scope[f] IN
    \/ f \in files[Resolve(n, s)]
    \/ (s # "root" /\ Resolve(n, s) = Shared(s) /\ f \in files[Local(n, s)])
    \/ f \in files[Local(n, "root")]

-----------------------------------------------------------------------------
(* Uploads, deletions, and the traffic between a replica and its master.   *)

Job(kind, n, f) == [kind |-> kind, node |-> n, name |-> f]
IsLocal(x) == x[1] = "local"

\* save; a replica that saved to its disk sends the bytes in a task of its own.
Save(n, s) == \E f \in Names :
    /\ scope[f] = Nothing /\ scope' = [scope EXCEPT ![f] = s]
    /\ home' = [home EXCEPT ![f] = <<n, Resolve(n, s)>>]
    /\ files' = [files EXCEPT ![Resolve(n, s)] = @ \cup {f}]
    /\ Keep(n, s)
    /\ jobs' = jobs \cup {Job("row", n, f)}
                    \cup (IF n # "master" /\ IsLocal(Resolve(n, s)) THEN {Job("forward", n, f)} ELSE {})
    /\ UNCHANGED <<s3, rows, told, copied, migration, switches>>

Row(j) ==
    /\ j.kind = "row" /\ jobs' = jobs \ {j}
    /\ rows' = <<j.name>> \o rows
    /\ UNCHANGED <<s3, cached, files, scope, home, told, copied, migration, switches>>

\* forward_file_to_master: a failure is only logged.
Forward(j) ==
    /\ j.kind = "forward" /\ jobs' = jobs \ {j}
    /\ LET x == IF scope[j.name] = "root" THEN Configured("master") ELSE Scoped("master", scope[j.name]) IN
       \/ /\ files' = [files EXCEPT ![x] = @ \cup {j.name}]
          /\ copied' = copied \cup {j.name}
       \/ UNCHANGED <<files, copied>>
    /\ UNCHANGED <<s3, cached, rows, scope, home, told, migration, switches>>

\* get on a replica: the master's serve_file has the bytes, the backend keeps them.
Fetch(n, f) ==
    /\ n # "master" /\ scope[f] # Nothing
    /\ f \notin files[Resolve(n, scope[f])] /\ Served("master", f)
    /\ Keep(n, scope[f])
    /\ jobs' = jobs \cup {Job("keep", n, f)}
    /\ UNCHANGED <<s3, files, rows, scope, home, told, copied, migration, switches>>

Kept(j) ==
    /\ j.kind = "keep" /\ jobs' = jobs \ {j}
    /\ files' = [files EXCEPT ![Resolve(j.node, scope[j.name])] = @ \cup {j.name}]
    /\ copied' = copied \cup {j.name}
    /\ UNCHANGED <<s3, cached, rows, scope, home, told, migration, switches>>

\* delete: DynamicStorage the backend alone, ScopedDynamicStorage the directory too.
\* Mutant: a tenant's directory is left.
MutCleared(n, s) == {Resolve(n, s)}
Cleared(n, s) == {Resolve(n, s)} \cup (IF s = "root" THEN {} ELSE {Local(n, s)})

Unstore(n, f) ==
    /\ \E i \in 1..Len(rows) : rows[i] = f
    /\ files' = [x \in Stores |-> IF x \in Cleared(n, scope[f]) THEN files[x] \ {f} ELSE files[x]]
    /\ Keep(n, scope[f])
    /\ jobs' = jobs \cup {Job("unrow", n, f)}
    /\ told' = told \cup {<<f, n, Resolve(n, scope[f])>>}
    /\ UNCHANGED <<s3, rows, scope, home, copied, migration, switches>>

Unrow(j) ==
    /\ j.kind = "unrow" /\ jobs' = jobs \ {j}
    /\ rows' = SelectSeq(rows, LAMBDA f : f # j.name)
    /\ migration' = [migration EXCEPT !.shifted = migration.step # "idle"]
    /\ UNCHANGED <<s3, cached, files, scope, home, told, copied, switches>>

-----------------------------------------------------------------------------
(* migrate_storage, on the master.  The rows and the bucket are those of    *)
(* the admin's scope; the directory is the root's and so is the prefix in   *)
(* the bucket.  The bucket need be enabled, not the active driver.          *)

Ends(s) == {Local("master", "root"), RootOf(s)}
InScope(s) == SelectSeq(rows, LAMBDA f : scope[f] = s)

Begin(s) ==
    /\ migration.step = "idle"
    /\ \E x, y \in Ends(s) :
          /\ x # y
          /\ migration' = [Idle EXCEPT !.step = "page", !.of = s, !.from = x, !.to = y,
                                       !.begun = {f \in Names : \E i \in 1..Len(InScope(s)) : InScope(s)[i] = f}]
    /\ UNCHANGED <<s3, cached, files, rows, scope, home, jobs, told, copied, switches>>

\* Mutant: the next page begins one row late.
MutNextOffset(o) == o + Page + 1
NextOffset(o) == o + Page

ReadPage ==
    LET all == InScope(migration.of)  o == migration.offset IN
    /\ migration.step = "page"
    /\ migration' = IF o >= Len(all) THEN [migration EXCEPT !.step = "ended"]
                    ELSE [migration EXCEPT !.step = "copy", !.offset = NextOffset(o),
                            !.todo = SubSeq(all, o + 1, IF o + Page < Len(all) THEN o + Page ELSE Len(all))]
    /\ UNCHANGED <<s3, cached, files, rows, scope, home, jobs, told, copied, switches>>

CopyFile ==
    LET m == migration  f == Head(m.todo)  rest == Tail(m.todo) IN
    /\ m.step = "copy"
    /\ IF f \in files[m.from]
         THEN files' = [files EXCEPT ![m.to] = @ \cup {f}] /\ copied' = copied \cup {f}
         ELSE UNCHANGED <<files, copied>>
    /\ migration' = [m EXCEPT !.todo = rest, !.step = IF rest = << >> THEN "page" ELSE "copy",
                              !.errors = @ + IF f \in files[m.from] THEN 0 ELSE 1]
    /\ UNCHANGED <<s3, cached, rows, scope, home, jobs, told, switches>>

Report ==
    /\ migration.step = "ended" /\ migration' = Idle
    /\ UNCHANGED <<s3, cached, files, rows, scope, home, jobs, told, copied, switches>>

Next ==
    \/ \E n \in Nodes : Expire(n) \/ \E s \in Scopes : Save(n, s)
    \/ \E s \in Scopes : Switch(s) \/ Begin(s)
    \/ \E j \in jobs : Row(j) \/ Forward(j) \/ Kept(j) \/ Unrow(j)
    \/ \E n \in Nodes, f \in Names : Fetch(n, f) \/ Unstore(n, f)
    \/ ReadPage \/ CopyFile \/ Report

Spec == Init /\ [][Next]_vars

-----------------------------------------------------------------------------
TypeOK ==
    /\ s3 \subseteq Scopes /\ cached \in [Nodes -> Stores \cup {NoStore}]
    /\ files \in [Stores -> SUBSET Names] /\ rows \in Seq(Names)
    /\ \A j \in jobs : j.node \in Nodes /\ scope[j.name] \in Scopes
    /\ migration.step \in {"idle", "page", "copy", "ended"}

RowNames == {rows[i] : i \in 1..Len(rows)}

\* Migrated: a migration that reports no error has put every file it began with
\* into its destination, unless a row was deleted while it ran.
Migrated ==
    migration.step = "ended" /\ migration.errors = 0 /\ ~migration.shifted
        => \A f \in migration.begun :
              f \in files[migration.to] \/ \E x \in told : x[1] = f

\* DeletedIsGone: after a deletion the node no longer serves a file that was
\* uploaded there and not copied since, if the upload went to the store the
\* deletion resolved or, for a tenant, to the tenant's directory.
DeletedIsGone == \A x \in told :
    LET f == x[1]  n == x[2]  s == scope[f] IN
    /\ home[f][1] = n /\ f \notin copied
    /\ home[f][2] = x[3] \/ (s # "root" /\ home[f][2] = Local(n, s))
    => ~Served(n, f)
=============================================================================
