---------------------------- MODULE SandboxClone ----------------------------
(***************************************************************************)
(* clone_data_to_sandbox and resolve_dependencies                          *)
(* (apexkit-api/src/workspaces_manager/sandbox.rs): the records of the     *)
(* parent, newest first and up to a limit, are copied into an empty        *)
(* sandbox; before a record is imported, the records its relation points   *)
(* to, the ones those point to and so on, and the owners of all of them,   *)
(* are copied.                                                             *)
(*                                                                         *)
(* One collection with one relation to itself and one owner field stands   *)
(* for all; the parent does not change meanwhile.  A record of the loop is *)
(* imported under its id, a dependency is created under the id that        *)
(* AUTOINCREMENT hands out.  The stack is that of the recursive calls.     *)
(***************************************************************************)
EXTENDS Naturals, FiniteSets, Sequences

CONSTANTS
    N,          \* the ids of the parent's records are 1..N
    Refs,       \* the relations the parent may have: functions from 1..N to 0..N
    Owner,      \* the owner of a record, 0 for none
    Limits,     \* values of the clone's record limit
    MaxDepth    \* bound on the depth of the recursion

Records == 1..N

ConstantsAssumption ==
    /\ N \in Nat \ {0}
    /\ Refs \subseteq [Records -> 0..N]
    /\ Owner \in [Records -> Nat]
    /\ Limits \subseteq 1..N
    /\ MaxDepth \in Nat /\ MaxDepth > N

VARIABLES
    ref,        \* the relation of each record of the parent
    limit,
    next,       \* the record the loop has come to, 0 at its end
    stack,      \* the records whose dependencies are being resolved
    tracked,    \* copied_tracker
    rows,       \* the sandbox: pairs of an id and the record it is a copy of
    seq,        \* the sandbox's AUTOINCREMENT counter
    users,      \* the users the sandbox has got
    failed      \* a statement was refused: the task ends with an error

vars == <<ref, limit, next, stack, tracked, rows, seq, users, failed>>

Init ==
    /\ ref \in Refs
    /\ limit \in Limits
    /\ next = N
    /\ stack = <<>>
    /\ tracked = {}
    /\ rows = {}
    /\ seq = 0
    /\ users = {}
    /\ failed = FALSE

\* list_records: the highest ids, in descending order.
Listed == {r \in Records : r > N - limit}

Done == failed \/ (next \notin Listed /\ stack = <<>>)

Top == stack[Len(stack)]

\* Mutant: the owners of dependencies are left out.
MutOwnersOf(depth, r) == IF depth = 0 /\ Owner[r] # 0 THEN {Owner[r]} ELSE {}
\* import_user, under the user's id; the second time the tracker has it.
OwnersOf(depth, r) == IF Owner[r] # 0 THEN {Owner[r]} ELSE {}

\* resolve_dependencies begins with a record.
Enter(r) ==
    /\ stack' = Append(stack, r)
    /\ users' = users \cup OwnersOf(Len(stack), r)

\* Mutant: the loop stays at a record it skips.
MutAfter(r) == IF r \in tracked THEN r ELSE r - 1
After(r) == r - 1

Take ==
    /\ ~Done
    /\ stack = <<>>
    /\ next' = After(next)
    /\ IF next \in tracked THEN UNCHANGED <<stack, users>> ELSE Enter(next)
    /\ UNCHANGED <<ref, limit, tracked, rows, seq, failed>>

Missing(t) == t # 0 /\ t \notin tracked

Descend ==
    /\ ~failed
    /\ stack # <<>> /\ Len(stack) < MaxDepth
    /\ Missing(ref[Top])
    /\ Enter(ref[Top])
    /\ UNCHANGED <<ref, limit, next, tracked, rows, seq, failed>>

Pop == stack' = SubSeq(stack, 1, Len(stack) - 1)

\* Mutant: the tracker forgets what it copied as a dependency.
MutTracked(depth, r) == IF depth > 1 THEN tracked ELSE tracked \cup {r}
\* Mutant: only dependencies are remembered.
MutTrackedDeps(depth, r) == IF depth > 1 THEN tracked \cup {r} ELSE tracked
Tracked(depth, r) == tracked \cup {r}

Create ==
    /\ ~failed
    /\ Len(stack) > 1 /\ ~Missing(ref[Top])
    /\ seq' = seq + 1
    /\ rows' = rows \cup {<<seq', Top>>}
    /\ tracked' = Tracked(Len(stack), Top)
    /\ Pop
    /\ UNCHANGED <<ref, limit, next, users, failed>>

\* The id may have been given to a dependency: the INSERT fails, and the task.
Import ==
    /\ ~failed
    /\ Len(stack) = 1 /\ ~Missing(ref[Top])
    /\ IF \E p \in rows : p[1] = Top
         THEN failed' = TRUE /\ UNCHANGED <<rows, seq, tracked>>
         ELSE /\ rows' = rows \cup {<<Top, Top>>}
              /\ seq' = IF Top > seq THEN Top ELSE seq
              /\ tracked' = Tracked(1, Top)
              /\ UNCHANGED failed
    /\ Pop
    /\ UNCHANGED <<ref, limit, next, users>>

Next == Take \/ Descend \/ Create \/ Import

Spec == Init /\ [][Next]_vars
\* tokio runs the spawned task to its end.
FairSpec == Spec /\ WF_vars(Next)

-----------------------------------------------------------------------------
TypeOK ==
    /\ ref \in Refs /\ limit \in Limits /\ next \in 0..N
    /\ stack \in Seq(Records) /\ Len(stack) <= MaxDepth
    /\ tracked \subseteq Records /\ rows \subseteq (1..(2 * N)) \X Records
    /\ seq \in 0..(2 * N) /\ users \subseteq {Owner[r] : r \in Records}

\* The records that a chain of relations leads to from r, in at least one step.
Reach(r) ==
    LET step(S) == S \cup ({ref[x] : x \in S} \ {0})
        close[n \in 0..N] == IF n = 0 THEN {ref[r]} \ {0} ELSE step(close[n - 1])
    IN close[N]

Acyclic == \A r \in Records : r \notin Reach(r)

\* OwnersCopied: whatever the relations are, a record of the sandbox has its
\* owner there.
OwnersCopied == \A p \in rows : Owner[p[2]] \in users \cup {0}

\* CopiedOnce: a record is copied once, however many records lead to it.
CopiedOnce == \A p, q \in rows : p[2] = q[2] => p = q

\* ForwardExact: where relations point to newer records only, the loop has
\* copied them before: the sandbox gets exactly the listed records, each under
\* its id, and nothing fails.
ForwardExact ==
    (\A r \in Records : ref[r] = 0 \/ ref[r] > r) =>
        /\ ~failed
        /\ Done => rows = {<<r, r>> : r \in Listed}

\* CloneEnds: without a cycle of relations the task ends; with one, the
\* recursion goes on until it is out of memory.
CloneEnds == <>(Done \/ ~Acyclic)

\* PerfectIntegrity: "the sandbox engine recursively walks relations to pull in
\* dependency records so that your test sandbox data has perfect integrity"
\* (docs/usage/multi-tenancy.md:71): a relation of a copied record leads to
\* the copy of the record it led to.
PerfectIntegrity ==
    Done /\ ~failed => \A p \in rows : ref[p[2]] # 0 => <<ref[p[2]], ref[p[2]]>> \in rows

-----------------------------------------------------------------------------
(* The inductive invariants.                                               *)

\* CloneInv: the stack is a chain of relations through records that are not
\* copied, what is copied is in the tracker once, and so are the owners.
CloneInv ==
    /\ TypeOK
    /\ seq =< N + Cardinality(tracked)
    /\ \A p \in rows : p[1] =< seq /\ p[2] \in tracked
    /\ \A k \in 1..Len(stack) : stack[k] \notin tracked /\ Owner[stack[k]] \in users \cup {0}
    /\ \A k \in 1..Len(stack) : k > 1 => stack[k] = ref[stack[k - 1]]
    /\ OwnersCopied /\ CopiedOnce

Forward == \A r \in Records : ref[r] = 0 \/ ref[r] > r

\* ForwardInv: where relations point to newer records only, nothing is copied
\* but by the loop, which has copied all it has passed.
ForwardInv == Forward =>
    /\ ~failed /\ next >= N - limit
    /\ \/ stack = << >> /\ tracked = {r \in Records : r > next}
       \/ stack = <<next + 1>> /\ tracked = {r \in Records : r > next + 1}
    /\ rows = {<<r, r>> : r \in tracked}
=============================================================================
