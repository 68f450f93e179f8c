----------------------------- MODULE CliRestore -----------------------------
(***************************************************************************)
(* handle_restore of apexkit-cli/src/commands/backup.rs: the directories   *)
(* of the scopes in an archive are replaced one after the other.  Each     *)
(* rename may fail, which ends the command.                                *)
(***************************************************************************)
EXTENDS FiniteSets

CONSTANTS Scopes, None

VARIABLES
    step,   \* of the command
    scope,  \* the scope it has come to
    todo,   \* the scopes of the archive that are not restored yet
    baks,   \* bak_dirs
    path,   \* what is at the path of each scope's directory
    bak     \* what is at its .bak

vars == <<step, scope, todo, baks, path, bak>>

Init ==
    /\ step = "idle" /\ scope = None
    /\ todo = {} /\ baks = {}
    /\ path = [s \in Scopes |-> "original"]
    /\ bak = [s \in Scopes |-> "nothing"]

\* The archive is extracted and the user has agreed.
Begin ==
    /\ step = "idle"
    /\ step' = "bak"
    /\ todo' \in SUBSET Scopes \ {{}}
    /\ UNCHANGED <<scope, baks, path, bak>>

MoveAway(s) ==
    /\ step = "bak" /\ s \in todo
    /\ step' = "move" /\ scope' = s
    /\ path' = [path EXCEPT ![s] = "nothing"]
    /\ bak' = [bak EXCEPT ![s] = path[s]]
    /\ baks' = baks \cup {s}
    /\ UNCHANGED todo

\* Mutant: the .bak is removed as soon as its scope is restored.
MutDropped(s) == {s}
\* The .baks that go before the last scope is restored.
Dropped(s) == {}

MoveIn ==
    /\ step = "move"
    /\ path' = [path EXCEPT ![scope] = "restored"]
    /\ bak' = [s \in Scopes |-> IF s \in Dropped(scope) THEN "nothing" ELSE bak[s]]
    /\ todo' = todo \ {scope}
    /\ step' = IF todo' = {} THEN "clean" ELSE "bak"
    /\ UNCHANGED <<scope, baks>>

Fail ==
    /\ step \in {"bak", "move"}
    /\ step' = "failed"
    /\ UNCHANGED <<scope, todo, baks, path, bak>>

CleanUp(s) ==
    /\ step = "clean" /\ s \in baks
    /\ bak' = [bak EXCEPT ![s] = "nothing"]
    /\ baks' = baks \ {s}
    /\ UNCHANGED <<step, scope, todo, path>>

Next ==
    \/ Begin \/ MoveIn \/ Fail
    \/ \E s \in Scopes : MoveAway(s) \/ CleanUp(s)

Spec == Init /\ [][Next]_vars

-----------------------------------------------------------------------------
TypeOK ==
    /\ step \in {"idle", "bak", "move", "clean", "failed"} /\ scope \in Scopes \cup {None}
    /\ todo \subseteq Scopes /\ baks \subseteq Scopes
    /\ path \in [Scopes -> {"original", "nothing", "restored"}]
    /\ bak \in [Scopes -> {"original", "nothing"}]

\* OriginalKept: "If the restore fails mid-way, your original live data is
\* preserved untouched" (docs/usage/backup-cli.md:81): until every scope of the
\* archive is restored, each scope's own data is at its path or at .bak.
OriginalKept ==
    step # "clean" => \A s \in Scopes : "original" \in {path[s], bak[s]}

\* RestoreInv: the inductive invariant.  What is still to be restored is at its
\* path, but for the scope that has just been moved away.
RestoreInv ==
    /\ TypeOK /\ OriginalKept
    /\ step = "idle" => \A s \in Scopes : path[s] = "original"
    /\ step \in {"bak", "move"} =>
          \A s \in todo : path[s] = "original" \/ (step = "move" /\ s = scope)
    /\ step = "move" => scope \in Scopes /\ bak[scope] = "original"
=============================================================================
