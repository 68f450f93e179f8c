------------------------------- MODULE Backup -------------------------------
(***************************************************************************)
(* Backup and restore: perform_backup and restore_backup                   *)
(* (apexkit-api/src/system/backup.rs), the handlers of api/system/backup.rs*)
(* that start them.                                                        *)
(*                                                                         *)
(* A scope has one database in WAL mode and one directory of uploads.      *)
(* Commit n of a scope changes a page of its own, so a file is the set of  *)
(* the commits it holds, and what SQLite reads is base \cup wal.  A        *)
(* backup of the server copies base without wal into a staging directory   *)
(* that is named by the second it started in, makes the archive and moves  *)
(* it to the scope's directory; the other scopes use the same names.       *)
(***************************************************************************)
EXTENDS Naturals, FiniteSets

CONSTANTS
    Scopes,
    Root,       \* one of Scopes: a restore of it restarts the server
    Jobs,       \* backups of the server: bounds their number
    Allowed,    \* ALLOW_NON_ROOT_BACKUP
    MaxCommits, \* bound on the commits of a scope
    MaxSeconds, \* bound on time
    None

AllCommits == Scopes \X (1..MaxCommits)

\* A backup: the database, whose it is, and the scopes whose uploads it has.
Copies == [db : {None} \cup SUBSET AllCommits, owner : Scopes \cup {None},
           uploads : SUBSET Scopes]

ConstantsAssumption ==
    /\ Root \in Scopes /\ Allowed \in BOOLEAN
    /\ MaxCommits \in Nat /\ MaxSeconds \in Nat
    /\ \A x \in (SUBSET AllCommits) \cup Copies : x # None

VARIABLES
    second,
    commits,    \* number of commits of each scope
    base,       \* the database file at the scope's path
    wal,        \* the WAL at its path
    old,        \* the file the scope's connections still write to after a restore
    staging,    \* the staging directories, by second
    temp,       \* the archives under the temporary names, by second
    archives,   \* the archives of each scope
    job,
    met,        \* seconds in which two scopes had a backup under way
    logical,    \* what each scope should hold: its commits, or the archive and later ones
    stale       \* scopes whose restored file was opened beside a WAL that was not its own

files == <<base, wal, old>>
backups == <<staging, temp, archives, job, met>>
vars == <<second, commits, files, backups, logical, stale>>

Seconds == 0..MaxSeconds
Idle == [step |-> "idle", scope |-> None, at |-> 0]

Init ==
    /\ second = 0
    /\ commits = [s \in Scopes |-> 0]
    /\ base = [s \in Scopes |-> {}]
    /\ wal = [s \in Scopes |-> {}]
    /\ old = [s \in Scopes |-> None]
    /\ staging = [t \in Seconds |-> None]
    /\ temp = [t \in Seconds |-> None]
    /\ archives = [s \in Scopes |-> {}]
    /\ job = [j \in Jobs |-> Idle]
    /\ met = {}
    /\ logical = [s \in Scopes |-> {}]
    /\ stale = {}

\* The file that the connections of s have open.
Opened(s) == IF old[s] = None THEN base[s] ELSE old[s]

\* A commit is appended to the WAL, or starts it again when a checkpoint has
\* copied all of it.
Commit(s) ==
    LET n == <<s, commits[s] + 1>> IN
    /\ commits[s] < MaxCommits
    /\ commits' = [commits EXCEPT ![s] = @ + 1]
    /\ \E kept \in {wal[s]} \cup (IF wal[s] \subseteq Opened(s) THEN {{}} ELSE {}) :
          wal' = [wal EXCEPT ![s] = kept \cup {n}]
    /\ logical' = [logical EXCEPT ![s] = @ \cup {n}]
    /\ UNCHANGED <<second, base, old, backups, stale>>

\* A checkpoint, page by page.
Checkpoint(s, n) ==
    /\ n \in wal[s] \ Opened(s)
    /\ IF old[s] = None
         THEN base' = [base EXCEPT ![s] = @ \cup {n}] /\ UNCHANGED old
         ELSE old' = [old EXCEPT ![s] = @ \cup {n}] /\ UNCHANGED base
    /\ UNCHANGED <<second, commits, wal, backups, logical, stale>>

Pass ==
    /\ second < MaxSeconds
    /\ second' = second + 1
    /\ UNCHANGED <<commits, files, backups, logical, stale>>

-----------------------------------------------------------------------------
(* perform_backup                                                          *)

Step(j, step) == job' = [job EXCEPT ![j].step = step]

\* Mutant: the name does not tell the second.
MutNameOf(t) == 0
NameOf(t) == t

\* trigger_backup_handler refuses a local backup of a tenant unless the root
\* allows it; the scheduler does not ask.
Begin(j, s, scheduled) ==
    /\ job[j] = Idle
    /\ s = Root \/ Allowed \/ scheduled
    /\ job' = [job EXCEPT ![j] = [step |-> "copy", scope |-> s, at |-> second]]
    /\ staging' = [staging EXCEPT ![NameOf(second)] =
          IF @ = None THEN [db |-> None, owner |-> None, uploads |-> {}] ELSE @]
    /\ met' = IF \E i \in Jobs \ {j} : job[i].step \notin {"idle", "done"} /\ job[i].at = second
                THEN met \cup {second} ELSE met
    /\ UNCHANGED <<second, commits, files, temp, archives, logical, stale>>

\* The database replaces one that is there, the uploads are added to those
\* there; an error of a copy (the directory is gone) is ignored.
CopyFiles(j) ==
    LET s == job[j].scope  t == NameOf(job[j].at) IN
    /\ job[j].step = "copy"
    /\ staging' = [staging EXCEPT ![t] =
          IF @ = None THEN @
          ELSE [db |-> base[s], owner |-> s, uploads |-> @.uploads \cup {s}]]
    /\ Step(j, "tar")
    /\ UNCHANGED <<second, commits, files, temp, archives, met, logical, stale>>

\* tar fails on a directory that another backup has removed.
MakeArchive(j) ==
    LET t == NameOf(job[j].at) IN
    /\ job[j].step = "tar"
    /\ IF staging[t] = None
         THEN Step(j, "clean") /\ UNCHANGED temp
         ELSE temp' = [temp EXCEPT ![t] = staging[t]] /\ Step(j, "move")
    /\ UNCHANGED <<second, commits, files, staging, archives, met, logical, stale>>

\* The rename to the scope's directory fails when another backup has moved it.
MoveArchive(j) ==
    LET t == NameOf(job[j].at)  s == job[j].scope IN
    /\ job[j].step = "move"
    /\ IF temp[t] = None THEN UNCHANGED <<temp, archives>>
       ELSE /\ archives' = [archives EXCEPT ![s] =
                  @ \cup {[holds |-> temp[t], met |-> job[j].at \in met]}]
            /\ temp' = [temp EXCEPT ![t] = None]
    /\ Step(j, "clean")
    /\ UNCHANGED <<second, commits, files, staging, met, logical, stale>>

CleanUp(j) ==
    /\ job[j].step = "clean"
    /\ staging' = [staging EXCEPT ![NameOf(job[j].at)] = None]
    /\ Step(j, "done")
    /\ UNCHANGED <<second, commits, files, temp, archives, met, logical, stale>>

\* A backup that has been moved removes the archives older than the retention.
Prune(s, a) ==
    /\ a \in archives[s] /\ Cardinality(archives[s]) > 1
    /\ \E j \in Jobs : job[j].step = "clean" /\ job[j].scope = s
    /\ archives' = [archives EXCEPT ![s] = @ \ {a}]
    /\ UNCHANGED <<second, commits, files, staging, temp, job, met, logical, stale>>

-----------------------------------------------------------------------------
(* restore_backup                                                          *)

\* Mutant: the archived file is written into the live one.
MutRenamed(s) == None
\* What the connections of s have open afterwards: the renamed file.
Renamed(s) == base[s]

\* The live file is renamed and the archived one takes its place; the WAL stays
\* where it is.
Restore(s, a) ==
    /\ old[s] = None
    /\ a \in archives[s] /\ a.holds.db # None
    /\ old' = [old EXCEPT ![s] = Renamed(s)]
    /\ base' = [base EXCEPT ![s] = a.holds.db]
    /\ UNCHANGED <<second, commits, wal, backups, logical, stale>>

\* process::exit closes no connection: the WAL is still there when SQLite opens
\* the restored file, and is replayed.  Backups under way are lost.  The exit
\* comes a second after the answer.
Restart ==
    /\ second < MaxSeconds
    /\ second' = second + 1
    /\ old[Root] # None
    /\ old' = [s \in Scopes |-> None]
    /\ logical' = [s \in Scopes |-> IF old[s] = None THEN logical[s] ELSE base[s]]
    /\ stale' = stale \cup {s \in Scopes : old[s] # None /\ wal[s] # {}}
    /\ job' = [j \in Jobs |-> IF job[j].step = "idle" THEN Idle ELSE [job[j] EXCEPT !.step = "done"]]
    /\ UNCHANGED <<commits, base, wal, staging, temp, archives, met>>

\* A tenant's context goes on with the renamed file until it is evicted: the
\* last connection moves the WAL into that file and removes it.
Evict(s) ==
    /\ s # Root /\ old[s] # None
    /\ old' = [old EXCEPT ![s] = None]
    /\ wal' = [wal EXCEPT ![s] = {}]
    /\ logical' = [logical EXCEPT ![s] = base[s]]
    /\ UNCHANGED <<second, commits, base, backups, stale>>

Next ==
    \/ Pass \/ Restart
    \/ \E s \in Scopes : Commit(s) \/ Evict(s) \/ (\E n \in wal[s] : Checkpoint(s, n))
    \/ \E s \in Scopes : \E a \in archives[s] : Prune(s, a) \/ Restore(s, a)
    \/ \E j \in Jobs, s \in Scopes, scheduled \in BOOLEAN : Begin(j, s, scheduled)
    \/ \E j \in Jobs : CopyFiles(j) \/ MakeArchive(j) \/ MoveArchive(j) \/ CleanUp(j)

Spec == Init /\ [][Next]_vars

-----------------------------------------------------------------------------
TypeOK ==
    /\ second \in Seconds
    /\ commits \in [Scopes -> 0..MaxCommits]
    /\ {base, wal, logical} \subseteq [Scopes -> SUBSET AllCommits]
    /\ old \in [Scopes -> {None} \cup SUBSET AllCommits]
    /\ {staging, temp} \subseteq [Seconds -> {None} \cup Copies]
    /\ archives \in [Scopes -> SUBSET [holds : Copies, met : BOOLEAN]]
    /\ job \in [Jobs -> [step : {"idle", "copy", "tar", "move", "clean", "done"},
                         scope : Scopes \cup {None}, at : Seconds]]
    /\ met \subseteq Seconds

\* OwnArchive: an archive in the directory of a scope holds the database and the
\* uploads of that scope and no other's: except where backups of two scopes met
\* in one second, as those do that are scheduled for the same minute.
OwnArchive ==
    \A s \in Scopes : \A a \in archives[s] :
        ~a.met => a.holds.owner = s /\ a.holds.uploads = {s}

\* Faithful: what a scope's connections read is what was committed since the
\* last restore, and the archive it restored, but for a file that was opened
\* beside the WAL of the database it replaced.
Faithful == \A s \in Scopes \ stale : Opened(s) \cup wal[s] = logical[s]

\* RestoresPerfectly: "we already restore the .db files perfectly" (a comment
\* of restore_backup): what the server reads after its restart is the archive.
RestoresPerfectly == \A s \in Scopes : old[s] = None => Opened(s) \cup wal[s] = logical[s]

-----------------------------------------------------------------------------
(* The inductive invariant.                                                *)

Active(j) == job[j].step \notin {"idle", "done"}

\* SecondInv: a second in which no two backups met is used by one at a time,
\* and nothing is left under its names while another one may start in it.
SecondInv(t) ==
    t \notin met =>
        /\ \A i, j \in Jobs :
              Active(i) /\ Active(j) /\ job[i].at = t /\ job[j].at = t => i = j
        /\ second <= t /\ (\A j \in Jobs : Active(j) => job[j].at # t)
              => staging[t] = None /\ temp[t] = None

\* JobInv: what such a backup has staged, or archived, is of its own scope.
JobInv(j) ==
    LET t == job[j].at  s == job[j].scope IN Active(j) =>
        /\ s \in Scopes /\ t <= second
        /\ t \notin met =>
              /\ job[j].step = "copy" => staging[t] # None /\ staging[t].uploads = {}
              /\ job[j].step = "tar" =>
                    staging[t] # None /\ staging[t].owner = s /\ staging[t].uploads = {s}
              /\ job[j].step = "move" => temp[t].owner = s /\ temp[t].uploads = {s}
              /\ job[j].step # "move" => temp[t] = None

BackupInv ==
    /\ TypeOK /\ OwnArchive /\ Faithful
    /\ \A t \in Seconds : SecondInv(t)
    /\ \A j \in Jobs : JobInv(j)
=============================================================================
