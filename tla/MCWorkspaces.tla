---------------------------- MODULE MCWorkspaces ----------------------------
(***************************************************************************)
(* The components that manage workspaces, checked by TLC in one run: a     *)
(* behaviour is one of one component, which `part' names for good.  The    *)
(* quota of AI requests keeps its own variables; those of the others have  *)
(* the names of their modules, but for names that two of them use, and     *)
(* are None where another part runs.                                       *)
(***************************************************************************)
EXTENDS AiQuota, TLC

CONSTANTS
    p, q, None,
    Tenants, Visitors, Operators, MaxDirs,          \* tenants
    Sandboxes, Scripted, Visited, Limit, Faults,    \* sandboxes
    Databases, MainDatabase, Allowed, MaxCommits, MaxSeconds,  \* backups; their jobs are Clients
    Archived,                                       \* the command line
    Admins, Fields, Values, MaxCalls,               \* settings
    Throttled, Limits, Configs, MaxLimiters,        \* limits; their requests are Clients
    MaxChanges, MaxAdmits,
    Positions, MaxDelay, Jobs, Due, MaxCrons, Interval, \* the scheduler
    MaxTickers, MaxTicks, Minutes

VARIABLES
    part,
    registry, made, dir, files, cache, visit,
    rows, used, folder, opened, late, cleanup, work, wiped,
    limited, clock, tickers, last, ticks, locks, count, starts, runs, raced, clash,
    second, commits, base, wal, old, staging, temp, archives, task, met, logical, stale,
    step, scope, todo, baks, path, bak,
    general, group, form, edit, calls, typed, intended, disturbed,
    config, tier, entry, limiter, tokens, limiters, request, changes, admits, spent,
    replaced, aged

tenants == <<registry, made, dir, files, cache, visit>>
sandboxes == <<rows, used, folder, opened, late, cleanup, work, wiped>>
scheduler == <<limited, clock, tickers, last, ticks, locks, count, starts, runs, raced, clash>>
backups == <<second, commits, base, wal, old, staging, temp, archives, task, met, logical, stale>>
restore == <<step, scope, todo, baks, path, bak>>
settings == <<general, group, form, edit, calls, typed, intended, disturbed>>
throttle == <<config, tier, entry, limiter, tokens, limiters, request, changes, admits, spent,
              replaced, aged>>

mcVars == <<vars, part, tenants, sandboxes, scheduler, backups, restore, settings, throttle>>

\* Two clients, jobs or requests that nothing tells apart.
Interchangeable == Permutations({p, q})

\* Two settings of the limits.
TwoConfigs == {[root |-> 1, free |-> 1, pro |-> 2], [root |-> 2, free |-> 1, pro |-> 1]}

\* One job, due at the start of a minute; the backup is due at its end.
OneJob == <<"j">>
DueTimes == [x \in {"j", "backup"} |-> IF x = "j" THEN 0 ELSE 2]

-----------------------------------------------------------------------------
(* The instances.                                                          *)

T == INSTANCE TenantManager WITH Clients <- Visitors, call <- visit
S == INSTANCE SandboxManager WITH dir <- folder, cache <- opened, call <- work
B == INSTANCE Backup WITH
        Scopes <- Databases, Root <- MainDatabase, Jobs <- Clients, job <- task
C == INSTANCE CliRestore WITH Scopes <- Archived
G == INSTANCE Settings WITH row <- group, call <- edit
R == INSTANCE Throttle WITH
        Requests <- Clients, Tenants <- Throttled, made <- limiters, stale <- aged

D == INSTANCE Scheduler WITH Seconds <- Positions

ASSUME PartsAssumption ==
    /\ T!ConstantsAssumption /\ S!ConstantsAssumption /\ B!ConstantsAssumption
    /\ D!ConstantsAssumption /\ G!ConstantsAssumption /\ R!ConstantsAssumption

-----------------------------------------------------------------------------
(* A part that does not run.                                               *)

NoTenants ==
    /\ registry = None /\ made = None /\ dir = None /\ files = None /\ cache = None
    /\ visit = None
NoSandboxes ==
    /\ rows = None /\ used = None /\ folder = None /\ opened = None /\ late = None
    /\ cleanup = None /\ work = None /\ wiped = None
NoScheduler ==
    /\ limited = None /\ clock = None /\ tickers = None /\ last = None /\ ticks = None
    /\ locks = None /\ count = None /\ starts = None /\ runs = None /\ raced = None
    /\ clash = None
NoBackups ==
    /\ second = None /\ commits = None /\ base = None /\ wal = None /\ old = None
    /\ staging = None /\ temp = None /\ archives = None /\ task = None /\ met = None
    /\ logical = None /\ stale = None
NoRestore ==
    /\ step = None /\ scope = None /\ todo = None /\ baks = None /\ path = None /\ bak = None
NoSettings ==
    /\ general = None /\ group = None /\ form = None /\ edit = None /\ calls = None
    /\ typed = None /\ intended = None /\ disturbed = None
NoThrottle ==
    /\ config = None /\ tier = None /\ entry = None /\ limiter = None /\ tokens = None
    /\ limiters = None /\ request = None /\ changes = None /\ admits = None /\ spent = None
    /\ replaced = None /\ aged = None

MCInit ==
    /\ Init
    /\ part \in {"quota", "tenants", "sandboxes", "scheduler", "backups", "restore",
                 "settings", "throttle"}
    /\ IF part = "tenants" THEN T!Init ELSE NoTenants
    /\ IF part = "sandboxes" THEN S!Init ELSE NoSandboxes
    /\ IF part = "scheduler" THEN D!Init ELSE NoScheduler
    /\ IF part = "backups" THEN B!Init ELSE NoBackups
    /\ IF part = "restore" THEN C!Init ELSE NoRestore
    /\ IF part = "settings" THEN G!Init ELSE NoSettings
    /\ IF part = "throttle" THEN R!Init ELSE NoThrottle

MCNext ==
    \/ /\ part = "quota" /\ Next
       /\ UNCHANGED <<part, tenants, sandboxes, scheduler, backups, restore, settings, throttle>>
    \/ /\ part = "tenants" /\ T!Next
       /\ UNCHANGED <<part, vars, sandboxes, scheduler, backups, restore, settings, throttle>>
    \/ /\ part = "sandboxes" /\ S!Next
       /\ UNCHANGED <<part, vars, tenants, scheduler, backups, restore, settings, throttle>>
    \/ /\ part = "scheduler" /\ D!Next
       /\ UNCHANGED <<part, vars, tenants, sandboxes, backups, restore, settings, throttle>>
    \/ /\ part = "backups" /\ B!Next
       /\ UNCHANGED <<part, vars, tenants, sandboxes, scheduler, restore, settings, throttle>>
    \/ /\ part = "restore" /\ C!Next
       /\ UNCHANGED <<part, vars, tenants, sandboxes, scheduler, backups, settings, throttle>>
    \/ /\ part = "settings" /\ G!Next
       /\ UNCHANGED <<part, vars, tenants, sandboxes, scheduler, backups, restore, throttle>>
    \/ /\ part = "throttle" /\ R!Next
       /\ UNCHANGED <<part, vars, tenants, sandboxes, scheduler, backups, restore, settings>>

MCSpec == MCInit /\ [][MCNext]_mcVars

-----------------------------------------------------------------------------
(* The properties; each names those of one component.                      *)

\* Tenants: a cached context answers with the status of its row and writes to
\* the directory that exists, and nobody is served after a suspension, but for
\* the loads that overlapped with the change (workspaces_manager/tenant.rs).
TenantsSafe ==
    part = "tenants" => T!TypeOK /\ T!StatusCurrent /\ T!FilesCurrent /\ T!ShutOut

\* Sandboxes: what is listed can be opened, and requests write to the files
\* that exist (workspaces_manager/sandbox.rs).
SandboxesSafe ==
    part = "sandboxes" => S!TypeOK /\ S!RegisteredHasFiles /\ S!ContextCurrent

\* A deleted tenant does not come back by itself, and creations one after the
\* other never exceed the limit of sandboxes.
StepsSafe ==
    [][/\ part = "tenants" => T!NoRevivalStep
       /\ part = "sandboxes" => S!WithinLimitStep]_mcVars

\* Scheduler: a task is started once for the ticks of a minute and once for a
\* due time, and a scope keeps to its number of jobs (system/scheduler.rs).
SchedulerSafe ==
    part = "scheduler" => D!TypeOK /\ D!StartedOnce /\ D!DueOnce /\ D!IntervalBound

\* Backups: an archive holds its own scope, a restore gives back what the
\* archive holds (system/backup.rs), and the command line keeps the original
\* databases when it fails (commands/backup.rs).
BackupsSafe ==
    /\ part = "backups" => B!TypeOK /\ B!OwnArchive /\ B!Faithful
    /\ part = "restore" => C!TypeOK /\ C!OriginalKept

\* Settings and limits: a secret survives the updates that do not name it, a
\* field the updates of other fields (api/system/settings.rs), and a client
\* gets no more requests through than its own scope's limit
\* (server/middleware/rate_limit.rs).
SettingsSafe ==
    /\ part = "settings" => G!TypeOK /\ G!SecretKept /\ G!GeneralKept
    /\ part = "throttle" => R!TypeOK /\ R!LimitHolds /\ R!LimitIsOwn
=============================================================================
