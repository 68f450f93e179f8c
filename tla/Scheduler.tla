----------------------------- MODULE Scheduler -----------------------------
(***************************************************************************)
(* The ticks of SchedulerService (apexkit-api/src/system/scheduler.rs) for *)
(* one scope: process_context_crons starts the scheduled backup, reads how *)
(* many jobs the scope has run in the current interval, runs the jobs that *)
(* are due one after the other, and adds their number to the count.  Locks *)
(* and counts are entries of root_script_cache, each read and written in   *)
(* two steps.                                                              *)
(*                                                                         *)
(* A minute has Seconds positions; a tick of minute m comes at its         *)
(* position 0 or up to MaxDelay later.  load_jobs is called again by a     *)
(* reload of the root scope and adds a second set of tickers to the        *)
(* scheduler, which nothing removes.                                       *)
(***************************************************************************)
EXTENDS Naturals, Sequences, FiniteSets, Bags

CONSTANTS
    Seconds,    \* positions of a minute
    MaxDelay,   \* how late a tick may be
    Jobs,       \* the active jobs, in the order of the setting
    Due,        \* the position at which each job, and the backup, is due
    MaxCrons,   \* TENANT_MAX_CRONS
    Interval,   \* TENANT_CRON_INTERVAL
    MaxTickers, \* bound on the calls of load_jobs
    MaxTicks,   \* bound on the ticks at work at once
    Minutes     \* bound on time

Backup == "backup"
JobSet == {Jobs[i] : i \in DOMAIN Jobs}
Tasks == JobSet \cup {Backup}
Tickers == 1..MaxTickers

ConstantsAssumption ==
    /\ Seconds \in Nat \ {0} /\ MaxDelay \in Nat /\ MaxDelay < Seconds
    /\ Jobs \in Seq(JobSet) /\ Backup \notin JobSet
    /\ Due \in [Tasks -> 0..(Seconds - 1)]
    /\ MaxCrons \in Nat /\ Interval \in Nat \ {0}
    /\ MaxTickers \in Nat \ {0} /\ MaxTicks \in Nat \ {0} /\ Minutes \in Nat

VARIABLES
    limited,    \* the scope is a tenant or a sandbox
    clock,      \* in positions
    tickers,    \* number of sets of tickers
    last,       \* the last minute each ticker has ticked in
    ticks,      \* the calls of process_context_crons under way
    locks,      \* backup_lock and cron_lock: pairs of a task and a minute
    count,      \* cron_limit: the jobs counted in each interval
    starts,     \* starts of a task by a tick of a minute, for a due time of a minute
    runs,       \* jobs started by ticks that asked for the limit in an interval
    raced,      \* locks that two ticks took at once, or that were pushed out
    clash       \* intervals with two ticks at work at once, or a count pushed out

vars == <<limited, clock, tickers, last, ticks, locks, count, starts, runs, raced, clash>>
ghosts == <<starts, runs, raced, clash>>

Minute(time) == time \div Seconds
Window(time) == Minute(time) \div Interval
Stamps == 0..Minutes
Windows == 0..Window(Minutes * Seconds + Seconds)

Init ==
    /\ limited \in BOOLEAN
    /\ clock = 0
    /\ tickers = 1
    /\ last = [k \in Tickers |-> 0]
    /\ ticks = {}
    /\ locks = {}
    /\ count = [w \in Windows |-> 0]
    /\ starts = EmptyBag
    /\ runs = [w \in Windows |-> 0]
    /\ raced = {}
    /\ clash = {}

\* The scheduler ticks before the delay is over.
Pass ==
    /\ clock < Minutes * Seconds + MaxDelay
    /\ clock % Seconds = MaxDelay => \A k \in 1..tickers : last[k] = Minute(clock)
    /\ clock' = clock + 1
    /\ UNCHANGED <<limited, tickers, last, ticks, locks, count, ghosts>>

\* load_jobs, of a reload; its tickers wait for the next minute.
LoadJobs ==
    /\ tickers < MaxTickers
    /\ clock % Seconds > MaxDelay
    /\ tickers' = tickers + 1
    /\ last' = [last EXCEPT ![tickers'] = Minute(clock)]
    /\ UNCHANGED <<limited, clock, ticks, locks, count, ghosts>>

Tick(k) ==
    /\ k <= tickers /\ last[k] < Minute(clock)
    /\ Cardinality(ticks) < MaxTicks
    /\ last' = [last EXCEPT ![k] = Minute(clock)]
    /\ ticks' = ticks \cup
          {[ticker |-> k, now |-> clock, step |-> "backup", todo |-> Jobs, ran |-> 0, win |-> 0, read |-> 0]}
    /\ UNCHANGED <<limited, clock, tickers, locks, count, ghosts>>

Become(t, u) == ticks' = (ticks \ {t}) \cup {u}

\* Mutant: the window is closed at both ends.
MutInWindow(due, now) == due + Seconds >= now /\ due <= now
\* schedule.after(now - 60 s).next() is not later than now.
InWindow(due, now) == due + Seconds > now /\ due <= now

\* The minutes whose due time the tick of now serves: one, or none.
Served(x, now) == {m \in Stamps : InWindow(m * Seconds + Due[x], now)}
IsDue(x, now) == Served(x, now) # {}

\* Mutant: the lock is not looked at.
MutLocked(x, m) == FALSE
Locked(x, m) == <<x, m>> \in locks

\* The task that t is about to lock.
Taking(t) == IF t.step = "block" THEN Backup ELSE IF t.step = "lock" THEN Head(t.todo) ELSE "none"

\* Another tick has looked for the same lock and not set it yet.
Rivals(t, x) ==
    {u \in ticks \ {t} : Taking(u) = x /\ Minute(u.now) = Minute(t.now)}

LookForBackup(t) ==
    /\ t.step = "backup"
    /\ Become(t, [t EXCEPT !.step =
          IF IsDue(Backup, t.now) /\ ~Locked(Backup, Minute(t.now)) THEN "block" ELSE "limit"])
    /\ UNCHANGED <<limited, clock, tickers, last, locks, count, ghosts>>

Start(t, x) ==
    LET m == Minute(t.now) IN
    /\ locks' = locks \cup {<<x, m>>}
    /\ starts' = starts (+) SetToBag({x} \X {m} \X Served(x, t.now))
    /\ raced' = IF Rivals(t, x) # {} THEN raced \cup {<<x, m>>} ELSE raced

\* perform_backup is spawned: the tick goes on.
StartBackup(t) ==
    /\ t.step = "block"
    /\ Start(t, Backup)
    /\ Become(t, [t EXCEPT !.step = "limit"])
    /\ UNCHANGED <<limited, clock, tickers, last, count, runs, clash>>

\* Mutant: one more than the maximum.
MutAtLimit(w) == count[w] > MaxCrons
AtLimit(w) == count[w] >= MaxCrons

CheckLimit(t) ==
    /\ t.step = "limit"
    /\ IF limited /\ AtLimit(Window(clock))
         THEN ticks' = ticks \ {t}
         ELSE Become(t, [t EXCEPT !.step = "job", !.win = Window(clock)])
    /\ clash' = IF ticks = {t} THEN clash ELSE clash \cup {Window(clock)}
    /\ UNCHANGED <<limited, clock, tickers, last, locks, count, starts, runs, raced>>

LookForJob(t) ==
    /\ t.step = "job" /\ t.todo # <<>>
    /\ LET x == Head(t.todo) IN
       IF IsDue(x, t.now) /\ ~Locked(x, Minute(t.now))
         THEN Become(t, [t EXCEPT !.step = "lock"])
         ELSE Become(t, [t EXCEPT !.todo = Tail(@)])
    /\ UNCHANGED <<limited, clock, tickers, last, locks, count, ghosts>>

StartJob(t) ==
    /\ t.step = "lock"
    /\ Start(t, Head(t.todo))
    /\ runs' = [runs EXCEPT ![t.win] = @ + 1]
    /\ Become(t, [t EXCEPT !.step = "run"])
    /\ UNCHANGED <<limited, clock, tickers, last, count, clash>>

\* execute_job has ended, well or not: the script or the request is awaited.
EndJob(t) ==
    /\ t.step = "run"
    /\ Become(t, [t EXCEPT !.step = "job", !.todo = Tail(@), !.ran = @ + 1])
    /\ UNCHANGED <<limited, clock, tickers, last, locks, count, ghosts>>

ReadCount(t) ==
    /\ t.step = "job" /\ t.todo = <<>>
    /\ IF limited /\ t.ran > 0
         THEN Become(t, [t EXCEPT !.step = "count", !.read = count[Window(clock)]])
         ELSE ticks' = ticks \ {t}
    /\ UNCHANGED <<limited, clock, tickers, last, locks, count, ghosts>>

\* The key was built when the count was read; the value is written over what
\* others have put there since.
WriteCount(t) ==
    /\ t.step = "count"
    /\ count' = [count EXCEPT ![Window(clock)] = t.read + t.ran]
    /\ ticks' = ticks \ {t}
    /\ UNCHANGED <<limited, clock, tickers, last, locks, ghosts>>

\* root_script_cache holds a thousand entries, those of the scripts included.
\* Bound: one entry is pushed out.
Forget ==
    /\ raced = {} /\ clash = {}
    /\ \/ \E l \in locks : locks' = locks \ {l} /\ raced' = raced \cup {l} /\ UNCHANGED <<count, clash>>
       \/ \E w \in Windows :
             /\ count[w] # 0
             /\ count' = [count EXCEPT ![w] = 0]
             /\ clash' = clash \cup {w}
             /\ UNCHANGED <<locks, raced>>
    /\ UNCHANGED <<limited, clock, tickers, last, ticks, starts, runs>>

Work(t) ==
    \/ LookForBackup(t) \/ StartBackup(t) \/ CheckLimit(t) \/ LookForJob(t)
    \/ StartJob(t) \/ EndJob(t) \/ ReadCount(t) \/ WriteCount(t)

Next ==
    \/ Pass \/ LoadJobs
    \/ \E k \in Tickers : Tick(k)
    \/ \E t \in ticks : Work(t)
    \/ Forget

Spec == Init /\ [][Next]_vars

-----------------------------------------------------------------------------
Steps == {"backup", "block", "limit", "job", "lock", "run", "count"}
Ticks == [ticker : Tickers, now : Nat, step : Steps, todo : Seq(JobSet), ran : Nat, win : Nat,
          read : Nat]

TypeOK ==
    /\ limited \in BOOLEAN
    /\ clock \in 0..(Minutes * Seconds + MaxDelay)
    /\ tickers \in Tickers
    /\ last \in [Tickers -> Stamps]
    /\ ticks \subseteq Ticks /\ Cardinality(ticks) <= MaxTicks
    /\ \A t \in ticks : t.now <= clock /\ t.ran + Len(t.todo) <= Len(Jobs)
    /\ locks \subseteq Tasks \X Stamps
    /\ count \in [Windows -> Nat] /\ runs \in [Windows -> Nat]
    /\ IsABag(starts) /\ BagToSet(starts) \subseteq Tasks \X Stamps \X Stamps

\* The starts of x that ticks of minutes in S made for due times in D.
StartsOf(x, S, D) == BagToSet(starts) \cap ({x} \X S \X D)
AtMostOnce(K) == \A k, l \in K : k = l /\ starts[k] = 1

\* StartedOnce: however many tickers there are, the ticks of one minute start
\* a task once, unless two of them looked for the lock before either had set
\* it, or the cache dropped the lock.
StartedOnce ==
    \A x \in Tasks, m \in Stamps : <<x, m>> \notin raced => AtMostOnce(StartsOf(x, {m}, Stamps))

\* A tick may come on either side of a due time between 1 and MaxDelay.
Steady(x) == Due[x] = 0 \/ Due[x] > MaxDelay
TickOf(x, m) == IF Due[x] = 0 THEN m ELSE m + 1

\* DueOnce: late as the ticks may be, a due time that no tick can fall on both
\* sides of is served once: neither by two ticks nor, when the scope has no
\* limit, by none.
DueOnce ==
    \A x \in Tasks, m \in Stamps :
        LET K == StartsOf(x, Stamps, {m}) IN
        Steady(x) /\ TickOf(x, m) \in 1..last[1] =>
            /\ <<x, TickOf(x, m)>> \notin raced => AtMostOnce(K)
            /\ ticks = {} /\ ~limited => K # {}

\* IntervalBound: unless two ticks of the scope are at work at once (a second
\* ticker, a job that runs longer than a minute) or the cache drops the count,
\* a scope runs in an interval at most MaxCrons - 1 jobs and those of one tick.
IntervalBound ==
    \A w \in Windows \ clash : limited => runs[w] = 0 \/ runs[w] < MaxCrons + Len(Jobs)

-----------------------------------------------------------------------------
(* The inductive invariant.                                                *)

\* TimeInv: a ticker is at most a minute behind, and not at all once its tick
\* of the minute is overdue.
TimeInv ==
    /\ \A k \in 1..tickers : last[k] = Minute(clock) \/ last[k] + 1 = Minute(clock)
    /\ clock % Seconds > MaxDelay => \A k \in 1..tickers : last[k] = Minute(clock)

\* TickInv: where a tick stands in its work.
Fresh(t) == t.step \in {"backup", "block", "limit"}
Takes(t, x) ==
    \/ t.step = "block" /\ x = Backup
    \/ t.step = "lock" /\ x = Head(t.todo)
TickInv ==
    \A t \in ticks :
        /\ t.now % Seconds <= MaxDelay
        /\ Fresh(t) => t.todo = Jobs /\ t.ran = 0
        /\ t.step \in {"lock", "run"} => t.todo # <<>>
        /\ t.win <= Window(clock)
        /\ \A x \in Tasks : Takes(t, x) => IsDue(x, t.now)

\* LockInv: what is locked was started; what was never locked was not, and what
\* is locked no tick is about to start.
Started(x, m) == \E d \in Stamps : <<x, m, d>> \in BagToSet(starts)
LockInv ==
    \A x \in Tasks, m \in Stamps :
        /\ <<x, m>> \in locks => Started(x, m)
        /\ <<x, m>> \notin raced /\ <<x, m>> \notin locks => ~Started(x, m)
        /\ <<x, m>> \notin raced /\ <<x, m>> \in locks =>
              \A t \in ticks : Takes(t, x) => Minute(t.now) # m

\* ServedInv: a start serves a due time that the ticks of its minute may serve.
Serves(x, m, d) ==
    \E now \in 0..clock : Minute(now) = m /\ now % Seconds <= MaxDelay /\ InWindow(d * Seconds + Due[x], now)
ServedInv ==
    \A x \in Tasks, m, d \in Stamps : <<x, m, d>> \in BagToSet(starts) => Serves(x, m, d)

\* SeenInv: the tick of a minute has started what was due, or will.
WillLookFor(t, x) ==
    \/ x = Backup /\ t.step \in {"backup", "block"}
    \/ t.step \notin {"run", "count"} /\ x \in {t.todo[i] : i \in DOMAIN t.todo}
    \/ t.step = "run" /\ x \in {t.todo[i] : i \in 2..Len(t.todo)}
SeenInv ==
    ~limited =>
        \A x \in Tasks : \A m \in 1..last[1] :
            \/ Started(x, m) \/ ~Steady(x)
            \/ \E t \in ticks : Minute(t.now) = m /\ WillLookFor(t, x)

\* LimitInv: the ticks past the limit in an interval, and what they have started
\* against what is counted.
Past(t) == t.step \in {"job", "lock", "run", "count"}
In(w) == {t \in ticks : Past(t) /\ t.win = w}
Done(t) == t.ran + (IF t.step = "run" THEN 1 ELSE 0)
LimitInv ==
    limited => \A w \in Windows :
        /\ w > Window(clock) => runs[w] = 0
        /\ w \notin clash =>
              /\ \A t, u \in In(w) : t = u
              /\ \A t \in In(w) : runs[w] < MaxCrons + Done(t)
              /\ In(w) = {} => runs[w] = 0 \/ runs[w] < MaxCrons + Len(Jobs)
        /\ w \notin clash /\ w = Window(clock) =>
              /\ In(w) # {} \/ runs[w] # 0 => \A t \in ticks : Past(t) => t \in In(w)
              /\ In(w) = {} => runs[w] <= count[w]
              /\ \A t \in In(w) : runs[w] <= count[w] + Done(t) /\ (t.step = "count" => t.read = count[w])

SchedulerInv ==
    /\ TypeOK /\ IsFiniteSet(ticks) /\ TimeInv /\ TickInv /\ LockInv /\ ServedInv /\ StartedOnce
    /\ SeenInv /\ LimitInv
=============================================================================
