----------------------------- MODULE ScriptJobs -----------------------------
(***************************************************************************)
(* Jobs that scripts start in the background (apexkit-core scripting/      *)
(* builtins/queue.rs) and the cache of a scope that counts their budget    *)
(* (apexkit-api context.rs).  A counter is read and written in two steps,  *)
(* so calls that overlap lose increments; the cache forgets its entries    *)
(* when the context of the scope is loaded anew.                           *)
(***************************************************************************)
EXTENDS Naturals, Sequences, FiniteSets

CONSTANTS
    Callers,    \* scripts that call at the same time
    Estimates,  \* seconds that a job reserves: its timeout, at least one
    Limit,      \* seconds per window (60)
    MaxJobs, MaxIncr, MaxForgets, MaxWindows,   \* bounds of the model
    None

VARIABLES
    cache,      \* [counter -> value or None]; "quota" is the one of this window
    window,     \* five-minute windows passed
    call,       \* [caller -> None or what it does]
    jobs,       \* [job -> status], the tracker
    reserved,   \* seconds reserved in this window by the jobs that were let in
    added,      \* what scripts have added to their own counter since it was set
    incrs, forgets,
    raced       \* counters on which two increments overlapped, or that were forgotten

vars == <<cache, window, call, jobs, reserved, added, incrs, forgets, raced>>

Counters == {"quota", "own"}
Idle == [step |-> "idle"]
Running == {c \in Callers : call[c].step # "idle"}
Count(v) == IF v = None THEN 0 ELSE v

Init ==
    /\ cache = [k \in Counters |-> None] /\ window = 0
    /\ call = [c \in Callers |-> Idle]
    /\ jobs = << >> /\ reserved = 0 /\ added = 0 /\ incrs = 0 /\ forgets = 0 /\ raced = {}

-----------------------------------------------------------------------------
(* spawn: the budget is looked up first and reserved after that.           *)

\* Mutant: the last second of the budget admits a job as well.
MutAdmits(used) == used <= Limit
Admits(used) == used < Limit

Spawn(c, estimate) ==
    /\ call[c] = Idle /\ Len(jobs) + Cardinality(Running) < MaxJobs
    /\ Admits(Count(cache["quota"]))
    /\ call' = [call EXCEPT ![c] = [step |-> "get", key |-> "quota", delta |-> estimate, window |-> window]]
    /\ UNCHANGED <<cache, window, jobs, reserved, added, incrs, forgets, raced>>

\* A script's own $cache.incr.
Incr(c) ==
    /\ call[c] = Idle /\ incrs < MaxIncr /\ incrs' = incrs + 1
    /\ call' = [call EXCEPT ![c] = [step |-> "get", key |-> "own", delta |-> 1, window |-> window]]
    /\ UNCHANGED <<cache, window, jobs, reserved, added, forgets, raced>>

\* A counter of an earlier window is another key, which nobody reads any more.
Current(c) == call[c].key = "own" \/ call[c].window = window

\* Another increment of the same counter has read it and not yet written.
Overlaps(c) ==
    {d \in Running \ {c} : call[d].key = call[c].key /\ call[d].step = "insert" /\ Current(d)}

CacheGet(c) ==
    /\ call[c].step = "get"
    /\ call' = [call EXCEPT ![c] = [step |-> "insert", key |-> @.key, delta |-> @.delta, window |-> @.window,
                                    read |-> IF Current(c) THEN Count(cache[@.key]) ELSE 0]]
    /\ raced' = IF Current(c) /\ Overlaps(c) # {} THEN raced \cup {call[c].key} ELSE raced
    /\ UNCHANGED <<cache, window, jobs, reserved, added, incrs, forgets>>

\* The new value goes into the cache; a job is then entered in the tracker.
CacheInsert(c) ==
    /\ call[c].step = "insert"
    /\ call' = [call EXCEPT ![c] = Idle]
    /\ cache' = IF Current(c) THEN [cache EXCEPT ![call[c].key] = call[c].read + call[c].delta] ELSE cache
    /\ IF call[c].key = "quota"
         THEN /\ jobs' = Append(jobs, "queued") /\ UNCHANGED added
              /\ reserved' = IF Current(c) THEN reserved + call[c].delta ELSE reserved
         ELSE added' = added + call[c].delta /\ UNCHANGED <<jobs, reserved>>
    /\ UNCHANGED <<window, incrs, forgets, raced>>

\* $cache.set and $cache.delete of a counter of the script's own.
CacheSet(n) ==
    /\ forgets < MaxForgets /\ forgets' = forgets + 1
    /\ cache' = [cache EXCEPT !["own"] = n] /\ added' = Count(n)
    /\ raced' = IF \E c \in Running : call[c].key = "own" THEN raced \cup {"own"} ELSE raced \ {"own"}
    /\ UNCHANGED <<window, call, jobs, reserved, incrs>>

\* The context of the scope is invalidated and loaded with an empty cache.
Forget ==
    /\ forgets < MaxForgets /\ forgets' = forgets + 1
    /\ cache' = [k \in Counters |-> None] /\ raced' = Counters
    /\ UNCHANGED <<window, call, jobs, reserved, added, incrs>>

NextWindow ==
    /\ window < MaxWindows /\ window' = window + 1
    /\ cache' = [cache EXCEPT !["quota"] = None] /\ reserved' = 0
    /\ raced' = raced \ {"quota"}
    /\ UNCHANGED <<call, jobs, added, incrs, forgets>>

-----------------------------------------------------------------------------
(* The task of a job.                                                      *)

Start(j) ==
    /\ jobs[j] = "queued" /\ jobs' = [jobs EXCEPT ![j] = "running"]
    /\ UNCHANGED <<cache, window, call, reserved, added, incrs, forgets, raced>>

\* It returns, throws or is dropped at its timeout.
End(j) ==
    /\ jobs[j] = "running"
    /\ \E status \in {"completed", "failed", "timed_out"} : jobs' = [jobs EXCEPT ![j] = status]
    /\ UNCHANGED <<cache, window, call, reserved, added, incrs, forgets, raced>>

Next ==
    \/ \E c \in Callers :
         \/ \E estimate \in Estimates : Spawn(c, estimate)
         \/ Incr(c) \/ CacheGet(c) \/ CacheInsert(c)
    \/ \E n \in {None, 5} : CacheSet(n)
    \/ Forget \/ NextWindow
    \/ \E j \in DOMAIN jobs : Start(j) \/ End(j)

Spec == Init /\ [][Next]_vars

-----------------------------------------------------------------------------
TypeOK ==
    /\ \A k \in Counters : cache[k] = None \/ cache[k] \in Nat
    /\ \A j \in DOMAIN jobs : jobs[j] \in {"queued", "running", "completed", "failed", "timed_out"}

\* Counted: while no increments overlap and nothing is forgotten, a counter is
\* the sum of what was added to it.  "Atomic increment. Essential for quotas."
\* (docs/v0_1_0/scripting_engine.md:75) would be this without the condition.
Counted ==
    /\ "quota" \notin raced => Count(cache["quota"]) = reserved
    /\ "own" \notin raced => Count(cache["own"]) = added

\* BudgetKept: unless increments overlapped, the jobs of a window reserve no
\* more than its limit and what every caller may ask for at once: each of them
\* looks at the budget before the others have reserved.
BudgetKept ==
    "quota" \notin raced => \E e \in Estimates : reserved <= Limit - 1 + Cardinality(Callers) * e

\* FinalStays: a job that has ended keeps its status, and none that a caller was
\* told of disappears.
FinalStays ==
    \A j \in DOMAIN jobs :
        /\ j \in DOMAIN jobs'
        /\ jobs[j] \in {"completed", "failed", "timed_out"} => jobs'[j] = jobs[j]
        /\ jobs[j] = "running" => jobs'[j] # "queued"
=============================================================================
