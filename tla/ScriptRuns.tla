----------------------------- MODULE ScriptRuns -----------------------------
(***************************************************************************)
(* The runs of scripts and hooks (apexkit-core scripting/engine.rs).  Each *)
(* takes one permit of the process, in the order of asking, puts its code  *)
(* into the table of module files, and is dropped when its time is over.   *)
(* $run.script starts another run from within: it asks for a permit of its *)
(* own while its caller keeps the one it has, so that callers can wait for *)
(* each other until the first of them times out.                           *)
(*                                                                         *)
(* A run and all that it has called are one future, polled by one task.    *)
(* While one of them computes and does not await, nothing of that tree     *)
(* moves, its timers included.                                             *)
(***************************************************************************)
EXTENDS Naturals, Sequences, FiniteSets

CONSTANTS
    Permits,    \* 50
    MaxRuns     \* bound: the runs of a behaviour

ConstantsAssumption == Permits \in Nat \ {0} /\ MaxRuns \in Nat

Runs == 1..MaxRuns
Kinds == {"script", "hook"}

VARIABLES
    run,        \* sequence of [kind, callers (whose futures contain it), step]
    free,       \* permits of EXECUTION_SEMAPHORE nobody holds
    files       \* runs whose module is in VfsState

vars == <<run, free, files>>

Started == DOMAIN run
At(r, step) == r \in Started /\ run[r].step = step
Holds(r) == run[r].step \in {"ready", "running", "busy", "over"}
Live(r) == At(r, "waiting") \/ Holds(r)
Children(r) == {s \in Started : r \in run[s].callers /\ Live(s)}

\* r and what it has called, directly or not.
Tree(r) == {s \in Started : s = r \/ r \in run[s].callers}

\* The request or job that a run belongs to.
Root(r) == IF run[r].callers = {} THEN r ELSE CHOOSE s \in run[r].callers : run[s].callers = {}

\* The task of r is polled: nothing it contains is busy.
Polled(r) == \A s \in Tree(Root(r)) : ~At(s, "busy")

Init ==
    /\ run = << >> /\ files = {}
    /\ free = Permits

\* A call of run_script or run_hook, which `callers' await.
Enter(kind, callers) ==
    /\ Len(run) < MaxRuns
    /\ run' = Append(run, [kind |-> kind, callers |-> callers, step |-> "waiting"])
    /\ UNCHANGED <<free, files>>

\* A request, a job or a record handler.
Request(kind) == Enter(kind, {})

\* Semaphore::acquire: permits go to those who asked first, polled or not; a
\* run's number is its place in the line.
Acquire == \E r \in Started :
    /\ At(r, "waiting") /\ free > 0
    /\ \A s \in Started : At(s, "waiting") => r <= s
    /\ run' = [run EXCEPT ![r].step = "ready"] /\ free' = free - 1
    /\ UNCHANGED files

\* The module is stored under a name of its own, and the task starts, with
\* its time-out.
Install(r) ==
    /\ At(r, "ready") /\ Polled(r)
    /\ run' = [run EXCEPT ![r].step = "running"]
    /\ files' = files \cup {r}
    /\ UNCHANGED free

\* $run.script; the script may go on and call others before this one is done.
Call(r) ==
    /\ At(r, "running") /\ Polled(r)
    /\ Enter("script", run[r].callers \cup {r})

-----------------------------------------------------------------------------
(* The ways out.  `gone' are the runs whose futures are dropped.           *)

\* Mutant: the permits of what a dropped run had called are not given back.
MutRelease(r, gone) == free' = free + (IF Holds(r) THEN 1 ELSE 0)
Release(r, gone) == free' = free + Cardinality({s \in gone : Holds(s)})

\* The runtime is idle only when everything the script has called is done.
MutIdle(r) == TRUE
Idle(r) == Children(r) = {}

\* remove_file, whatever the result.
Return(r) ==
    /\ Idle(r) /\ Polled(r)
    /\ run' = [run EXCEPT ![r].step = "ended"]
    /\ files' = files \ {r}
    /\ Release(r, {r})

\* The handler of a script has returned, or an exception has come out of it.
ReturnScript(r) ==
    /\ run[r].kind = "script"
    /\ At(r, "running") \/ At(r, "over")
    /\ Return(r)

\* A hook has returned: nothing, other data, or `false', which is an error.
ReturnHook(r) ==
    /\ run[r].kind = "hook" /\ At(r, "running")
    /\ Return(r)

\* A loop that does not await.
Loop(r) ==
    /\ At(r, "running") /\ Polled(r)
    /\ run' = [run EXCEPT ![r].step = "busy"]
    /\ UNCHANGED <<free, files>>

\* The interrupt handler of run_script: no code of it runs after its budget.
\* run_hook sets none.
Interrupt(r) ==
    /\ At(r, "busy") /\ run[r].kind = "script"
    /\ run' = [run EXCEPT ![r].step = "over"]
    /\ UNCHANGED <<free, files>>

DropTree(r, step) ==
    LET gone == {s \in Tree(r) : Live(s)} IN
    /\ run' = [s \in Started |->
                  IF s \notin gone THEN run[s]
                  ELSE [run[s] EXCEPT !.step = IF s = r THEN step ELSE "dropped"]]
    /\ Release(r, gone)

\* Mutant: a time-out that leaves at once, by a `?'.
MutForget(r) == UNCHANGED files
Forget(r) == files' = files \ {r}

\* The time-out drops the task and what it has called; only the file of the
\* run itself is removed.
Timeout(r) ==
    /\ At(r, "running") \/ At(r, "over")
    /\ Polled(r)
    /\ DropTree(r, "ended")
    /\ Forget(r)

\* The client hangs up, or the job that contains the run times out itself:
\* the call is dropped before it gets to remove_file.
Drop(r) ==
    /\ run[r].callers = {} /\ Live(r) /\ Polled(r)
    /\ DropTree(r, "dropped")
    /\ UNCHANGED files

Next ==
    \/ \E kind \in Kinds : Request(kind)
    \/ Acquire
    \/ \E r \in Started :
          \/ Install(r) \/ Call(r) \/ ReturnScript(r) \/ ReturnHook(r)
          \/ Loop(r) \/ Interrupt(r) \/ Timeout(r) \/ Drop(r)

\* The code of a script owes nothing; the runtime, the timers and the interrupt
\* handler do their part.
Fairness ==
    /\ WF_vars(Acquire)
    /\ \A r \in Runs :
          /\ WF_vars(r \in Started /\ Install(r))
          /\ WF_vars(r \in Started /\ Interrupt(r))
          /\ WF_vars(r \in Started /\ Timeout(r))

Spec == Init /\ [][Next]_vars /\ Fairness

-----------------------------------------------------------------------------
TypeOK ==
    /\ run \in Seq([kind : Kinds, callers : SUBSET Runs,
                    step : {"waiting", "ready", "running", "busy", "over", "ended", "dropped"}])
    /\ Len(run) <= MaxRuns /\ files \subseteq Started
    /\ \A r \in Started : \A c \in run[r].callers : c < r /\ run[c].callers \subseteq run[r].callers
    /\ free \in 0..Permits

\* PermitsKept: however runs end, alone, by the time-out of a caller or because
\* nobody waits for them any more, no permit is lost and none is given twice.
PermitsKept == free + Cardinality({r \in Started : Holds(r)}) = Permits

\* NoOrphans: no run goes on after those that await it.
NoOrphans == \A r \in Started : Live(r) => \A c \in run[r].callers : Live(c)

\* FilesExplained: a module is in the table from the start of its run to its
\* end; it is left behind only by a run that was dropped from outside.
FilesExplained ==
    \A r \in Started :
        /\ run[r].step \in {"running", "busy", "over"} => r \in files
        /\ r \in files => ~(run[r].step \in {"waiting", "ready", "ended"})

\* Hung: a hook computes without end; its task and its permit are gone for good.
Hung == \E r \in Started : At(r, "busy") /\ run[r].kind = "hook"

\* RunEnds: even where every permit is held by a caller that waits for another
\* permit, every run ends: the time-outs see to it, unless a hook hangs.
Waits(r) == r \in Started /\ Live(r)
RunEnds == \A r \in Runs : Waits(r) ~> (~Waits(r) \/ Hung)
=============================================================================
