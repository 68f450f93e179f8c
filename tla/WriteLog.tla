------------------------------ MODULE WriteLog ------------------------------
(***************************************************************************)
(* What a caller of the write path is promised, without channel, batch or  *)
(* transaction: one log of rows; a call joins a line, its block of rows is *)
(* appended as a whole and at its turn, and only then may it be told `ok`. *)
(* A call that is told `err` is not in the log as a whole, now or later.   *)
(***************************************************************************)
EXTENDS Naturals, Sequences, SequencesExt

CONSTANTS Reqs, Rows

VARIABLES status, arrivals, log

vars == <<status, arrivals, log>>

\* All rows of r are in the log.
Written(r) == \A i \in 1..Rows[r] : <<r, i>> \in ToSet(log)

Init ==
    /\ status = [r \in Reqs |-> "idle"]
    /\ arrivals = <<>>
    /\ log = <<>>

Submit(r) ==
    /\ status[r] = "idle"
    /\ status' = [status EXCEPT ![r] = "waiting"]
    /\ arrivals' = Append(arrivals, r)
    /\ UNCHANGED log

\* r is ahead of q in the line.
Before(r, q) ==
    \E i, j \in DOMAIN arrivals : i < j /\ arrivals[i] = r /\ arrivals[j] = q

\* One commit: a sequence of blocks, each the first rows of one request (all
\* of them for a caller that still waits), in the order of the line.
AppendBlocks ==
    \E new \in {SubSeq(log', Len(log) + 1, Len(log'))} :
        /\ new # <<>>
        /\ log' = log \o new
        /\ \A k \in DOMAIN new :
              LET req == new[k][1]
                  i == new[k][2]
              IN /\ req \in ToSet(arrivals)
                 /\ i \in 1..Rows[req]
                 /\ \A j \in DOMAIN log : log[j][1] # req
                 /\ i > 1 => k > 1 /\ new[k - 1] = <<req, i - 1>>
                 /\ i < Rows[req] /\ status[req] = "waiting"
                      => k < Len(new) /\ new[k + 1] = <<req, i + 1>>
                 /\ status[req] = "err" => <<req, Rows[req]>> \notin ToSet(new)
        /\ \A j, k \in DOMAIN log' :
              Before(log'[j][1], log'[k][1]) => j < k

Commit == AppendBlocks /\ UNCHANGED <<status, arrivals>>

Grant(r) ==
    /\ status[r] = "waiting"
    /\ Written(r)
    /\ status' = [status EXCEPT ![r] = "ok"]
    /\ UNCHANGED <<arrivals, log>>

\* Some calls are refused; those have no complete block in the log.
Refuse ==
    /\ \A r \in Reqs : status'[r] # status[r] =>
          /\ status[r] = "waiting"
          /\ status'[r] = "err"
          /\ Rows[r] > 0 => ~Written(r)
    /\ UNCHANGED <<arrivals, log>>

\* Some callers stop waiting, or the server they wait for is gone: they know
\* nothing of their call.
Forget ==
    /\ \A r \in Reqs : status'[r] # status[r] =>
          status[r] = "waiting" /\ status'[r] \in {"gone", "dropped"}
    /\ UNCHANGED <<arrivals, log>>

Next ==
    \/ \E r \in Reqs : Submit(r) \/ Grant(r)
    \/ Commit
    \/ Refuse
    \/ Forget

Spec == Init /\ [][Next]_vars
=============================================================================
