-------------------------- MODULE WriteForwarding --------------------------
(***************************************************************************)
(* The write path of a replica: WriteManager with a forwarder (batching.rs)*)
(* and GrpcWriteForwarder (apexkit-api/src/replication/grpc_client.rs),    *)
(* with the two entries of the master that execute a forwarded write.      *)
(*                                                                         *)
(* The background task takes one request after the other and sends its     *)
(* rows one by one: first as a gRPC call, and when that fails for whatever *)
(* reason once more over the WebSocket, where it waits at most 15 seconds. *)
(* From the first failure on, USE_HTTP_FALLBACK sends every row of every   *)
(* request over the WebSocket.  An attempt is one sending of one row.      *)
(***************************************************************************)
EXTENDS Naturals, Sequences, FiniteSets, SequencesExt

CONSTANTS
    Reqs,       \* the requests that callers on the replica make
    Rows,       \* Rows[r]: the number of statements of r (1, or a bulk insert)
    MaxBoots,   \* bound on the number of starts of the replica
    Faults,     \* subset of FaultKinds
    None

\* sql    - the master refuses a statement (constraint, locked database)
\* grpc   - a gRPC call or its answer is lost, or no channel can be built
\* ws     - the WebSocket breaks
\* crash  - the master dies and is started again
\* reboot - the replica dies and is started again
FaultKinds == {"sql", "grpc", "ws", "crash", "reboot"}

ConstantsAssumption ==
    /\ Rows \in [Reqs -> Nat \ {0}]
    /\ MaxBoots \in Nat \ {0}
    /\ Faults \subseteq FaultKinds
    /\ None \notin Reqs

VARIABLES
    \* replica
    status,     \* what the caller of each request knows
    arrivals,   \* requests in the order in which the channel accepted them
    queue,      \* the channel and the batch
    cur, row,   \* the request and the row being forwarded
    phase,      \* where forward_write is
    fallback,   \* USE_HTTP_FALLBACK
    linked,     \* WS_OUTBOUND_TX leads to an open WebSocket
    pending,    \* get_pending_reqs(): attempts that wait for an answer
    boots,      \* number of starts of the replica
    \* between
    calls,      \* gRPC calls that the master has not executed
    results,    \* their results on the way back
    wire,       \* attempts sent over the WebSocket
    old,        \* the same for broken WebSockets whose handlers still run
    back,       \* WriteResponse messages on the way back
    \* master
    db          \* attempts that the master has committed, in commit order

replica == <<status, arrivals, queue, cur, row, phase, pending, boots>>
grpc == <<calls, results>>
socket == <<wire, old, back>>
vars == <<replica, fallback, linked, grpc, socket, db>>

Statuses == {"idle", "waiting", "ok", "err", "dropped"}
Phases == {"idle", "send", "call", "ws", "wait"}
Attempts == [req : Reqs, row : Nat \ {0}, via : {"grpc", "ws"}]
Outcomes == [att : Attempts, ok : BOOLEAN]

\* The attempt under way.
Attempt(via) == [req |-> cur, row |-> row, via |-> via]

Init ==
    /\ status = [r \in Reqs |-> "idle"]
    /\ arrivals = <<>>
    /\ queue = <<>>
    /\ cur = None
    /\ row = 0
    /\ phase = "idle"
    /\ fallback = FALSE
    /\ linked = FALSE
    /\ pending = {}
    /\ boots = 1
    /\ calls = {}
    /\ results = {}
    /\ wire = <<>>
    /\ old = {}
    /\ back = {}
    /\ db = <<>>

-----------------------------------------------------------------------------
(* The callers and the background task of the replica.                     *)

Submit(r) ==
    /\ status[r] = "idle"
    /\ status' = [status EXCEPT ![r] = "waiting"]
    /\ queue' = Append(queue, r)
    /\ arrivals' = Append(arrivals, r)
    /\ UNCHANGED <<cur, row, phase, pending, boots, fallback, linked, grpc, socket, db>>

\* The task starts on request r.
Forward(r, rest) ==
    /\ phase = "idle"
    /\ cur' = r
    /\ row' = 1
    /\ phase' = "send"
    /\ queue' = rest
    /\ UNCHANGED <<status, arrivals, pending, boots, fallback, linked, grpc, socket, db>>

\* Mutant: the batch is drained from its end.
MutTake == queue # <<>> /\ Forward(Last(queue), Front(queue))
Take == queue # <<>> /\ Forward(Head(queue), Tail(queue))

\* Mutant: errors are logged, not sent.
MutAnswer(v) == status' = IF v = "ok" THEN [status EXCEPT ![cur] = v] ELSE status
\* The answer to the caller of the request under way.
Answer(v) == status' = [status EXCEPT ![cur] = v]

Finish(v) ==
    /\ Answer(v)
    /\ cur' = None
    /\ row' = 0
    /\ phase' = "idle"

\* Mutant: one row too many.
MutMoreRows == row =< Rows[cur]
MoreRows == row < Rows[cur]

\* forward_write has returned Ok: the next row, or the answer.
RowOk ==
    IF MoreRows
      THEN /\ row' = row + 1
           /\ phase' = "send"
           /\ UNCHANGED <<status, cur>>
      ELSE Finish("ok")

\* forward_write has returned Err: the rows that follow are not sent, those
\* before it stay.
RowFailed == Finish("err")

-----------------------------------------------------------------------------
(* forward_write over gRPC.                                                *)

\* Mutant: every write tries gRPC first.
MutTriesGrpc == TRUE
\* is_http_fallback() is not set.
TriesGrpc == ~fallback

SendGrpc ==
    /\ phase = "send"
    /\ TriesGrpc
    /\ calls' = calls \cup {Attempt("grpc")}
    /\ phase' = "call"
    /\ UNCHANGED <<status, arrivals, queue, cur, row, pending, boots, fallback,
                   linked, results, socket, db>>

\* The write goes over the WebSocket, as do all that follow it.
TurnToWs ==
    /\ fallback' = TRUE
    /\ phase' = "ws"

NoChannel ==
    /\ phase = "send"
    /\ TriesGrpc
    /\ "grpc" \in Faults
    /\ TurnToWs
    /\ UNCHANGED <<status, arrivals, queue, cur, row, pending, boots, linked,
                   grpc, socket, db>>

GrpcOk ==
    /\ phase = "call"
    /\ [att |-> Attempt("grpc"), ok |-> TRUE] \in results
    /\ RowOk
    /\ results' = results \ {[att |-> Attempt("grpc"), ok |-> TRUE]}
    /\ UNCHANGED <<arrivals, queue, pending, boots, fallback, linked, calls, socket, db>>

\* execute_write returns a refused statement as a gRPC status, which the
\* client does not tell from a broken connection: it sends the write again.
GrpcRefused ==
    /\ phase = "call"
    /\ [att |-> Attempt("grpc"), ok |-> FALSE] \in results
    /\ TurnToWs
    /\ results' = results \ {[att |-> Attempt("grpc"), ok |-> FALSE]}
    /\ UNCHANGED <<status, arrivals, queue, cur, row, pending, boots, linked,
                   calls, socket, db>>

\* The call or its answer is lost; the call may still be executed.
GrpcBreaks ==
    /\ phase = "call"
    /\ "grpc" \in Faults
    /\ TurnToWs
    /\ UNCHANGED <<status, arrivals, queue, cur, row, pending, boots, linked,
                   grpc, socket, db>>

\* The master died with the call.
GrpcLost ==
    /\ phase = "call"
    /\ Attempt("grpc") \notin calls \cup {x.att : x \in results}
    /\ TurnToWs
    /\ UNCHANGED <<status, arrivals, queue, cur, row, pending, boots, linked,
                   grpc, socket, db>>

-----------------------------------------------------------------------------
(* forward_write over the WebSocket (fallback_ws_write).                   *)

UseWs ==
    /\ phase = "send"
    /\ ~TriesGrpc
    /\ phase' = "ws"
    /\ UNCHANGED <<status, arrivals, queue, cur, row, pending, boots, fallback,
                   linked, grpc, socket, db>>

SendWs ==
    /\ phase = "ws"
    /\ linked
    /\ wire' = Append(wire, Attempt("ws"))
    /\ pending' = pending \cup {Attempt("ws")}
    /\ phase' = "wait"
    /\ UNCHANGED <<status, arrivals, queue, cur, row, boots, fallback, linked,
                   grpc, old, back, db>>

\* "WS disconnected or not initialized": the entry is removed again.
SendWsFails ==
    /\ phase = "ws"
    /\ ~linked
    /\ RowFailed
    /\ UNCHANGED <<arrivals, queue, pending, boots, fallback, linked, grpc, socket, db>>

\* Mutant: the answer goes to whoever waits.
MutMatches(a) == pending # {}
\* The request id of the answer is that of a request that waits.
Matches(a) == a \in pending

\* The streamer reads a WriteResponse.
WsAnswer ==
    /\ linked
    /\ \E x \in back :
          /\ back' = back \ {x}
          /\ IF phase = "wait" /\ Matches(x.att)
               THEN /\ IF x.ok THEN RowOk ELSE RowFailed
                    /\ pending' = {}
               ELSE UNCHANGED <<status, cur, row, phase, pending>>
    /\ UNCHANGED <<arrivals, queue, boots, fallback, linked, grpc, wire, old, db>>

\* Mutant: the entry of a request that timed out is left.
MutForgotten == pending
\* get_pending_reqs() without the request that timed out.
Forgotten == pending \ {Attempt("ws")}

WsTimeout ==
    /\ phase = "wait"
    /\ RowFailed
    /\ pending' = Forgotten
    /\ UNCHANGED <<arrivals, queue, boots, fallback, linked, grpc, socket, db>>

-----------------------------------------------------------------------------
(* The connections: the event streamer of the replica.                     *)

\* Another write manager or the streamer itself gives gRPC up.
StreamerFallsBack ==
    /\ "grpc" \in Faults
    /\ fallback' = TRUE
    /\ UNCHANGED <<replica, linked, grpc, socket, db>>

WsConnect ==
    /\ fallback
    /\ ~linked
    /\ linked' = TRUE
    /\ UNCHANGED <<replica, fallback, grpc, socket, db>>

\* What the socket of the handler on the master holds when it breaks.
Orphans == IF wire = <<>> THEN old ELSE old \cup {wire}

WsBreaks ==
    /\ "ws" \in Faults
    /\ linked
    /\ linked' = FALSE
    /\ old' = Orphans
    /\ wire' = <<>>
    /\ back' = {}
    /\ UNCHANGED <<replica, fallback, grpc, db>>

-----------------------------------------------------------------------------
(* The master: process_master_write runs a statement as a transaction of    *)
(* its own on a connection of its own; gRPC calls run next to each other,   *)
(* the messages of one WebSocket one after the other.                       *)

\* Statement a is committed, or refused and rolled back.
Execute(a, ok) ==
    /\ ok \/ "sql" \in Faults
    /\ db' = IF ok THEN Append(db, a) ELSE db

ExecGrpc ==
    /\ \E a \in calls, ok \in BOOLEAN :
          /\ Execute(a, ok)
          /\ calls' = calls \ {a}
          /\ results' = IF phase = "call" /\ a = Attempt("grpc")
                          THEN results \cup {[att |-> a, ok |-> ok]}
                          ELSE results
    /\ UNCHANGED <<replica, fallback, linked, socket>>

ExecWs ==
    /\ wire # <<>>
    /\ \E ok \in BOOLEAN :
          /\ Execute(Head(wire), ok)
          /\ back' = back \cup {[att |-> Head(wire), ok |-> ok]}
    /\ wire' = Tail(wire)
    /\ UNCHANGED <<replica, fallback, linked, grpc, old>>

\* A handler goes on with what it read before its socket broke, or ends.
ExecOld ==
    /\ \E q \in old :
          \/ /\ \E ok \in BOOLEAN : Execute(Head(q), ok)
             /\ old' = (old \ {q}) \cup ({Tail(q)} \ {<<>>})
          \/ /\ old' = old \ {q}
             /\ db' = db
    /\ UNCHANGED <<replica, fallback, linked, grpc, wire, back>>

\* The master dies; what it has committed stays.
Crash ==
    /\ "crash" \in Faults
    /\ calls' = {}
    /\ results' = {}
    /\ wire' = <<>>
    /\ old' = {}
    /\ back' = {}
    /\ linked' = FALSE
    /\ UNCHANGED <<replica, fallback, db>>

\* The replica dies; what it has sent is on its way.
Reboot ==
    /\ "reboot" \in Faults
    /\ boots < MaxBoots
    /\ boots' = boots + 1
    /\ status' = [r \in Reqs |-> IF status[r] = "waiting" THEN "dropped" ELSE status[r]]
    /\ queue' = <<>>
    /\ cur' = None
    /\ row' = 0
    /\ phase' = "idle"
    /\ pending' = {}
    /\ fallback' = FALSE
    /\ linked' = FALSE
    /\ results' = {}
    /\ old' = Orphans
    /\ wire' = <<>>
    /\ back' = {}
    /\ UNCHANGED <<arrivals, calls, db>>

-----------------------------------------------------------------------------
Task == \/ Take \/ SendGrpc \/ GrpcOk \/ GrpcRefused \/ GrpcLost
        \/ UseWs \/ SendWs \/ SendWsFails \/ WsAnswer
Environment == \/ NoChannel \/ GrpcBreaks \/ StreamerFallsBack \/ WsConnect
               \/ WsBreaks \/ Crash \/ Reboot
Master == ExecGrpc \/ ExecWs \/ ExecOld

Next == (\E r \in Reqs : Submit(r)) \/ Task \/ WsTimeout \/ Environment \/ Master

Spec == Init /\ [][Next]_vars

\* The tasks are polled for ever, the timer fires, the master executes a call
\* that has reached it; a gRPC call has no timeout of its own.
FairSpec == Spec /\ WF_vars(Task) /\ WF_vars(WsTimeout) /\ WF_vars(ExecGrpc)

-----------------------------------------------------------------------------
TypeOK ==
    /\ status \in [Reqs -> Statuses]
    /\ arrivals \in Seq(Reqs) /\ queue \in Seq(Reqs)
    /\ cur \in Reqs \cup {None}
    /\ row \in IF cur = None THEN {0} ELSE 1..Rows[cur]
    /\ phase \in Phases
    /\ fallback \in BOOLEAN /\ linked \in BOOLEAN
    /\ boots \in 1..MaxBoots
    /\ pending \subseteq Attempts /\ calls \subseteq Attempts
    /\ results \subseteq Outcomes /\ back \subseteq Outcomes
    /\ wire \in Seq(Attempts) /\ db \in Seq(Attempts)
    /\ \A q \in old : q \in Seq(Attempts) /\ q # <<>>

\* Position k of the master's file holds row i of request r.
Holds(k, r, i) == db[k].req = r /\ db[k].row = i

\* AckedIsStored: a caller that was told Ok has all its rows in the master's
\* file, whichever connection took them and whatever broke; an answer that
\* comes after its request has timed out is not taken for another's.
AckedIsStored ==
    \A r \in Reqs : status[r] = "ok" =>
        \A i \in 1..Rows[r] : \E k \in DOMAIN db : Holds(k, r, i)

\* OneDouble: a write that gRPC may have executed is executed again over the
\* WebSocket; because the fallback is for good, that happens to one row of a
\* database between two starts of the replica, and no row is executed thrice.
Doubled == {x \in {<<a.req, a.row>> : a \in ToSet(db)} :
              \E j, k \in DOMAIN db :
                 j # k /\ Holds(j, x[1], x[2]) /\ Holds(k, x[1], x[2])}
OneDouble ==
    /\ Cardinality(Doubled) =< boots
    /\ \A j, k \in DOMAIN db : db[j] = db[k] => j = k

\* AckedInOrder: of two acknowledged calls the rows of the one that arrived
\* first are in the file before any row of the other.
AckedInOrder ==
    \A m, n \in DOMAIN arrivals :
        m < n /\ status[arrivals[m]] = "ok" /\ status[arrivals[n]] = "ok" =>
            \A i \in 1..Rows[arrivals[m]], k \in DOMAIN db :
                db[k].req = arrivals[n] => \E j \in 1..(k - 1) : Holds(j, arrivals[m], i)

\* PendingMatches: the map of requests that wait for an answer holds the write
\* under way and nothing else: no entry outlives its request.
PendingMatches == pending = IF phase = "wait" THEN {Attempt("ws")} ELSE {}

\* CallsAnswered: no caller on the replica waits for ever, also while the
\* master is away.
Waits(r) == status[r] = "waiting"
CallsAnswered == \A r \in Reqs : Waits(r) ~> ~Waits(r)
=============================================================================
