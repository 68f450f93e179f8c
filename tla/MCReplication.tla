--------------------------- MODULE MCReplication ---------------------------
(***************************************************************************)
(* Instances of Replication for TLC: the transactions of the master, and   *)
(* three settings of one run.  "joined": a replica that is connected from  *)
(* the start, and transactions of several rows.  "joining": a replica that *)
(* comes later and fetches a snapshot, and transactions of one row.  In    *)
(* both the stream is unbroken and the replica must catch up.  "broken":   *)
(* connections break, either side starts again and channels overflow, and  *)
(* the order must be kept.                                                 *)
(*                                                                         *)
(* A replica that joins applies again what its snapshot has.  With a       *)
(* transaction of several rows it may then stay behind for good: one of    *)
(* the rows is gone in the snapshot, the conflict handler's answer fails   *)
(* the whole changeset (lib.rs:481-485), and the other rows are lost.      *)
(***************************************************************************)
EXTENDS ReplicationProofs

CONSTANTS r1, r2, w1, w2

ASSUME RowsAssumption == r1 # r2 /\ {r1, r2} \subseteq Keys /\ {1, 2} \subseteq Vals

OnlyA == [k \in Keys |-> IF k = r1 THEN 1 ELSE Absent]

\* A transaction that writes one row.
Put(k, v) == [i \in {k} |-> v]

\* One row at a time: insert, update and delete.
OneRow == {Put(r1, 1), Put(r1, 2), Put(r1, Absent), Put(r2, 1)}
\* Two rows at a time as well.
TwoRows == {Put(r2, 1), Put(r1, Absent), [k \in {r1, r2} |-> 2],
            [k \in {r1, r2} |-> IF k = r1 THEN 1 ELSE Absent]}
\* One counter.
Counter == {Put(r1, 1), Put(r1, 2), Put(r1, Absent)}

VARIABLE setting

mcVars == <<vars, setting>>

J == INSTANCE ReplicationProofs WITH Updates <- OneRow, Joins <- {FALSE}
F == INSTANCE ReplicationProofs WITH
        Updates <- Counter, MaxConns <- 3, BcastCap <- 2, ChanCap <- 2, SyncCap <- 2,
        Joins <- {TRUE}, Faults <- {"disconnect", "restart", "reboot", "expire", "snapshot"}

MCInit ==
    \/ setting = "joined" /\ Init
    \/ setting = "joining" /\ J!Init
    \/ setting = "broken" /\ F!Init

MCNext ==
    /\ \/ setting = "joined" /\ Next
       \/ setting = "joining" /\ J!Next
       \/ setting = "broken" /\ F!Next
    /\ UNCHANGED setting

\* The fairness of FairSpec, for the unbroken stream.
Unbrokenly(A) == setting # "broken" /\ A /\ UNCHANGED setting
MCFairness ==
    /\ \A w \in Writers : WF_mcVars(Unbrokenly(Collect(w) \/ Send(w)))
    /\ WF_mcVars(Unbrokenly(Tracker))
    /\ WF_mcVars(Unbrokenly(Handler))
    /\ WF_mcVars(Unbrokenly(Streamer))
    /\ WF_mcVars(Unbrokenly(Apply))
    /\ WF_mcVars(Unbrokenly(OldEnds))

MCSpec == MCInit /\ [][MCNext]_mcVars /\ MCFairness

\* One stream whose connection may break.
ReconnectSpec == setting = "joined" /\ Init /\ [][Next /\ UNCHANGED setting]_mcVars

\* On an unbroken stream the replica is a past state of the master, from the
\* start or from its snapshot on, and the present one when everything has arrived.
StreamExact ==
    /\ setting = "joined" => TypeOK /\ PrefixConsistent /\ Identical
    /\ setting = "joining" => J!TypeOK /\ J!PrefixConsistent /\ J!Identical
    /\ setting = "broken" => F!TypeOK

\* When the writes end the replica becomes and stays the master.
CatchesUp == <>[](setting = "broken" \/ rdb = db)

-----------------------------------------------------------------------------
(* The theorem.                                                            *)

\* What the settings share: one writer, a file that snapshots contain, nothing
\* that breaks the stream, channels that hold all events.
Calm ==
    /\ OneWriter /\ Root /\ Joins \subseteq {TRUE}
    /\ Faults \cap {"disconnect", "restart", "reboot", "snapshot"} = {}
    /\ MaxCommits < BcastCap /\ MaxCommits < ChanCap /\ MaxCommits < SyncCap

\* One row changes in each of these.
LEMMA OneRowEach ==
    /\ \A u \in OneRow : DOMAIN u \in {{r1}, {r2}} /\ \A k \in DOMAIN u : u[k] \in Vals \cup {Absent}
    /\ \A u \in Counter : DOMAIN u = {r1} /\ \A k \in DOMAIN u : u[k] \in Vals \cup {Absent}
  <1>1. \A k \in {r1, r2}, v \in {1, 2, Absent} :
            DOMAIN Put(k, v) = {k} /\ \A i \in DOMAIN Put(k, v) : Put(k, v)[i] \in Vals \cup {Absent}
    BY RowsAssumption DEF Put
  <1>2. QED
    BY <1>1 DEF OneRow, Counter

\* The settings satisfy the assumptions of Replication.
LEMMA JoiningAssumed == J!ConstantsAssumption
  <1>1. \A u \in OneRow : /\ DOMAIN u \subseteq Keys
                          /\ \A k \in DOMAIN u : u[k] \in Vals \cup {Absent}
    BY OneRowEach, RowsAssumption
  <1>2. QED
    BY <1>1, ConstantsAssumption DEF J!ConstantsAssumption, J!FaultKinds, J!Rows, FaultKinds, Rows

\* And so does the broken one.
LEMMA BrokenAssumed == F!ConstantsAssumption
  <1>1. \A u \in Counter : /\ DOMAIN u \subseteq Keys
                           /\ \A k \in DOMAIN u : u[k] \in Vals \cup {Absent}
    BY OneRowEach, RowsAssumption
  <1>2. {"disconnect", "restart", "reboot", "expire", "snapshot"} \subseteq F!FaultKinds
    BY DEF F!FaultKinds
  <1>3. {TRUE} \subseteq BOOLEAN /\ 2 \in Nat \ {0} /\ 3 \in Nat \ {0}
    OBVIOUS
  <1>4. QED
    BY <1>1, <1>2, <1>3, ConstantsAssumption DEF F!ConstantsAssumption, F!Rows, Rows

\* The second setting meets the conditions of JoinsAndCatchesUp.
LEMMA JoiningCalm ==
    ASSUME Calm
    PROVE  J!Joining
  <1>1. \A u \in OneRow : \A i, j \in DOMAIN u : i = j
    BY OneRowEach
  <1>2. QED
    BY <1>1 DEF Calm, J!Joining, J!OneWriter, OneWriter

\* StreamHolds: on an unbroken stream a replica that is connected from the start
\* is at every moment a past state of the master, and one that joins later is so
\* as soon as it has caught up with its snapshot; when everything has arrived
\* both are the present state.  Whatever breaks, every queue holds what it may
\* (tracker.rs:95-132, grpc_server.rs:211-265, lib.rs:467-504).
THEOREM StreamHolds ==
    ASSUME Calm
    PROVE  MCSpec => []StreamExact
  <1> DEFINE At(s) == setting = s
  <1>1. /\ MCInit /\ At("joined") => Init
        /\ MCInit /\ At("joining") => J!Init
        /\ MCInit /\ At("broken") => F!Init
    BY DEF MCInit
  <1>2. [MCNext]_mcVars => setting' = setting
    BY DEF MCNext, mcVars
  <1>3. /\ At("joined") /\ [MCNext]_mcVars => [Next]_vars
        /\ At("joining") /\ [MCNext]_mcVars => [J!Next]_(J!vars)
        /\ At("broken") /\ [MCNext]_mcVars => [F!Next]_(F!vars)
    <2>1. vars = J!vars /\ vars = F!vars
      BY DEF vars, master, entry, link, replica, J!vars, J!master, J!entry, J!link, J!replica,
             F!vars, F!master, F!entry, F!link, F!replica
    <2>2. UNCHANGED vars => UNCHANGED J!vars /\ UNCHANGED F!vars
      BY DEF vars, master, entry, link, replica, J!vars, J!master, J!entry, J!link, J!replica,
             F!vars, F!master, F!entry, F!link, F!replica
    <2>3. QED
      BY <2>2 DEF MCNext, mcVars
  <1>4. Unbroken
    <2>1. MaxCommits =< BcastCap /\ MaxCommits =< ChanCap /\ MaxCommits =< SyncCap
      BY ConstantsAssumption DEF Calm
    <2>2. Faults \cap {"disconnect", "restart", "reboot"} = {}
      BY DEF Calm
    <2>3. QED
      BY <2>1, <2>2 DEF Calm, Unbroken
  <1>5. /\ Spec => []TypeOK
        /\ Spec => [](PrefixConsistent /\ Identical)
    BY <1>4, TypeCorrect, ReplicaIsAPastMaster
  <1>6. /\ J!Spec => []J!TypeOK
        /\ J!Spec => [](J!PrefixConsistent /\ J!Identical)
    BY JoiningAssumed, JoiningCalm, J!TypeCorrect, J!JoinsAndCatchesUp
  <1>7. F!Spec => []F!TypeOK
    BY BrokenAssumed, F!TypeCorrect
  <1> DEFINE Joined == At("joined") => TypeOK /\ PrefixConsistent /\ Identical
             Came == At("joining") => J!TypeOK /\ J!PrefixConsistent /\ J!Identical
             Broke == At("broken") => F!TypeOK
  <1>8. [MCNext]_mcVars => /\ At("joined")' <=> At("joined")
                           /\ At("joining")' <=> At("joining")
                           /\ At("broken")' <=> At("broken")
    BY <1>2
  <1> HIDE DEF At
  <1>9. MCSpec => []Joined
    BY <1>1, <1>3, <1>5, <1>8, PTL DEF MCSpec, Spec
  <1>10. MCSpec => []Came
    BY <1>1, <1>3, <1>6, <1>8, PTL DEF MCSpec, J!Spec
  <1>11. MCSpec => []Broke
    BY <1>1, <1>3, <1>7, <1>8, PTL DEF MCSpec, F!Spec
  <1>12. Joined /\ Came /\ Broke => StreamExact
    BY DEF StreamExact, At
  <1>13. QED
    BY <1>9, <1>10, <1>11, <1>12, PTL
=============================================================================
