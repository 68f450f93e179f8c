---------------------------- MODULE Replication ----------------------------
(***************************************************************************)
(* Changeset replication from the master to one replica, for one database  *)
(* file: apexkit-api/src/replication/{tracker,grpc_server,ws_streamer,     *)
(* snapshot}.rs and the apply loop of apexkit-api/src/lib.rs.              *)
(*                                                                         *)
(*   commit -> broadcast -> tracker -> mpsc channel -> connection          *)
(*                             \-> buffer (while the replica is away)      *)
(*          -> local broadcast of the replica -> apply_strm                *)
(*                                                                         *)
(* Commit n leads from the rows hist[n] to the rows hist[n+1].  Its event  *)
(* <<n, m>> carries the rows that commit n changed, with the contents they *)
(* had after commit m, when the session was read.  The event FullSync asks *)
(* for a snapshot.  The first connection of a replica process is a gRPC    *)
(* stream, every later one a WebSocket.                                    *)
(***************************************************************************)
EXTENDS Naturals, Sequences, FiniteSets, SequencesExt, Functions

CONSTANTS
    Keys,       \* primary keys of the rows of the file
    Vals,       \* contents of a row
    Absent,     \* the row does not exist
    Start,      \* the rows both sides start with
    Updates,    \* what a transaction may do: partial functions from Keys
    Writers,    \* connections that commit to the file on the master
    MaxCommits, \* bound on the number of commits
    MaxConns,   \* bound on the number of connections
    BcastCap,   \* capacity of the changeset broadcast (1000 in the code)
    ChanCap,    \* capacity of the channel of a connection (1024)
    SyncCap,    \* capacity of the replica's own broadcast (100)
    Root,       \* the file belongs to the root scope (storage/system)
    Joins,      \* whether the replica is known and connected at the start: TRUE,
                \* FALSE (a new replica) or both
    Faults      \* subset of FaultKinds

\* disconnect  - the connection breaks
\* restart     - the master process dies and is started again
\* reboot      - the replica process dies and is started again
\* expire      - a replica is away for more than 300 seconds
\* snapshot    - a snapshot download fails
\* resubscribe - the replica loads another tenant and subscribes to its scope
FaultKinds == {"disconnect", "restart", "reboot", "expire", "snapshot", "resubscribe"}

FullSync == <<0, 0>>
NoEvent == <<>>
Nowhere == [k \in {} |-> Absent]

Rows == [Keys -> Vals \cup {Absent}]

ASSUME ConstantsAssumption ==
    /\ Absent \notin Vals
    /\ Start \in Rows
    /\ \A u \in Updates :
          DOMAIN u \subseteq Keys /\ \A k \in DOMAIN u : u[k] \in Vals \cup {Absent}
    /\ MaxCommits \in Nat
    /\ MaxConns \in Nat \ {0}
    /\ BcastCap \in Nat \ {0} /\ ChanCap \in Nat \ {0} /\ SyncCap \in Nat \ {0}
    /\ Root \in BOOLEAN /\ Joins \subseteq BOOLEAN
    /\ Faults \subseteq FaultKinds

VARIABLES
    \* master
    hist,     \* the rows after each commit
    unsent,   \* unsent[w]: the event w has not yet broadcast, or NoEvent; <<n, 0>>
              \* while the changeset of commit n has not been read
    bcast,    \* the broadcast channel as the tracker sees it
    known,    \* the replica has an entry in the tracker
    row,      \* what `_replicas` says of it: "none", "other" or "scoped"
    scoped,   \* the entry's `scopes` contain the scope of the file
    tx,       \* the entry's `tx`: "none", "old" (a broken connection) or "cur"
    buffer,   \* the entry's `buffer`
    owed,     \* the handler has still to send FULL_SYNC_REQUIRED
    stale,    \* handlers of broken connections that have not noticed
    \* connection
    conns,    \* number of connections made so far
    up,       \* the last of them is alive
    ws,       \* it is a WebSocket (the replica's USE_HTTP_FALLBACK)
    chan,     \* its mpsc channel
    wire,     \* what was sent on it and not yet read
    \* replica
    rdb,      \* the rows of the replica's file
    copy,     \* the snapshot being downloaded, or Nowhere
    sync,     \* events given to the local broadcast and not yet applied
    last,     \* the last commit applied
    snap      \* the commits that the last snapshot contains

master == <<hist, unsent, bcast>>
entry == <<known, row, scoped, tx, buffer, owed, stale>>
link == <<conns, up, ws, chan, wire>>
replica == <<rdb, copy, sync, last, snap>>
vars == <<master, entry, link, replica>>

db == Last(hist)

Init ==
    /\ hist = <<Start>>
    /\ unsent = [w \in Writers |-> NoEvent]
    /\ bcast = <<>>
    /\ known \in Joins
    /\ row = IF known THEN "scoped" ELSE "none"
    /\ scoped = known
    /\ tx = IF known THEN "cur" ELSE "none"
    /\ buffer = <<>>
    /\ owed = FALSE
    /\ stale = 0
    /\ conns = IF known THEN 1 ELSE 0
    /\ up = known
    /\ ws = FALSE
    /\ chan = <<>>
    /\ wire = <<>>
    /\ rdb = Start
    /\ copy = Nowhere
    /\ sync = <<>>
    /\ last = 0
    /\ snap = 0

\* Mutant: an unbounded channel.
MutBroadcast(q, cap, e) == Append(q, e)
\* A broadcast channel forgets its oldest event when it is full; the receiver
\* is told (Lagged) and both receivers of this program go on with the rest.
Broadcast(q, cap, e) == IF Len(q) < cap THEN Append(q, e) ELSE Append(Tail(q), e)

-----------------------------------------------------------------------------
(* A binary changeset of SQLite's session extension, as the master makes   *)
(* it (apexkit-core/src/database/batching.rs:174-270) and the replica      *)
(* applies it (apexkit-api/src/lib.rs:478-486): for every row that differs *)
(* at the end of a transaction, its old and its new content.               *)

\* Session::changeset_strm after the transaction that leads from old to new.
Diff(old, new) ==
    [k \in {i \in Keys : old[i] # new[i]} |-> [old |-> old[k], new |-> new[k]]]

\* SQLITE_CHANGESET_NOTFOUND: an UPDATE or a DELETE meets no row.
NotFound(rows, cs) == \E k \in DOMAIN cs : cs[k].old # Absent /\ rows[k] = Absent

\* Mutant: DELETEs are passed over.
MutApplyStrm(rows, cs) ==
    [k \in Keys |-> IF k \in DOMAIN cs /\ cs[k].new # Absent THEN cs[k].new ELSE rows[k]]

\* apply_strm with a handler that answers SQLITE_CHANGESET_REPLACE to every
\* conflict.  SQLite accepts that answer when the row exists with other values
\* (DATA, CONFLICT); to NOTFOUND it is a misuse: the whole changeset is rolled
\* back, and the caller drops the error.
ApplyStrm(rows, cs) ==
    IF NotFound(rows, cs)
      THEN rows
      ELSE [k \in Keys |-> IF k \in DOMAIN cs THEN cs[k].new ELSE rows[k]]

\* The changeset of event e.
ChangesetOf(e) ==
    LET old == hist[e[1]]
        new == hist[e[1] + 1]
    IN  Diff(old, [k \in Keys |-> IF new[k] # old[k] THEN hist[e[2] + 1][k] ELSE old[k]])

-----------------------------------------------------------------------------
(* Writers of the master: a batch of the WriteManager, or                   *)
(* process_master_write for a replica, on a connection of its own.         *)

Commit(w) ==
    /\ unsent[w] = NoEvent
    /\ Len(hist) =< MaxCommits
    /\ \E u \in Updates :
          LET new == [k \in Keys |-> IF k \in DOMAIN u THEN u[k] ELSE db[k]] IN
          /\ new # db
          /\ hist' = Append(hist, new)
          /\ unsent' = [unsent EXCEPT ![w] = <<Len(hist), 0>>]
    /\ UNCHANGED <<bcast, entry, link, replica>>

\* changeset_strm reads the changed rows as they are now, after the COMMIT.
Collect(w) ==
    /\ unsent[w] # NoEvent
    /\ unsent[w][2] = 0
    /\ unsent' = [unsent EXCEPT ![w] = <<@[1], Len(hist) - 1>>]
    /\ UNCHANGED <<hist, bcast, entry, link, replica>>

Send(w) ==
    /\ unsent[w] # NoEvent
    /\ unsent[w][2] # 0
    /\ bcast' = Broadcast(bcast, BcastCap, unsent[w])
    /\ unsent' = [unsent EXCEPT ![w] = NoEvent]
    /\ UNCHANGED <<hist, entry, link, replica>>

-----------------------------------------------------------------------------
(* The tracker task.                                                       *)

\* Nobody is there to take the event, or it is for another scope.
RouteNowhere ==
    /\ bcast # <<>>
    /\ ~known \/ ~(Root \/ scoped)
    /\ bcast' = Tail(bcast)
    /\ UNCHANGED <<hist, unsent, entry, link, replica>>

Routed == bcast # <<>> /\ known /\ (Root \/ scoped)

RouteToChannel ==
    /\ Routed
    /\ tx = "cur"
    /\ Len(chan) < ChanCap
    /\ chan' = Append(chan, Head(bcast))
    /\ bcast' = Tail(bcast)
    /\ UNCHANGED <<hist, unsent, entry, conns, up, ws, wire, replica>>

\* The channel of a broken connection still takes events.
RouteToOld ==
    /\ Routed
    /\ tx = "old"
    /\ bcast' = Tail(bcast)
    /\ UNCHANGED <<hist, unsent, entry, link, replica>>

\* Mutant: the newest event goes to the front.
MutBuffered(e) == <<e>> \o buffer
Buffered(e) == Append(buffer, e)

\* Mutant: the sender is kept.
MutGivenUp == tx
\* `tx` after a try_send that failed.
GivenUp == "none"

\* The channel is full or its receiver is gone: the sender is given up.
RouteFails ==
    /\ Routed
    /\ tx = "cur" => Len(chan) >= ChanCap
    /\ tx' = GivenUp
    /\ buffer' = Buffered(Head(bcast))
    /\ bcast' = Tail(bcast)
    /\ UNCHANGED <<hist, unsent, known, row, scoped, owed, stale, link, replica>>

\* Pings keep the entry of a WebSocket alive.
Expire ==
    /\ "expire" \in Faults
    /\ known
    /\ tx = "none"
    /\ ~(up /\ ws)
    /\ known' = FALSE
    /\ scoped' = FALSE
    /\ buffer' = <<>>
    /\ UNCHANGED <<master, row, tx, owed, stale, link, replica>>

-----------------------------------------------------------------------------
(* Connections.                                                            *)

\* Mutant: a new entry gets a sender whose receiver is not the handler's.
MutNewTx == "old"
\* `tx` of a new entry.
NewTx == "cur"

\* The part of the buffer that try_send gets into a new channel.
Drained == SubSeq(buffer, 1, IF Len(buffer) < ChanCap THEN Len(buffer) ELSE ChanCap)

\* stream_events: the buffer goes into the new channel, as far as it fits;
\* handle_ws_replica: onto the socket.  A replica that cannot connect over
\* gRPC takes the WebSocket.
Subscribe ==
    /\ ~up
    /\ copy = Nowhere
    /\ conns < MaxConns
    /\ conns' = conns + 1
    /\ up' = TRUE
    /\ ws' \in {ws, TRUE}
    /\ row' = "scoped"
    /\ known' = TRUE
    /\ scoped' = TRUE
    /\ buffer' = <<>>
    /\ IF known
         THEN /\ tx' = "cur"
              /\ owed' = FALSE
              /\ chan' = IF ws' THEN <<>> ELSE Drained
              /\ wire' = IF ws' THEN buffer ELSE <<>>
         ELSE /\ tx' = NewTx
              /\ owed' = TRUE
              /\ chan' = <<>>
              /\ wire' = <<>>
    /\ UNCHANGED <<master, stale, replica>>

\* FULL_SYNC_REQUIRED, after the lock on the tracker is released.
SendFullSync ==
    /\ up
    /\ owed
    /\ owed' = FALSE
    /\ IF ws THEN /\ wire' = Append(wire, FullSync)
                  /\ chan' = chan
             ELSE /\ Len(chan) < ChanCap
                  /\ chan' = Append(chan, FullSync)
                  /\ wire' = wire
    /\ UNCHANGED <<master, known, row, scoped, tx, buffer, stale, conns, up, ws, replica>>

\* The handler moves an event from its channel to the connection.
Pump ==
    /\ up
    /\ ws => ~owed
    /\ chan # <<>>
    /\ wire' = Append(wire, Head(chan))
    /\ chan' = Tail(chan)
    /\ UNCHANGED <<master, entry, conns, up, ws, replica>>

\* A tenant is loaded on the replica: its scope is sent over the connection.
\* INSERT OR REPLACE forgets the other scopes in `_replicas`; a WebSocket
\* handler takes the message for a new subscription.
Resubscribe ==
    /\ "resubscribe" \in Faults
    /\ up
    /\ ws
    /\ known
    /\ ~owed
    /\ row' = "other"
    /\ wire' = wire \o buffer
    /\ buffer' = <<>>
    /\ tx' = "cur"
    /\ UNCHANGED <<master, known, scoped, owed, stale, conns, up, ws, chan, replica>>

\* What was in the channel and on the connection is lost.
Disconnect ==
    /\ "disconnect" \in Faults
    /\ up
    /\ up' = FALSE
    /\ ws' = TRUE
    /\ tx' = IF tx = "cur" THEN "old" ELSE tx
    /\ owed' = FALSE
    /\ stale' = stale + 1
    /\ chan' = <<>>
    /\ wire' = <<>>
    /\ UNCHANGED <<master, known, row, scoped, buffer, conns, replica>>

\* The handler of a broken connection ends: it clears the entry's sender,
\* whichever connection the sender belongs to by now.
OldEnds ==
    /\ stale > 0
    /\ stale' = stale - 1
    /\ tx' = IF known THEN "none" ELSE tx
    /\ UNCHANGED <<master, known, row, scoped, buffer, owed, link, replica>>

\* The master dies: the tracker is rebuilt from `_replicas`.
Restart ==
    /\ "restart" \in Faults
    /\ unsent' = [w \in Writers |-> NoEvent]
    /\ bcast' = <<>>
    /\ known' = (row # "none")
    /\ scoped' = (row = "scoped")
    /\ tx' = "none"
    /\ buffer' = <<>>
    /\ owed' = FALSE
    /\ stale' = 0
    /\ up' = FALSE
    /\ ws' = (ws \/ up)
    /\ chan' = <<>>
    /\ wire' = <<>>
    /\ UNCHANGED <<hist, row, conns, replica>>

-----------------------------------------------------------------------------
(* The replica: the event streamer and the apply loop are two tasks.       *)

Receive ==
    /\ up
    /\ copy = Nowhere
    /\ wire # <<>>
    /\ Head(wire) # FullSync
    /\ sync' = Broadcast(sync, SyncCap, Head(wire))
    /\ wire' = Tail(wire)
    /\ UNCHANGED <<master, entry, conns, up, ws, chan, rdb, copy, last, snap>>

\* force_replica_sync: only the files of storage/system are fetched.
SnapshotRead ==
    /\ up
    /\ copy = Nowhere
    /\ wire # <<>>
    /\ Head(wire) = FullSync
    /\ copy' = IF Root THEN db ELSE Nowhere
    /\ wire' = Tail(wire)
    /\ snap' = Len(hist) - 1
    /\ UNCHANGED <<master, entry, conns, up, ws, chan, rdb, sync, last>>

\* The file is renamed over the old one.
SnapshotInstall ==
    /\ copy # Nowhere
    /\ rdb' = copy
    /\ copy' = Nowhere
    /\ UNCHANGED <<master, entry, link, sync, last, snap>>

\* The error is logged; the stream goes on.
SnapshotFails ==
    /\ "snapshot" \in Faults
    /\ copy # Nowhere
    /\ copy' = Nowhere
    /\ UNCHANGED <<master, entry, link, rdb, sync, last, snap>>

Apply ==
    /\ sync # <<>>
    /\ rdb' = ApplyStrm(rdb, ChangesetOf(Head(sync)))
    /\ last' = Head(sync)[1]
    /\ sync' = Tail(sync)
    /\ UNCHANGED <<master, entry, link, copy, snap>>

\* The replica dies; its first connection after the start is gRPC again.
Reboot ==
    /\ "reboot" \in Faults
    /\ up' = FALSE
    /\ ws' = FALSE
    /\ tx' = IF tx = "cur" THEN "old" ELSE tx
    /\ owed' = FALSE
    /\ stale' = IF up THEN stale + 1 ELSE stale
    /\ chan' = <<>>
    /\ wire' = <<>>
    /\ copy' = Nowhere
    /\ sync' = <<>>
    /\ UNCHANGED <<master, known, row, scoped, buffer, conns, rdb, last, snap>>

-----------------------------------------------------------------------------
Tracker == RouteNowhere \/ RouteToChannel \/ RouteToOld \/ RouteFails
Handler == SendFullSync \/ Pump
Streamer == Subscribe \/ Receive \/ SnapshotRead \/ SnapshotInstall
Environment == Expire \/ Resubscribe \/ Disconnect \/ OldEnds \/ Restart
                 \/ SnapshotFails \/ Reboot

Next == \/ \E w \in Writers : Commit(w) \/ Collect(w) \/ Send(w)
        \/ Tracker \/ Handler \/ Streamer \/ Apply \/ Environment

Spec == Init /\ [][Next]_vars

\* Every task is polled for ever; nothing makes a client write.
FairSpec ==
    /\ Spec
    /\ \A w \in Writers : WF_vars(Collect(w) \/ Send(w))
    /\ WF_vars(Tracker) /\ WF_vars(Handler) /\ WF_vars(Streamer) /\ WF_vars(Apply)
    /\ WF_vars(OldEnds)

-----------------------------------------------------------------------------
Events == (0..(Len(hist) - 1)) \X (0..(Len(hist) - 1))

TypeOK ==
    /\ hist \in Seq(Rows) /\ hist # <<>> /\ Len(hist) =< MaxCommits + 1
    /\ unsent \in [Writers -> {NoEvent} \cup Events]
    /\ \A q \in {bcast, buffer, chan, wire, sync} : q \in Seq(Events)
    /\ Len(bcast) =< BcastCap /\ Len(chan) =< ChanCap /\ Len(sync) =< SyncCap
    /\ known \in BOOLEAN /\ scoped \in BOOLEAN /\ owed \in BOOLEAN
    /\ up \in BOOLEAN /\ ws \in BOOLEAN
    /\ row \in {"none", "other", "scoped"}
    /\ tx \in {"none", "old", "cur"}
    /\ conns \in 0..MaxConns /\ stale \in 0..conns
    /\ rdb \in Rows /\ copy \in Rows \cup {Nowhere}
    /\ {last, snap} \subseteq 0..(Len(hist) - 1)

\* Everything on its way to the replica, nearest first.
InFlight == sync \o wire \o chan \o buffer \o bcast

\* InOrder: whatever is lost on the way (broken connections, lagging receivers,
\* full channels, restarts of either side), the replica applies commits in
\* commit order and none twice: the order of the stages is the order of the
\* commits, although the buffer is a second way around the channel.
InOrder ==
    LET s == InFlight IN
    /\ \A i \in DOMAIN s : s[i] # FullSync => last < s[i][1]
    /\ \A i, j \in DOMAIN s :
          i < j /\ s[i] # FullSync /\ s[j] # FullSync => s[i][1] < s[j][1]

\* NoBypass: no event overtakes the buffer; while events are buffered the
\* entry has no sender, whoever subscribes, breaks or ends in between.
NoBypass == buffer # <<>> => tx = "none"

\* OrderKept: the replica applies commits in their order and none twice.
OrderKept == InOrder /\ NoBypass

\* Nothing is on its way and nobody is busy; the replica is connected.
Quiet ==
    /\ up
    /\ InFlight = <<>>
    /\ ~owed
    /\ copy = Nowhere
    /\ \A w \in Writers : unsent[w] = NoEvent

\* The replica is told to fetch a snapshot and has not installed it.
AwaitsSnapshot == owed \/ FullSync \in ToSet(chan \o wire) \/ copy # Nowhere

\* PrefixConsistent: on an unbroken stream the replica's file is, at every
\* moment, the master's file as it was after the commit applied last; after a
\* snapshot, as soon as the events have caught up with the snapshot.
PrefixConsistent == ~AwaitsSnapshot /\ last >= snap => rdb = hist[last + 1]

\* Identical: when everything has arrived the replica's file is the master's
\* ("keep their database state identical to the Master",
\* docs/usage/replication-grpc.md:31).
Identical == Quiet => rdb = db

\* EventuallyConsistent: when the writes end, the replica's file becomes and
\* stays the master's ("Replicas are eventually consistent",
\* docs/v0_1_0/replication.md:60).
EventuallyConsistent == <>[](rdb = db)
=============================================================================
