----------------------------- MODULE Realtime -----------------------------
(***************************************************************************)
(* The events clients receive: the broadcast channel (realtime/types.rs,   *)
(* created in lib.rs) and its two kinds of subscribers, the WebSocket loop *)
(* (api/realtime/websocket.rs) and the SSE stream (api/realtime/sse.rs).   *)
(*                                                                         *)
(* The channel keeps the last Capacity events.  A receiver that has fallen *)
(* further behind gets Lagged instead of an event and continues with the   *)
(* oldest one kept.  The stream ends there ("while let Ok").  The socket's *)
(* select! waits with the pattern "Ok(event) = rx.recv()": a Lagged does   *)
(* not match, the branch is disabled, and the loop waits for a message of  *)
(* the client before it looks at the channel again.                        *)
(***************************************************************************)
EXTENDS Naturals, FiniteSets, Sequences

CONSTANTS
    Sockets, Streams,
    Scopes,         \* root, tenants and sandboxes
    ScopeOf,        \* the scope of each connection
    Channels,
    None,
    Guarded,        \* collections whose read policy in the root's database asks for a user
    Collections,
    Existing,       \* the collections there are at first
    Capacity,       \* of the broadcast channel
    MaxEvents,      \* bound on the events
    MaxRequests     \* bound on the subscriptions and sign-ins of a socket

Subscribers == Sockets \cup Streams

ConstantsAssumption ==
    /\ ScopeOf \in [Subscribers -> Scopes] /\ Capacity \in Nat \ {0}
    /\ Sockets \cap Streams = {} /\ Existing \subseteq Collections
    /\ None \notin Channels \cup Collections /\ MaxEvents \in Nat

\* namespaced_channel
\* Mutant: the name alone.
MutNamespaced(scope, channel) == channel
Namespaced(scope, channel) == <<scope, channel>>

\* A record event has the scope of its database; a custom one that of the
\* script that sends it, or a namespaced channel.
RecordEvents == [type : {"record"}, from : Scopes, to : {None}, col : Collections]
CustomEvents == [type : {"custom"}, from : Scopes, to : {None}, col : {None}]
Signals == {[type |-> "signal", from |-> s, to |-> ch, col |-> None] : s \in Scopes, ch \in Channels}
Events == RecordEvents \cup CustomEvents \cup Signals

VARIABLES
    sent,       \* every event sent
    known,      \* collections that exist
    next,       \* next event of each receiver
    waiting,    \* the socket looks only at its client's messages
    open,       \* the connection is up
    filter,     \* collection asked for, collection resolved, channel
    user,       \* the connection has a user
    requests,
    got,        \* events delivered to each connection, in order
    skipped     \* events a Lagged has passed over

vars == <<sent, known, next, waiting, open, filter, user, requests, got, skipped>>

NoFilter == [asked |-> None, col |-> None, channel |-> None]

Init ==
    /\ sent = << >>
    /\ known = Existing
    /\ next = [c \in Subscribers |-> 1]
    /\ waiting = [c \in Subscribers |-> FALSE]
    /\ open \in [Subscribers -> BOOLEAN]
    /\ user \in [Subscribers -> BOOLEAN]
    /\ \A c \in Sockets : ~user[c]
    /\ filter \in [Subscribers -> [asked : {None}, col : {None}, channel : Channels \cup {None}]]
    /\ \A c \in Sockets : filter[c] = NoFilter
    /\ requests = [c \in Subscribers |-> 0]
    /\ got = [c \in Subscribers |-> << >>]
    /\ skipped = [c \in Subscribers |-> {}]

receivers == <<next, waiting, open, filter, user, requests, got, skipped>>

\* state.tx.send: handlers, hooks and scripts.  A record event names a
\* collection that exists.
Publish(e) ==
    /\ Len(sent) < MaxEvents
    /\ e.type = "record" => e.col \in known
    /\ sent' = Append(sent, e)
    /\ UNCHANGED <<known, receivers>>

CreateCollection ==
    /\ \E c \in Collections \ known : known' = known \cup {c}
    /\ UNCHANGED <<sent, receivers>>

-----------------------------------------------------------------------------
(* Messages of a socket's client.  Each one starts the select! again.      *)

\* Mutant: the socket keeps waiting.
MutWoken(flag) == flag
Woken(flag) == FALSE

Message(c) ==
    /\ open[c]
    /\ waiting' = [waiting EXCEPT ![c] = Woken(@)]
    /\ UNCHANGED <<sent, known, next, open, got, skipped>>

Request(c) ==
    /\ requests[c] < MaxRequests
    /\ requests' = [requests EXCEPT ![c] = @ + 1]

\* A collection that is not found leaves no filter on collections.
Subscribe(c) ==
    /\ Message(c) /\ Request(c)
    /\ \E asked \in Collections \cup {None}, ch \in Channels \cup {None} :
          filter' = [filter EXCEPT ![c] =
              [asked |-> asked, col |-> IF asked \in known THEN asked ELSE None, channel |-> ch]]
    /\ UNCHANGED user

Unsubscribe(c) ==
    /\ Message(c) /\ Request(c)
    /\ filter' = [filter EXCEPT ![c] = NoFilter]
    /\ UNCHANGED user

Auth(c) ==
    /\ Message(c) /\ Request(c)
    /\ user' = [user EXCEPT ![c] = TRUE]
    /\ UNCHANGED filter

\* Ping, Search and what cannot be parsed.
Ping(c) == waiting[c] /\ Message(c) /\ UNCHANGED <<filter, user, requests>>

Signal(c) ==
    /\ open[c] /\ Len(sent) < MaxEvents
    /\ \E ch \in Channels : sent' = Append(sent,
          [type |-> "signal", from |-> ScopeOf[c], to |-> ch, col |-> None])
    /\ waiting' = [waiting EXCEPT ![c] = Woken(@)]
    /\ UNCHANGED <<known, next, open, filter, user, requests, got, skipped>>

Close(c) ==
    /\ open[c]
    /\ open' = [open EXCEPT ![c] = FALSE]
    /\ UNCHANGED <<sent, known, next, waiting, filter, user, requests, got, skipped>>

-----------------------------------------------------------------------------
(* The channel.                                                            *)

Oldest == IF Len(sent) > Capacity THEN Len(sent) - Capacity + 1 ELSE 1

\* matches_scope; a signal is compared by its namespaced name alone.
MatchesScope(c, e) ==
    IF e.type = "signal"
      THEN /\ filter[c].channel # None
           /\ Namespaced(e.from, e.to) = Namespaced(ScopeOf[c], filter[c].channel)
      ELSE e.from = ScopeOf[c]

\* check_db_event
MatchesFilter(c, e) == e.type = "record" /\ filter[c].col # None => filter[c].col = e.col

\* check_access with the read policy the root's database has for that id.
Readable(c, e) == e.col \in Guarded => user[c]

Wanted(c, e) == MatchesScope(c, e) /\ MatchesFilter(c, e) /\ Readable(c, e)

\* rx.recv() gives an event; the loop handles it before it waits again.
Receive(c) ==
    /\ open[c] /\ ~waiting[c]
    /\ next[c] >= Oldest /\ next[c] <= Len(sent)
    /\ next' = [next EXCEPT ![c] = @ + 1]
    /\ got' = [got EXCEPT ![c] = IF Wanted(c, sent[next[c]]) THEN Append(@, next[c]) ELSE @]
    /\ UNCHANGED <<sent, known, waiting, open, filter, user, requests, skipped>>

\* Mutant: the stream goes on after a Lagged.
MutUp(flag) == flag
Up(flag) == FALSE

\* Lagged.
Lag(c) ==
    /\ open[c] /\ ~waiting[c]
    /\ next[c] < Oldest
    /\ skipped' = [skipped EXCEPT ![c] = @ \cup (next[c]..(Oldest - 1))]
    /\ next' = [next EXCEPT ![c] = Oldest]
    /\ IF c \in Sockets
         THEN waiting' = [waiting EXCEPT ![c] = TRUE] /\ UNCHANGED open
         ELSE open' = [open EXCEPT ![c] = Up(@)] /\ UNCHANGED waiting
    /\ UNCHANGED <<sent, known, filter, user, requests, got>>

Next ==
    \/ \E e \in Events : Publish(e)
    \/ CreateCollection
    \/ \E c \in Sockets : Subscribe(c) \/ Unsubscribe(c) \/ Auth(c) \/ Ping(c) \/ Signal(c)
    \/ \E c \in Subscribers : Receive(c) \/ Lag(c) \/ Close(c)

\* The loop runs when it can; a client pings, or sends something else, from
\* time to time.
Fairness ==
    /\ \A c \in Subscribers : WF_vars(Receive(c) \/ Lag(c))
    /\ \A c \in Sockets : WF_vars(Ping(c))

Spec == Init /\ [][Next]_vars /\ Fairness

-----------------------------------------------------------------------------
TypeOK ==
    /\ sent \in Seq(Events) /\ Len(sent) <= MaxEvents
    /\ known \subseteq Collections
    /\ next \in [Subscribers -> 1..(MaxEvents + 1)]
    /\ \A c \in Streams : ~waiting[c]
    /\ \A c \in Subscribers : skipped[c] \subseteq 1..Len(sent)

\* InOrder: the events of a connection come in the order they were sent, none
\* twice, and never one that a Lagged has passed over.
InOrder == \A c \in Subscribers :
    /\ \A i, j \in 1..Len(got[c]) : i < j => got[c][i] < got[c][j]
    /\ \A i \in 1..Len(got[c]) : got[c][i] < next[c] /\ got[c][i] \notin skipped[c]

\* OwnScope: an event reaches connections of its own scope only, signals on a
\* channel of the same name included.
OwnScope == \A c \in Subscribers : \A i \in 1..Len(got[c]) : sent[got[c][i]].from = ScopeOf[c]

\* Complete: a stream, whose filter never changes, has had every event it
\* wants and could read up to its position while it is open.
Complete == \A c \in Streams : open[c] =>
    \A i \in 1..(next[c] - 1) : Wanted(c, sent[i]) => \E j \in 1..Len(got[c]) : got[c][j] = i

\* Resumes: a connection that lags does not stay behind: each event is in time
\* read or passed over, or the connection is over.
Behind(c, i) == open[c] /\ next[c] <= i /\ Len(sent) >= i
Resumes == \A c \in Subscribers : \A i \in 1..MaxEvents : Behind(c, i) ~> ~Behind(c, i)

-----------------------------------------------------------------------------
(* The inductive invariant.                                                *)

Filters == [asked : Collections \cup {None}, col : Collections \cup {None},
            channel : Channels \cup {None}]

\* Shape: the types, and where the receivers are in the channel.
Shape ==
    /\ TypeOK
    /\ next \in [Subscribers -> Nat \ {0}]
    /\ waiting \in [Subscribers -> BOOLEAN] /\ open \in [Subscribers -> BOOLEAN]
    /\ user \in [Subscribers -> BOOLEAN] /\ filter \in [Subscribers -> Filters]
    /\ got \in [Subscribers -> Seq(Nat)] /\ skipped \in [Subscribers -> SUBSET Nat]
    /\ \A c \in Subscribers :
          /\ next[c] =< Len(sent) + 1
          /\ \A i \in 1..Len(got[c]) : got[c][i] \in 1..(next[c] - 1)
          /\ \A n \in skipped[c] : n \in 1..(next[c] - 1)

\* The three invariants of this module's receivers, with their shape.
FeedInv == Shape /\ InOrder /\ OwnScope /\ Complete

\* A step that moves no receiver and changes no stream's filter or user.
Aside ==
    /\ UNCHANGED <<next, got, skipped>>
    /\ UNCHANGED sent \/ (Len(sent) < MaxEvents /\ \E e \in Events : sent' = Append(sent, e))
    /\ known' \subseteq Collections
    /\ waiting' \in [Subscribers -> BOOLEAN] /\ open' \in [Subscribers -> BOOLEAN]
    /\ user' \in [Subscribers -> BOOLEAN] /\ filter' \in [Subscribers -> Filters]
    /\ \A c \in Streams : /\ waiting'[c] = waiting[c] /\ (open'[c] => open[c])
                          /\ filter'[c] = filter[c] /\ user'[c] = user[c]
=============================================================================
