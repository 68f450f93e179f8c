----------------------------- MODULE MCProgress -----------------------------
(***************************************************************************)
(* What must eventually happen, checked by TLC in one run: the connections *)
(* of the realtime API, the clone task of a sandbox, the writes a replica  *)
(* forwards, the runs of scripts and the reloads of the GraphQL schema.  A *)
(* behaviour is one of one component, which `part' names for good.         *)
(* The variables have the names of their modules, but for names that two   *)
(* of them use, and are None where another part runs.                      *)
(***************************************************************************)
EXTENDS GraphQL

CONSTANTS
    None,
    N, Refs, Owner, Limits, MaxDepth,               \* clones
    Reqs, Rows, MaxBoots, Faults,                   \* forwarded writes
    Permits, MaxRuns,                               \* scripts
    Sockets, Streams, Scopes, ScopeOf, Channels,    \* feeds
    Guarded, Tables, Existing, Capacity, MaxEvents, MaxRequests

VARIABLES
    part,
    ref, limit, loop, stack, copied, rows, lastId, users, refused,
    status, arrivals, queue, cur, row, phase, fallback, linked, pending, boots, calls, results,
    wire, old, back, stored,
    run, free, files,
    sent, tables, next, waiting, open, filter, user, requests, got, skipped

clone == <<ref, limit, loop, stack, copied, rows, lastId, users, refused>>
forwarding == <<status, arrivals, queue, cur, row, phase, fallback, linked, pending, boots, calls,
                results, wire, old, back, stored>>
scripts == <<run, free, files>>
feeds == <<sent, tables, next, waiting, open, filter, user, requests, got, skipped>>

mcVars == <<vars, part, clone, forwarding, scripts, feeds>>

-----------------------------------------------------------------------------
(* The instances, and the values of their constants that are functions.    *)

C == INSTANCE SandboxClone WITH next <- loop, failed <- refused, 
        tracked <- copied, seq <- lastId
W == INSTANCE WriteForwardingProofs WITH db <- stored
E == INSTANCE ScriptRuns
R == INSTANCE Realtime WITH Collections <- Tables, known <- tables

ASSUME PartsAssumption ==
    /\ C!ConstantsAssumption /\ W!ConstantsAssumption /\ E!ConstantsAssumption
    /\ R!ConstantsAssumption

\* Four records, every relation there can be among them, three of them owned.
AnyRelation == [1..4 -> 0..4]
SomeOwned == <<1, 2, 0, 1>>

\* A single write and a bulk insert of two rows.
SingleAndBulk == [r \in {"a", "bulk"} |-> IF r = "bulk" THEN 2 ELSE 1]

\* All connections are those of a tenant.
OfTenant == [c \in {"ws", "sse"} |-> "t"]

\* Catalogues with a relation and its reverse, with a relation whose target is
\* gone, with a field and a relation of one name, and with two collections of
\* one type name; scripts that add a field to a user, replace a field, return a
\* type and name no parent.
NoRelation == [n \in {} |-> "post"]
Collection(name, fields, owners, relations) ==
    [name |-> name, fields |-> fields, owners |-> owners, relations |-> relations]
Post == Collection("post", {"id", "title", "comment"}, {}, NoRelation)
Comment == Collection("comment", {"text", "author"}, {"author"}, [post |-> "post", on |-> "post"])
Clash == Collection("comment", {"post"}, {}, [post |-> "post"])
Twin == Collection("Post", {"title"}, {}, NoRelation)
MCCatalogues == {{Post}, {Post, Comment}, {Comment}, {Post, Clash}, {Post, Twin}}
Script(parent, name, returns) == [parent |-> parent, name |-> name, returns |-> returns]
MCScripts ==
    {{}, {Script("User", "email", "JSON")},
     {Script("Post", "title", "JSON"), Script("Nobody", "x", "JSON"),
      Script("Query", "comment", "Comment")}}
MCTypeOf == [post |-> "Post", comment |-> "Comment", Post |-> "Post"]

-----------------------------------------------------------------------------
(* A part that does not run.                                               *)

NoGraphQL ==
    /\ db = None /\ changes = None /\ schema = None /\ reload = None /\ executing = None
    /\ up = None /\ overtaken = None /\ failed = None
NoClone ==
    /\ ref = None /\ limit = None /\ loop = None /\ stack = None /\ copied = None
    /\ rows = None /\ lastId = None /\ users = None /\ refused = None
NoForwarding ==
    /\ status = None /\ arrivals = None /\ queue = None /\ cur = None /\ row = None
    /\ phase = None /\ fallback = None /\ linked = None /\ pending = None /\ boots = None
    /\ calls = None /\ results = None /\ wire = None /\ old = None /\ back = None
    /\ stored = None
NoScripts == run = None /\ free = None /\ files = None
NoFeeds ==
    /\ sent = None /\ tables = None /\ next = None /\ waiting = None /\ open = None
    /\ filter = None /\ user = None /\ requests = None /\ got = None /\ skipped = None

\* The only connection that is up: what one is given does not depend on others.
Alone(c) == \A d \in R!Subscribers : open[d] <=> d = c

MCInit ==
    /\ part \in {"graphql", "clone", "forwarding", "scripts", "feeds"}
    /\ IF part = "graphql" THEN Init ELSE NoGraphQL
    /\ IF part = "clone" THEN C!Init ELSE NoClone
    /\ IF part = "forwarding" THEN W!Init ELSE NoForwarding
    /\ IF part = "scripts" THEN E!Init ELSE NoScripts
    /\ IF part = "feeds" THEN R!Init /\ \E c \in R!Subscribers : Alone(c) ELSE NoFeeds

\* Steps of one part.
OfGraphQL == part = "graphql" /\ UNCHANGED <<part, clone, forwarding, scripts, feeds>>
OfClone == part = "clone" /\ UNCHANGED <<part, vars, forwarding, scripts, feeds>>
OfForwarding == part = "forwarding" /\ UNCHANGED <<part, vars, clone, scripts, feeds>>
OfScripts == part = "scripts" /\ UNCHANGED <<part, vars, clone, forwarding, feeds>>
OfFeeds == part = "feeds" /\ UNCHANGED <<part, vars, clone, forwarding, scripts>>

MCNext ==
    \/ OfGraphQL /\ Next
    \/ OfClone /\ C!Next
    \/ OfForwarding /\ W!Next
    \/ OfScripts /\ E!Next
    \/ OfFeeds /\ R!Next

\* The fairness of each component's own specification.
MCFairness ==
    /\ \A i \in Reloads : WF_mcVars(OfGraphQL /\ Reload(i)) /\ WF_mcVars(OfGraphQL /\ Swap(i))
    /\ \A c \in Clients : WF_mcVars(OfGraphQL /\ EndRequest(c))
    /\ WF_mcVars(OfClone /\ C!Next)
    /\ WF_mcVars(OfForwarding /\ W!Task)
    /\ WF_mcVars(OfForwarding /\ W!WsTimeout)
    /\ WF_mcVars(OfForwarding /\ W!ExecGrpc)
    /\ WF_mcVars(OfScripts /\ E!Acquire)
    /\ \A i \in E!Runs :
          /\ WF_mcVars(OfScripts /\ i \in E!Started /\ E!Install(i))
          /\ WF_mcVars(OfScripts /\ i \in E!Started /\ E!Interrupt(i))
          /\ WF_mcVars(OfScripts /\ i \in E!Started /\ E!Timeout(i))
    /\ \A c \in R!Subscribers : WF_mcVars(OfFeeds /\ (R!Receive(c) \/ R!Lag(c)))
    /\ \A c \in Sockets : WF_mcVars(OfFeeds /\ R!Ping(c))

MCSpec == MCInit /\ [][MCNext]_mcVars /\ MCFairness

-----------------------------------------------------------------------------
(* The properties.                                                         *)

\* Feeds: the events of a connection come in order, of its own scope, and to a
\* stream all that it wants (api/realtime/websocket.rs, sse.rs).
FeedsSafe ==
    part = "feeds" => R!TypeOK /\ R!InOrder /\ R!OwnScope /\ R!Complete

\* GraphQL: when no reload is under way the schema answers for the catalogue
\* and the policy (graphql/builder.rs, utils.rs).
GraphQLSafe == part = "graphql" => TypeOK /\ SchemaCurrent

\* The start of the server after any change (lib.rs expects the schema to
\* build: "Failed to build GraphQL schema").
StartsAgain == part = "graphql" => Startable

\* The clone task copies the owners, no record twice, and exactly the listed
\* records where relations point to newer ones (workspaces_manager/sandbox.rs).
CloneSafe ==
    part = "clone" => C!TypeOK /\ C!OwnersCopied /\ C!CopiedOnce /\ C!ForwardExact

\* The promise of the documentation for the same task.
SandboxIntegrity == part = "clone" => C!PerfectIntegrity

\* Calls: what a replica's caller was told is in the master's file, in order,
\* and at most one row a start is written twice (replication/grpc_client.rs);
\* runs of scripts lose no permit, leave no module behind and do not outlive
\* their callers, but for those that were dropped (scripting/engine.rs).
CallsSafe ==
    /\ part = "forwarding" =>
        /\ W!TypeOK /\ W!AckedIsStored /\ W!OneDouble /\ W!AckedInOrder /\ W!PendingMatches
    /\ part = "scripts" => E!TypeOK /\ E!PermitsKept /\ E!NoOrphans /\ E!FilesExplained

\* Everything ends: a connection that lags does not stay behind (Resumes of
\* Realtime), a clone without a cycle of relations ends (CloneEnds of
\* SandboxClone), no caller of a replica or of a script waits for ever
\* (CallsAnswered of WriteForwarding, RunEnds of ScriptRuns), and a reload of
\* the schema ends (ReloadEnds of GraphQL) and has built one, or has failed for
\* a reason that is known (FailureExplained).
Behind(c, i) == part = "feeds" /\ R!Behind(c, i)
Waits(r) == part = "forwarding" /\ W!Waits(r)
Runs(i) == part = "scripts" /\ E!Waits(i)
IsReloading(i) == part = "graphql" /\ Underway(i)

FeedsResume == \A c \in R!Subscribers, i \in 1..MaxEvents : Behind(c, i) ~> ~Behind(c, i)

ReloadsEnd ==
    /\ [](part = "graphql" => FailureExplained)
    /\ \A i \in Reloads : IsReloading(i) ~> ~IsReloading(i)

CloneEnds == <>(part = "clone" => C!Done \/ ~C!Acyclic)

CallsAnswered ==
    /\ \A r \in Reqs : Waits(r) ~> ~Waits(r)
    /\ \A i \in E!Runs : Runs(i) ~> (~Runs(i) \/ E!Hung)
=============================================================================
