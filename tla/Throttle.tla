------------------------------ MODULE Throttle ------------------------------
(***************************************************************************)
(* rate_limit_middleware (server/middleware/rate_limit.rs).  The limits    *)
(* come from the security settings and the tier of the tenant, both kept   *)
(* in root_script_cache with no expiry: a request that misses reads the    *)
(* database and inserts what it read.  The limiters are shared by all      *)
(* scopes with the same limit; a request that misses creates one and       *)
(* inserts it.  A limiter holds a bucket of `limit' tokens per client and  *)
(* scope that fills up with time.                                          *)
(***************************************************************************)
EXTENDS Naturals, FiniteSets

CONSTANTS
    Requests,    \* requests at a time
    Tenants,     \* scopes other than the root
    Limits,      \* values the limits take
    Configs,     \* the settings, each with a limit for the root, free and pro tenants
    MaxLimiters, \* bound on the limiters ever made
    MaxChanges,  \* bound on the changes of settings and tiers
    MaxAdmits    \* bound on the requests

ConstantsAssumption ==
    /\ {"root", "config"} \cap Tenants = {}
    /\ Limits \subseteq Nat /\ MaxLimiters \in Nat
    /\ Configs \subseteq [root : Limits, free : Limits, pro : Limits]

Root == "root"
Scopes == {Root} \cup Tenants
Tiers == {"free", "pro"}
Unset == "none"

VARIABLES
    config,     \* the security settings
    tier,       \* of each tenant
    entry,      \* root_script_cache: "config" and the tier keys
    limiter,    \* rate_limiters: limit -> limiter, 0 if none
    tokens,     \* the buckets of each limiter
    made,       \* limiters made so far
    request,
    changes, admits,
    spent,      \* tokens taken and not filled up again, per limit and scope
    replaced,   \* limits whose limiter was made twice
    stale       \* the entries read before a change

vars == <<config, tier, entry, limiter, tokens, made, request, changes, admits, spent, replaced, stale>>

NoConfig == [root |-> 0, free |-> 0, pro |-> 0]
NoRequest == [step |-> "idle", scope |-> Unset, config |-> NoConfig, tier |-> Unset, limit |-> 0, with |-> 0,
              old |-> FALSE]  \* a change came after it arrived, or it read a stale entry
At(r, step) == request[r].step = step

\* The key of a tier.  Mutant: one key for all tenants.
MutTierKey(t) == CHOOSE x \in Tenants : TRUE
TierKey(t) == t

Init ==
    /\ config \in Configs /\ tier = [t \in Tenants |-> "free"]
    /\ entry = [config |-> NoConfig, tier |-> [t \in Tenants |-> Unset]]
    /\ limiter = [l \in Limits |-> 0]
    /\ tokens = [i \in 1..MaxLimiters |-> [s \in Scopes |-> 0]]
    /\ made = 0 /\ request = [r \in Requests |-> NoRequest]
    /\ changes = 0 /\ admits = 0
    /\ spent = [l \in Limits |-> [s \in Scopes |-> 0]]
    /\ replaced = {} /\ stale = {}

-----------------------------------------------------------------------------
Arrive(r) ==
    /\ At(r, "idle") /\ admits < MaxAdmits /\ admits' = admits + 1
    /\ \E s \in Scopes : request' = [request EXCEPT ![r] = [NoRequest EXCEPT !.step = "config", !.scope = s]]
    /\ UNCHANGED <<config, tier, entry, limiter, tokens, made, changes, spent, replaced, stale>>

\* The configuration: the entry, or the settings, which are then inserted.
ReadConfig(r) ==
    /\ At(r, "config")
    /\ IF entry.config # NoConfig
         THEN request' = [request EXCEPT ![r].config = entry.config, ![r].step = "tier",
                                         ![r].old = @ \/ "config" \in stale]
         ELSE request' = [request EXCEPT ![r].config = config, ![r].step = "insert config"]
    /\ UNCHANGED <<config, tier, entry, limiter, tokens, made, changes, admits, spent, replaced, stale>>

\* What an insertion does to the staleness of its key.
Aged(key, r) == IF request[r].old THEN stale \cup {key} ELSE stale \ {key}

InsertConfig(r) ==
    /\ At(r, "insert config")
    /\ entry' = [entry EXCEPT !.config = request[r].config]
    /\ stale' = Aged("config", r)
    /\ request' = [request EXCEPT ![r].step = "tier"]
    /\ UNCHANGED <<config, tier, limiter, tokens, made, changes, admits, spent, replaced>>

\* The tier of a tenant, likewise.
ReadTier(r) ==
    LET t == request[r].scope IN
    /\ At(r, "tier")
    /\ CASE t = Root ->
              request' = [request EXCEPT ![r].step = "limit"]
         [] t # Root /\ entry.tier[TierKey(t)] # Unset ->
              request' = [request EXCEPT ![r].tier = entry.tier[TierKey(t)], ![r].step = "limit",
                                         ![r].old = @ \/ t \in stale]
         [] OTHER ->
              request' = [request EXCEPT ![r].tier = tier[t], ![r].step = "insert tier"]
    /\ UNCHANGED <<config, tier, entry, limiter, tokens, made, changes, admits, spent, replaced, stale>>

InsertTier(r) ==
    /\ At(r, "insert tier")
    /\ entry' = [entry EXCEPT !.tier[TierKey(request[r].scope)] = request[r].tier]
    /\ stale' = Aged(request[r].scope, r)
    /\ request' = [request EXCEPT ![r].step = "limit"]
    /\ UNCHANGED <<config, tier, limiter, tokens, made, changes, admits, spent, replaced>>

LimitOf(c, s, t) == IF s = Root THEN c.root ELSE IF t = "pro" THEN c.pro ELSE c.free

\* The limiter of that limit, or a new one, which is then inserted.
GetLimiter(r) ==
    LET req == request[r]  l == LimitOf(req.config, req.scope, req.tier) IN
    /\ At(r, "limit")
    /\ IF limiter[l] # 0
         THEN /\ request' = [request EXCEPT ![r].limit = l, ![r].with = limiter[l], ![r].step = "check"]
              /\ UNCHANGED <<made, tokens>>
         ELSE /\ made < MaxLimiters /\ made' = made + 1
              /\ tokens' = [tokens EXCEPT ![made + 1] = [s \in Scopes |-> l]]
              /\ request' = [request EXCEPT ![r].limit = l, ![r].with = made + 1, ![r].step = "insert limiter"]
    /\ UNCHANGED <<config, tier, entry, limiter, changes, admits, spent, replaced, stale>>

\* Mutant: the limiter is made for this request alone.
MutInserted(l, i) == limiter
Inserted(l, i) == [limiter EXCEPT ![l] = i]

InsertLimiter(r) ==
    LET req == request[r] IN
    /\ At(r, "insert limiter")
    /\ replaced' = IF limiter[req.limit] # 0 THEN replaced \cup {req.limit} ELSE replaced
    /\ limiter' = Inserted(req.limit, req.with)
    /\ request' = [request EXCEPT ![r].step = "check"]
    /\ UNCHANGED <<config, tier, entry, tokens, made, changes, admits, spent, stale>>

\* check_key: a token of the client's bucket in this scope, or 429.
Check(r) ==
    LET req == request[r] IN
    /\ At(r, "check")
    /\ IF tokens[req.with][req.scope] > 0
         THEN /\ tokens' = [tokens EXCEPT ![req.with][req.scope] = @ - 1]
              /\ spent' = [spent EXCEPT ![req.limit][req.scope] = @ + 1]
         ELSE UNCHANGED <<tokens, spent>>
    /\ request' = [request EXCEPT ![r] = NoRequest]
    /\ UNCHANGED <<config, tier, entry, limiter, made, changes, admits, replaced, stale>>

\* A minute's share of time: every bucket of the limit gains a token.
Refill(l) ==
    /\ \E s \in Scopes : spent[l][s] > 0
    /\ spent' = [spent EXCEPT ![l] = [s \in Scopes |-> IF @[s] > 0 THEN @[s] - 1 ELSE 0]]
    /\ tokens' = [i \in 1..MaxLimiters |->
                    IF limiter[l] = i \/ \E r \in Requests : request[r].with = i /\ request[r].limit = l
                    THEN [s \in Scopes |-> IF tokens[i][s] < l THEN tokens[i][s] + 1 ELSE l]
                    ELSE tokens[i]]
    /\ UNCHANGED <<config, tier, entry, limiter, made, request, changes, admits, replaced, stale>>

-----------------------------------------------------------------------------
Outdated == [r \in Requests |-> [request[r] EXCEPT !.old = ~At(r, "idle")]]

\* The settings and the tier are written with no word to the middleware.
ChangeConfig ==
    /\ changes < MaxChanges /\ changes' = changes + 1
    /\ config' \in Configs \ {config}
    /\ stale' = stale \cup {"config"} /\ request' = Outdated
    /\ UNCHANGED <<tier, entry, limiter, tokens, made, admits, spent, replaced>>

ChangeTier(t) ==
    /\ changes < MaxChanges /\ changes' = changes + 1
    /\ tier' = [tier EXCEPT ![t] = IF @ = "free" THEN "pro" ELSE "free"]
    /\ stale' = stale \cup {t} /\ request' = Outdated
    /\ UNCHANGED <<config, entry, limiter, tokens, made, admits, spent, replaced>>

\* root_script_cache is at its capacity, or a script of the root deletes the key.
Evict ==
    /\ \/ entry.config # NoConfig /\ entry' = [entry EXCEPT !.config = NoConfig]
       \/ \E t \in Tenants : entry.tier[t] # Unset /\ entry' = [entry EXCEPT !.tier[t] = Unset]
    /\ UNCHANGED <<config, tier, limiter, tokens, made, request, changes, admits, spent, replaced, stale>>

Next ==
    \/ \E r \in Requests : \/ Arrive(r) \/ ReadConfig(r) \/ InsertConfig(r) \/ ReadTier(r) \/ InsertTier(r)
                           \/ GetLimiter(r) \/ InsertLimiter(r) \/ Check(r)
    \/ \E l \in Limits : Refill(l)
    \/ ChangeConfig \/ (\E t \in Tenants : ChangeTier(t)) \/ Evict

Spec == Init /\ [][Next]_vars

-----------------------------------------------------------------------------
Steps == {"idle", "config", "insert config", "tier", "insert tier", "limit", "insert limiter",
          "check"}
Calls == [step : Steps, scope : Scopes \cup {Unset}, config : Configs \cup {NoConfig},
          tier : Tiers \cup {Unset}, limit : Limits \cup {0}, with : 0..MaxLimiters, old : BOOLEAN]

TypeOK ==
    /\ config \in Configs /\ tier \in [Tenants -> Tiers]
    /\ entry \in [config : Configs \cup {NoConfig}, tier : [Tenants -> Tiers \cup {Unset}]]
    /\ limiter \in [Limits -> 0..made] /\ made \in 0..MaxLimiters
    /\ tokens \in [1..MaxLimiters -> [Scopes -> Nat]]
    /\ spent \in [Limits -> [Scopes -> Nat]]
    /\ request \in [Requests -> Calls]
    /\ replaced \subseteq Limits /\ stale \subseteq {"config"} \cup Tenants

\* LimitHolds: a client of a scope has at most `limit' tokens' worth of requests
\* admitted above what time has filled up, unless two requests made the limiter
\* of that limit at once: the second takes the place of the first.
LimitHolds == \A l \in Limits \ replaced : \A s \in Scopes : spent[l][s] <= l

\* LimitIsOwn: a request is checked against the limit of its own scope and tier;
\* an older limit only if the settings or that tier changed since they were read.
LimitIsOwn == \A r \in Requests :
    At(r, "check") /\ ~request[r].old
    => request[r].limit = LimitOf(config, request[r].scope,
                              IF request[r].scope = Root THEN Unset ELSE tier[request[r].scope])

-----------------------------------------------------------------------------
(* The inductive invariant.                                                *)

\* EntryInv: an entry that is not stale is what the database holds.
EntryInv ==
    /\ entry.config # NoConfig /\ "config" \notin stale => entry.config = config
    /\ \A t \in Tenants : entry.tier[t] # Unset /\ t \notin stale => entry.tier[t] = tier[t]

\* ReadInv: and so is what a request has read, unless it is old.
ReadInv(r) ==
    LET req == request[r] IN
    /\ ~At(r, "idle") => req.scope \in Scopes
    /\ req.step \notin {"idle", "config"} => req.config \in Configs
    /\ At(r, "insert tier") => req.scope # Root
    /\ ~req.old =>
          /\ req.step \in {"insert config", "tier", "insert tier", "limit"} => req.config = config
          /\ req.step \in {"insert tier", "limit"} /\ req.scope # Root =>
                req.tier = tier[req.scope]
          /\ req.step \in {"insert limiter", "check"} =>
                req.limit = LimitOf(config, req.scope,
                                    IF req.scope = Root THEN Unset ELSE tier[req.scope])

\* Owns: limiter i was made for limit l.
Owns(l, i) ==
    limiter[l] = i \/ \E r \in Requests : request[r].with = i /\ request[r].limit = l

\* LimiterInv: no limiter serves two limits.
LimiterInv ==
    \A i \in 1..made : \A l, m \in Limits : Owns(l, i) /\ Owns(m, i) => l = m

\* HoldInv: a request that has made a limiter has it for itself, and full; one
\* that is checked has the only one there is, unless there were two.
HoldInv(r) ==
    LET req == request[r] IN
    /\ IF req.step \in {"insert limiter", "check"}
         THEN req.with \in 1..made /\ req.limit \in Limits
         ELSE req.with = 0
    /\ At(r, "insert limiter") =>
          /\ limiter[req.limit] # req.with
          /\ \A q \in Requests \ {r} : request[q].with # req.with
          /\ \A s \in Scopes : tokens[req.with][s] = req.limit
    /\ At(r, "check") /\ req.limit \notin replaced => req.with = limiter[req.limit]

\* TokenInv: what is spent of a limit is what is missing in its bucket.
TokenInv ==
    \A l \in Limits \ replaced : \A s \in Scopes :
        IF limiter[l] = 0 THEN spent[l][s] = 0 ELSE tokens[limiter[l]][s] + spent[l][s] = l

ThrottleInv ==
    /\ TypeOK /\ EntryInv /\ LimiterInv /\ TokenInv
    /\ \A r \in Requests : ReadInv(r) /\ HoldInv(r)
=============================================================================
