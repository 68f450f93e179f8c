------------------------------ MODULE Accounts ------------------------------
(***************************************************************************)
(* The users of a scope: registration and login (api/auth/                 *)
(* password_auth.rs), OAuth (oauth2.rs), tokens that verify an address or  *)
(* reset a password (verification.rs), the user's own metadata and the     *)
(* admin's updates and deletions (user_rud_ops.rs), over                   *)
(* connections/users.rs.  The database makes e-mail addresses unique, and  *)
(* nothing else: auth_identities has neither a unique key nor a reference, *)
(* auth_tokens has no reference.  Every statement is a step of its own.    *)
(***************************************************************************)
EXTENDS Integers, FiniteSets

CONSTANTS
    Clients,    \* requests at a time
    Emails,
    Identities, \* OAuth identities
    EmailOf,    \* the address a provider tells for each of them
    Keys,       \* keys of the metadata
    MaxUsers,   \* bound on the users ever made
    MaxTokens,  \* bound on the tokens ever made
    MaxCalls    \* bound on the requests

Ids == 1..MaxUsers
Nobody == "none"
Gone == [email |-> Nobody, role |-> Nobody, password |-> 0, verified |-> FALSE, meta |-> [k \in Keys |-> 0]]
NoToken == [type |-> Nobody, user |-> 0]

VARIABLES
    users,      \* the row of each id
    nextId,
    links,      \* auth_identities
    tokens,     \* auth_tokens
    nextToken,
    open,       \* allow_public_registration
    call, calls,
    greeted,    \* SendWelcomeEmail jobs
    first,      \* the user each identity first logged in to, 0 if none
    moved,      \* identities whose user was deleted, or given another address before the link
    used,       \* how often each token was honoured
    sent,       \* the metadata last sent
    raced       \* tokens and users two requests were at work on at once

vars == <<users, nextId, links, tokens, nextToken, open, call, calls, greeted, first, moved, used, sent, raced>>

NoCall == [step |-> "idle", email |-> Nobody, by |-> Nobody, uid |-> 0, token |-> 0, type |-> Nobody,
           role |-> Nobody, meta |-> [k \in Keys |-> 0], key |-> Nobody]

Init ==
    /\ users = [u \in Ids |-> Gone] /\ nextId = 1
    /\ links = {} /\ tokens = [t \in 1..MaxTokens |-> NoToken] /\ nextToken = 1
    /\ open \in BOOLEAN
    /\ call = [c \in Clients |-> NoCall] /\ calls = 0
    /\ greeted = {} /\ first = [i \in Identities |-> 0] /\ moved = {}
    /\ used = [t \in 1..MaxTokens |-> 0]
    /\ sent = [u \in Ids |-> Gone.meta] /\ raced = {}

At(c, step) == call[c].step = step
Live == {u \in Ids : users[u] # Gone}
WithEmail(e) == {u \in Live : users[u].email = e}
Begin(c, k) ==
    /\ At(c, "idle") /\ calls < MaxCalls /\ calls' = calls + 1
    /\ call' = [call EXCEPT ![c] = k]
Goto(c, step) == call' = [call EXCEPT ![c].step = step]
Return(c) == call' = [call EXCEPT ![c] = NoCall]
Meeting(x, c) == \E b \in Clients \ {c} : ~At(b, "idle") /\ x \in {call[b].uid, -call[b].token}

-----------------------------------------------------------------------------
(* Registration and login.                                                 *)

\* An admin registers whom he likes; the public only while the setting is on, with
\* a role that is listed and is not admin.
Register(c) ==
    /\ \E e \in Emails, admin \in BOOLEAN :
         \E r \in (IF admin THEN {"user", "admin"} ELSE {"user"}) :
            /\ admin \/ open
            /\ Begin(c, [NoCall EXCEPT !.step = "insert", !.email = e, !.role = r])
    /\ UNCHANGED <<users, nextId, links, tokens, nextToken, open, greeted, first, moved, used, sent, raced>>

NewUser(e, r) == [Gone EXCEPT !.email = e, !.role = r, !.password = 1]

\* create_user: the unique index refuses an address that is taken.
Insert(c) ==
    LET k == call[c] IN
    /\ At(c, "insert")
    /\ IF WithEmail(k.email) = {}
         THEN /\ nextId <= MaxUsers /\ nextId' = nextId + 1
              /\ users' = [users EXCEPT ![nextId] = NewUser(k.email, k.role)]
              /\ call' = [call EXCEPT ![c].uid = nextId,
                                      ![c].step = IF k.by = Nobody THEN "greet" ELSE "link"]
         ELSE Return(c) /\ UNCHANGED <<users, nextId>>
    /\ UNCHANGED <<links, tokens, nextToken, open, calls, greeted, first, moved, used, sent, raced>>

\* The hook before a creation or a deletion refuses, or the policy forbids the deletion.
Refused(c) ==
    /\ \/ At(c, "insert") /\ call[c].by = Nobody
       \/ At(c, "delete")
    /\ Return(c)
    /\ UNCHANGED <<users, nextId, links, tokens, nextToken, open, calls, greeted, first, moved, used, sent, raced>>

Greet(c) ==
    /\ At(c, "greet") /\ greeted' = greeted \cup {call[c].uid} /\ Return(c)
    /\ UNCHANGED <<users, nextId, links, tokens, nextToken, open, calls, first, moved, used, sent, raced>>

-----------------------------------------------------------------------------
(* process_oauth_user.                                                     *)

Callback(c) ==
    /\ \E i \in Identities : Begin(c, [NoCall EXCEPT !.step = "identity", !.by = i, !.email = EmailOf[i], !.role = "user"])
    /\ UNCHANGED <<users, nextId, links, tokens, nextToken, open, greeted, first, moved, used, sent, raced>>

\* The JWT is made for this user.
LoggedIn(i, u) == first' = IF first[i] = 0 THEN [first EXCEPT ![i] = u] ELSE first
LinkedTo(i) == {u \in Live : <<i, u>> \in links}
Oldest(S) == CHOOSE u \in S : \A v \in S : u <= v

FindIdentity(c) ==
    /\ At(c, "identity")
    /\ IF LinkedTo(call[c].by) # {}
         THEN LoggedIn(call[c].by, Oldest(LinkedTo(call[c].by))) /\ Return(c)
         ELSE Goto(c, "email") /\ UNCHANGED first
    /\ UNCHANGED <<users, nextId, links, tokens, nextToken, open, calls, greeted, moved, used, sent, raced>>

FindEmail(c) ==
    /\ At(c, "email")
    /\ IF WithEmail(call[c].email) = {} THEN Goto(c, "insert")
       ELSE call' = [call EXCEPT ![c].uid = Oldest(WithEmail(call[c].email)), ![c].step = "link"]
    /\ UNCHANGED <<users, nextId, links, tokens, nextToken, open, calls, greeted, first, moved, used, sent, raced>>

\* link_oauth.  Mutant: an account that existed is not linked.
MutLinked(k) == IF users[k.uid].password = 1 /\ k.uid \in greeted THEN links ELSE links \cup {<<k.by, k.uid>>}
Linked(k) == links \cup {<<k.by, k.uid>>}

Link(c) ==
    /\ At(c, "link")
    /\ links' = Linked(call[c])
    /\ LoggedIn(call[c].by, call[c].uid)
    /\ Return(c)
    /\ UNCHANGED <<users, nextId, tokens, nextToken, open, calls, greeted, moved, used, sent, raced>>

-----------------------------------------------------------------------------
(* Tokens.                                                                 *)

Request(c) ==
    /\ \E e \in Emails, t \in {"verify", "reset"} : WithEmail(e) # {} /\
          Begin(c, [NoCall EXCEPT !.step = "token", !.uid = Oldest(WithEmail(e)), !.type = t])
    /\ UNCHANGED <<users, nextId, links, tokens, nextToken, open, greeted, first, moved, used, sent, raced>>

MakeToken(c) ==
    /\ At(c, "token") /\ nextToken <= MaxTokens /\ nextToken' = nextToken + 1
    /\ tokens' = [tokens EXCEPT ![nextToken] = [type |-> call[c].type, user |-> call[c].uid]]
    /\ Return(c)
    /\ UNCHANGED <<users, nextId, links, open, calls, greeted, first, moved, used, sent, raced>>

\* consume_auth_token: a read of the token, then its deletion.
Consume(c) ==
    /\ \E t \in 1..MaxTokens, y \in {"verify", "reset"} :
          /\ tokens[t].type = y
          /\ Begin(c, [NoCall EXCEPT !.step = "consume", !.token = t, !.uid = tokens[t].user, !.type = y])
          /\ raced' = IF Meeting(-t, c) THEN raced \cup {-t} ELSE raced
    /\ UNCHANGED <<users, nextId, links, tokens, nextToken, open, greeted, first, moved, used, sent>>

\* Mutant: the token stays.
MutWithout(t) == tokens
Without(t) == [tokens EXCEPT ![t] = NoToken]

Consumed(c) ==
    /\ At(c, "consume")
    /\ tokens' = Without(call[c].token)
    /\ Goto(c, "honour")
    /\ UNCHANGED <<users, nextId, links, nextToken, open, calls, greeted, first, moved, used, sent, raced>>

Expire(t) ==
    /\ tokens[t] # NoToken /\ tokens' = [tokens EXCEPT ![t] = NoToken]
    /\ UNCHANGED <<users, nextId, links, nextToken, open, call, calls, greeted, first, moved, used, sent, raced>>

\* update_user with a password, or set_user_verified; no row, no effect.
Honour(c) ==
    LET k == call[c] IN
    /\ At(c, "honour")
    /\ used' = [used EXCEPT ![k.token] = @ + 1]
    /\ users' = IF k.uid \notin Live THEN users
                ELSE IF k.type = "reset" THEN [users EXCEPT ![k.uid].password = 2]
                ELSE [users EXCEPT ![k.uid].verified = TRUE]
    /\ Return(c)
    /\ UNCHANGED <<nextId, links, tokens, nextToken, open, calls, greeted, first, moved, sent, raced>>

-----------------------------------------------------------------------------
(* Updates and deletions.                                                  *)

\* update_me reads the metadata, and merges into what it read.
UpdateMe(c) ==
    /\ \E u \in Live, k \in Keys :
          /\ Begin(c, [NoCall EXCEPT !.step = "merge", !.uid = u, !.key = k, !.meta = users[u].meta])
          /\ raced' = IF Meeting(u, c) THEN raced \cup {u} ELSE raced
    /\ UNCHANGED <<users, nextId, links, tokens, nextToken, open, greeted, first, moved, used, sent>>

\* Mutant: what was there is dropped.
MutMerged(meta, key) == [k \in Keys |-> IF k = key THEN 1 ELSE 0]
Merged(meta, key) == [meta EXCEPT ![key] = 1]

Merge(c) ==
    LET k == call[c] IN
    /\ At(c, "merge")
    /\ IF k.uid \in Live
         THEN /\ users' = [users EXCEPT ![k.uid].meta = Merged(k.meta, k.key)]
              /\ sent' = [sent EXCEPT ![k.uid][k.key] = 1]
         ELSE UNCHANGED <<users, sent>>
    /\ Return(c)
    /\ UNCHANGED <<nextId, links, tokens, nextToken, open, calls, greeted, first, moved, used, raced>>

\* update_user_handler: one statement; an address that is taken is refused.
AdminUpdate(c) ==
    /\ \E u \in Live, e \in Emails : WithEmail(e) = {} /\
          /\ Begin(c, NoCall)
          /\ users' = [users EXCEPT ![u].email = e]
          /\ moved' = moved \cup {i \in Identities : EmailOf[i] \in {users[u].email, e}}
    /\ UNCHANGED <<nextId, links, tokens, nextToken, open, greeted, first, used, sent, raced>>

AdminReset(c) ==
    /\ \E u \in Live : /\ Begin(c, NoCall)
                       /\ users' = [users EXCEPT ![u].meta = Gone.meta]
                       /\ sent' = [sent EXCEPT ![u] = Gone.meta]
                       /\ raced' = IF Meeting(u, c) THEN raced \cup {u} ELSE raced
    /\ UNCHANGED <<nextId, links, tokens, nextToken, open, greeted, first, moved, used>>

\* delete_user_handler: the target and the policy are read before the hook.
\* Links and tokens stay.
Target(c) ==
    /\ \E u \in Live : Begin(c, [NoCall EXCEPT !.step = "delete", !.uid = u])
    /\ UNCHANGED <<users, nextId, links, tokens, nextToken, open, greeted, first, moved, used, sent, raced>>

Delete(c) ==
    /\ At(c, "delete")
    /\ users' = [users EXCEPT ![call[c].uid] = Gone]
    /\ sent' = [sent EXCEPT ![call[c].uid] = Gone.meta]
    /\ moved' = moved \cup {i \in Identities : first[i] = call[c].uid \/ EmailOf[i] = users[call[c].uid].email}
    /\ Return(c)
    /\ UNCHANGED <<nextId, links, tokens, nextToken, open, calls, greeted, first, used, raced>>

Next ==
    \/ \E c \in Clients :
        \/ Register(c) \/ Insert(c) \/ Refused(c) \/ Greet(c)
        \/ Callback(c) \/ FindIdentity(c) \/ FindEmail(c) \/ Link(c)
        \/ Request(c) \/ MakeToken(c) \/ Consume(c) \/ Consumed(c) \/ Honour(c)
        \/ UpdateMe(c) \/ Merge(c) \/ AdminUpdate(c) \/ AdminReset(c) \/ Target(c) \/ Delete(c)
    \/ \E t \in 1..MaxTokens : Expire(t)

Spec == Init /\ [][Next]_vars

-----------------------------------------------------------------------------
TypeOK ==
    /\ nextId \in 1..(MaxUsers + 1) /\ nextToken \in 1..(MaxTokens + 1)
    /\ \A u, v \in Live : users[u].email = users[v].email => u = v
    /\ links \subseteq Identities \X Ids

\* SameUser: an identity always logs in to the user it first logged in to, and
\* is known under one user only, unless that user was deleted or an admin gave
\* the address away.
SameUser == \A i \in Identities \ moved :
    /\ first[i] # 0 => LinkedTo(i) = {first[i]}
    /\ \A c \in Clients : At(c, "link") /\ call[c].by = i /\ first[i] # 0 => call[c].uid = first[i]

\* TokenOnce: a token is honoured once, unless two requests with it overlapped.
TokenOnce == \A t \in 1..MaxTokens : used[t] <= 1 \/ -t \in raced

\* MetaKept: every key of a user's metadata has the value last sent for it,
\* unless two updates overlapped: the later one writes back what it read.
MetaKept == \A u \in Live \ raced : users[u].meta = sent[u]
=============================================================================
