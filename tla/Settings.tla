------------------------------ MODULE Settings ------------------------------
(***************************************************************************)
(* The settings of a scope (api/system/settings.rs, api/system/config.rs,  *)
(* connections/configs.rs): one row per group in _system_config_settings.  *)
(* An admin reads all groups with their secrets masked, and sends back the *)
(* form; update_settings merges the general group into the row it read,    *)
(* and for smtp, storage and ai puts the secret of the row it read in the  *)
(* place of the mask and encrypts a new one.  Each group is a read and a   *)
(* write of their own.  The config endpoint writes any value to any key.   *)
(***************************************************************************)
EXTENDS Naturals, FiniteSets

CONSTANTS
    Admins,     \* requests at a time
    Fields,     \* fields of the general group
    Values,     \* values and secrets an admin types, no mask among them
    MaxCalls    \* bound on the requests

Mask == "******"
Empty == ""

ConstantsAssumption == Mask \notin Values /\ MaxCalls \in Nat

NoRow == [shape |-> "absent", sealed |-> FALSE, secret |-> Empty]
Dto(sealed, s) == [shape |-> "dto", sealed |-> sealed, secret |-> s]
Secrets == Values \cup {Mask, Empty}

VARIABLES
    general,    \* the general group
    row,        \* a group with a secret
    form,       \* what each admin's screen shows
    call,       \* the request of each admin
    calls,
    typed,      \* the last secret an admin typed that was written
    intended,   \* the last value written of each general field that an admin sent
    disturbed   \* which surprises have happened

vars == <<general, row, form, call, calls, typed, intended, disturbed>>

NoForm == [secret |-> Empty, shown |-> FALSE]
NoCall == [step |-> "idle", fields |-> {}, value |-> Empty, secret |-> Empty,
           seen |-> [f \in Fields |-> Empty], found |-> NoRow]

Init ==
    /\ general = [f \in Fields |-> Empty] /\ intended = general
    /\ row = NoRow /\ typed = Empty
    /\ form = [a \in Admins |-> NoForm] /\ call = [a \in Admins |-> NoCall]
    /\ calls = 0 /\ disturbed = {}

At(a, step) == call[a].step = step
Started == calls < MaxCalls /\ calls' = calls + 1
Others(a) == \E b \in Admins \ {a} : ~At(b, "idle")

-----------------------------------------------------------------------------
\* get_settings: a secret that is not empty is masked; another shape is the default.
Masked(r) == IF r.shape = "dto" /\ r.secret # Empty THEN Mask ELSE Empty

Show(a) ==
    /\ At(a, "idle") /\ form[a] # [secret |-> Masked(row), shown |-> TRUE]
    /\ form' = [form EXCEPT ![a] = [secret |-> Masked(row), shown |-> TRUE]]
    /\ UNCHANGED <<general, row, call, calls, typed, intended, disturbed>>

\* update_settings: the fields the form changed and, in the group, the secret as
\* shown or a new one.
Patch(a) ==
    /\ At(a, "idle") /\ form[a].shown /\ Started
    /\ \E fs \in SUBSET Fields, v \in Values, s \in Values \cup {form[a].secret} :
          call' = [call EXCEPT ![a] = [NoCall EXCEPT !.step = "general", !.fields = fs,
                                                     !.value = v, !.secret = s, !.seen = general]]
    /\ disturbed' = IF Others(a) THEN disturbed \cup {"overlap"} ELSE disturbed
    /\ UNCHANGED <<general, row, form, typed, intended>>

\* Mutant: the fields that were not sent are reset.
MutMerged(k) == [f \in Fields |-> IF f \in k.fields THEN k.value ELSE Empty]
Merged(k) == [f \in Fields |-> IF f \in k.fields THEN k.value ELSE k.seen[f]]

SaveGeneral(a) ==
    /\ At(a, "general")
    /\ general' = Merged(call[a])
    /\ intended' = [f \in Fields |-> IF f \in call[a].fields THEN call[a].value ELSE intended[f]]
    /\ call' = [call EXCEPT ![a].step = "read"]
    /\ UNCHANGED <<row, form, calls, typed, disturbed>>

\* A group that is absent from the payload, or a database error: the rest stays undone.
Leave(a) ==
    /\ At(a, "read") /\ call' = [call EXCEPT ![a] = NoCall]
    /\ UNCHANGED <<general, row, form, calls, typed, intended, disturbed>>

ReadGroup(a) ==
    /\ At(a, "read")
    /\ call' = [call EXCEPT ![a].step = "group", ![a].found = row]
    /\ UNCHANGED <<general, row, form, calls, typed, intended, disturbed>>

\* The secret that is written: the one of the row for the mask, an empty one as
\* it is, another encrypted; as it came when the row found has another shape.
\* Mutant: the mask is taken for a secret.
MutSealed(s, found) == Dto(s # Empty, s)
Sealed(s, found) ==
    CASE found.shape = "dto" /\ s = Mask -> Dto(found.sealed, found.secret)
      [] found.shape = "other" -> Dto(FALSE, s)
      [] OTHER -> Dto(s # Empty, s)

SaveGroup(a) ==
    LET k == call[a] IN
    /\ At(a, "group")
    /\ row' = Sealed(k.secret, k.found)
    /\ typed' = IF k.secret = Mask THEN typed ELSE k.secret
    /\ disturbed' = disturbed
         \cup (IF k.found.shape = "other" THEN {"shape"} ELSE {})
         \cup (IF k.secret = Mask /\ k.found.shape = "absent" THEN {"vanished"} ELSE {})
    /\ call' = [call EXCEPT ![a] = NoCall]
    /\ UNCHANGED <<general, form, calls, intended>>

\* The config endpoint: any value under the key of the group, or none.
SetConfig ==
    /\ Started
    /\ row' \in {NoRow, [shape |-> "other", sealed |-> FALSE, secret |-> Empty]}
    /\ typed' = Empty /\ disturbed' = disturbed \cup {"endpoint"}
    /\ UNCHANGED <<general, form, call, intended>>

Next ==
    \/ \E a \in Admins : Show(a) \/ Patch(a) \/ SaveGeneral(a) \/ Leave(a) \/ ReadGroup(a) \/ SaveGroup(a)
    \/ SetConfig

Spec == Init /\ [][Next]_vars

-----------------------------------------------------------------------------
Rows == [shape : {"absent", "dto", "other"}, sealed : BOOLEAN, secret : Secrets]
Groups == [Fields -> Values \cup {Empty}]
Calls == [step : {"idle", "general", "read", "group"}, fields : SUBSET Fields,
          value : Values \cup {Empty}, secret : Secrets, seen : Groups, found : Rows]

TypeOK ==
    /\ {general, intended} \subseteq Groups
    /\ row \in Rows /\ typed \in Secrets
    /\ form \in [Admins -> [secret : {Mask, Empty}, shown : BOOLEAN]]
    /\ call \in [Admins -> Calls]
    /\ calls \in 0..MaxCalls
    /\ disturbed \subseteq {"overlap", "endpoint", "shape", "vanished"}

\* SecretKept: the stored secret is the last one an admin typed, encrypted.
\* Only requests that overlapped, or a config endpoint call, make it another;
\* it is plain text only after a row of another shape was replaced, and the
\* mask itself only when the row that was masked had vanished.
SecretKept ==
    /\ disturbed \cap {"overlap", "endpoint"} = {} => row.secret = typed
    /\ "shape" \notin disturbed => row.sealed = (row.secret # Empty)
    /\ "vanished" \notin disturbed => row.secret # Mask \/ "shape" \in disturbed

\* GeneralKept: each general field has the value last sent for it, unless
\* requests overlapped: the later one writes back what it read of the others.
GeneralKept == "overlap" \notin disturbed => general = intended

-----------------------------------------------------------------------------
(* The inductive invariant.                                                *)

\* Sound: what SecretKept asks of the row, asked of any row that was read.
Sound(r) ==
    /\ "shape" \notin disturbed => r.sealed = (r.secret # Empty)
    /\ disturbed \cap {"shape", "vanished"} = {} => r.secret # Mask

\* CallInv: a mask stands for a secret that is there, unless the config endpoint
\* was used; a request alone has read what there still is.
CallInv(a) ==
    /\ At(a, "group") => Sound(call[a].found)
    /\ "endpoint" \notin disturbed /\ Mask \in {form[a].secret, call[a].secret}
          => row.shape = "dto"
    /\ "overlap" \notin disturbed /\ At(a, "general") => call[a].seen = general
    /\ disturbed \cap {"overlap", "endpoint"} = {} /\ At(a, "group") => call[a].found = row

SettingsInv ==
    /\ TypeOK /\ SecretKept /\ GeneralKept
    /\ "endpoint" \notin disturbed => row.shape # "other"
    /\ "overlap" \notin disturbed =>
          \A a, b \in Admins : a = b \/ At(a, "idle") \/ At(b, "idle")
    /\ \A a \in Admins : CallInv(a)
=============================================================================
