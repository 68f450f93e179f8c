------------------------------ MODULE AiQuota ------------------------------
(***************************************************************************)
(* The quota of AI requests of one tenant: check_ai_quota                  *)
(* (apexkit-api/src/utils.rs), the handlers that embed a query after it    *)
(* (api/data/search/vector.rs), the counter of the tenant's vector         *)
(* provider and the analytics job of system/scheduler.rs, which moves the  *)
(* counter into the tenant's row every half hour.                          *)
(*                                                                         *)
(* A request reads the row, then the counter of the loaded context, then   *)
(* gets the provider of a context and counts itself there: four steps.     *)
(* The job swaps the counter for zero and writes the row afterwards.  A    *)
(* context that is evicted takes its counter with it.                      *)
(*                                                                         *)
(* window[1] and window[2] are the requests since the last swap and those  *)
(* between the last two: served, hidden (of them, counted in a context     *)
(* that was evicted) and loose (of them, admitted by a check that saw a    *)
(* row and a counter of different times).                                  *)
(***************************************************************************)
EXTENDS Naturals, FiniteSets

CONSTANTS
    Clients,
    MaxRequests,    \* max_ai_requests
    MaxContexts     \* bound on the times the tenant is loaded

Contexts == 1..MaxContexts

ASSUME ConstantsAssumption ==
    /\ IsFiniteSet(Clients) /\ Clients # {}
    /\ MaxRequests \in Nat /\ MaxContexts \in Nat \ {0}

VARIABLES
    row,        \* current_ai_requests
    loads,      \* number of contexts loaded so far
    context,    \* the cached context, 0 for none
    counter,    \* ai_request_counter of each context
    call,       \* the request of each client
    job,        \* the analytics job
    unsaved,    \* the last update of the row failed
    window

vars == <<row, loads, context, counter, call, job, unsaved, window>>

NoCall == [step |-> "idle", row |-> 0, provider |-> 0, loose |-> FALSE]
NewWindow == [served |-> 0, hidden |-> 0, loose |-> 0]

Init ==
    /\ row = 0
    /\ loads = 0
    /\ context = 0
    /\ counter = [x \in Contexts |-> 0]
    /\ call = [c \in Clients |-> NoCall]
    /\ job = [step |-> "idle", requests |-> 0]
    /\ unsaved = FALSE
    /\ window = [i \in 1..2 |-> NewWindow]

At(c, step) == call[c].step = step
Return(c) == call' = [call EXCEPT ![c] = NoCall]

\* get_tenant_context: the cached context, or a new one.
GetContext(x) ==
    IF context # 0
      THEN x = context /\ UNCHANGED <<loads, context>>
      ELSE /\ loads < MaxContexts
           /\ x = loads + 1 /\ loads' = x /\ context' = x

Torn == job.step = "update" \/ unsaved

ReadRow(c) ==
    /\ At(c, "idle")
    /\ call' = [call EXCEPT ![c] = [step |-> "live", row |-> row, provider |-> 0, loose |-> Torn]]
    /\ UNCHANGED <<row, loads, context, counter, job, unsaved, window>>

\* Mutant: the counter alone is compared.
MutAdmits(stored, live) == live < MaxRequests
Admits(stored, live) == stored + live < MaxRequests

ReadCounter(c) ==
    /\ At(c, "live")
    /\ \E x \in Contexts :
          /\ GetContext(x)
          /\ IF Admits(call[c].row, counter[x])
               THEN call' = [call EXCEPT ![c].step = "resolve"]
               ELSE Return(c)
    /\ UNCHANGED <<row, counter, job, unsaved, window>>

\* resolve_vector_provider_from_scope
Resolve(c) ==
    /\ At(c, "resolve")
    /\ \E x \in Contexts :
          /\ GetContext(x)
          /\ call' = [call EXCEPT ![c].step = "embed", ![c].provider = x]
    /\ UNCHANGED <<row, counter, job, unsaved, window>>

\* embed, embed_image and embed_text_for_image_search count first, even where
\* there is no model.
Embed(c) ==
    LET x == call[c].provider IN
    /\ At(c, "embed")
    /\ counter' = [counter EXCEPT ![x] = @ + 1]
    /\ window' = [window EXCEPT ![1] =
          [served |-> @.served + 1,
           hidden |-> IF x = context THEN @.hidden ELSE @.hidden + 1,
           loose |-> IF call[c].loose THEN @.loose + 1 ELSE @.loose]]
    /\ Return(c)
    /\ UNCHANGED <<row, loads, context, job, unsaved>>

\* Idle for an hour, one too many, or invalidated.
Evict ==
    /\ context # 0
    /\ window' = [window EXCEPT ![1].hidden = @ + counter[context]]
    /\ context' = 0
    /\ UNCHANGED <<row, loads, counter, call, job, unsaved>>

\* Mutant: the counter is read and not reset.
MutReset(n) == n
Reset(n) == 0

\* get_and_reset_metrics
Swap ==
    /\ job.step = "idle"
    /\ \E x \in Contexts :
          /\ GetContext(x)
          /\ job' = [step |-> "update", requests |-> counter[x]]
          /\ counter' = [counter EXCEPT ![x] = Reset(@)]
    /\ window' = [window EXCEPT ![1] = NewWindow, ![2] = window[1]]
    /\ call' = [c \in Clients |-> IF At(c, "idle") THEN call[c] ELSE [call[c] EXCEPT !.loose = TRUE]]
    /\ UNCHANGED <<row, unsaved>>

\* update_tenant_stats; an error is ignored.
UpdateRow(saved) ==
    /\ job.step = "update"
    /\ row' = IF saved THEN job.requests ELSE row
    /\ unsaved' = ~saved
    /\ job' = [step |-> "idle", requests |-> 0]
    /\ UNCHANGED <<loads, context, counter, call, window>>

Next ==
    \/ \E c \in Clients : ReadRow(c) \/ ReadCounter(c) \/ Resolve(c) \/ Embed(c)
    \/ Evict \/ Swap
    \/ \E saved \in BOOLEAN : UpdateRow(saved)

Spec == Init /\ [][Next]_vars

-----------------------------------------------------------------------------
TypeOK ==
    /\ row \in Nat /\ loads \in 0..MaxContexts /\ context \in 0..loads
    /\ counter \in [Contexts -> Nat]
    /\ call \in [Clients -> [step : {"idle", "live", "resolve", "embed"}, row : Nat,
                             provider : 0..loads, loose : BOOLEAN]]
    /\ job \in [step : {"idle", "update"}, requests : Nat]
    /\ unsaved \in BOOLEAN
    /\ window \in [1..2 -> [served : Nat, hidden : Nat, loose : Nat]]
    /\ \A i \in 1..2 : window[i].hidden <= window[i].served /\ window[i].loose <= window[i].served

\* The requests of a period that the tenant's row will tell.
Visible(i) == window[i].served - window[i].hidden

\* What the next check will find in the counter.
Live == IF context = 0 THEN 0 ELSE counter[context]

\* Accounted: between two runs of the job, the row and the counter together
\* tell every request of the last two periods but those an eviction has taken
\* away; none is counted twice and none is lost by a run that meets a request.
Accounted == job.step = "idle" /\ ~unsaved => row = Visible(2) /\ Live = Visible(1)

\* QuotaHolds: the quota is exceeded by the requests that were under way at the
\* same time, by those an eviction has hidden and by those whose check met the
\* job, and by no others: over two consecutive periods.
QuotaHolds ==
    window[1].served + window[2].served
        <= MaxRequests + (Cardinality(Clients) - 1)
           + window[1].hidden + window[2].hidden + window[1].loose + window[2].loose
=============================================================================
