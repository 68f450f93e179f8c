--------------------------- MODULE WorkspacesProofs ----------------------------
(***************************************************************************)
(* What holds of the components of MCWorkspaces for every value of their   *)
(* constants: the quota of AI requests, tenants, sandboxes, backups, the   *)
(* restore of the command line, settings, limits and the scheduler.        *)
(***************************************************************************)
EXTENDS MCWorkspaces, Sequences, FiniteSetTheorems, TLAPS

\* LedgerInv: the counter that the next check finds tells the requests of this
\* period, what the job holds or has written those of the last one; a check
\* that met no run of the job has read that row.
LedgerInv ==
    /\ \A x \in Contexts : x > loads => counter[x] = 0
    /\ Live = Visible(1)
    /\ job.step = "update" => job.requests = Visible(2)
    /\ ~Torn => row = Visible(2)
    /\ \A c \in Clients : ~At(c, "idle") /\ ~call[c].loose => call[c].row = Visible(2)
    /\ \A c \in Clients : At(c, "embed") => call[c].provider # 0

\* The requests that were let through by a check that met no run of the job.
Admitted == {c \in Clients : (At(c, "resolve") \/ At(c, "embed")) /\ ~call[c].loose}

\* The most that requests under way at the same time can make of the quota.
Most == MaxRequests + (Cardinality(Clients) - 1)

\* QuotaInv: the quota with those that are let through and not yet counted;
\* over two periods, and over this one alone, which will be the older of two.
QuotaInv ==
    /\ Visible(1) + Visible(2) + Cardinality(Admitted)
         <= Most + window[1].loose + window[2].loose
    /\ Visible(1) + Cardinality(Admitted) <= Most + window[1].loose

-----------------------------------------------------------------------------
(* What a step does to the cached context and to the calls.                *)

\* The calls that may be let through are finitely many.
LEMMA AdmittedType ==
    /\ IsFiniteSet(Admitted) /\ Cardinality(Admitted) \in Nat
    /\ Cardinality(Admitted) <= Cardinality(Clients)
    /\ Most \in Nat /\ Cardinality(Clients) \in Nat /\ Most >= Cardinality(Clients) - 1
    /\ Most = MaxRequests + (Cardinality(Clients) - 1)
  <1>1. IsFiniteSet(Clients) /\ Clients # {} /\ MaxRequests \in Nat
    BY ConstantsAssumption
  <1>2. Admitted \subseteq Clients
    BY DEF Admitted
  <1>3. Cardinality(Clients) \in Nat /\ Cardinality(Clients) # 0
    BY <1>1, FS_CardinalityType, FS_EmptySet
  <1>4. QED
    BY <1>1, <1>2, <1>3, FS_Subset, FS_CardinalityType DEF Most

\* get_tenant_context gives a loaded context; one that it loads is new, and
\* its counter is at zero.
LEMMA ContextStep ==
    ASSUME TypeOK, LedgerInv, NEW x \in Contexts, GetContext(x)
    PROVE  /\ loads' \in 0..MaxContexts /\ loads <= loads' /\ context' \in 0..loads'
           /\ x \in 1..loads' /\ context' = x
           /\ counter[x] = Visible(1)
           /\ \A y \in Contexts : y > loads' => counter[y] = 0
  <1>1. MaxContexts \in Nat /\ loads \in 0..MaxContexts /\ context \in 0..loads
    BY ConstantsAssumption DEF TypeOK
  <1>2. CASE context # 0
    BY <1>1, <1>2 DEF GetContext, LedgerInv, Live
  <1>3. CASE context = 0
    <2>1. x = loads + 1 /\ loads' = x /\ context' = x /\ loads < MaxContexts
      BY <1>3 DEF GetContext
    <2>2. counter[x] = 0 /\ Visible(1) = 0
      BY <1>1, <1>3, <2>1 DEF LedgerInv, Live
    <2>3. QED
      BY <1>1, <2>1, <2>2 DEF LedgerInv, Contexts
  <1>4. QED
    BY <1>2, <1>3

\* What the two periods hold, as numbers.
LEMMA WindowType ==
    ASSUME TypeOK
    PROVE  \A i \in 1..2 :
              /\ window[i] \in [served : Nat, hidden : Nat, loose : Nat]
              /\ window[i].served \in Nat /\ window[i].hidden \in Nat /\ window[i].loose \in Nat
              /\ Visible(i) \in Nat /\ Visible(i) = window[i].served - window[i].hidden
  BY DEF TypeOK, Visible

\* embed counts the request, and who else counts.
LEMMA EmbedStep ==
    ASSUME TypeOK, NEW c \in Clients, Embed(c)
    PROVE  /\ window' \in [1..2 -> [served : Nat, hidden : Nat, loose : Nat]]
           /\ window'[2] = window[2]
           /\ window'[1].served = window[1].served + 1
           /\ window'[1].hidden =
                 IF call[c].provider = context THEN window[1].hidden ELSE window[1].hidden + 1
           /\ window'[1].loose =
                 IF call[c].loose THEN window[1].loose + 1 ELSE window[1].loose
  <1>1. window \in [1..2 -> [served : Nat, hidden : Nat, loose : Nat]]
    BY DEF TypeOK
  <1> DEFINE hidden == IF call[c].provider = context THEN window[1].hidden
                                                     ELSE window[1].hidden + 1
             loose == IF call[c].loose THEN window[1].loose + 1 ELSE window[1].loose
             new == [served |-> window[1].served + 1, hidden |-> hidden, loose |-> loose]
  <1>2. window' = [window EXCEPT ![1] = new]
    BY DEF Embed
  <1>3. window[1] \in [served : Nat, hidden : Nat, loose : Nat]
    BY <1>1
  <1>4. hidden \in Nat /\ loose \in Nat
    BY <1>3
  <1> HIDE DEF hidden, loose
  <1>5. new \in [served : Nat, hidden : Nat, loose : Nat]
    BY <1>3, <1>4
  <1>6. window'[1] = new /\ window'[2] = window[2]
        /\ window' \in [1..2 -> [served : Nat, hidden : Nat, loose : Nat]]
    BY <1>1, <1>2, <1>5
  <1>7. QED
    BY <1>6 DEF hidden, loose

\* A call goes on, or returns.
LEMMA CallStep ==
    ASSUME TypeOK, NEW c \in Clients, loads' \in Nat, loads <= loads',
           NEW new \in [step : {"idle", "live", "resolve", "embed"}, row : Nat,
                        provider : 0..loads', loose : BOOLEAN],
           call' = [call EXCEPT ![c] = new]
    PROVE  /\ call' \in [Clients -> [step : {"idle", "live", "resolve", "embed"}, row : Nat,
                                     provider : 0..loads', loose : BOOLEAN]]
           /\ \A d \in Clients : call'[d] = IF d = c THEN new ELSE call[d]
  <1>1. loads \in Nat
    BY ConstantsAssumption DEF TypeOK
  <1>2. 0..loads \subseteq 0..loads'
    BY <1>1
  <1>3. [step : {"idle", "live", "resolve", "embed"}, row : Nat, provider : 0..loads, loose : BOOLEAN]
        \subseteq
        [step : {"idle", "live", "resolve", "embed"}, row : Nat, provider : 0..loads', loose : BOOLEAN]
    BY <1>2
  <1>4. call \in [Clients -> [step : {"idle", "live", "resolve", "embed"}, row : Nat,
                             provider : 0..loads', loose : BOOLEAN]]
    BY <1>3 DEF TypeOK
  <1>5. QED
    BY <1>4

-----------------------------------------------------------------------------
(* The ledger.                                                             *)

\* TypeOK and LedgerInv are preserved by every step.
LEMMA LedgerStep ==
    ASSUME TypeOK, LedgerInv, [Next]_vars
    PROVE  TypeOK' /\ LedgerInv'
  <1> DEFINE Goal == TypeOK' /\ LedgerInv'
  <1>0. MaxContexts \in Nat /\ Contexts = 1..MaxContexts
    BY ConstantsAssumption DEF Contexts
  <1>1. ASSUME NEW c \in Clients, ReadRow(c) PROVE Goal
    <2>1. call' = [call EXCEPT ![c] = [step |-> "live", row |-> row, provider |-> 0, loose |-> Torn]]
      BY <1>1 DEF ReadRow
    <2>2. UNCHANGED <<row, loads, context, counter, job, unsaved, window>>
      BY <1>1 DEF ReadRow
    <2>3. Torn \in BOOLEAN
      BY DEF Torn, TypeOK
    <2>4. TypeOK'
      BY <2>1, <2>2, <2>3 DEF TypeOK
    <2>5. LedgerInv'
      BY <2>1, <2>2, <2>3 DEF LedgerInv, TypeOK, At, Torn, Live, Visible
    <2>6. QED
      BY <2>4, <2>5
  <1>2. ASSUME NEW c \in Clients, ReadCounter(c) PROVE Goal
    <2>1. PICK x \in Contexts :
             /\ GetContext(x)
             /\ \/ call' = [call EXCEPT ![c].step = "resolve"]
                \/ call' = [call EXCEPT ![c] = NoCall]
      BY <1>2 DEF ReadCounter, Return
    <2>2. UNCHANGED <<row, counter, job, unsaved, window>> /\ At(c, "live")
      BY <1>2 DEF ReadCounter
    <2>3. TypeOK'
      <3>1. loads' \in 0..MaxContexts /\ loads <= loads' /\ context' \in 0..loads'
        BY <2>1, ContextStep
      <3>2. NoCall \in [step : {"idle", "live", "resolve", "embed"}, row : Nat,
                        provider : 0..loads', loose : BOOLEAN]
        BY <1>0, <3>1 DEF NoCall
      <3>3. call[c] \in [step : {"idle", "live", "resolve", "embed"}, row : Nat,
                         provider : 0..loads', loose : BOOLEAN]
        BY <1>0, <3>1 DEF TypeOK
      <3>4. \E new \in [step : {"idle", "live", "resolve", "embed"}, row : Nat,
                         provider : 0..loads', loose : BOOLEAN] : call' = [call EXCEPT ![c] = new]
        BY <2>1, <3>2, <3>3
      <3>5. call' \in [Clients -> [step : {"idle", "live", "resolve", "embed"}, row : Nat,
                                   provider : 0..loads', loose : BOOLEAN]]
        <4>1. loads' \in Nat
          BY <1>0, <3>1
        <4>2. QED
          BY <3>1, <3>4, <4>1, CallStep
      <3>6. QED
        BY <2>2, <3>1, <3>5 DEF TypeOK
    <2>4. Live' = Visible(1)' /\ \A y \in Contexts : y > loads' => counter'[y] = 0
      BY <2>1, <2>2, ContextStep DEF Live, Visible
    <2>5. \A d \in Clients : ~At(d, "idle")' /\ ~call'[d].loose => call'[d].row = Visible(2)'
      BY <2>1, <2>2 DEF TypeOK, NoCall, LedgerInv, At, Visible
    <2>6. \A d \in Clients : At(d, "embed")' => call'[d].provider # 0
      BY <2>1, <2>2 DEF TypeOK, NoCall, LedgerInv, At
    <2>7. QED
      BY <2>2, <2>3, <2>4, <2>5, <2>6 DEF LedgerInv, Torn, Visible
  <1>3. ASSUME NEW c \in Clients, Resolve(c) PROVE Goal
    <2>1. PICK x \in Contexts :
             GetContext(x) /\ call' = [call EXCEPT ![c].step = "embed", ![c].provider = x]
      BY <1>3 DEF Resolve
    <2>2. UNCHANGED <<row, counter, job, unsaved, window>> /\ At(c, "resolve")
      BY <1>3 DEF Resolve
    <2>3. TypeOK'
      <3>1. /\ loads' \in 0..MaxContexts /\ loads <= loads' /\ context' \in 0..loads'
            /\ x \in 0..loads'
        BY <1>0, <2>1, ContextStep
      <3>2. [call[c] EXCEPT !.step = "embed", !.provider = x]
              \in [step : {"idle", "live", "resolve", "embed"}, row : Nat,
                   provider : 0..loads', loose : BOOLEAN]
        BY <1>0, <3>1 DEF TypeOK
      <3>3. \E new \in [step : {"idle", "live", "resolve", "embed"}, row : Nat,
                         provider : 0..loads', loose : BOOLEAN] : call' = [call EXCEPT ![c] = new]
        BY <2>1, <3>2
      <3>4. call' \in [Clients -> [step : {"idle", "live", "resolve", "embed"}, row : Nat,
                                   provider : 0..loads', loose : BOOLEAN]]
        <4>1. loads' \in Nat
          BY <1>0, <3>1
        <4>2. QED
          BY <3>1, <3>3, <4>1, CallStep
      <3>5. QED
        BY <2>2, <3>1, <3>4 DEF TypeOK
    <2>4. Live' = Visible(1)' /\ \A y \in Contexts : y > loads' => counter'[y] = 0
      BY <2>1, <2>2, ContextStep DEF Live, Visible
    <2>5. \A d \in Clients : ~At(d, "idle")' /\ ~call'[d].loose => call'[d].row = Visible(2)'
      BY <2>1, <2>2 DEF TypeOK, LedgerInv, At, Visible
    <2>6. \A d \in Clients : At(d, "embed")' => call'[d].provider # 0
      <3> SUFFICES ASSUME NEW d \in Clients, At(d, "embed")' PROVE call'[d].provider # 0
        OBVIOUS
      <3>1. CASE d = c
        <4>1. call'[c].provider = x
          BY <2>1 DEF TypeOK
        <4>2. QED
          BY <1>0, <2>1, <3>1, <4>1, ContextStep
      <3>2. CASE d # c
        BY <2>1, <3>2 DEF TypeOK, LedgerInv, At
      <3>3. QED
        BY <3>1, <3>2
    <2>7. QED
      BY <2>2, <2>3, <2>4, <2>5, <2>6 DEF LedgerInv, Torn, Visible
  <1>4. ASSUME NEW c \in Clients, Embed(c) PROVE Goal
    <2> DEFINE x == call[c].provider
    <2>1. /\ UNCHANGED <<row, loads, context, job, unsaved>> /\ At(c, "embed")
          /\ counter' = [counter EXCEPT ![x] = @ + 1]
          /\ call' = [call EXCEPT ![c] = NoCall]
      BY <1>4 DEF Embed, Return
    <2>2. x \in 1..loads /\ x \in Contexts
      BY <1>0, <2>1 DEF LedgerInv, TypeOK
    <2> HIDE DEF x
    <2>3. TypeOK'
      <3>1. \A i \in 1..2 : /\ window'[i].hidden <= window'[i].served
                            /\ window'[i].loose <= window'[i].served
        BY <1>4, EmbedStep, WindowType DEF TypeOK
      <3>2. window' \in [1..2 -> [served : Nat, hidden : Nat, loose : Nat]]
        BY <1>4, EmbedStep
      <3>3. NoCall \in [step : {"idle", "live", "resolve", "embed"}, row : Nat,
                        provider : 0..loads, loose : BOOLEAN]
        BY <1>0 DEF NoCall, TypeOK
      <3>4. counter' \in [Contexts -> Nat]
        BY <2>1, <2>2 DEF TypeOK
      <3>5. QED
        BY <2>1, <3>1, <3>2, <3>3, <3>4 DEF TypeOK
    <2>4. Visible(2)' = Visible(2)
      BY <1>4, EmbedStep DEF Visible
    <2>5. Visible(1)' = IF x = context THEN Visible(1) + 1 ELSE Visible(1)
      BY <1>4, EmbedStep, WindowType DEF Visible, x
    <2>6. Live' = IF x = context THEN Live + 1 ELSE Live
      BY <2>1, <2>2 DEF Live, TypeOK
    <2>7. \A y \in Contexts : y > loads' => counter'[y] = 0
      <3> SUFFICES ASSUME NEW y \in Contexts, y > loads PROVE counter'[y] = 0
        BY <2>1
      <3>1. y # x
        BY <1>0, <2>2 DEF Contexts, TypeOK
      <3>2. counter'[y] = counter[y]
        BY <2>1, <3>1 DEF TypeOK
      <3>3. QED
        BY <3>2 DEF LedgerInv
    <2>8. \A d \in Clients : /\ ~At(d, "idle")' /\ ~call'[d].loose => call'[d].row = Visible(2)'
                             /\ At(d, "embed")' => call'[d].provider # 0
      BY <2>1, <2>4 DEF TypeOK, NoCall, LedgerInv, At
    <2>9. QED
      BY <2>1, <2>3, <2>4, <2>5, <2>6, <2>7, <2>8 DEF LedgerInv, Torn
  <1>5. CASE Evict
    <2>1. /\ UNCHANGED <<row, loads, counter, call, job, unsaved>> /\ context' = 0 /\ context # 0
          /\ window' = [window EXCEPT ![1].hidden = @ + counter[context]]
      BY <1>5 DEF Evict
    <2>2. context \in Contexts /\ counter[context] \in Nat /\ counter[context] = Visible(1)
      BY <1>0, <2>1 DEF TypeOK, LedgerInv, Live
    <2>3. /\ window' \in [1..2 -> [served : Nat, hidden : Nat, loose : Nat]]
          /\ window'[2] = window[2] /\ window'[1].served = window[1].served
          /\ window'[1].hidden = window[1].hidden + Visible(1)
          /\ window'[1].loose = window[1].loose
      BY <2>1, <2>2 DEF TypeOK
    <2>4. Visible(1)' = 0 /\ Visible(2)' = Visible(2) /\ window'[1].hidden = window'[1].served
      BY <2>3, WindowType DEF Visible
    <2>5. TypeOK'
      <3>1. \A i \in 1..2 : /\ window'[i].hidden <= window'[i].served
                            /\ window'[i].loose <= window'[i].served
        BY <2>3, <2>4, WindowType DEF TypeOK
      <3>2. QED
        BY <2>1, <2>3, <3>1 DEF TypeOK
    <2>6. QED
      BY <2>1, <2>4, <2>5 DEF LedgerInv, Live, Torn, At
  <1>6. CASE Swap
    <2>1. PICK x \in Contexts :
             /\ GetContext(x)
             /\ job' = [step |-> "update", requests |-> counter[x]]
             /\ counter' = [counter EXCEPT ![x] = 0]
      BY <1>6 DEF Swap, Reset
    <2>2. /\ UNCHANGED <<row, unsaved>>
          /\ window' = [window EXCEPT ![1] = NewWindow, ![2] = window[1]]
          /\ call' = [c \in Clients |->
                        IF At(c, "idle") THEN call[c] ELSE [call[c] EXCEPT !.loose = TRUE]]
      BY <1>6 DEF Swap
    <2>3. /\ window' \in [1..2 -> [served : Nat, hidden : Nat, loose : Nat]]
          /\ window'[1] = NewWindow /\ window'[2] = window[1]
      BY <2>2 DEF TypeOK, NewWindow
    <2>4. Visible(1)' = 0 /\ Visible(2)' = Visible(1)
      BY <2>3 DEF Visible, NewWindow
    <2>5. TypeOK'
      <3>1. \A i \in 1..2 : /\ window'[i].hidden <= window'[i].served
                            /\ window'[i].loose <= window'[i].served
        BY <2>3 DEF TypeOK, NewWindow
      <3>2. counter[x] \in Nat /\ counter' \in [Contexts -> Nat]
        BY <2>1 DEF TypeOK
      <3>3. call' \in [Clients -> [step : {"idle", "live", "resolve", "embed"}, row : Nat,
                                   provider : 0..loads', loose : BOOLEAN]]
        <4>1. loads \in Nat /\ loads' \in Nat /\ loads <= loads'
          BY <1>0, <2>1, ContextStep DEF TypeOK
        <4>2. 0..loads \subseteq 0..loads'
          BY <4>1
        <4>3. QED
          BY <2>2, <4>2 DEF TypeOK
      <3>4. QED
        BY <2>1, <2>2, <2>3, <3>1, <3>2, <3>3, ContextStep DEF TypeOK
    <2>6. counter[x] = Visible(1) /\ context' = x /\ x # 0
          /\ \A y \in Contexts : y > loads' => counter'[y] = 0
      BY <2>1, ContextStep DEF TypeOK
    <2>7. Live' = 0
      BY <2>1, <2>6 DEF Live, TypeOK
    <2>8. \A c \in Clients : ~At(c, "idle")' => call'[c].loose
      BY <2>2 DEF At, TypeOK
    <2>9. \A c \in Clients : At(c, "embed")' => call'[c].provider # 0
      BY <2>2 DEF At, TypeOK, LedgerInv
    <2>10. QED
      BY <2>1, <2>4, <2>5, <2>6, <2>7, <2>8, <2>9 DEF LedgerInv, Torn
  <1>7. ASSUME NEW saved \in BOOLEAN, UpdateRow(saved) PROVE Goal
    <2>1. /\ UNCHANGED <<loads, context, counter, call, window>> /\ job.step = "update"
          /\ row' = (IF saved THEN job.requests ELSE row) /\ unsaved' = ~saved
          /\ job' = [step |-> "idle", requests |-> 0]
      BY <1>7 DEF UpdateRow
    <2>2. TypeOK'
      BY <2>1 DEF TypeOK
    <2>3. QED
      BY <2>1, <2>2 DEF LedgerInv, Live, Torn, At, Visible
  <1>8. CASE UNCHANGED vars
    BY <1>8 DEF vars, TypeOK, LedgerInv, Live, Torn, At, Visible
  <1>9. QED
    BY <1>1, <1>2, <1>3, <1>4, <1>5, <1>6, <1>7, <1>8 DEF Next

\* TypeOK and LedgerInv hold in every reachable state.
LEMMA LedgerHolds == Spec => [](TypeOK /\ LedgerInv)
  <1>1. Init => TypeOK /\ LedgerInv
    <2> SUFFICES ASSUME Init PROVE TypeOK /\ LedgerInv
      OBVIOUS
    <2>1. MaxContexts \in Nat
      BY ConstantsAssumption
    <2>2. TypeOK
      <3>1. NoCall \in [step : {"idle", "live", "resolve", "embed"}, row : Nat,
                        provider : 0..loads, loose : BOOLEAN]
        BY DEF Init, NoCall
      <3>2. NewWindow \in [served : Nat, hidden : Nat, loose : Nat]
            /\ NewWindow.served = 0 /\ NewWindow.hidden = 0 /\ NewWindow.loose = 0
        BY DEF NewWindow
      <3>3. window = [i \in 1..2 |-> NewWindow] /\ call = [c \in Clients |-> NoCall]
        BY DEF Init
      <3>4. \A i \in 1..2 : window[i] = NewWindow
        BY <3>3
      <3>5. window \in [1..2 -> [served : Nat, hidden : Nat, loose : Nat]]
            /\ \A i \in 1..2 : window[i].hidden <= window[i].served
                              /\ window[i].loose <= window[i].served
        BY <3>2, <3>3, <3>4
      <3>6. call \in [Clients -> [step : {"idle", "live", "resolve", "embed"}, row : Nat,
                                 provider : 0..loads, loose : BOOLEAN]]
        BY <3>1, <3>3
      <3>7. /\ row = 0 /\ loads = 0 /\ context = 0 /\ counter = [x \in Contexts |-> 0]
            /\ job = [step |-> "idle", requests |-> 0] /\ unsaved = FALSE
        BY DEF Init
      <3>8. /\ row \in Nat /\ loads \in 0..MaxContexts /\ context \in 0..loads
            /\ counter \in [Contexts -> Nat] /\ unsaved \in BOOLEAN
            /\ job \in [step : {"idle", "update"}, requests : Nat]
        <4>1. row \in Nat /\ loads \in 0..MaxContexts /\ context \in 0..loads
          BY <2>1, <3>7
        <4>2. counter \in [Contexts -> Nat] /\ unsaved \in BOOLEAN
          BY <3>7
        <4>3. job \in [step : {"idle", "update"}, requests : Nat]
          BY <3>7
        <4>4. QED
          BY <4>1, <4>2, <4>3
      <3>9. QED
        BY <3>5, <3>6, <3>8 DEF TypeOK
    <2>3. LedgerInv
      BY <2>1 DEF Init, LedgerInv, NoCall, NewWindow, Live, Visible, Torn, At
    <2>4. QED
      BY <2>2, <2>3
  <1>2. TypeOK /\ LedgerInv /\ [Next]_vars => TypeOK' /\ LedgerInv'
    BY LedgerStep
  <1>3. QED
    BY <1>1, <1>2, PTL DEF Spec

\* The row of the tenant and the counter of its context together tell every
\* request of the last two periods, once, but for those that went down with an
\* evicted context: a run of the job that meets requests loses none.
THEOREM LedgerIsAccounted == Spec => []Accounted
  <1>1. TypeOK /\ LedgerInv => Accounted
    BY DEF LedgerInv, Accounted, Torn
  <1>2. QED
    BY <1>1, LedgerHolds, PTL

-----------------------------------------------------------------------------
(* The quota.                                                              *)

\* Who is let through and not yet counted, when one call changes.
LEMMA AdmittedStep ==
    ASSUME TypeOK, NEW c \in Clients,
           \A d \in Clients : d # c => call'[d] = call[d]
    PROVE  /\ Cardinality(Admitted') \in Nat /\ Cardinality(Admitted) \in Nat
           /\ Cardinality(Admitted') <= Cardinality(Clients)
           /\ c \notin Admitted' => Cardinality(Admitted') <= Cardinality(Admitted)
           /\ c \notin Admitted' /\ c \in Admitted
                => Cardinality(Admitted') = Cardinality(Admitted) - 1
           /\ c \in Admitted => Cardinality(Admitted') <= Cardinality(Admitted)
  <1>1. IsFiniteSet(Clients) /\ Admitted' \subseteq Clients /\ Admitted \subseteq Clients
    BY ConstantsAssumption DEF Admitted
  <1>2. /\ IsFiniteSet(Admitted) /\ IsFiniteSet(Admitted')
        /\ Cardinality(Admitted') \in Nat /\ Cardinality(Admitted) \in Nat
        /\ Cardinality(Admitted') <= Cardinality(Clients)
    BY <1>1, FS_Subset, FS_CardinalityType
  <1>3. \A d \in Clients : d # c => (d \in Admitted' <=> d \in Admitted)
    BY DEF Admitted, At
  <1>4. c \notin Admitted' => Admitted' = Admitted \ {c}
    BY <1>1, <1>3
  <1>5. c \in Admitted => Admitted' \subseteq Admitted
    BY <1>1, <1>3
  <1>6. Cardinality(Admitted \ {c}) = IF c \in Admitted THEN Cardinality(Admitted) - 1
                                                        ELSE Cardinality(Admitted)
    BY <1>2, FS_RemoveElement
  <1>7. c \in Admitted => Cardinality(Admitted') <= Cardinality(Admitted)
    BY <1>2, <1>5, FS_Subset
  <1>8. c \notin Admitted' => Cardinality(Admitted') = Cardinality(Admitted \ {c})
    BY <1>4
  <1>9. QED
    BY <1>2, <1>6, <1>7, <1>8

\* QuotaInv is preserved by every step.
LEMMA QuotaStep ==
    ASSUME TypeOK, LedgerInv, QuotaInv, [Next]_vars
    PROVE  QuotaInv'
  <1>0. /\ Visible(1) \in Nat /\ Visible(2) \in Nat
        /\ window[1].loose \in Nat /\ window[2].loose \in Nat
    BY WindowType
  <1>1. /\ Cardinality(Clients) \in Nat /\ Cardinality(Admitted) \in Nat /\ Most \in Nat
        /\ MaxRequests \in Nat /\ Most = MaxRequests + (Cardinality(Clients) - 1)
        /\ Cardinality(Admitted) <= Cardinality(Clients)
    BY AdmittedType, ConstantsAssumption
  <1>2. /\ Visible(1) + Visible(2) + Cardinality(Admitted)
             <= Most + window[1].loose + window[2].loose
        /\ Visible(1) + Cardinality(Admitted) <= Most + window[1].loose
    BY DEF QuotaInv
  <1> HIDE DEF Most
  <1>3. ASSUME window' = window, Cardinality(Admitted') <= Cardinality(Admitted),
               Cardinality(Admitted') \in Nat
        PROVE  QuotaInv'
    <2>1. Visible(1)' = Visible(1) /\ Visible(2)' = Visible(2) /\ Most' = Most
          /\ window'[1].loose = window[1].loose /\ window'[2].loose = window[2].loose
      BY <1>3 DEF Visible, Most
    <2>2. QED
      BY <1>0, <1>1, <1>2, <1>3, <2>1 DEF QuotaInv
  <1>4. ASSUME NEW c \in Clients, ReadRow(c) PROVE QuotaInv'
    <2>1. window' = window /\ c \notin Admitted' /\ \A d \in Clients : d # c => call'[d] = call[d]
      BY <1>4 DEF ReadRow, Admitted, At, TypeOK
    <2>2. QED
      BY <1>3, <2>1, AdmittedStep
  <1>5. ASSUME NEW c \in Clients, ReadCounter(c) PROVE QuotaInv'
    <2>1. PICK x \in Contexts :
             /\ GetContext(x)
             /\ IF Admits(call[c].row, counter[x])
                  THEN call' = [call EXCEPT ![c].step = "resolve"]
                  ELSE call' = [call EXCEPT ![c] = NoCall]
      BY <1>5 DEF ReadCounter, Return
    <2>2. window' = window /\ At(c, "live") /\ \A d \in Clients : d # c => call'[d] = call[d]
      BY <1>5, <2>1 DEF ReadCounter, TypeOK
    <2>3. CASE c \notin Admitted'
      BY <1>3, <2>2, <2>3, AdmittedStep
    <2>4. CASE c \in Admitted'
      <3>1. Admits(call[c].row, counter[x]) /\ ~call[c].loose
        BY <2>1, <2>4 DEF Admitted, At, TypeOK, NoCall
      <3>2. call[c].row = Visible(2) /\ counter[x] = Visible(1)
        BY <2>1, <2>2, <3>1, ContextStep DEF LedgerInv, At
      <3>3. Visible(1) + Visible(2) < MaxRequests
        BY <1>0, <3>1, <3>2 DEF Admits
      <3>4. Cardinality(Admitted') \in Nat /\ Cardinality(Admitted') <= Cardinality(Clients)
        BY <2>2, AdmittedStep
      <3>5. Visible(1)' = Visible(1) /\ Visible(2)' = Visible(2) /\ Most' = Most
            /\ window'[1].loose = window[1].loose /\ window'[2].loose = window[2].loose
        BY <2>2 DEF Visible, Most
      <3>6. QED
        BY <1>0, <1>1, <3>3, <3>4, <3>5 DEF QuotaInv
    <2>5. QED
      BY <2>3, <2>4
  <1>6. ASSUME NEW c \in Clients, Resolve(c) PROVE QuotaInv'
    <2>1. /\ window' = window /\ At(c, "resolve") /\ call[c].loose = call'[c].loose
          /\ \A d \in Clients : d # c => call'[d] = call[d]
      BY <1>6 DEF Resolve, TypeOK
    <2>2. c \in Admitted \/ c \notin Admitted'
      BY <2>1 DEF Admitted, At
    <2>3. QED
      BY <1>3, <2>1, <2>2, AdmittedStep
  <1>7. ASSUME NEW c \in Clients, Embed(c) PROVE QuotaInv'
    <2>1. At(c, "embed") /\ c \notin Admitted' /\ \A d \in Clients : d # c => call'[d] = call[d]
      BY <1>7 DEF Embed, Return, Admitted, At, NoCall, TypeOK
    <2>2. /\ Cardinality(Admitted') \in Nat
          /\ Cardinality(Admitted') <= Cardinality(Admitted)
          /\ ~call[c].loose => Cardinality(Admitted') = Cardinality(Admitted) - 1
      BY <2>1, AdmittedStep DEF Admitted
    <2>3. Visible(1)' <= Visible(1) + 1 /\ Visible(1)' \in Int /\ Visible(2)' = Visible(2)
      BY <1>7, EmbedStep, WindowType DEF Visible
    <2>4. /\ window'[2].loose = window[2].loose
          /\ window'[1].loose = IF call[c].loose THEN window[1].loose + 1 ELSE window[1].loose
      BY <1>7, EmbedStep
    <2>5. Most' = Most
      BY DEF Most
    <2>6. QED
      BY <1>0, <1>1, <1>2, <2>2, <2>3, <2>4, <2>5 DEF QuotaInv
  <1>8. CASE Evict
    <2>1. /\ call' = call /\ context # 0
          /\ window' = [window EXCEPT ![1].hidden = @ + counter[context]]
      BY <1>8 DEF Evict
    <2>2. counter[context] \in Nat
      BY ConstantsAssumption, <2>1 DEF TypeOK, Contexts
    <2>3. Visible(1)' <= Visible(1) /\ Visible(1)' \in Int /\ Visible(2)' = Visible(2)
          /\ window'[1].loose = window[1].loose /\ window'[2].loose = window[2].loose
      BY <2>1, <2>2, WindowType DEF Visible, TypeOK
    <2>4. Admitted' = Admitted /\ Most' = Most
      BY <2>1 DEF Admitted, At, Most
    <2>5. QED
      BY <1>0, <1>1, <1>2, <2>3, <2>4 DEF QuotaInv
  <1>9. CASE Swap
    <2>1. /\ window'[1] = NewWindow /\ window'[2] = window[1]
          /\ call' = [c \in Clients |->
                        IF At(c, "idle") THEN call[c] ELSE [call[c] EXCEPT !.loose = TRUE]]
      BY <1>9 DEF Swap, TypeOK
    <2>2. Visible(1)' = 0 /\ Visible(2)' = Visible(1)
          /\ window'[1].loose = 0 /\ window'[2].loose = window[1].loose
      BY <2>1 DEF Visible, NewWindow
    <2>3. Admitted' = {}
      BY <2>1 DEF Admitted, At, TypeOK
    <2>4. Cardinality(Admitted') = 0 /\ Most' = Most
      BY <2>3, FS_EmptySet DEF Most
    <2>5. QED
      BY <1>0, <1>1, <1>2, <2>2, <2>4 DEF QuotaInv
  <1>10. CASE UNCHANGED <<call, window>>
    <2>1. Admitted' = Admitted /\ window' = window
      BY <1>10 DEF Admitted, At
    <2>2. QED
      BY <1>1, <1>3, <2>1
  <1>11. QED
    BY <1>4, <1>5, <1>6, <1>7, <1>8, <1>9, <1>10 DEF Next, UpdateRow, vars

\* The quota is exceeded by at most the requests that were under way at the
\* same time as the last one let through, those that went down with an evicted
\* context and those whose check met a run of the job, over any two
\* consecutive periods: for every quota and every number of clients.
THEOREM QuotaIsHeld == Spec => []QuotaHolds
  <1>1. Init => QuotaInv
    <2> SUFFICES ASSUME Init PROVE QuotaInv
      OBVIOUS
    <2>1. Admitted = {} /\ window[1] = NewWindow /\ window[2] = NewWindow
      BY DEF Init, Admitted, At, NoCall
    <2>2. /\ Visible(1) = 0 /\ Visible(2) = 0 /\ window[1].loose = 0 /\ window[2].loose = 0
          /\ Cardinality(Admitted) = 0
      BY <2>1, FS_EmptySet DEF Visible, NewWindow
    <2>3. QED
      BY <2>2, AdmittedType DEF QuotaInv
  <1>2. TypeOK /\ LedgerInv /\ QuotaInv /\ [Next]_vars => QuotaInv'
    BY QuotaStep
  <1>3. TypeOK /\ QuotaInv => QuotaHolds
    <2> SUFFICES ASSUME TypeOK, QuotaInv PROVE QuotaHolds
      OBVIOUS
    <2>1. /\ \A i \in 1..2 : /\ window[i].served \in Nat /\ window[i].hidden \in Nat
                             /\ window[i].loose \in Nat
                             /\ Visible(i) = window[i].served - window[i].hidden
          /\ Cardinality(Admitted) \in Nat /\ Most \in Nat
          /\ Cardinality(Clients) \in Nat /\ MaxRequests \in Nat
          /\ Most = MaxRequests + (Cardinality(Clients) - 1)
      BY WindowType, AdmittedType, ConstantsAssumption
    <2> HIDE DEF Most
    <2>2. Visible(1) + Visible(2) + Cardinality(Admitted)
            <= Most + window[1].loose + window[2].loose
      BY DEF QuotaInv
    <2>3. QED
      BY <2>1, <2>2 DEF QuotaHolds
  <1>4. QED
    BY <1>1, <1>2, <1>3, LedgerHolds, PTL DEF Spec

-----------------------------------------------------------------------------
(* The tenants.  The calls of TenantManager are `visit' here, and its       *)
(* clients the Visitors.                                                    *)

\* What the records of a call hold.
LEMMA TenantCall ==
    ASSUME T!ConstantsAssumption
    PROVE  /\ T!NoCall \in T!Calls /\ T!NoContext \in T!Contexts
           /\ T!NoCall.step = "idle" /\ T!NoCall.tenant = None /\ T!NoCall.op = None
           /\ T!NoCall.status = "none" /\ T!NoCall.root = FALSE /\ T!NoCall.late = FALSE
           /\ T!NoCall.ctx = T!NoContext /\ T!NoCall.db = T!NoContext
           /\ T!NoContext.late = FALSE
           /\ None \notin Tenants /\ None \notin T!Ops /\ None \notin T!Statuses
  BY DEF T!ConstantsAssumption, T!NoCall, T!NoContext, T!Calls, T!Contexts, T!Steps, T!Loads

\* A call goes on that neither invalidates nor starts to remove.
LEMMA TenantCallMoves ==
    ASSUME T!TypeOK, NEW c \in Visitors, NEW k \in T!Calls, visit' = [visit EXCEPT ![c] = k],
           visit[c].step # "invalidate", k.step # "remove"
    PROVE  /\ visit' \in [Visitors -> T!Calls] /\ visit'[c] = k
           /\ \A d \in Visitors \ {c} : visit'[d] = visit[d]
           /\ \A t \in Tenants : T!Updating(t) => T!Updating(t)'
           /\ \A t \in Tenants : T!Deleting(t)' => T!Deleting(t)
  <1>1. /\ visit' \in [Visitors -> T!Calls] /\ visit'[c] = k
        /\ \A d \in Visitors \ {c} : visit'[d] = visit[d]
    BY DEF T!TypeOK
  <1>2. ASSUME NEW t \in Tenants, T!Updating(t) PROVE T!Updating(t)'
    <2>1. PICK d \in Visitors : visit[d].tenant = t /\ visit[d].step = "invalidate"
      BY <1>2 DEF T!Updating, T!At
    <2>2. visit'[d].tenant = t /\ visit'[d].step = "invalidate"
      BY <1>1, <2>1
    <2>3. QED
      BY <2>2 DEF T!Updating, T!At
  <1>3. ASSUME NEW t \in Tenants, T!Deleting(t)' PROVE T!Deleting(t)
    <2>1. PICK d \in Visitors : visit'[d].tenant = t /\ visit'[d].step = "remove"
      BY <1>3 DEF T!Deleting, T!At
    <2>2. visit[d].tenant = t /\ visit[d].step = "remove"
      BY <1>1, <2>1
    <2>3. QED
      BY <2>2 DEF T!Deleting, T!At
  <1>4. QED
    BY <1>1, <1>2, <1>3

\* What a call knows stays true while its directory stays and its row does, or
\* comes into being, or an update of it is under way.
LEMMA TenantCallKnows ==
    ASSUME T!ConstantsAssumption, NEW d \in Visitors, visit'[d] = visit[d],
           T!StepKnown(d), T!LoadKnown(d), T!VisitKnown(d),
           \A t \in Tenants : t = visit[d].tenant =>
              /\ dir[t] # 0 => dir'[t] = dir[t]
              /\ files[t] => files'[t]
              /\ T!Updating(t) => T!Updating(t)'
              /\ \/ registry'[t] = registry[t]
                 \/ registry[t] = "not_found" /\ registry'[t] = "active"
                 \/ T!Updating(t)'
    PROVE  T!StepKnown(d)' /\ T!LoadKnown(d)' /\ T!VisitKnown(d)'
  <1> DEFINE t == visit[d].tenant
  <1>1. T!StepKnown(d)'
    BY DEF T!StepKnown, T!At
  <1>2. CASE visit[d].step = "idle"
    <2>1. visit'[d].step = "idle" /\ visit'[d].op # "auth"
      BY <1>2, TenantCall DEF T!StepKnown, T!At, T!Ops
    <2>2. T!LoadKnown(d)' /\ T!VisitKnown(d)'
      BY <2>1 DEF T!LoadKnown, T!VisitKnown, T!At
    <2>3. QED
      BY <1>1, <2>2
  <1>3. CASE visit[d].step # "idle"
    <2>1. t \in Tenants
      BY <1>3 DEF T!StepKnown, T!At
    <2>2. /\ dir[t] # 0 => dir'[t] = dir[t]
          /\ files[t] => files'[t]
          /\ T!Updating(t) => T!Updating(t)'
          /\ \/ registry'[t] = registry[t]
             \/ registry[t] = "not_found" /\ registry'[t] = "active"
             \/ T!Updating(t)'
      BY <2>1
    <2>3. T!Updating(t)' \/ T!Effective(t)' = T!Effective(t)
      BY <2>2 DEF T!Effective
    <2>4. T!LoadKnown(d)'
      BY <2>2, <2>3 DEF T!LoadKnown, T!At
    <2>5. T!VisitKnown(d)'
      BY <2>2, <2>3 DEF T!VisitKnown, T!At
    <2>6. QED
      BY <1>1, <2>4, <2>5
  <1>4. QED
    BY <1>2, <1>3

\* A call goes on and touches nothing but itself.
LEMMA TenantQuiet ==
    ASSUME T!ConstantsAssumption, T!TenantInv, NEW c \in Visitors, NEW k \in T!Calls,
           visit' = [visit EXCEPT ![c] = k], visit[c].step # "invalidate", k.step # "remove",
           UNCHANGED <<registry, made, dir, files, cache>>,
           T!StepKnown(c)', T!LoadKnown(c)', T!VisitKnown(c)'
    PROVE  T!TenantInv'
  <1>1. T!TypeOK /\ T!CallInv /\ T!CacheInv /\ T!FilesInv
    BY DEF T!TenantInv
  <1>2. /\ visit' \in [Visitors -> T!Calls]
        /\ \A d \in Visitors \ {c} : visit'[d] = visit[d]
        /\ \A t \in Tenants : T!Updating(t) => T!Updating(t)'
        /\ \A t \in Tenants : T!Deleting(t)' => T!Deleting(t)
    BY <1>1, TenantCallMoves
  <1>3. T!TypeOK'
    BY <1>1, <1>2 DEF T!TypeOK
  <1>4. T!CallInv'
    <2>1. ASSUME NEW d \in Visitors \ {c}
          PROVE  T!StepKnown(d)' /\ T!LoadKnown(d)' /\ T!VisitKnown(d)'
      BY <1>1, <1>2, TenantCallKnows DEF T!CallInv
    <2>2. QED
      BY <2>1 DEF T!CallInv
  <1>5. T!CacheInv'
    BY <1>1, <1>2 DEF T!CacheInv, T!Effective
  <1>6. T!FilesInv'
    BY <1>1 DEF T!FilesInv
  <1>7. QED
    BY <1>3, <1>4, <1>5, <1>6 DEF T!TenantInv

\* A call that has ended knows nothing.
LEMMA TenantIdle ==
    ASSUME T!ConstantsAssumption, NEW c \in Visitors, visit'[c] = T!NoCall
    PROVE  T!StepKnown(c)' /\ T!LoadKnown(c)' /\ T!VisitKnown(c)'
  <1>1. visit'[c].step = "idle" /\ visit'[c].op = None /\ None # "auth"
    BY TenantCall DEF T!Ops
  <1>2. QED
    BY <1>1 DEF T!StepKnown, T!LoadKnown, T!VisitKnown, T!At, T!Loads

\* A call ends and touches nothing else.
LEMMA TenantReturns ==
    ASSUME T!ConstantsAssumption, T!TenantInv, NEW c \in Visitors, T!Return(c),
           visit[c].step # "invalidate", UNCHANGED <<registry, made, dir, files, cache>>
    PROVE  T!TenantInv'
  <1>1. visit' = [visit EXCEPT ![c] = T!NoCall] /\ T!NoCall \in T!Calls /\ T!NoCall.step # "remove"
    BY TenantCall DEF T!Return
  <1>2. visit'[c] = T!NoCall
    BY <1>1 DEF T!TenantInv, T!TypeOK
  <1>3. QED
    BY <1>1, <1>2, TenantIdle, TenantQuiet

\* A load reads the row and looks for the files.
LEMMA TenantReads ==
    ASSUME T!ConstantsAssumption, T!TenantInv, NEW c \in Visitors,
           T!ReadStatus(c) \/ T!LookForFiles(c)
    PROVE  T!TenantInv'
  <1> DEFINE t == visit[c].tenant
  <1>1. /\ visit[c] \in T!Calls /\ T!StepKnown(c) /\ T!LoadKnown(c) /\ T!VisitKnown(c)
        /\ visit \in [Visitors -> T!Calls]
    BY DEF T!TenantInv, T!TypeOK, T!CallInv
  <1>2. UNCHANGED <<registry, made, dir, files, cache>> /\ visit[c].step \in {"status", "exists"}
    BY DEF T!ReadStatus, T!LookForFiles, T!At
  <1>3. t \in Tenants /\ visit[c].op \in {"create", "resolve", "auth"}
    BY <1>1, <1>2 DEF T!StepKnown, T!At, T!Loads
  <1>4. \A u \in Tenants : registry[u] \in T!Statuses \cup {"not_found"}
    BY DEF T!TenantInv, T!TypeOK
  <1>5. CASE T!ReadStatus(c)
    <2> DEFINE k == [visit[c] EXCEPT !.step = "exists", !.status = registry[t]]
    <2>1. visit' = [visit EXCEPT ![c] = k]
      BY <1>1, <1>5 DEF T!ReadStatus
    <2>2. /\ k \in T!Calls /\ k.step = "exists" /\ k.status = registry[t] /\ k.tenant = t
          /\ k.op = visit[c].op /\ k.db = visit[c].db /\ k.late = visit[c].late
      BY <1>1, <1>3, <1>4 DEF T!Calls, T!Steps, T!Loads
    <2> HIDE DEF k
    <2>3. visit'[c] = k
      BY <1>1, <2>1
    <2>4. T!StepKnown(c)'
      BY <1>3, <2>2, <2>3 DEF T!StepKnown, T!At, T!Loads
    <2>5. T!LoadKnown(c)'
      BY <1>2, <2>2, <2>3 DEF T!LoadKnown, T!At
    <2>6. T!VisitKnown(c)'
      BY <1>1, <1>2, <2>2, <2>3 DEF T!VisitKnown, T!At
    <2>7. QED
      BY <1>2, <2>1, <2>2, <2>4, <2>5, <2>6, TenantQuiet
  <1>6. CASE T!LookForFiles(c) /\ T!Return(c)
    BY <1>2, <1>6, TenantReturns
  <1>7. CASE T!LookForFiles(c) /\ ~T!Return(c)
    <2> DEFINE k == [visit[c] EXCEPT !.step = "open"]
    <2>1. /\ visit' = [visit EXCEPT ![c] = k] /\ visit[c].step = "exists"
          /\ visit[c].status = "not_found" => files[t]
      BY <1>1, <1>7 DEF T!LookForFiles, T!Goto, T!At, T!MayLoad
    <2>2. /\ k \in T!Calls /\ k.step = "open" /\ k.status = visit[c].status /\ k.tenant = t
          /\ k.op = visit[c].op /\ k.db = visit[c].db /\ k.late = visit[c].late
      BY <1>1 DEF T!Calls, T!Steps, T!Loads
    <2> HIDE DEF k
    <2>3. visit'[c] = k /\ (T!Updating(t) => T!Updating(t)')
      BY <1>1, <1>3, <2>1, <2>2, TenantCallMoves DEF T!TenantInv
    <2>4. T!StepKnown(c)'
      BY <1>3, <2>2, <2>3 DEF T!StepKnown, T!At, T!Loads
    <2>5. T!LoadKnown(c)'
      BY <1>1, <1>2, <2>1, <2>2, <2>3 DEF T!LoadKnown, T!At
    <2>6. T!VisitKnown(c)'
      BY <1>1, <1>2, <2>1, <2>2, <2>3 DEF T!VisitKnown, T!At
    <2>7. QED
      BY <1>2, <2>1, <2>2, <2>4, <2>5, <2>6, TenantQuiet
  <1>8. QED
    BY <1>5, <1>6, <1>7

\* A request asks for the context, for its database or for the status.
LEMMA TenantGets ==
    ASSUME T!ConstantsAssumption, T!TenantInv, NEW c \in Visitors, NEW t \in Tenants,
           NEW op \in {"resolve", "auth"}, NEW root \in BOOLEAN, T!GetContext(c, t, op, root),
           UNCHANGED <<registry, made, dir, files, cache>>,
           \/ op = "resolve" /\ visit[c].step = "idle"
           \/ op = "auth" /\ visit[c].step = "auth" /\ t = visit[c].tenant
    PROVE  T!TenantInv'
  <1> DEFINE next == [visit[c] EXCEPT !.tenant = t, !.op = op, !.root = root]
             k == IF cache[t] = None THEN [next EXCEPT !.step = "status"]
                  ELSE IF op = "resolve" THEN [next EXCEPT !.step = "auth", !.db = cache[t]]
                  ELSE [next EXCEPT !.step = "check", !.ctx = cache[t]]
  <1>1. /\ visit[c] \in T!Calls /\ T!StepKnown(c) /\ T!LoadKnown(c) /\ T!VisitKnown(c)
        /\ visit \in [Visitors -> T!Calls] /\ cache[t] \in T!Contexts \cup {None}
    BY DEF T!TenantInv, T!TypeOK, T!CallInv
  <1>2. visit' = [visit EXCEPT ![c] = k] /\ visit[c].step # "invalidate"
    BY DEF T!GetContext
  <1>3. /\ next \in T!Calls /\ next.tenant = t /\ next.op = op /\ next.late = visit[c].late
        /\ next.db = visit[c].db
    BY <1>1 DEF T!Calls, T!Ops
  <1> HIDE DEF next
  <1>4. /\ k \in T!Calls /\ k.tenant = t /\ k.op = op /\ k.late = visit[c].late
        /\ k.step = IF cache[t] = None THEN "status" ELSE IF op = "resolve" THEN "auth" ELSE "check"
        /\ op = "resolve" /\ cache[t] # None => k.db = cache[t]
        /\ op = "auth" => k.db = visit[c].db
        /\ op = "auth" /\ cache[t] # None => k.ctx = cache[t]
    <2>1. CASE cache[t] = None
      BY <1>3, <2>1 DEF T!Calls, T!Steps, T!Loads
    <2>2. CASE cache[t] # None /\ op = "resolve"
      BY <1>1, <1>3, <2>2 DEF T!Calls, T!Steps, T!Loads
    <2>3. CASE cache[t] # None /\ op = "auth"
      BY <1>1, <1>3, <2>3 DEF T!Calls, T!Steps, T!Loads
    <2>4. QED
      BY <2>1, <2>2, <2>3
  <1> HIDE DEF k
  <1>5. k.step # "remove" /\ k.step \in {"status", "auth", "check"}
    BY <1>4
  <1>6. visit'[c] = k /\ (T!Updating(t) => T!Updating(t)')
    BY <1>1, <1>2, <1>4, <1>5, TenantCallMoves DEF T!TenantInv
  <1>7. T!StepKnown(c)'
    BY <1>4, <1>5, <1>6 DEF T!StepKnown, T!At, T!Loads
  <1>8. T!LoadKnown(c)'
    BY <1>5, <1>6 DEF T!LoadKnown, T!At
  <1>9. cache[t] # None /\ ~cache[t].late =>
            /\ cache[t].dir # 0 /\ cache[t].dir = dir[t]
            /\ ~T!Updating(t) => cache[t].status = T!Effective(t)
    BY DEF T!TenantInv, T!CacheInv
  <1>10. T!VisitKnown(c)'
    <2>1. CASE op = "resolve"
      BY <1>4, <1>6, <1>9, <2>1 DEF T!VisitKnown, T!At
    <2>2. CASE op = "auth"
      <3>1. ~visit[c].late /\ ~visit[c].db.late =>
                visit[c].db.dir # 0 /\ visit[c].db.dir = dir[t]
        BY <1>1, <2>2 DEF T!VisitKnown, T!At
      <3>2. T!Effective(t)' = T!Effective(t)
        BY DEF T!Effective
      <3>3. QED
        BY <1>4, <1>6, <1>9, <2>2, <3>1, <3>2 DEF T!VisitKnown, T!At
    <2>3. QED
      BY <2>1, <2>2
  <1>11. QED
    BY <1>2, <1>4, <1>5, <1>7, <1>8, <1>10, TenantQuiet

\* A request is checked, and let through.
LEMMA TenantChecks ==
    ASSUME T!ConstantsAssumption, T!TenantInv, NEW c \in Visitors, T!Check(c)
    PROVE  T!TenantInv'
  <1> DEFINE t == visit[c].tenant
             k == [visit[c] EXCEPT !.step = "serve"]
  <1>1. /\ visit[c] \in T!Calls /\ T!StepKnown(c) /\ T!VisitKnown(c)
        /\ visit \in [Visitors -> T!Calls]
    BY DEF T!TenantInv, T!TypeOK, T!CallInv
  <1>2. UNCHANGED <<registry, made, dir, files, cache>> /\ visit[c].step = "check"
    BY DEF T!Check, T!At
  <1>3. t \in Tenants /\ visit[c].op = "auth"
    BY <1>1, <1>2 DEF T!StepKnown, T!At
  <1>4. CASE T!Return(c)
    BY <1>2, <1>4, TenantReturns
  <1>5. CASE ~T!Return(c)
    <2>1. /\ visit' = [visit EXCEPT ![c] = k]
          /\ ~visit[c].root => ~T!Shut(visit[c].ctx.status)
      BY <1>1, <1>5 DEF T!Check, T!Goto
    <2>2. /\ k \in T!Calls /\ k.step = "serve" /\ k.tenant = t /\ k.op = "auth"
          /\ k.root = visit[c].root /\ k.ctx = visit[c].ctx /\ k.db = visit[c].db
          /\ k.late = visit[c].late
      BY <1>1, <1>3 DEF T!Calls, T!Steps
    <2> HIDE DEF k
    <2>3. visit'[c] = k /\ (T!Updating(t) => T!Updating(t)')
      BY <1>1, <1>2, <1>3, <2>1, <2>2, TenantCallMoves DEF T!TenantInv
    <2>4. T!StepKnown(c)' /\ T!LoadKnown(c)'
      BY <1>3, <2>2, <2>3 DEF T!StepKnown, T!LoadKnown, T!At, T!Loads
    <2>5. T!VisitKnown(c)'
      <3>1. \A u \in Tenants : T!Effective(u)' = T!Effective(u)
        BY <1>2 DEF T!Effective
      <3>2. QED
        BY <1>1, <1>2, <1>3, <2>1, <2>2, <2>3, <3>1 DEF T!VisitKnown, T!At, T!Shut
    <2>6. QED
      BY <1>2, <2>1, <2>2, <2>4, <2>5, TenantQuiet
  <1>6. QED
    BY <1>4, <1>5

\* The admin's handlers begin: with a row that changes, and an invalidation
\* under way then, or with a row that comes into being.
LEMMA TenantBegins ==
    ASSUME T!ConstantsAssumption, T!TenantInv, NEW c \in Visitors, NEW t \in Tenants,
           NEW op, NEW at, T!Begin(c, t, op, at),
           \/ at = "mkdir" /\ op = "create"
           \/ at = "invalidate" /\ op \in {"update", "delete"},
           registry' \in [Tenants -> T!Statuses \cup {"not_found"}],
           \A u \in Tenants :
              \/ registry'[u] = registry[u]
              \/ registry[u] = "not_found" /\ registry'[u] = "active"
              \/ u = t /\ at = "invalidate",
           UNCHANGED <<made, dir, files, cache>>
    PROVE  T!TenantInv'
  <1> DEFINE k == [T!NoCall EXCEPT !.step = at, !.tenant = t, !.op = op]
  <1>1. T!TypeOK /\ T!CallInv /\ T!CacheInv /\ T!FilesInv
    BY DEF T!TenantInv
  <1>2. visit' = [visit EXCEPT ![c] = k] /\ visit[c].step = "idle"
    BY DEF T!Begin, T!At
  <1>3. k \in T!Calls /\ k.step = at /\ k.tenant = t /\ k.op = op
    BY TenantCall DEF T!Calls, T!Steps, T!Ops
  <1> HIDE DEF k
  <1>4. /\ visit' \in [Visitors -> T!Calls] /\ visit'[c] = k
        /\ \A d \in Visitors \ {c} : visit'[d] = visit[d]
        /\ \A u \in Tenants : T!Updating(u) => T!Updating(u)'
        /\ \A u \in Tenants : T!Deleting(u)' => T!Deleting(u)
    BY <1>1, <1>2, <1>3, TenantCallMoves
  <1>5. at = "invalidate" => T!Updating(t)'
    BY <1>3, <1>4 DEF T!Updating, T!At
  <1>6. T!TypeOK'
    BY <1>1, <1>4 DEF T!TypeOK
  <1>7. T!CallInv'
    <2>1. T!StepKnown(c)' /\ T!LoadKnown(c)' /\ T!VisitKnown(c)'
      BY <1>3, <1>4 DEF T!StepKnown, T!LoadKnown, T!VisitKnown, T!At, T!Loads
    <2>2. ASSUME NEW d \in Visitors \ {c}
          PROVE  T!StepKnown(d)' /\ T!LoadKnown(d)' /\ T!VisitKnown(d)'
      BY <1>1, <1>4, <1>5, TenantCallKnows DEF T!CallInv
    <2>3. QED
      BY <2>1, <2>2 DEF T!CallInv
  <1>8. T!CacheInv'
    BY <1>1, <1>4, <1>5 DEF T!CacheInv, T!Effective
  <1>9. T!FilesInv'
    BY <1>1 DEF T!FilesInv
  <1>10. QED
    BY <1>6, <1>7, <1>8, <1>9 DEF T!TenantInv

LEMMA TenantAdmin ==
    ASSUME T!ConstantsAssumption, T!TenantInv, NEW c \in Visitors, NEW t \in Tenants,
           T!Admin(c, t)
    PROVE  T!TenantInv'
  <1>1. registry \in [Tenants -> T!Statuses \cup {"not_found"}]
    BY DEF T!TenantInv, T!TypeOK
  <1>2. CASE T!Create(c, t)
    <2>1. /\ registry' \in [Tenants -> T!Statuses \cup {"not_found"}]
          /\ \A u \in Tenants : \/ registry'[u] = registry[u]
                                \/ registry[u] = "not_found" /\ registry'[u] = "active"
      BY <1>1, <1>2 DEF T!Create, T!Registered, T!Statuses
    <2>2. QED
      BY <1>2, <2>1, TenantBegins DEF T!Create
  <1>3. CASE T!ScriptCreate(c, t)
    BY <1>1, <1>3, TenantBegins DEF T!ScriptCreate
  <1>4. CASE T!Delete(c, t)
    <2>1. /\ registry' \in [Tenants -> T!Statuses \cup {"not_found"}]
          /\ \A u \in Tenants : registry'[u] = registry[u] \/ u = t
      BY <1>1, <1>4 DEF T!Delete, T!Unregistered
    <2>2. QED
      BY <1>4, <2>1, TenantBegins DEF T!Delete
  <1>5. ASSUME NEW s \in T!Statuses, T!SetStatus(c, t, s)
        PROVE  T!TenantInv'
    <2>1. /\ registry' \in [Tenants -> T!Statuses \cup {"not_found"}]
          /\ \A u \in Tenants : registry'[u] = registry[u] \/ u = t
      BY <1>1, <1>5 DEF T!SetStatus, T!WithStatus
    <2>2. QED
      BY <1>5, <2>1, TenantBegins DEF T!SetStatus
  <1>6. QED
    BY <1>2, <1>3, <1>4, <1>5 DEF T!Admin

\* A directory is made, and what was known stays known: nothing was known of a
\* directory that was not there.
LEMMA TenantMakesDir ==
    ASSUME T!ConstantsAssumption, T!TenantInv, NEW c \in Visitors, T!MakeDir(c)
    PROVE  T!TenantInv'
  <1> DEFINE t == visit[c].tenant
             k == [visit[c] EXCEPT !.step = "status"]
  <1>1. T!TypeOK /\ T!CallInv /\ T!CacheInv /\ T!FilesInv
    BY DEF T!TenantInv
  <1>2. /\ visit[c] \in T!Calls /\ T!StepKnown(c) /\ T!VisitKnown(c)
        /\ visit[c].step = "mkdir"
    BY <1>1 DEF T!TypeOK, T!CallInv, T!MakeDir, T!At
  <1>3. PICK u \in Tenants : u = visit[c].tenant
    BY <1>2 DEF T!StepKnown, T!At
  <1>4. CASE dir[u] # 0
    <2>1. T!Return(c) /\ UNCHANGED <<registry, made, dir, files, cache>>
      BY <1>3, <1>4 DEF T!MakeDir
    <2>2. QED
      BY <1>2, <2>1, TenantReturns
  <1>5. CASE dir[u] = 0
    <2>1. /\ visit' = [visit EXCEPT ![c] = k]
          /\ made[u] < MaxDirs
          /\ made' = [made EXCEPT ![u] = @ + 1] /\ dir' = [dir EXCEPT ![u] = made'[u]]
          /\ UNCHANGED <<registry, files, cache>>
      BY <1>3, <1>5 DEF T!MakeDir, T!Goto
    <2>2. /\ k \in T!Calls /\ k.step = "status" /\ k.tenant = u /\ k.op = "create"
      BY <1>2, <1>3 DEF T!Calls, T!Steps, T!Loads, T!StepKnown, T!At
    <2> HIDE DEF k
    <2>3. /\ visit' \in [Visitors -> T!Calls] /\ visit'[c] = k
          /\ \A d \in Visitors \ {c} : visit'[d] = visit[d]
          /\ \A v \in Tenants : T!Updating(v) => T!Updating(v)'
          /\ \A v \in Tenants : T!Deleting(v)' => T!Deleting(v)
      BY <1>1, <1>2, <2>1, <2>2, TenantCallMoves
    <2>4. /\ made' \in [Tenants -> 0..MaxDirs] /\ dir' \in [Tenants -> 0..MaxDirs]
      BY <1>1, <2>1 DEF T!TypeOK, T!ConstantsAssumption
    <2>5. \A v \in Tenants : dir[v] # 0 => dir'[v] = dir[v]
      BY <1>1, <1>5, <2>1 DEF T!TypeOK
    <2>6. T!TypeOK'
      BY <1>1, <2>1, <2>3, <2>4 DEF T!TypeOK
    <2>7. T!CallInv'
      <3>1. T!StepKnown(c)' /\ T!LoadKnown(c)' /\ T!VisitKnown(c)'
        BY <2>2, <2>3 DEF T!StepKnown, T!LoadKnown, T!VisitKnown, T!At, T!Loads
      <3>2. ASSUME NEW d \in Visitors \ {c}
            PROVE  T!StepKnown(d)' /\ T!LoadKnown(d)' /\ T!VisitKnown(d)'
        BY <1>1, <2>1, <2>3, <2>5, TenantCallKnows DEF T!CallInv
      <3>3. QED
        BY <3>1, <3>2 DEF T!CallInv
    <2>8. T!CacheInv'
      BY <1>1, <2>1, <2>3, <2>5 DEF T!CacheInv, T!Effective
    <2>9. T!FilesInv'
      BY <1>1, <2>1, <2>5 DEF T!FilesInv
    <2>10. QED
      BY <2>6, <2>7, <2>8, <2>9 DEF T!TenantInv
  <1>6. QED
    BY <1>4, <1>5

\* init_filesystem: what is missing is created, and the context holds it.
LEMMA TenantOpens ==
    ASSUME T!ConstantsAssumption, T!TenantInv, NEW c \in Visitors, T!Open(c)
    PROVE  T!TenantInv'
  <1>1. T!TypeOK /\ T!CallInv /\ T!CacheInv /\ T!FilesInv
    BY DEF T!TenantInv
  <1>2. /\ visit[c] \in T!Calls /\ T!StepKnown(c) /\ T!LoadKnown(c) /\ T!VisitKnown(c)
        /\ visit[c].step = "open"
    BY <1>1 DEF T!TypeOK, T!CallInv, T!Open, T!At
  <1>3. PICK u \in Tenants : u = visit[c].tenant
    BY <1>2 DEF T!StepKnown, T!At, T!Loads
  <1>4. PICK n : n = IF dir[u] # 0 THEN dir[u] ELSE made[u] + 1
    OBVIOUS
  <1>5. PICK st : st = IF visit[c].status = "not_found" THEN "active" ELSE visit[c].status
    OBVIOUS
  <1> DEFINE ctx == [status |-> st, dir |-> n, late |-> FALSE]
             k == [visit[c] EXCEPT !.step = "insert", !.ctx = ctx]
  <1>6. /\ n <= MaxDirs /\ dir' = [dir EXCEPT ![u] = n] /\ files' = [files EXCEPT ![u] = TRUE]
        /\ made' = [made EXCEPT ![u] = IF dir[u] # 0 THEN @ ELSE n]
        /\ visit' = [visit EXCEPT ![c].step = "insert", ![c].ctx = ctx]
        /\ UNCHANGED <<registry, cache>>
    BY <1>3, <1>4, <1>5 DEF T!Open
  <1>7. n \in 1..MaxDirs /\ n # 0 /\ (dir[u] # 0 => n = dir[u])
    BY <1>1, <1>4, <1>6 DEF T!TypeOK, T!ConstantsAssumption
  <1>8. ctx \in T!Contexts /\ ctx.dir = n /\ ctx.status = st /\ ctx.late = FALSE
    BY <1>2, <1>5, <1>7 DEF T!Contexts, T!Calls, T!Statuses
  <1> HIDE DEF ctx
  <1>9. visit' = [visit EXCEPT ![c] = k]
    BY <1>1, <1>6 DEF T!TypeOK
  <1>10. /\ k \in T!Calls /\ k.step = "insert" /\ k.tenant = u /\ k.op = visit[c].op
         /\ k.ctx = ctx /\ k.db = visit[c].db /\ k.late = visit[c].late
    BY <1>2, <1>3, <1>8 DEF T!Calls, T!Steps, T!Loads
  <1> HIDE DEF k
  <1>11. /\ visit' \in [Visitors -> T!Calls] /\ visit'[c] = k
         /\ \A d \in Visitors \ {c} : visit'[d] = visit[d]
         /\ \A v \in Tenants : T!Updating(v) => T!Updating(v)'
         /\ \A v \in Tenants : T!Deleting(v)' => T!Deleting(v)
    BY <1>1, <1>2, <1>9, <1>10, TenantCallMoves
  <1>12. /\ made' \in [Tenants -> 0..MaxDirs] /\ dir' \in [Tenants -> 0..MaxDirs]
         /\ files' \in [Tenants -> BOOLEAN]
    BY <1>1, <1>6, <1>7 DEF T!TypeOK
  <1>13. \A v \in Tenants : (dir[v] # 0 => dir'[v] = dir[v]) /\ (files[v] => files'[v])
    BY <1>1, <1>6, <1>7 DEF T!TypeOK
  <1>14. dir'[u] = n /\ T!Effective(u)' = T!Effective(u)
    BY <1>1, <1>6 DEF T!TypeOK, T!Effective
  <1>15. T!TypeOK'
    BY <1>1, <1>6, <1>11, <1>12 DEF T!TypeOK
  <1>16. T!CallInv'
    <2>1. T!StepKnown(c)'
      BY <1>2, <1>3, <1>10, <1>11 DEF T!StepKnown, T!At, T!Loads
    <2>2. ~visit[c].late /\ ~T!Updating(u) => st = T!Effective(u)
      BY <1>2, <1>3, <1>5 DEF T!LoadKnown, T!At, T!Effective
    <2>3. T!LoadKnown(c)'
      BY <1>7, <1>8, <1>10, <1>11, <1>14, <2>2 DEF T!LoadKnown, T!At
    <2>4. T!VisitKnown(c)'
      BY <1>2, <1>3, <1>10, <1>11, <1>13 DEF T!VisitKnown, T!At
    <2>5. ASSUME NEW d \in Visitors \ {c}
          PROVE  T!StepKnown(d)' /\ T!LoadKnown(d)' /\ T!VisitKnown(d)'
      BY <1>1, <1>6, <1>11, <1>13, TenantCallKnows DEF T!CallInv
    <2>6. QED
      BY <2>1, <2>3, <2>4, <2>5 DEF T!CallInv
  <1>17. T!CacheInv'
    BY <1>1, <1>6, <1>11, <1>13 DEF T!CacheInv, T!Effective
  <1>18. T!FilesInv'
    BY <1>1, <1>6, <1>7 DEF T!FilesInv, T!TypeOK
  <1>19. QED
    BY <1>15, <1>16, <1>17, <1>18 DEF T!TenantInv

\* The context of a load gets into the cache, and its request goes on with it.
LEMMA TenantInserts ==
    ASSUME T!ConstantsAssumption, T!TenantInv, NEW c \in Visitors, T!Insert(c)
    PROVE  T!TenantInv'
  <1>1. T!TypeOK /\ T!CallInv /\ T!CacheInv /\ T!FilesInv
    BY DEF T!TenantInv
  <1>2. /\ visit[c] \in T!Calls /\ T!StepKnown(c) /\ T!LoadKnown(c) /\ T!VisitKnown(c)
        /\ visit[c].step = "insert"
    BY <1>1 DEF T!TypeOK, T!CallInv, T!Insert, T!At
  <1>3. PICK u \in Tenants : u = visit[c].tenant
    BY <1>2 DEF T!StepKnown, T!At, T!Loads
  <1>4. PICK ctx : ctx = [visit[c].ctx EXCEPT !.late = visit[c].late \/ T!Deleting(u)]
    OBVIOUS
  <1>5. /\ cache' = [cache EXCEPT ![u] = ctx]
        /\ UNCHANGED <<registry, made, dir, files>>
        /\ IF visit[c].op = "create" THEN T!Return(c) ELSE T!WithContext(c, ctx)
    BY <1>3, <1>4 DEF T!Insert
  <1>6. /\ ctx \in T!Contexts /\ ctx.dir = visit[c].ctx.dir /\ ctx.status = visit[c].ctx.status
        /\ ctx.late = (visit[c].late \/ T!Deleting(u))
    <2>1. visit[c].ctx \in T!Contexts /\ visit[c].late \in BOOLEAN
      BY <1>2 DEF T!Calls
    <2>2. (visit[c].late \/ T!Deleting(u)) \in BOOLEAN
      BY DEF T!Deleting
    <2>3. QED
      BY <1>4, <2>1, <2>2 DEF T!Contexts
  <1>7. ~ctx.late =>
            /\ ctx.dir # 0 /\ ctx.dir = dir[u]
            /\ ~T!Updating(u) => ctx.status = T!Effective(u)
    BY <1>2, <1>3, <1>6 DEF T!LoadKnown, T!At
  <1>8. PICK k \in T!Calls :
            /\ visit' = [visit EXCEPT ![c] = k] /\ k.step # "remove"
            /\ \/ k = T!NoCall
               \/ /\ k.step = "auth" /\ k.op = "resolve" /\ k.tenant = u
                  /\ k.late = visit[c].late /\ k.db = ctx
               \/ /\ k.step = "check" /\ k.op = "auth" /\ visit[c].op = "auth" /\ k.tenant = u
                  /\ k.late = visit[c].late /\ k.ctx = ctx /\ k.db = visit[c].db
    <2>1. CASE visit[c].op = "create"
      BY <1>5, <2>1, TenantCall DEF T!Return
    <2>2. CASE visit[c].op = "resolve"
      <3> DEFINE k == [visit[c] EXCEPT !.step = "auth", !.status = "none",
                                       !.db = ctx, !.ctx = T!NoContext]
      <3>1. visit' = [visit EXCEPT ![c] = k]
        BY <1>1, <1>5, <2>2 DEF T!WithContext, T!TypeOK
      <3>2. /\ k \in T!Calls /\ k.step = "auth" /\ k.op = "resolve" /\ k.tenant = u
            /\ k.late = visit[c].late /\ k.db = ctx
        BY <1>2, <1>3, <1>6, <2>2, TenantCall DEF T!Calls, T!Steps
      <3>3. QED
        BY <3>1, <3>2
    <2>3. CASE visit[c].op = "auth"
      <3> DEFINE k == [visit[c] EXCEPT !.step = "check", !.status = "none", !.ctx = ctx]
      <3>1. visit' = [visit EXCEPT ![c] = k]
        BY <1>1, <1>5, <2>3 DEF T!WithContext, T!TypeOK
      <3>2. /\ k \in T!Calls /\ k.step = "check" /\ k.op = "auth" /\ k.tenant = u
            /\ k.late = visit[c].late /\ k.ctx = ctx /\ k.db = visit[c].db
        BY <1>2, <1>3, <1>6, <2>3 DEF T!Calls, T!Steps
      <3>3. QED
        BY <2>3, <3>1, <3>2
    <2>4. QED
      BY <1>2, <2>1, <2>2, <2>3 DEF T!StepKnown, T!At, T!Loads
  <1>9. /\ visit' \in [Visitors -> T!Calls] /\ visit'[c] = k
        /\ \A d \in Visitors \ {c} : visit'[d] = visit[d]
        /\ \A v \in Tenants : T!Updating(v) => T!Updating(v)'
        /\ \A v \in Tenants : T!Deleting(v)' => T!Deleting(v)
    BY <1>1, <1>2, <1>8, TenantCallMoves
  <1>10. \A v \in Tenants : T!Effective(v)' = T!Effective(v)
    BY <1>5 DEF T!Effective
  <1>11. T!TypeOK'
    BY <1>1, <1>5, <1>6, <1>9 DEF T!TypeOK
  <1>12. T!CallInv'
    <2>1. T!StepKnown(c)' /\ T!LoadKnown(c)' /\ T!VisitKnown(c)'
      <3>1. CASE k = T!NoCall
        BY <1>9, <3>1, TenantIdle
      <3>2. CASE k # T!NoCall
        <4>1. /\ visit'[c].step \in {"auth", "check"} /\ visit'[c].tenant = u
              /\ visit'[c].late = visit[c].late
          BY <1>8, <1>9, <3>2
        <4>2. T!StepKnown(c)' /\ T!LoadKnown(c)'
          BY <1>8, <1>9, <3>2, <4>1 DEF T!StepKnown, T!LoadKnown, T!At, T!Loads
        <4>3. CASE k.step = "auth"
          <5>1. k.op = "resolve" /\ k.tenant = u /\ k.late = visit[c].late /\ k.db = ctx
            BY <1>8, <3>2, <4>3
          <5>2. ~k.late /\ ~k.db.late => k.db.dir # 0 /\ k.db.dir = dir'[u]
            BY <1>5, <1>7, <5>1
          <5>3. T!VisitKnown(c)'
            BY <1>9, <4>3, <5>1, <5>2 DEF T!VisitKnown, T!At
          <5>4. QED
            BY <4>2, <5>3
        <4>4. CASE k.step = "check"
          <5>1. /\ k.op = "auth" /\ k.tenant = u /\ k.late = visit[c].late
                /\ k.ctx = ctx /\ k.db = visit[c].db
                /\ visit[c].op = "auth"
            BY <1>8, <3>2, <4>4
          <5>2. ~k.late /\ ~k.db.late => k.db.dir # 0 /\ k.db.dir = dir'[u]
            BY <1>2, <1>3, <1>5, <5>1 DEF T!VisitKnown
          <5>3. ~k.late /\ ~k.ctx.late /\ ~T!Updating(u)' => k.ctx.status = T!Effective(u)'
            BY <1>7, <1>9, <1>10, <5>1
          <5>4. T!VisitKnown(c)'
            BY <1>9, <4>4, <5>1, <5>2, <5>3 DEF T!VisitKnown, T!At
          <5>5. QED
            BY <4>2, <5>4
        <4>5. QED
          BY <1>9, <4>1, <4>3, <4>4
      <3>3. QED
        BY <3>1, <3>2
    <2>2. ASSUME NEW d \in Visitors \ {c}
          PROVE  T!StepKnown(d)' /\ T!LoadKnown(d)' /\ T!VisitKnown(d)'
      BY <1>1, <1>5, <1>9, TenantCallKnows DEF T!CallInv
    <2>3. QED
      BY <2>1, <2>2 DEF T!CallInv
  <1>13. T!CacheInv'
    <2>1. ASSUME NEW v \in Tenants \ {u}
          PROVE  cache'[v] = cache[v]
      BY <1>1, <1>5 DEF T!TypeOK
    <2>2. cache'[u] = ctx
      BY <1>1, <1>5 DEF T!TypeOK
    <2>3. QED
      BY <1>1, <1>5, <1>6, <1>7, <1>9, <1>10, <2>1, <2>2 DEF T!CacheInv
  <1>14. T!FilesInv'
    BY <1>1, <1>5 DEF T!FilesInv
  <1>15. QED
    BY <1>11, <1>12, <1>13, <1>14 DEF T!TenantInv

\* The calls of a tenant are marked: they claim nothing of it any more, and the
\* calls of the others go on.
LEMMA TenantMarks ==
    ASSUME T!ConstantsAssumption, T!TenantInv, NEW c \in Visitors, NEW u \in Tenants,
           u = visit[c].tenant, visit[c].step \in {"invalidate", "remove"},
           NEW k \in T!Calls, \/ k = T!NoCall
                              \/ k = [visit[c] EXCEPT !.step = "remove"],
           visit' = T!Mark([visit EXCEPT ![c] = k], u),
           registry' = registry, \A t \in Tenants \ {u} : dir'[t] = dir[t] /\ files'[t] = files[t]
    PROVE  /\ visit' \in [Visitors -> T!Calls]
           /\ T!CallInv'
           /\ \A t \in Tenants \ {u} : /\ T!Updating(t) => T!Updating(t)'
                                       /\ T!Deleting(t)' => T!Deleting(t)
           /\ visit[c].step = "remove" => (T!Updating(u) => T!Updating(u)')
  <1>1. T!TypeOK /\ T!CallInv /\ visit \in [Visitors -> T!Calls]
    BY DEF T!TenantInv, T!TypeOK
  <1> DEFINE moved == [visit EXCEPT ![c] = k]
  <1>2. /\ moved \in [Visitors -> T!Calls] /\ moved[c] = k
        /\ \A d \in Visitors \ {c} : moved[d] = visit[d]
    BY <1>1
  <1> HIDE DEF moved
  <1>3. visit' = [d \in Visitors |->
                    IF moved[d].tenant = u THEN [moved[d] EXCEPT !.late = TRUE] ELSE moved[d]]
    BY DEF T!Mark, moved
  <1>4. ASSUME NEW d \in Visitors
        PROVE  /\ visit'[d] \in T!Calls /\ visit'[d].tenant = moved[d].tenant
               /\ visit'[d].step = moved[d].step /\ visit'[d].op = moved[d].op
               /\ visit'[d].root = moved[d].root /\ visit'[d].ctx = moved[d].ctx
               /\ moved[d].tenant = u => visit'[d].late = TRUE
               /\ moved[d].tenant # u => visit'[d] = moved[d]
    <2>1. PICK m \in T!Calls : m = moved[d]
      BY <1>2
    <2>2. visit'[d] = IF m.tenant = u THEN [m EXCEPT !.late = TRUE] ELSE m
      BY <1>3, <2>1
    <2>3. CASE m.tenant = u
      <3>1. PICK n : n = [m EXCEPT !.late = TRUE]
        OBVIOUS
      <3>2. /\ n \in T!Calls /\ n.tenant = m.tenant /\ n.step = m.step /\ n.op = m.op
            /\ n.root = m.root /\ n.ctx = m.ctx /\ n.late = TRUE
        BY <3>1 DEF T!Calls
      <3>3. visit'[d] = n
        BY <2>2, <2>3, <3>1
      <3>4. QED
        BY <2>1, <2>3, <3>2, <3>3
    <2>4. CASE m.tenant # u
      BY <2>1, <2>2, <2>4
    <2>5. QED
      BY <2>3, <2>4
  <1>4a. ASSUME NEW d \in Visitors, d # c
         PROVE  /\ visit'[d].tenant = visit[d].tenant /\ visit'[d].step = visit[d].step
                /\ visit'[d].op = visit[d].op /\ visit'[d].root = visit[d].root
                /\ visit'[d].ctx = visit[d].ctx
                /\ visit[d].tenant = u => visit'[d].late = TRUE
    <2>1. moved[d] = visit[d]
      BY <1>2, <1>4a
    <2>2. /\ visit'[d].tenant = moved[d].tenant /\ visit'[d].step = moved[d].step
          /\ visit'[d].op = moved[d].op /\ visit'[d].root = moved[d].root
          /\ visit'[d].ctx = moved[d].ctx /\ (moved[d].tenant = u => visit'[d].late = TRUE)
      BY <1>4
    <2>3. QED
      BY <2>1, <2>2
  <1>5. visit' \in [Visitors -> T!Calls]
    BY <1>3, <1>4
  <1>6. ASSUME NEW t \in Tenants \ {u}, T!Updating(t)
        PROVE  T!Updating(t)'
    <2>1. PICK d \in Visitors : visit[d].tenant = t /\ visit[d].step = "invalidate"
      BY <1>6 DEF T!Updating, T!At
    <2>2. d # c
      BY <2>1
    <2>3. visit'[d].tenant = t /\ visit'[d].step = "invalidate"
      BY <1>4a, <2>1, <2>2
    <2>4. QED
      BY <2>3 DEF T!Updating, T!At
  <1>7. ASSUME NEW t \in Tenants \ {u}, T!Deleting(t)'
        PROVE  T!Deleting(t)
    <2>1. PICK d \in Visitors : visit'[d].tenant = t /\ visit'[d].step = "remove"
      BY <1>7 DEF T!Deleting, T!At
    <2>2. CASE d = c
      <3>1. k.tenant = t /\ t # None
        BY <1>2, <1>4, <2>1, <2>2, TenantCall
      <3>2. k.tenant = visit[c].tenant
        BY <1>1, <3>1, TenantCall DEF T!Calls
      <3>3. QED
        BY <3>1, <3>2
    <2>3. CASE d # c
      <3>1. visit[d].tenant = t /\ visit[d].step = "remove"
        BY <1>4a, <2>1, <2>3
      <3>2. QED
        BY <3>1 DEF T!Deleting, T!At
    <2>4. QED
      BY <2>2, <2>3
  <1>8. ASSUME visit[c].step = "remove", T!Updating(u)
        PROVE  T!Updating(u)'
    <2>1. PICK d \in Visitors : visit[d].tenant = u /\ visit[d].step = "invalidate"
      BY <1>8 DEF T!Updating, T!At
    <2>2. d # c
      BY <1>8, <2>1
    <2>3. visit'[d].tenant = u /\ visit'[d].step = "invalidate"
      BY <1>4a, <2>1, <2>2
    <2>4. QED
      BY <2>3 DEF T!Updating, T!At
  <1>9. ASSUME NEW d \in Visitors
        PROVE  T!StepKnown(d)' /\ T!LoadKnown(d)' /\ T!VisitKnown(d)'
    <2>1. CASE visit'[d] = T!NoCall
      BY <2>1, TenantIdle
    <2>2. CASE d = c /\ visit'[d] # T!NoCall
      <3>1. k.tenant = u /\ k.step = "remove"
        <4>1. k # T!NoCall
          <5>1. k = T!NoCall => moved[c].tenant # u
            BY <1>2, TenantCall
          <5>2. QED
            BY <1>2, <1>4, <2>2, <5>1
        <4>2. QED
          BY <1>1, <4>1 DEF T!Calls
      <3>2. /\ visit'[d].tenant = u /\ visit'[d].step = "remove" /\ visit'[d].late = TRUE
        BY <1>2, <1>4, <2>2, <3>1
      <3>3. QED
        BY <3>2 DEF T!StepKnown, T!LoadKnown, T!VisitKnown, T!At, T!Loads
    <2>3. CASE d # c /\ visit[d].tenant = u
      <3>1. T!StepKnown(d) /\ T!VisitKnown(d)
        BY <1>1 DEF T!CallInv
      <3>2. /\ visit'[d].tenant = u /\ visit'[d].step = visit[d].step
            /\ visit'[d].op = visit[d].op /\ visit'[d].root = visit[d].root
            /\ visit'[d].ctx = visit[d].ctx /\ visit'[d].late = TRUE
        BY <1>4a, <2>3
      <3>3. QED
        BY <3>1, <3>2 DEF T!StepKnown, T!LoadKnown, T!VisitKnown, T!At, T!Loads
    <2>4. CASE d # c /\ visit[d].tenant # u
      <3>1. T!StepKnown(d) /\ T!LoadKnown(d) /\ T!VisitKnown(d)
        BY <1>1 DEF T!CallInv
      <3>2. visit'[d] = visit[d]
        BY <1>2, <1>4, <2>4
      <3>3. \A t \in Tenants : t = visit[d].tenant =>
              /\ dir'[t] = dir[t] /\ files'[t] = files[t]
              /\ T!Updating(t) => T!Updating(t)'
              /\ registry'[t] = registry[t]
        BY <1>6, <2>4
      <3>4. QED
        BY <3>1, <3>2, <3>3, TenantCallKnows
    <2>5. QED
      BY <2>1, <2>2, <2>3, <2>4
  <1>10. T!CallInv'
    BY <1>9 DEF T!CallInv
  <1>11. QED
    BY <1>5, <1>6, <1>7, <1>8, <1>10

\* The cache forgets the tenant; its directory is removed.
LEMMA TenantInvalidates ==
    ASSUME T!ConstantsAssumption, T!TenantInv, NEW c \in Visitors, T!Invalidate(c)
    PROVE  T!TenantInv'
  <1>1. T!TypeOK /\ T!CallInv /\ T!CacheInv /\ T!FilesInv
    BY DEF T!TenantInv
  <1>2. /\ visit[c] \in T!Calls /\ T!StepKnown(c) /\ visit[c].step = "invalidate"
        /\ visit \in [Visitors -> T!Calls]
    BY <1>1 DEF T!TypeOK, T!CallInv, T!Invalidate, T!At
  <1>3. PICK u \in Tenants : u = visit[c].tenant
    BY <1>2 DEF T!StepKnown, T!At
  <1>4. PICK k : k = IF visit[c].op = "delete" THEN [visit[c] EXCEPT !.step = "remove"]
                                               ELSE T!NoCall
    OBVIOUS
  <1>5. k \in T!Calls
    BY <1>2, <1>4, TenantCall DEF T!Calls, T!Steps
  <1>6. /\ visit' = T!Mark([visit EXCEPT ![c] = k], u)
        /\ cache' = [cache EXCEPT ![u] = None]
        /\ UNCHANGED <<registry, made, dir, files>>
    BY <1>2, <1>3, <1>4 DEF T!Invalidate, T!Invalidated
  <1>7. /\ visit' \in [Visitors -> T!Calls] /\ T!CallInv'
        /\ \A t \in Tenants \ {u} : /\ T!Updating(t) => T!Updating(t)'
                                    /\ T!Deleting(t)' => T!Deleting(t)
    BY <1>2, <1>3, <1>4, <1>5, <1>6, TenantMarks
  <1>8. T!TypeOK'
    BY <1>1, <1>6, <1>7 DEF T!TypeOK
  <1>9. T!CacheInv'
    <2>1. cache'[u] = None /\ \A t \in Tenants \ {u} : cache'[t] = cache[t]
      BY <1>1, <1>6 DEF T!TypeOK
    <2>2. QED
      BY <1>1, <1>6, <1>7, <2>1 DEF T!CacheInv, T!Effective
  <1>10. T!FilesInv'
    BY <1>1, <1>6 DEF T!FilesInv
  <1>11. QED
    BY <1>7, <1>8, <1>9, <1>10 DEF T!TenantInv

LEMMA TenantRemoves ==
    ASSUME T!ConstantsAssumption, T!TenantInv, NEW c \in Visitors, T!RemoveDir(c)
    PROVE  T!TenantInv'
  <1>1. T!TypeOK /\ T!CallInv /\ T!CacheInv /\ T!FilesInv
    BY DEF T!TenantInv
  <1>2. /\ visit[c] \in T!Calls /\ T!StepKnown(c) /\ visit[c].step = "remove"
    BY <1>1 DEF T!TypeOK, T!CallInv, T!RemoveDir, T!At
  <1>3. PICK u \in Tenants : u = visit[c].tenant
    BY <1>2 DEF T!StepKnown, T!At
  <1>4. /\ visit' = T!Mark([visit EXCEPT ![c] = T!NoCall], u)
        /\ dir' = [dir EXCEPT ![u] = 0] /\ files' = [files EXCEPT ![u] = FALSE]
        /\ UNCHANGED <<registry, made, cache>>
    BY <1>3 DEF T!RemoveDir
  <1>5. /\ dir' \in [Tenants -> 0..MaxDirs] /\ files' \in [Tenants -> BOOLEAN]
        /\ \A t \in Tenants \ {u} : dir'[t] = dir[t] /\ files'[t] = files[t]
        /\ files'[u] = FALSE
    BY <1>1, <1>4 DEF T!TypeOK, T!ConstantsAssumption
  <1>6. /\ visit' \in [Visitors -> T!Calls] /\ T!CallInv'
        /\ \A t \in Tenants \ {u} : /\ T!Updating(t) => T!Updating(t)'
                                    /\ T!Deleting(t)' => T!Deleting(t)
    BY <1>2, <1>3, <1>4, <1>5, TenantCall, TenantMarks
  <1>7. T!TypeOK'
    BY <1>1, <1>4, <1>5, <1>6 DEF T!TypeOK
  <1>8. T!CacheInv'
    <2>1. T!Deleting(u)
      BY <1>2, <1>3 DEF T!Deleting, T!At
    <2>2. cache[u] # None => cache[u].late
      BY <1>1, <2>1 DEF T!CacheInv
    <2>3. QED
      BY <1>1, <1>4, <1>5, <1>6, <2>2 DEF T!CacheInv, T!Effective
  <1>9. T!FilesInv'
    BY <1>1, <1>5 DEF T!FilesInv
  <1>10. QED
    BY <1>6, <1>7, <1>8, <1>9 DEF T!TenantInv

\* A context is evicted, or all are gone, with the calls, at a restart.
LEMMA TenantForgets ==
    ASSUME T!ConstantsAssumption, T!TenantInv,
           T!Restart \/ \E t \in Tenants : T!Evict(t)
    PROVE  T!TenantInv'
  <1>1. T!TypeOK /\ T!CallInv /\ T!CacheInv /\ T!FilesInv
    BY DEF T!TenantInv
  <1>2. CASE T!Restart
    <2>1. T!TypeOK'
      BY <1>1, <1>2, TenantCall DEF T!TypeOK, T!Restart
    <2>2. ASSUME NEW d \in Visitors
          PROVE  T!StepKnown(d)' /\ T!LoadKnown(d)' /\ T!VisitKnown(d)'
      <3>1. visit'[d] = T!NoCall
        BY <1>2 DEF T!Restart
      <3>2. QED
        BY <3>1, TenantIdle
    <2>3. T!CallInv'
      BY <2>2 DEF T!CallInv
    <2>4. T!CacheInv' /\ T!FilesInv'
      BY <1>1, <1>2 DEF T!CacheInv, T!FilesInv, T!Restart
    <2>5. QED
      BY <2>1, <2>3, <2>4 DEF T!TenantInv
  <1>3. ASSUME NEW t \in Tenants, T!Evict(t)
        PROVE  T!TenantInv'
    <2>1. cache' = [cache EXCEPT ![t] = None] /\ UNCHANGED <<registry, made, dir, files, visit>>
      BY <1>3 DEF T!Evict
    <2>2. T!TypeOK'
      BY <1>1, <2>1 DEF T!TypeOK
    <2>3. T!CallInv'
      BY <1>1, <2>1 DEF T!CallInv, T!StepKnown, T!LoadKnown, T!VisitKnown, T!At, T!Updating,
                        T!Effective
    <2>4. T!CacheInv' /\ T!FilesInv'
      <3>1. \A u \in Tenants : cache'[u] # None => cache'[u] = cache[u]
        BY <1>1, <2>1 DEF T!TypeOK
      <3>2. QED
        BY <1>1, <2>1, <3>1 DEF T!CacheInv, T!FilesInv, T!Deleting, T!Updating, T!At, T!Effective
    <2>5. QED
      BY <2>2, <2>3, <2>4 DEF T!TenantInv
  <1>4. QED
    BY <1>2, <1>3

LEMMA TenantStart == T!ConstantsAssumption /\ T!Init => T!TenantInv
  <1> SUFFICES ASSUME T!ConstantsAssumption, T!Init PROVE T!TenantInv
    OBVIOUS
  <1>1. T!TypeOK
    <2>1. /\ registry \in [Tenants -> T!Statuses \cup {"not_found"}]
          /\ files \in [Tenants -> BOOLEAN] /\ cache \in [Tenants -> T!Contexts \cup {None}]
      BY DEF T!Init
    <2>2. made \in [Tenants -> 0..MaxDirs] /\ dir \in [Tenants -> 0..MaxDirs]
      BY DEF T!Init, T!ConstantsAssumption
    <2>3. visit \in [Visitors -> T!Calls]
      BY TenantCall DEF T!Init
    <2>4. QED
      BY <2>1, <2>2, <2>3 DEF T!TypeOK
  <1>2. ASSUME NEW d \in Visitors
        PROVE  T!StepKnown(d) /\ T!LoadKnown(d) /\ T!VisitKnown(d)
    <2>1. visit[d] = T!NoCall
      BY DEF T!Init
    <2>2. visit[d].step = "idle" /\ visit[d].op = None /\ None # "auth"
      BY <2>1, TenantCall DEF T!Ops
    <2>3. QED
      BY <2>2 DEF T!StepKnown, T!LoadKnown, T!VisitKnown, T!At, T!Loads
  <1>3. T!CacheInv /\ T!FilesInv
    BY DEF T!Init, T!CacheInv, T!FilesInv
  <1>4. QED
    BY <1>1, <1>2, <1>3 DEF T!TenantInv, T!CallInv

LEMMA TenantStep ==
    ASSUME T!ConstantsAssumption, T!TenantInv, T!Next
    PROVE  T!TenantInv'
  <1>1. ASSUME NEW c \in Visitors, NEW t \in Tenants,
               T!Admin(c, t) \/ \E root \in BOOLEAN : T!Request(c, t, root)
        PROVE  T!TenantInv'
    <2>1. CASE T!Admin(c, t)
      BY <2>1, TenantAdmin
    <2>2. ASSUME NEW root \in BOOLEAN, T!Request(c, t, root)
          PROVE  T!TenantInv'
      BY <2>2, TenantGets DEF T!Request, T!At
    <2>3. QED
      BY <1>1, <2>1, <2>2
  <1>2. ASSUME NEW c \in Visitors, T!Handler(c)
        PROVE  T!TenantInv'
    BY <1>2, TenantMakesDir, TenantInvalidates, TenantRemoves DEF T!Handler
  <1>3. ASSUME NEW c \in Visitors, T!Load(c)
        PROVE  T!TenantInv'
    BY <1>3, TenantReads, TenantOpens, TenantInserts DEF T!Load
  <1>4. ASSUME NEW c \in Visitors, T!Visit(c)
        PROVE  T!TenantInv'
    <2>1. CASE T!Authenticate(c)
      <3>1. /\ visit[c].step = "auth" /\ visit[c] \in T!Calls /\ visit[c].tenant \in Tenants
            /\ visit[c].root \in BOOLEAN
        BY <2>1 DEF T!Authenticate, T!At, T!TenantInv, T!TypeOK, T!CallInv, T!StepKnown, T!Calls
      <3>2. QED
        BY <2>1, <3>1, TenantGets DEF T!Authenticate
    <2>2. CASE T!Respond(c)
      BY <2>2, TenantReturns DEF T!Respond, T!At
    <2>3. QED
      BY <1>4, <2>1, <2>2, TenantChecks DEF T!Visit
  <1>5. QED
    BY <1>1, <1>2, <1>3, <1>4, TenantForgets DEF T!Next

LEMMA TenantStays == T!TenantInv /\ UNCHANGED tenants => T!TenantInv'
  BY DEF tenants, T!TenantInv, T!TypeOK, T!CallInv, T!CacheInv, T!FilesInv, T!StepKnown,
         T!LoadKnown, T!VisitKnown, T!At, T!Updating, T!Deleting, T!Effective

\* What the run asks of the tenants, and of their steps, follows.
LEMMA TenantHolds ==
    ASSUME T!ConstantsAssumption, T!TenantInv
    PROVE  T!TypeOK /\ T!StatusCurrent /\ T!FilesCurrent /\ T!ShutOut
  <1>1. T!TypeOK /\ T!CallInv /\ T!CacheInv /\ T!FilesInv
    BY DEF T!TenantInv
  <1>2. T!StatusCurrent
    BY <1>1 DEF T!CacheInv, T!StatusCurrent
  <1>3. T!FilesCurrent
    <2>1. ASSUME NEW c \in Visitors, visit[c].tenant \in Tenants, T!At(c, "serve"),
                 ~visit[c].late, ~visit[c].db.late
          PROVE  visit[c].db.dir = dir[visit[c].tenant]
      <3>1. T!StepKnown(c) /\ T!VisitKnown(c)
        BY <1>1 DEF T!CallInv
      <3>2. QED
        BY <2>1, <3>1 DEF T!StepKnown, T!VisitKnown, T!At
    <2>2. QED
      BY <1>1, <2>1 DEF T!CacheInv, T!FilesCurrent
  <1>4. T!ShutOut
    <2>1. ASSUME NEW c \in Visitors, T!At(c, "serve"), ~visit[c].root, ~visit[c].late,
                 ~visit[c].ctx.late, ~T!Updating(visit[c].tenant)
          PROVE  T!Effective(visit[c].tenant) = "active"
      <3>1. T!StepKnown(c) /\ T!VisitKnown(c)
        BY <1>1 DEF T!CallInv
      <3>2. PICK u \in Tenants : u = visit[c].tenant
        BY <2>1, <3>1 DEF T!StepKnown, T!At
      <3>3. ~T!Shut(T!Effective(u))
        BY <2>1, <3>1, <3>2 DEF T!VisitKnown, T!At
      <3>4. registry[u] \in T!Statuses \cup {"not_found"}
        BY <1>1 DEF T!TypeOK
      <3>5. QED
        BY <3>2, <3>3, <3>4 DEF T!Effective, T!Shut, T!Statuses
    <2>2. QED
      BY <2>1 DEF T!ShutOut
  <1>5. QED
    BY <1>1, <1>2, <1>3, <1>4

LEMMA TenantNoRevival ==
    ASSUME T!ConstantsAssumption, T!TenantInv, T!Next
    PROVE  T!NoRevivalStep
  <1>1. T!TypeOK /\ T!CallInv /\ T!FilesInv
    BY DEF T!TenantInv
  <1>2. SUFFICES ASSUME NEW t \in Tenants, dir[t] = 0, dir'[t] # 0
                 PROVE  \/ registry[t] # "not_found" \/ T!Updating(t) \/ T!Deleting(t)
                        \/ \E c \in Visitors :
                              /\ visit[c].tenant = t
                              /\ T!At(c, "mkdir") \/ (T!At(c, "open") /\ visit[c].late)
    BY DEF T!NoRevivalStep
  <1>3. \/ \E c \in Visitors : T!MakeDir(c) \/ T!Open(c) \/ T!RemoveDir(c)
        \/ UNCHANGED dir
    BY DEF T!Next, T!Admin, T!Create, T!ScriptCreate, T!Delete, T!SetStatus, T!Request,
           T!Handler, T!Invalidate, T!Load, T!ReadStatus, T!LookForFiles, T!Insert, T!Visit,
           T!Authenticate, T!Check, T!Respond, T!Evict, T!Restart
  <1>4. PICK c \in Visitors : T!MakeDir(c) \/ T!Open(c) \/ T!RemoveDir(c)
    BY <1>2, <1>3
  <1>5. T!StepKnown(c) /\ T!LoadKnown(c)
    BY <1>1 DEF T!CallInv
  <1>6. visit[c].tenant \in Tenants
    BY <1>4, <1>5 DEF T!MakeDir, T!Open, T!RemoveDir, T!StepKnown, T!At
  <1>7. visit[c].tenant = t
    BY <1>1, <1>2, <1>4, <1>6 DEF T!MakeDir, T!Open, T!RemoveDir, T!TypeOK
  <1>8. CASE T!MakeDir(c)
    BY <1>7, <1>8 DEF T!MakeDir
  <1>9. CASE T!Open(c)
    <2>1. ~files[t] /\ registry[t] \in T!Statuses \cup {"not_found"}
      BY <1>1, <1>2 DEF T!FilesInv, T!TypeOK
    <2>2. T!At(c, "open")
      BY <1>9 DEF T!Open
    <2>3. \/ visit[c].late \/ T!Updating(t)
          \/ /\ visit[c].status # "not_found"
             /\ visit[c].status = registry[t] \/ visit[c].status = "not_found"
      BY <1>5, <1>7, <2>1, <2>2 DEF T!LoadKnown, T!At
    <2>4. QED
      BY <1>7, <2>2, <2>3
  <1>10. CASE T!RemoveDir(c)
    BY <1>1, <1>2, <1>7, <1>10 DEF T!RemoveDir, T!TypeOK
  <1>11. QED
    BY <1>4, <1>8, <1>9, <1>10

\* TenantsAreSafe: in every run of the server's tenants the statuses, the files
\* and the gate of the cached contexts are those of the rows, but for the loads
\* that overlapped with the change; and no deleted tenant comes back by itself.
THEOREM TenantsAreSafe ==
    ASSUME T!ConstantsAssumption
    PROVE  T!Spec => /\ [](T!TypeOK /\ T!StatusCurrent /\ T!FilesCurrent /\ T!ShutOut)
                     /\ T!NoRevival
  <1>1. T!Init => T!TenantInv
    BY TenantStart
  <1>2. T!TenantInv /\ [T!Next]_(T!vars) => T!TenantInv'
    BY TenantStep, TenantStays DEF T!vars, tenants
  <1>3. T!TenantInv => T!TypeOK /\ T!StatusCurrent /\ T!FilesCurrent /\ T!ShutOut
    BY TenantHolds
  <1>4. T!TenantInv /\ [T!Next]_(T!vars) => [T!NoRevivalStep]_(T!vars)
    BY TenantNoRevival
  <1>5. QED
    BY <1>1, <1>2, <1>3, <1>4, PTL DEF T!Spec, T!NoRevival

\* TenantsHold: the run's own property of the tenants.
THEOREM TenantsHold == MCSpec => []TenantsSafe
  <1> DEFINE Inv == part = "tenants" => T!TenantInv
  <1>1. MCInit => Inv
    BY PartsAssumption, TenantStart DEF MCInit
  <1>2. Inv /\ [MCNext]_mcVars => Inv'
    <2> SUFFICES ASSUME Inv, [MCNext]_mcVars, part' = "tenants" PROVE T!TenantInv'
      OBVIOUS
    <2>1. CASE part = "tenants" /\ T!Next
      BY <2>1, PartsAssumption, TenantStep
    <2>2. CASE part = "tenants" /\ UNCHANGED tenants
      BY <2>2, TenantStays
    <2>3. part = "tenants" /\ (T!Next \/ UNCHANGED tenants)
      BY DEF MCNext, mcVars
    <2>4. QED
      BY <2>1, <2>2, <2>3
  <1>3. Inv => TenantsSafe
    BY PartsAssumption, TenantHolds DEF TenantsSafe
  <1>4. QED
    BY <1>1, <1>2, <1>3, PTL DEF MCSpec

-----------------------------------------------------------------------------
(* The sandboxes.                                                          *)

LEMMA SandboxSize ==
    ASSUME NEW X PROVE (S!IsFiniteSet(X) <=> IsFiniteSet(X)) /\ S!Cardinality(X) = Cardinality(X)
  <1>1. S!IsFiniteSet(X) <=> IsFiniteSet(X)
    BY DEF S!IsFiniteSet, IsFiniteSet
  <1>2. S!Cardinality(X) = Cardinality(X)
    BY DEF S!Cardinality, Cardinality
  <1>3. QED
    BY <1>1, <1>2

LEMMA SandboxCall ==
    ASSUME S!ConstantsAssumption
    PROVE  /\ S!NoCall \in S!Calls /\ S!NoCall.step = "idle" /\ S!NoCall.op = "get"
           /\ S!NoCall.id = None /\ None \notin Sandboxes
           /\ Limit \in Nat \ {0} /\ MaxDirs \in Nat \ {0}
  BY DEF S!ConstantsAssumption, S!NoCall, S!Calls, S!Steps

\* A call that has ended knows nothing.
LEMMA SandboxIdle ==
    ASSUME S!ConstantsAssumption, NEW c \in Clients, work'[c] = S!NoCall
    PROVE  S!StepKnown(c)' /\ S!CreationAlone(c)' /\ S!LoadKnown(c)'
  <1>1. work'[c].step = "idle" /\ work'[c].op = "get" /\ work'[c].id = None
    BY SandboxCall
  <1>2. QED
    BY <1>1 DEF S!StepKnown, S!CreationAlone, S!LoadKnown, S!At

\* A call that does not move keeps what it knows: of a creation's sandbox
\* nothing changes, and of a load's its directory stays.
LEMMA SandboxCallKnows ==
    ASSUME S!ConstantsAssumption, NEW d \in Clients, work'[d] = work[d],
           S!TypeOK, {used, folder}' \subseteq [Sandboxes -> 0..MaxDirs],
           S!StepKnown(d), S!CreationAlone(d), S!LoadKnown(d),
           \A s \in Sandboxes : s = work[d].id => used[s] <= used'[s],
           \A s \in Sandboxes : s = work[d].id /\ work[d].op = "create" =>
              /\ s \notin rows' /\ cleanup'[s] = "none"
              /\ used'[s] = used[s] /\ folder'[s] = folder[s]
              /\ opened[s] = 0 => opened'[s] = 0
              /\ \A e \in Clients \ {d} : work'[e].id # s
              /\ Cardinality(rows) < Limit => Cardinality(rows') < Limit,
           \A s \in Sandboxes \ Scripted :
              s = work[d].id /\ S!At(d, "insert") /\ ~work[d].late => folder'[s] = folder[s]
    PROVE  S!StepKnown(d)' /\ S!CreationAlone(d)' /\ S!LoadKnown(d)'
  <1>1. CASE work[d].step = "idle"
    <2>1. work'[d].step = "idle" /\ work'[d].op = "get" /\ work'[d].id = None
      BY <1>1 DEF S!StepKnown, S!At
    <2>2. QED
      BY <2>1 DEF S!StepKnown, S!CreationAlone, S!LoadKnown, S!At
  <1>2. CASE work[d].step # "idle"
    <2>1. PICK s \in Sandboxes : s = work[d].id
      BY <1>2 DEF S!StepKnown, S!At
    <2>2. /\ used[s] \in 0..MaxDirs /\ used'[s] \in 0..MaxDirs /\ MaxDirs \in Nat
          /\ used[s] <= used'[s] /\ work[d] \in S!Calls
      BY <2>1, SandboxCall DEF S!TypeOK
    <2>3. S!StepKnown(d)'
      <3>1. used[s] # 0 => used'[s] # 0
        BY <2>2
      <3>2. QED
        BY <1>2, <2>1, <3>1 DEF S!StepKnown, S!At
    <2>4. S!CreationAlone(d)'
      BY <2>1, SandboxSize DEF S!CreationAlone, S!At
    <2>5. S!LoadKnown(d)'
      <3>1. work[d].ctx \in 0..MaxDirs
        BY <2>2 DEF S!Calls
      <3>2. work[d].ctx <= used[s] => work[d].ctx <= used'[s]
        BY <2>2, <3>1
      <3>3. QED
        BY <2>1, <3>2 DEF S!LoadKnown, S!At
    <2>6. QED
      BY <2>3, <2>4, <2>5
  <1>3. QED
    BY <1>1, <1>2

\* A call goes on and touches nothing but itself.
LEMMA SandboxQuiet ==
    ASSUME S!ConstantsAssumption, S!SandboxInv, NEW c \in Clients, NEW k \in S!Calls,
           work' = [work EXCEPT ![c] = k],
           UNCHANGED <<rows, used, folder, opened, late, cleanup, wiped>>,
           \A d \in Clients \ {c} : work[d].op = "create" => k.id # work[d].id,
           S!StepKnown(c)', S!CreationAlone(c)', S!LoadKnown(c)'
    PROVE  S!SandboxInv'
  <1>1. /\ S!TypeOK /\ IsFiniteSet(rows)
        /\ \A d \in Clients : S!StepKnown(d) /\ S!CreationAlone(d) /\ S!LoadKnown(d)
        /\ \A s \in Sandboxes : S!RowInv(s) /\ S!ContextInv(s)
    BY SandboxSize DEF S!SandboxInv
  <1>2. /\ work' \in [Clients -> S!Calls] /\ work'[c] = k
        /\ \A d \in Clients \ {c} : work'[d] = work[d]
    BY <1>1 DEF S!TypeOK
  <1>3. S!TypeOK'
    BY <1>1, <1>2 DEF S!TypeOK
  <1>4. ASSUME NEW d \in Clients \ {c}
        PROVE  S!StepKnown(d)' /\ S!CreationAlone(d)' /\ S!LoadKnown(d)'
    <2>1. S!StepKnown(d) /\ S!CreationAlone(d) /\ S!LoadKnown(d)
      BY <1>1
    <2>2. ASSUME NEW s \in Sandboxes, s = work[d].id, work[d].op = "create"
          PROVE  /\ s \notin rows' /\ cleanup'[s] = "none"
                 /\ \A e \in Clients \ {d} : work'[e].id # s
      BY <1>2, <2>1, <2>2 DEF S!CreationAlone
    <2>3. {used, folder}' \subseteq [Sandboxes -> 0..MaxDirs]
      BY <1>1 DEF S!TypeOK
    <2>4. \A s \in Sandboxes : used[s] <= used'[s]
      BY <1>1, SandboxCall DEF S!TypeOK
    <2>5. QED
      BY <1>1, <1>2, <2>1, <2>2, <2>3, <2>4, SandboxCallKnows
  <1>5. \A s \in Sandboxes : S!RowInv(s)' /\ S!ContextInv(s)'
    BY <1>1 DEF S!RowInv, S!ContextInv
  <1>6. QED
    BY <1>1, <1>3, <1>4, <1>5, SandboxSize DEF S!SandboxInv

\* A call ends and touches nothing else.
LEMMA SandboxReturns ==
    ASSUME S!ConstantsAssumption, S!SandboxInv, NEW c \in Clients, S!Return(c),
           UNCHANGED <<rows, used, folder, opened, late, cleanup, wiped>>
    PROVE  S!SandboxInv'
  <1>1. work' = [work EXCEPT ![c] = S!NoCall] /\ work \in [Clients -> S!Calls]
    BY DEF S!Return, S!SandboxInv, S!TypeOK
  <1>2. S!StepKnown(c)' /\ S!CreationAlone(c)' /\ S!LoadKnown(c)'
    BY <1>1, SandboxIdle
  <1>3. \A d \in Clients \ {c} : work[d].op = "create" => S!NoCall.id # work[d].id
    BY SandboxCall DEF S!SandboxInv, S!StepKnown, S!At
  <1>4. QED
    BY <1>1, <1>2, <1>3, SandboxCall, SandboxQuiet

\* A call begins: a creation with an id that nobody has, any other with one
\* that no creation is about to answer with.
LEMMA SandboxBegins ==
    ASSUME S!ConstantsAssumption, S!SandboxInv, NEW c \in Clients, NEW s \in Sandboxes,
           NEW op, NEW step0, S!Begin(c, s, op, step0),
           UNCHANGED <<rows, used, folder, opened, late, cleanup, wiped>>,
           \/ /\ op = "create" /\ step0 = "make" /\ S!Fresh(s)
              /\ Cardinality(rows) < Limit
           \/ op = "script" /\ step0 = "make" /\ s \in Scripted /\ (S!Fresh(s) \/ S!Known(s))
           \/ op = "get" /\ step0 = "get" /\ S!Known(s)
           \/ op \in {"delete", "publish"} /\ step0 = "owned" /\ s \in rows
    PROVE  S!SandboxInv'
  <1>1. /\ S!TypeOK /\ IsFiniteSet(rows)
        /\ \A d \in Clients : S!StepKnown(d) /\ S!CreationAlone(d) /\ S!LoadKnown(d)
        /\ S!RowInv(s) /\ S!ContextInv(s)
    BY SandboxSize DEF S!SandboxInv
  <1> DEFINE k == [S!NoCall EXCEPT !.step = step0, !.op = op, !.id = s]
  <1>2. work' = [work EXCEPT ![c] = k]
    BY DEF S!Begin
  <1>3. /\ k \in S!Calls /\ k.step = step0 /\ k.op = op /\ k.id = s /\ k.raced = FALSE
    BY SandboxCall DEF S!NoCall, S!Calls, S!Steps
  <1> HIDE DEF k
  <1>4. /\ work'[c] = k /\ \A d \in Clients \ {c} : work'[d] = work[d]
    BY <1>1, <1>2 DEF S!TypeOK
  <1>5. \A d \in Clients \ {c} : work[d].op = "create" => k.id # work[d].id
    <2>1. ASSUME NEW d \in Clients \ {c}, work[d].op = "create", work[d].id = s PROVE FALSE
      <3>1. s \notin rows
        BY <1>1, <2>1 DEF S!CreationAlone
      <3>2. QED
        BY <2>1, <3>1 DEF S!Fresh, S!Known
    <2>2. QED
      BY <1>3, <2>1
  <1>6. S!StepKnown(c)'
    <2>1. used[s] = 0 => s \notin rows
      BY <1>1 DEF S!RowInv
    <2>2. QED
      BY <1>3, <1>4, <2>1 DEF S!StepKnown, S!At, S!Known
  <1>7. S!CreationAlone(c)'
    <2>1. CASE op = "create"
      <3>1. used[s] = 0 /\ \A d \in Clients : work[d].id # s
        BY <2>1 DEF S!Fresh
      <3>2. opened[s] = 0
        BY <1>1, <3>1, SandboxCall DEF S!TypeOK
      <3>3. s \notin rows /\ cleanup[s] = "none" /\ Cardinality(rows) < Limit
        BY <1>1, <2>1, <3>1 DEF S!RowInv
      <3>4. QED
        BY <1>3, <1>4, <2>1, <3>1, <3>2, <3>3, SandboxSize DEF S!CreationAlone, S!At
    <2>2. CASE op # "create"
      BY <1>3, <1>4, <2>2 DEF S!CreationAlone
    <2>3. QED
      BY <2>1, <2>2
  <1>8. S!LoadKnown(c)'
    BY <1>3, <1>4 DEF S!LoadKnown, S!At
  <1>9. QED
    BY <1>2, <1>3, <1>5, <1>6, <1>7, <1>8, SandboxQuiet

\* A step touches one sandbox: the others keep what is known of them, and so do
\* the calls that do not move, none of them the creation of that sandbox.
LEMMA SandboxTouches ==
    ASSUME S!ConstantsAssumption, S!SandboxInv, NEW s \in Sandboxes, S!TypeOK',
           IsFiniteSet(rows'), used[s] <= used'[s],
           \A r \in Sandboxes \ {s} :
              /\ used'[r] = used[r] /\ folder'[r] = folder[r] /\ opened'[r] = opened[r]
              /\ late'[r] = late[r] /\ cleanup'[r] = cleanup[r]
              /\ (r \in rows' <=> r \in rows) /\ (r \in wiped' <=> r \in wiped),
           \A d \in Clients : work'[d].id \in {work[d].id, None},
           \A d \in Clients :
              \/ S!StepKnown(d)' /\ S!CreationAlone(d)' /\ S!LoadKnown(d)'
              \/ /\ work'[d] = work[d]
                 /\ work[d].op = "create" => work[d].id # s /\ rows' \subseteq rows
                 /\ work[d].id = s /\ s \notin Scripted /\ S!At(d, "insert") /\ ~work[d].late
                    => folder'[s] = folder[s],
           S!RowInv(s)', S!ContextInv(s)'
    PROVE  S!SandboxInv'
  <1>1. /\ S!TypeOK /\ IsFiniteSet(rows)
        /\ \A d \in Clients : S!StepKnown(d) /\ S!CreationAlone(d) /\ S!LoadKnown(d)
        /\ \A r \in Sandboxes : S!RowInv(r) /\ S!ContextInv(r)
    BY SandboxSize DEF S!SandboxInv
  <1>2. /\ {used, folder}' \subseteq [Sandboxes -> 0..MaxDirs]
        /\ {used, folder} \subseteq [Sandboxes -> 0..MaxDirs] /\ MaxDirs \in Nat
    BY <1>1, SandboxCall DEF S!TypeOK
  <1>3. rows' \subseteq rows => (Cardinality(rows) < Limit => Cardinality(rows') < Limit)
    <2>1. Cardinality(rows) \in Nat /\ Cardinality(rows') \in Nat /\ Limit \in Nat
      BY <1>1, FS_CardinalityType, SandboxCall
    <2>2. rows' \subseteq rows => Cardinality(rows') <= Cardinality(rows)
      BY <1>1, FS_Subset
    <2>3. QED
      BY <2>1, <2>2
  <1>4. ASSUME NEW d \in Clients
        PROVE  S!StepKnown(d)' /\ S!CreationAlone(d)' /\ S!LoadKnown(d)'
    <2>1. CASE S!StepKnown(d)' /\ S!CreationAlone(d)' /\ S!LoadKnown(d)'
      BY <2>1
    <2>2. CASE /\ work'[d] = work[d]
               /\ work[d].op = "create" => work[d].id # s /\ rows' \subseteq rows
               /\ work[d].id = s /\ s \notin Scripted /\ S!At(d, "insert") /\ ~work[d].late
                  => folder'[s] = folder[s]
      <3>1. S!StepKnown(d) /\ S!CreationAlone(d) /\ S!LoadKnown(d)
        BY <1>1
      <3>2. ASSUME NEW r \in Sandboxes, r = work[d].id, work[d].op = "create"
            PROVE  /\ r \notin rows' /\ cleanup'[r] = "none"
                   /\ used'[r] = used[r] /\ folder'[r] = folder[r]
                   /\ opened[r] = 0 => opened'[r] = 0
                   /\ \A e \in Clients \ {d} : work'[e].id # r
                   /\ Cardinality(rows) < Limit => Cardinality(rows') < Limit
        <4>1. r # s /\ rows' \subseteq rows /\ r \notin rows /\ cleanup[r] = "none"
          BY <2>2, <3>1, <3>2 DEF S!CreationAlone
        <4>2. \A e \in Clients \ {d} : work[e].id # r /\ None # r
          BY <3>1, <3>2, SandboxCall DEF S!CreationAlone
        <4>3. QED
          BY <1>3, <4>1, <4>2
      <3>3. \A r \in Sandboxes : used[r] <= used'[r]
        BY <1>2
      <3>4. \A r \in Sandboxes \ Scripted :
               r = work[d].id /\ S!At(d, "insert") /\ ~work[d].late => folder'[r] = folder[r]
        BY <2>2
      <3>5. QED
        BY <1>1, <1>2, <2>2, <3>1, <3>2, <3>3, <3>4, SandboxCallKnows
    <2>3. QED
      BY <2>1, <2>2
  <1>5. ASSUME NEW r \in Sandboxes
        PROVE  S!RowInv(r)' /\ S!ContextInv(r)'
    <2>1. CASE r = s
      BY <2>1
    <2>2. CASE r # s
      <3>1. S!RowInv(r) /\ S!ContextInv(r)
        BY <1>1
      <3>2. /\ used'[r] = used[r] /\ folder'[r] = folder[r] /\ opened'[r] = opened[r]
            /\ late'[r] = late[r] /\ cleanup'[r] = cleanup[r]
            /\ (r \in rows' <=> r \in rows) /\ (r \in wiped' <=> r \in wiped)
        BY <2>2
      <3>3. QED
        BY <3>1, <3>2 DEF S!RowInv, S!ContextInv
    <2>3. QED
      BY <2>1, <2>2
  <1>6. QED
    BY <1>4, <1>5, SandboxSize DEF S!SandboxInv

\* A creation makes its directory, or a script makes one again.
LEMMA SandboxMakes ==
    ASSUME S!ConstantsAssumption, S!SandboxInv, NEW c \in Clients, S!Make(c)
    PROVE  S!SandboxInv'
  <1>1. /\ S!TypeOK /\ IsFiniteSet(rows)
        /\ \A d \in Clients : S!StepKnown(d) /\ S!CreationAlone(d) /\ S!LoadKnown(d)
        /\ \A r \in Sandboxes : S!RowInv(r) /\ S!ContextInv(r)
    BY SandboxSize DEF S!SandboxInv
  <1>2. work[c] \in S!Calls /\ work[c].step = "make"
    BY <1>1 DEF S!TypeOK, S!Make, S!At
  <1>3. PICK s \in Sandboxes : s = work[c].id
    BY <1>1, <1>2 DEF S!StepKnown, S!At
  <1>4. /\ used[s] < MaxDirs /\ used' = [used EXCEPT ![s] = used[s] + 1]
        /\ UNCHANGED <<rows, opened, late, cleanup>>
        /\ \/ /\ folder' = [folder EXCEPT ![s] = 0] /\ wiped' = wiped \cup (rows \cap {s})
              /\ S!Return(c)
           \/ /\ folder' = [folder EXCEPT ![s] = used'[s]] /\ wiped' = wiped
              /\ S!Goto(c, "get")
    BY <1>3 DEF S!Make, S!context
  <1>5. used \in [Sandboxes -> 0..MaxDirs] /\ folder \in [Sandboxes -> 0..MaxDirs]
    BY <1>1 DEF S!TypeOK
  <1>6. MaxDirs \in Nat /\ used[s] \in Nat /\ used[s] + 1 \in 1..MaxDirs
    BY <1>4, <1>5, SandboxCall
  <1>7. /\ used' \in [Sandboxes -> 0..MaxDirs] /\ used'[s] = used[s] + 1
        /\ \A r \in Sandboxes \ {s} : used'[r] = used[r] /\ folder'[r] = folder[r]
        /\ folder' \in [Sandboxes -> 0..MaxDirs]
        /\ folder'[s] = 0 \/ folder'[s] = used'[s]
    BY <1>4, <1>5, <1>6
  <1>8. PICK k \in S!Calls : /\ work' = [work EXCEPT ![c] = k]
                             /\ \/ k = S!NoCall
                                \/ k = [work[c] EXCEPT !.step = "get"] /\ folder'[s] = used'[s]
    <2>1. CASE S!Return(c)
      BY <2>1, SandboxCall DEF S!Return
    <2>2. CASE S!Goto(c, "get") /\ folder'[s] = used'[s]
      <3>1. [work[c] EXCEPT !.step = "get"] \in S!Calls
        BY <1>2 DEF S!Calls, S!Steps
      <3>2. work' = [work EXCEPT ![c] = [work[c] EXCEPT !.step = "get"]]
        BY <1>1, <2>2 DEF S!Goto, S!TypeOK
      <3>3. QED
        BY <2>2, <3>1, <3>2
    <2>3. S!Return(c) \/ (S!Goto(c, "get") /\ folder'[s] = used'[s])
      BY <1>4, <1>5
    <2>4. QED
      BY <2>1, <2>2, <2>3
  <1>9. /\ work' \in [Clients -> S!Calls] /\ work'[c] = k
        /\ \A d \in Clients \ {c} : work'[d] = work[d]
    BY <1>1, <1>8 DEF S!TypeOK
  <1>10. S!TypeOK'
    <2>1. opened \in [Sandboxes -> 0..MaxDirs] /\ opened[s] <= used[s] /\ opened[s] \in Nat
      BY <1>1, <1>6 DEF S!TypeOK
    <2>2. \A r \in Sandboxes : folder'[r] <= used'[r] /\ opened'[r] <= used'[r]
      <3>1. ASSUME NEW r \in Sandboxes \ {s} PROVE folder'[r] <= used'[r] /\ opened'[r] <= used'[r]
        BY <1>1, <1>4, <1>7 DEF S!TypeOK
      <3>2. folder'[s] <= used'[s] /\ opened'[s] <= used'[s]
        BY <1>4, <1>6, <1>7, <2>1
      <3>3. QED
        BY <3>1, <3>2
    <2>3. wiped' \subseteq Sandboxes /\ rows' \subseteq Sandboxes
      BY <1>1, <1>4 DEF S!TypeOK
    <2>4. late' \in [Sandboxes -> BOOLEAN]
          /\ cleanup' \in [Sandboxes -> {"none", "invalidate", "remove"}]
      BY <1>1, <1>4 DEF S!TypeOK
    <2>5. {used, folder, opened}' \subseteq [Sandboxes -> 0..MaxDirs]
      BY <1>4, <1>7, <2>1
    <2>6. QED
      BY <1>9, <2>2, <2>3, <2>4, <2>5 DEF S!TypeOK
  <1>11. work[c].op \in {"create", "script"} /\ (work[c].op = "script" => s \in Scripted)
    BY <1>1, <1>2, <1>3 DEF S!StepKnown, S!At
  <1>12. S!StepKnown(c)' /\ S!CreationAlone(c)' /\ S!LoadKnown(c)'
    <2>1. CASE k = S!NoCall
      BY <1>9, <2>1, SandboxIdle
    <2>2. CASE k = [work[c] EXCEPT !.step = "get"] /\ folder'[s] = used'[s]
      <3>1. /\ k.step = "get" /\ k.op = work[c].op /\ k.id = s /\ k.raced = work[c].raced
        BY <1>2, <1>3, <2>2 DEF S!Calls
      <3>2. S!StepKnown(c)' /\ S!LoadKnown(c)'
        BY <1>6, <1>7, <1>9, <1>11, <3>1 DEF S!StepKnown, S!LoadKnown, S!At
      <3>3. S!CreationAlone(c)'
        BY <1>1, <1>2, <1>3, <1>4, <1>6, <1>7, <1>9, <2>2, <3>1, SandboxSize
           DEF S!CreationAlone, S!At
      <3>4. QED
        BY <3>2, <3>3
    <2>3. QED
      BY <1>8, <2>1, <2>2
  <1>13. S!RowInv(s)'
    <2>1. S!RowInv(s)
      BY <1>1
    <2>2. \/ S!Return(c) /\ wiped' = wiped \cup (rows \cap {s})
          \/ folder'[s] # 0 /\ wiped' = wiped
      BY <1>4, <1>5, <1>6, <1>7
    <2>3. QED
      BY <1>4, <1>6, <1>7, <2>1, <2>2 DEF S!RowInv
  <1>14. S!ContextInv(s)'
    <2>1. S!ContextInv(s)
      BY <1>1
    <2>2. s \in Scripted \/ opened[s] = 0
      BY <1>1, <1>2, <1>3, <1>11 DEF S!CreationAlone, S!At
    <2>3. QED
      BY <1>4, <2>1, <2>2 DEF S!ContextInv
  <1>15. \A d \in Clients \ {c} :
            /\ work[d].op = "create" => work[d].id # s
            /\ s \notin Scripted => work[d].id # s
    BY <1>1, <1>3, <1>11 DEF S!CreationAlone
  <1>16. \A d \in Clients : work'[d].id \in {work[d].id, None}
    <2>1. k.id \in {work[c].id, None}
      BY <1>2, <1>8, SandboxCall DEF S!Calls
    <2>2. QED
      BY <1>9, <2>1
  <1>17. \A r \in Sandboxes \ {s} : r \in wiped' <=> r \in wiped
    BY <1>4
  <1>18. used[s] <= used'[s]
    BY <1>6, <1>7
  <1>19. \A d \in Clients :
            \/ S!StepKnown(d)' /\ S!CreationAlone(d)' /\ S!LoadKnown(d)'
            \/ /\ work'[d] = work[d]
               /\ work[d].op = "create" => work[d].id # s /\ rows' \subseteq rows
               /\ work[d].id = s /\ s \notin Scripted /\ S!At(d, "insert") /\ ~work[d].late
                  => folder'[s] = folder[s]
    BY <1>4, <1>9, <1>12, <1>15
  <1>20. QED
    BY <1>1, <1>4, <1>7, <1>10, <1>13, <1>14, <1>16, <1>17, <1>18, <1>19, SandboxTouches

\* A call goes on with a context: a creation registers, a publication
\* unregisters, the others are done.
LEMMA SandboxWithContext ==
    ASSUME S!ConstantsAssumption, S!SandboxInv, NEW c \in Clients, NEW n \in 0..MaxDirs,
           work[c].step \in {"get", "insert"}, S!WithContext(c, n),
           UNCHANGED <<rows, used, folder, cleanup>>
    PROVE  /\ \E k \in S!Calls : /\ work' = [work EXCEPT ![c] = k]
                                 /\ k.id \in {work[c].id, None}
           /\ S!StepKnown(c)' /\ S!CreationAlone(c)' /\ S!LoadKnown(c)'
  <1>1. /\ S!TypeOK /\ work[c] \in S!Calls
        /\ \A d \in Clients : S!StepKnown(d) /\ S!CreationAlone(d) /\ S!LoadKnown(d)
    BY DEF S!SandboxInv, S!TypeOK
  <1>2. CASE work[c].op = "create"
    <2> DEFINE k == [work[c] EXCEPT !.step = "register", !.ctx = n]
    <2>1. work' = [work EXCEPT ![c] = k]
      BY <1>1, <1>2 DEF S!WithContext, S!TypeOK
    <2>2. /\ k \in S!Calls /\ k.step = "register" /\ k.op = "create" /\ k.id = work[c].id
          /\ k.raced = work[c].raced
      BY <1>1, <1>2 DEF S!Calls, S!Steps
    <2> HIDE DEF k
    <2>3. work'[c] = k /\ \A d \in Clients \ {c} : work'[d] = work[d]
      BY <1>1, <2>1 DEF S!TypeOK
    <2>4. S!StepKnown(c)' /\ S!LoadKnown(c)'
      BY <1>1, <1>2, <2>2, <2>3 DEF S!StepKnown, S!LoadKnown, S!At
    <2>5. S!CreationAlone(c)'
      BY <1>1, <1>2, <2>2, <2>3, SandboxSize DEF S!CreationAlone, S!At
    <2>6. QED
      BY <2>1, <2>2, <2>4, <2>5
  <1>3. CASE work[c].op = "publish"
    <2> DEFINE k == [work[c] EXCEPT !.step = "unregister", !.ctx = 0]
    <2>1. work' = [work EXCEPT ![c] = k]
      BY <1>1, <1>3 DEF S!WithContext, S!TypeOK
    <2>2. /\ k \in S!Calls /\ k.step = "unregister" /\ k.op = "publish" /\ k.id = work[c].id
      <3>1. 0 \in 0..MaxDirs
        BY SandboxCall
      <3>2. QED
        BY <1>1, <1>3, <3>1 DEF S!Calls, S!Steps
    <2> HIDE DEF k
    <2>3. work'[c] = k
      BY <1>1, <2>1 DEF S!TypeOK
    <2>4. S!StepKnown(c)' /\ S!LoadKnown(c)' /\ S!CreationAlone(c)'
      BY <1>1, <1>3, <2>2, <2>3 DEF S!StepKnown, S!LoadKnown, S!CreationAlone, S!At
    <2>5. QED
      BY <2>1, <2>2, <2>4
  <1>4. CASE work[c].op \notin {"create", "publish"}
    <2>1. work' = [work EXCEPT ![c] = S!NoCall]
      BY <1>4 DEF S!WithContext, S!Return
    <2>2. work'[c] = S!NoCall
      BY <1>1, <2>1 DEF S!TypeOK
    <2>3. QED
      BY <2>1, <2>2, SandboxCall, SandboxIdle
  <1>5. QED
    BY <1>2, <1>3, <1>4

\* No creation shares its sandbox with another call.
LEMMA SandboxApart ==
    ASSUME S!ConstantsAssumption, S!SandboxInv, NEW c \in Clients, NEW d \in Clients \ {c},
           work[d].op = "create"
    PROVE  work[c].id # work[d].id /\ None # work[d].id
  BY SandboxCall DEF S!SandboxInv, S!CreationAlone, S!StepKnown, S!At

\* A call asks for the context, or a publication for it.
LEMMA SandboxGets ==
    ASSUME S!ConstantsAssumption, S!SandboxInv, NEW c \in Clients,
           S!Get(c) \/ S!PublishOwned(c)
    PROVE  S!SandboxInv'
  <1>1. /\ S!TypeOK /\ work[c] \in S!Calls
        /\ \A d \in Clients : S!StepKnown(d) /\ S!CreationAlone(d) /\ S!LoadKnown(d)
    BY DEF S!SandboxInv, S!TypeOK
  <1>2. /\ UNCHANGED <<rows, used, folder, opened, late, cleanup, wiped>>
        /\ work[c].step \in {"get", "owned"}
    BY DEF S!Get, S!PublishOwned, S!files, S!context, S!At
  <1>3. PICK s \in Sandboxes : s = work[c].id
    BY <1>1, <1>2 DEF S!StepKnown, S!At
  <1>4. \A r \in Sandboxes : opened[r] \in 0..MaxDirs /\ folder[r] \in 0..MaxDirs
    BY <1>1 DEF S!TypeOK
  <1>5. CASE S!PublishOwned(c)
    <2> DEFINE k == [work[c] EXCEPT !.step = "get"]
    <2>1. work' = [work EXCEPT ![c] = k] /\ work[c].op = "publish" /\ work[c].step = "owned"
      BY <1>1, <1>5 DEF S!PublishOwned, S!Goto, S!TypeOK, S!At
    <2>2. k \in S!Calls /\ k.step = "get" /\ k.op = "publish" /\ k.id = work[c].id
      BY <1>1, <2>1 DEF S!Calls, S!Steps
    <2> HIDE DEF k
    <2>3. work'[c] = k
      BY <1>1, <2>1 DEF S!TypeOK
    <2>4. S!StepKnown(c)' /\ S!CreationAlone(c)' /\ S!LoadKnown(c)'
      BY <1>1, <1>2, <2>1, <2>2, <2>3 DEF S!StepKnown, S!CreationAlone, S!LoadKnown, S!At
    <2>5. QED
      BY <1>2, <2>1, <2>2, <2>4, SandboxApart, SandboxQuiet
  <1>6. CASE S!Get(c) /\ opened[s] # 0
    <2>1. S!WithContext(c, opened[s]) /\ work[c].step = "get"
      BY <1>3, <1>6 DEF S!Get, S!At
    <2>2. /\ S!StepKnown(c)' /\ S!CreationAlone(c)' /\ S!LoadKnown(c)'
          /\ \E k \in S!Calls : /\ work' = [work EXCEPT ![c] = k]
                                /\ k.id \in {work[c].id, None}
      BY <1>2, <1>4, <2>1, SandboxWithContext
    <2>3. QED
      BY <1>2, <2>2, SandboxApart, SandboxQuiet
  <1>7. CASE S!Get(c) /\ opened[s] = 0 /\ folder[s] = 0
    BY <1>2, <1>3, <1>7, SandboxReturns DEF S!Get
  <1>8. CASE S!Get(c) /\ opened[s] = 0 /\ folder[s] # 0
    <2> DEFINE k == [work[c] EXCEPT !.step = "insert", !.ctx = folder[s]]
    <2>1. work' = [work EXCEPT ![c] = k] /\ work[c].step = "get"
      BY <1>1, <1>3, <1>8 DEF S!Get, S!TypeOK, S!At
    <2>2. /\ k \in S!Calls /\ k.step = "insert" /\ k.op = work[c].op /\ k.id = s
          /\ k.ctx = folder[s] /\ k.raced = work[c].raced
      BY <1>1, <1>3, <1>4 DEF S!Calls, S!Steps
    <2> HIDE DEF k
    <2>3. work'[c] = k /\ \A d \in Clients \ {c} : work'[d] = work[d]
      BY <1>1, <2>1 DEF S!TypeOK
    <2>4. S!StepKnown(c)'
      BY <1>1, <1>2, <1>3, <2>1, <2>2, <2>3 DEF S!StepKnown, S!At
    <2>5. S!CreationAlone(c)'
      <3>1. work[c].op = "create" =>
              /\ s \notin rows /\ cleanup[s] = "none" /\ folder[s] # 0 /\ opened[s] = 0
              /\ \A d \in Clients \ {c} : work[d].id # s
              /\ ~work[c].raced => Cardinality(rows) < Limit
        BY <1>1, <1>3, <2>1, SandboxSize DEF S!CreationAlone, S!At
      <3>2. QED
        BY <1>2, <2>2, <2>3, <3>1, SandboxSize DEF S!CreationAlone, S!At
    <2>6. S!LoadKnown(c)'
      BY <1>1, <1>2, <2>2, <2>3 DEF S!LoadKnown, S!At, S!TypeOK
    <2>7. QED
      BY <1>2, <1>3, <2>1, <2>2, <2>4, <2>5, <2>6, SandboxApart, SandboxQuiet
  <1>9. QED
    BY <1>5, <1>6, <1>7, <1>8

\* A context gets into the cache, late if its directory is being removed.
LEMMA SandboxInserts ==
    ASSUME S!ConstantsAssumption, S!SandboxInv, NEW c \in Clients, S!Insert(c)
    PROVE  S!SandboxInv'
  <1>1. /\ S!TypeOK /\ IsFiniteSet(rows) /\ work[c] \in S!Calls
        /\ \A d \in Clients : S!StepKnown(d) /\ S!CreationAlone(d) /\ S!LoadKnown(d)
        /\ \A r \in Sandboxes : S!RowInv(r) /\ S!ContextInv(r)
    BY SandboxSize DEF S!SandboxInv, S!TypeOK
  <1>2. work[c].step = "insert"
    BY DEF S!Insert, S!At
  <1>3. PICK s \in Sandboxes : s = work[c].id
    BY <1>1, <1>2 DEF S!StepKnown, S!At
  <1>4. PICK n \in 0..MaxDirs : n = work[c].ctx
    BY <1>1 DEF S!Calls
  <1>5. /\ opened' = [opened EXCEPT ![s] = n]
        /\ late' = [late EXCEPT ![s] = work[c].late \/ cleanup[s] = "remove"]
        /\ S!WithContext(c, n)
        /\ UNCHANGED <<rows, used, folder, cleanup, wiped>>
    BY <1>3, <1>4 DEF S!Insert, S!files
  <1>6. /\ S!StepKnown(c)' /\ S!CreationAlone(c)' /\ S!LoadKnown(c)'
        /\ \E k \in S!Calls : /\ work' = [work EXCEPT ![c] = k]
                              /\ k.id \in {work[c].id, None}
    BY <1>2, <1>5, SandboxWithContext
  <1>7. /\ work' \in [Clients -> S!Calls] /\ work'[c].id \in {work[c].id, None}
        /\ \A d \in Clients \ {c} : work'[d] = work[d]
    BY <1>1, <1>6 DEF S!TypeOK
  <1>8. /\ opened' \in [Sandboxes -> 0..MaxDirs] /\ late' \in [Sandboxes -> BOOLEAN]
        /\ opened'[s] = n /\ late'[s] = (work[c].late \/ cleanup[s] = "remove")
        /\ \A r \in Sandboxes \ {s} : opened'[r] = opened[r] /\ late'[r] = late[r]
    <2>1. (work[c].late \/ cleanup[s] = "remove") \in BOOLEAN
      BY <1>1 DEF S!Calls
    <2>2. opened \in [Sandboxes -> 0..MaxDirs] /\ late \in [Sandboxes -> BOOLEAN]
      BY <1>1 DEF S!TypeOK
    <2>3. QED
      BY <1>5, <2>1, <2>2
  <1>9. n <= used[s] /\ (s \notin Scripted /\ ~work[c].late => n = folder[s])
    BY <1>1, <1>2, <1>3, <1>4 DEF S!LoadKnown, S!At
  <1>10. S!TypeOK'
    <2>1. \A r \in Sandboxes : folder'[r] <= used'[r] /\ opened'[r] <= used'[r]
      BY <1>1, <1>5, <1>8, <1>9 DEF S!TypeOK
    <2>2. QED
      BY <1>1, <1>5, <1>7, <1>8, <2>1 DEF S!TypeOK
  <1>11. S!RowInv(s)'
    BY <1>1, <1>5 DEF S!RowInv
  <1>12. S!ContextInv(s)'
    BY <1>5, <1>8, <1>9 DEF S!ContextInv
  <1>13. \A d \in Clients : work'[d].id \in {work[d].id, None}
    BY <1>7
  <1>14. used[s] <= used'[s]
    BY <1>1, <1>5, SandboxCall DEF S!TypeOK
  <1>15. \A d \in Clients :
            \/ S!StepKnown(d)' /\ S!CreationAlone(d)' /\ S!LoadKnown(d)'
            \/ /\ work'[d] = work[d]
               /\ work[d].op = "create" => work[d].id # s /\ rows' \subseteq rows
               /\ work[d].id = s /\ s \notin Scripted /\ S!At(d, "insert") /\ ~work[d].late
                  => folder'[s] = folder[s]
    BY <1>3, <1>5, <1>6, <1>7, SandboxApart
  <1>16. QED
    BY <1>1, <1>5, <1>8, <1>10, <1>11, <1>12, <1>13, <1>14, <1>15, SandboxTouches

\* A creation registers: the others that are under way have counted without it.
LEMMA SandboxRegisters ==
    ASSUME S!ConstantsAssumption, S!SandboxInv, NEW c \in Clients, S!Register(c)
    PROVE  /\ S!SandboxInv'
           /\ work[c].step = "register"
           /\ ~work[c].raced => Cardinality(rows') <= Limit
  <1>1. /\ S!TypeOK /\ IsFiniteSet(rows) /\ work \in [Clients -> S!Calls]
        /\ \A d \in Clients : S!StepKnown(d) /\ S!CreationAlone(d) /\ S!LoadKnown(d)
        /\ \A r \in Sandboxes : S!RowInv(r) /\ S!ContextInv(r)
    BY SandboxSize DEF S!SandboxInv, S!TypeOK
  <1>2. work[c].step = "register" /\ work[c].op = "create"
    BY <1>1 DEF S!Register, S!StepKnown, S!At
  <1>3. PICK s \in Sandboxes : s = work[c].id
    BY <1>1, <1>2 DEF S!StepKnown, S!At
  <1>4. /\ rows' = rows \cup {s} /\ UNCHANGED <<used, folder, opened, late, cleanup, wiped>>
        /\ work' = [d \in Clients |->
                      IF d = c THEN S!NoCall
                      ELSE IF work[d].op = "create" THEN [work[d] EXCEPT !.raced = TRUE]
                      ELSE work[d]]
    BY <1>3 DEF S!Register, S!files, S!context
  <1>5. /\ s \notin rows /\ cleanup[s] = "none" /\ folder[s] # 0 /\ used[s] # 0
        /\ \A d \in Clients \ {c} : work[d].id # s
        /\ ~work[c].raced => Cardinality(rows) < Limit
    BY <1>1, <1>2, <1>3, SandboxSize DEF S!CreationAlone, S!StepKnown, S!At
  <1>6. /\ IsFiniteSet(rows') /\ Cardinality(rows) \in Nat /\ Cardinality(rows') = Cardinality(rows) + 1
    BY <1>1, <1>4, <1>5, FS_AddElement, FS_CardinalityType
  <1>7. ~work[c].raced => Cardinality(rows') <= Limit
    BY <1>5, <1>6, SandboxCall
  <1>8. ASSUME NEW d \in Clients
        PROVE  /\ work'[d] \in S!Calls /\ work'[d].id \in {work[d].id, None}
               /\ d # c => /\ work'[d].step = work[d].step /\ work'[d].op = work[d].op
                           /\ work'[d].id = work[d].id /\ work'[d].late = work[d].late
                           /\ work'[d].ctx = work[d].ctx
                           /\ work[d].op = "create" => work'[d].raced = TRUE
                           /\ work[d].op # "create" => work'[d] = work[d]
    <2>1. CASE d = c
      BY <1>4, <2>1, SandboxCall
    <2>2. CASE d # c
      <3>1. PICK m \in S!Calls : m = work[d]
        BY <1>1
      <3>2. PICK n : n = [m EXCEPT !.raced = TRUE]
        OBVIOUS
      <3>3. /\ n \in S!Calls /\ n.step = m.step /\ n.op = m.op /\ n.id = m.id /\ n.late = m.late
            /\ n.ctx = m.ctx /\ n.raced = TRUE
        BY <3>2 DEF S!Calls
      <3>4. work'[d] = IF m.op = "create" THEN n ELSE m
        BY <1>4, <2>2, <3>1, <3>2
      <3>5. QED
        BY <2>2, <3>1, <3>3, <3>4
    <2>3. QED
      BY <2>1, <2>2
  <1>9. S!TypeOK'
    <2>1. work' \in [Clients -> S!Calls]
      BY <1>4, <1>8
    <2>2. rows' \subseteq Sandboxes
      BY <1>1, <1>4 DEF S!TypeOK
    <2>3. QED
      BY <1>1, <1>4, <2>1, <2>2 DEF S!TypeOK
  <1>10. S!RowInv(s)' /\ S!ContextInv(s)'
    BY <1>1, <1>4, <1>5 DEF S!RowInv, S!ContextInv
  <1>11. ASSUME NEW d \in Clients
         PROVE  \/ S!StepKnown(d)' /\ S!CreationAlone(d)' /\ S!LoadKnown(d)'
                \/ /\ work'[d] = work[d]
                   /\ work[d].op = "create" => work[d].id # s /\ rows' \subseteq rows
                   /\ work[d].id = s /\ s \notin Scripted /\ S!At(d, "insert") /\ ~work[d].late
                      => folder'[s] = folder[s]
    <2>1. CASE d = c
      BY <1>4, <2>1, SandboxIdle
    <2>2. CASE d # c /\ work[d].op # "create"
      BY <1>4, <1>8, <2>2
    <2>3. CASE d # c /\ work[d].op = "create"
      <3>1. S!StepKnown(d) /\ S!CreationAlone(d) /\ S!LoadKnown(d)
        BY <1>1
      <3>2. S!StepKnown(d)' /\ S!LoadKnown(d)'
        BY <1>4, <1>8, <2>3, <3>1 DEF S!StepKnown, S!LoadKnown, S!At
      <3>3. ASSUME NEW e \in Clients \ {d} PROVE work'[e].id # work[d].id
        <4>1. work[e].id # work[d].id /\ None # work[d].id
          BY <2>3, SandboxApart
        <4>2. QED
          BY <1>8, <4>1
      <3>4. S!CreationAlone(d)'
        <4>1. work[d].id \notin rows' /\ work'[d].id = work[d].id /\ work'[d].raced = TRUE
          BY <1>4, <1>5, <1>8, <2>3, <3>1 DEF S!CreationAlone
        <4>2. QED
          BY <1>4, <1>8, <2>3, <3>1, <3>3, <4>1 DEF S!CreationAlone, S!At
      <3>5. QED
        BY <3>2, <3>4
    <2>4. QED
      BY <2>1, <2>2, <2>3
  <1>12. used[s] <= used'[s]
    BY <1>1, <1>4, SandboxCall DEF S!TypeOK
  <1>13. \A r \in Sandboxes \ {s} : r \in rows' <=> r \in rows
    BY <1>4
  <1>14. S!SandboxInv'
    BY <1>4, <1>6, <1>8, <1>9, <1>10, <1>11, <1>12, <1>13, SandboxTouches
  <1>15. QED
    BY <1>2, <1>7, <1>14

\* A sandbox ends: its row goes, or it counts as wiped, and a task starts.
LEMMA SandboxEnds ==
    ASSUME S!ConstantsAssumption, S!SandboxInv, NEW s \in Sandboxes, used[s] # 0,
           \A d \in Clients : work[d].op = "create" => work[d].id # s,
           \/ UNCHANGED work
           \/ \E c \in Clients : work' = [work EXCEPT ![c] = S!NoCall],
           \/ rows' = rows \ {s} /\ wiped' = wiped
           \/ rows' = rows /\ wiped' = wiped \cup {s},
           S!StartCleanup(s), UNCHANGED <<used, folder, opened, late>>
    PROVE  S!SandboxInv'
  <1>1. /\ S!TypeOK /\ IsFiniteSet(rows) /\ work \in [Clients -> S!Calls]
        /\ \A r \in Sandboxes : S!RowInv(r) /\ S!ContextInv(r)
    BY SandboxSize DEF S!SandboxInv, S!TypeOK
  <1>2. /\ cleanup' \in [Sandboxes -> {"none", "invalidate", "remove"}]
        /\ cleanup'[s] \in {"invalidate", cleanup[s]} /\ cleanup'[s] # "none"
        /\ \A r \in Sandboxes \ {s} : cleanup'[r] = cleanup[r]
    BY <1>1 DEF S!StartCleanup, S!TypeOK
  <1>3. rows' \subseteq rows /\ s \notin rows' \ wiped' /\ IsFiniteSet(rows')
        /\ \A r \in Sandboxes \ {s} : (r \in rows' <=> r \in rows) /\ (r \in wiped' <=> r \in wiped)
    <2>1. rows' \subseteq rows /\ s \notin rows' \ wiped'
      OBVIOUS
    <2>2. QED
      BY <1>1, <2>1, FS_Subset
  <1>4. work' \in [Clients -> S!Calls] /\ \A d \in Clients : work'[d] \in {work[d], S!NoCall}
    BY <1>1, SandboxCall
  <1>5. S!TypeOK'
    <2>1. rows' \subseteq Sandboxes /\ wiped' \subseteq Sandboxes
      BY <1>1 DEF S!TypeOK
    <2>2. QED
      BY <1>1, <1>2, <1>4, <2>1 DEF S!TypeOK
  <1>6. S!RowInv(s)' /\ S!ContextInv(s)'
    BY <1>1, <1>2, <1>3 DEF S!RowInv, S!ContextInv
  <1>7. \A d \in Clients : work'[d].id \in {work[d].id, None}
    BY <1>4, SandboxCall
  <1>8. ASSUME NEW d \in Clients
        PROVE  \/ S!StepKnown(d)' /\ S!CreationAlone(d)' /\ S!LoadKnown(d)'
               \/ /\ work'[d] = work[d]
                  /\ work[d].op = "create" => work[d].id # s /\ rows' \subseteq rows
                  /\ work[d].id = s /\ s \notin Scripted /\ S!At(d, "insert") /\ ~work[d].late
                     => folder'[s] = folder[s]
    BY <1>3, <1>4, SandboxIdle
  <1>9. used[s] <= used'[s]
    BY <1>1, SandboxCall DEF S!TypeOK
  <1>10. QED
    BY <1>2, <1>3, <1>5, <1>6, <1>7, <1>8, <1>9, SandboxTouches

LEMMA SandboxDeletes ==
    ASSUME S!ConstantsAssumption, S!SandboxInv, NEW c \in Clients,
           \/ S!DeleteOwned(c) \/ S!Unregister(c)
           \/ \E s \in Sandboxes : S!ScriptDelete(c, s) \/ S!ScriptUpdate(c, s)
    PROVE  S!SandboxInv'
  <1>1. /\ work[c] \in S!Calls
        /\ \A d \in Clients : S!StepKnown(d) /\ S!CreationAlone(d)
        /\ \A r \in Sandboxes : S!RowInv(r)
    BY DEF S!SandboxInv, S!TypeOK
  <1>2. CASE S!DeleteOwned(c) \/ S!Unregister(c)
    <2>1. /\ work[c].step \in {"owned", "unregister"}
          /\ S!Return(c) /\ S!StartCleanup(work[c].id)
          /\ UNCHANGED <<used, folder, opened, late>>
          /\ \/ rows' = rows \ {work[c].id} /\ wiped' = wiped
             \/ rows' = rows /\ wiped' = wiped \cup {work[c].id}
      BY <1>2 DEF S!DeleteOwned, S!Unregister, S!At, S!files, S!context, S!Unregistered
    <2>2. PICK s \in Sandboxes : s = work[c].id
      BY <1>1, <2>1 DEF S!StepKnown, S!At
    <2>3. used[s] # 0 /\ work[c].op # "create"
      BY <1>1, <2>1, <2>2 DEF S!StepKnown, S!At
    <2>4. \A d \in Clients : work[d].op = "create" => work[d].id # s
      BY <1>1, <2>2, <2>3 DEF S!CreationAlone
    <2>5. work' = [work EXCEPT ![c] = S!NoCall]
      BY <2>1 DEF S!Return
    <2>6. QED
      BY <2>1, <2>2, <2>3, <2>4, <2>5, SandboxEnds
  <1>3. ASSUME NEW s \in Sandboxes, S!ScriptDelete(c, s)
        PROVE  S!SandboxInv'
    <2>1. /\ used[s] # 0 /\ \A d \in Clients : work[d].op = "create" => work[d].id # s
          /\ rows' = rows \ {s} /\ wiped' = wiped /\ S!StartCleanup(s)
          /\ UNCHANGED <<used, folder, opened, late, work>>
      BY <1>3 DEF S!ScriptDelete, S!Known, S!Unregistered, S!files, S!context
    <2>2. QED
      BY <2>1, SandboxEnds
  <1>4. ASSUME NEW s \in Sandboxes, S!ScriptUpdate(c, s)
        PROVE  S!SandboxInv'
    <2>1. /\ s \in rows /\ rows' = rows /\ wiped' = wiped \cup {s} /\ S!StartCleanup(s)
          /\ UNCHANGED <<used, folder, opened, late, work>>
      BY <1>4 DEF S!ScriptUpdate, S!files, S!context
    <2>2. used[s] # 0 /\ \A d \in Clients : work[d].op = "create" => work[d].id # s
      BY <1>1, <2>1 DEF S!RowInv, S!CreationAlone
    <2>3. QED
      BY <2>1, <2>2, SandboxEnds
  <1>5. QED
    BY <1>2, <1>3, <1>4

\* The task invalidates the context, then removes the files; the calls that are
\* under way are marked.
LEMMA SandboxCleansUp ==
    ASSUME S!ConstantsAssumption, S!SandboxInv, NEW s \in Sandboxes,
           S!Invalidate(s) \/ S!Remove(s)
    PROVE  S!SandboxInv'
  <1>1. /\ S!TypeOK /\ IsFiniteSet(rows) /\ work \in [Clients -> S!Calls]
        /\ \A d \in Clients : S!StepKnown(d) /\ S!CreationAlone(d) /\ S!LoadKnown(d)
        /\ S!RowInv(s) /\ S!ContextInv(s)
    BY SandboxSize DEF S!SandboxInv, S!TypeOK
  <1>2. /\ used \in [Sandboxes -> 0..MaxDirs] /\ folder \in [Sandboxes -> 0..MaxDirs]
        /\ opened \in [Sandboxes -> 0..MaxDirs] /\ late \in [Sandboxes -> BOOLEAN]
        /\ cleanup \in [Sandboxes -> {"none", "invalidate", "remove"}]
        /\ MaxDirs \in Nat
    BY <1>1, SandboxCall DEF S!TypeOK
  <1>3. /\ cleanup[s] # "none" /\ work' = S!Marked(s) /\ UNCHANGED <<rows, used, wiped>>
        /\ \/ /\ cleanup' = [cleanup EXCEPT ![s] = "remove"] /\ folder' = folder
              /\ opened' = [opened EXCEPT ![s] = 0] /\ late' = [late EXCEPT ![s] = FALSE]
           \/ /\ cleanup' = [cleanup EXCEPT ![s] = "none"] /\ cleanup[s] = "remove"
              /\ folder' = [folder EXCEPT ![s] = 0] /\ opened' = opened /\ late' = late
    BY DEF S!Invalidate, S!Remove, S!files, S!context, S!Invalidated
  <1>4. /\ folder' \in [Sandboxes -> 0..MaxDirs] /\ opened' \in [Sandboxes -> 0..MaxDirs]
        /\ late' \in [Sandboxes -> BOOLEAN]
        /\ cleanup' \in [Sandboxes -> {"none", "invalidate", "remove"}]
        /\ \A r \in Sandboxes \ {s} :
              /\ folder'[r] = folder[r] /\ opened'[r] = opened[r] /\ late'[r] = late[r]
              /\ cleanup'[r] = cleanup[r]
        /\ folder'[s] \in {0, folder[s]} /\ opened'[s] \in {0, opened[s]}
        /\ \/ cleanup'[s] = "remove" /\ opened'[s] = 0 /\ folder'[s] = folder[s]
           \/ cleanup'[s] = "none" /\ cleanup[s] = "remove" /\ opened'[s] = opened[s]
              /\ late'[s] = late[s]
    <2>1. 0 \in 0..MaxDirs
      BY <1>2
    <2>2. CASE /\ cleanup' = [cleanup EXCEPT ![s] = "remove"] /\ folder' = folder
               /\ opened' = [opened EXCEPT ![s] = 0] /\ late' = [late EXCEPT ![s] = FALSE]
      BY <1>2, <2>1, <2>2
    <2>3. CASE /\ cleanup' = [cleanup EXCEPT ![s] = "none"] /\ cleanup[s] = "remove"
               /\ folder' = [folder EXCEPT ![s] = 0] /\ opened' = opened /\ late' = late
      BY <1>2, <2>1, <2>3
    <2>4. QED
      BY <1>3, <2>2, <2>3
  <1>5. ASSUME NEW d \in Clients
        PROVE  /\ work'[d] \in S!Calls /\ work'[d].id = work[d].id
               /\ work[d].id # s => work'[d] = work[d]
               /\ work[d].id = s => /\ work'[d].step = work[d].step /\ work'[d].op = work[d].op
                                    /\ work'[d].ctx = work[d].ctx /\ work'[d].late = TRUE
    <2>1. PICK m \in S!Calls : m = work[d]
      BY <1>1
    <2>2. PICK n : n = [m EXCEPT !.late = TRUE]
      OBVIOUS
    <2>3. n \in S!Calls /\ n.step = m.step /\ n.op = m.op /\ n.id = m.id /\ n.ctx = m.ctx
          /\ n.late = TRUE
      BY <2>2 DEF S!Calls
    <2>4. work'[d] = IF m.id = s THEN n ELSE m
      BY <1>3, <2>1, <2>2 DEF S!Marked
    <2>5. QED
      BY <2>1, <2>3, <2>4
  <1>6. S!TypeOK'
    <2>1. work' \in [Clients -> S!Calls]
      BY <1>3, <1>5 DEF S!Marked
    <2>2. ASSUME NEW r \in Sandboxes PROVE folder'[r] <= used'[r] /\ opened'[r] <= used'[r]
      <3>1. /\ folder[r] <= used[r] /\ opened[r] <= used[r] /\ used[r] \in Nat
            /\ folder'[r] \in {0, folder[r]} /\ opened'[r] \in {0, opened[r]}
            /\ used'[r] = used[r]
        BY <1>1, <1>2, <1>3, <1>4 DEF S!TypeOK
      <3>2. QED
        BY <3>1
    <2>3. QED
      BY <1>1, <1>2, <1>3, <1>4, <2>1, <2>2 DEF S!TypeOK
  <1>7. S!RowInv(s)' /\ S!ContextInv(s)'
    BY <1>1, <1>3, <1>4 DEF S!RowInv, S!ContextInv
  <1>8. \A d \in Clients : work[d].op = "create" => work[d].id # s
    BY <1>1, <1>3 DEF S!CreationAlone
  <1>9. ASSUME NEW d \in Clients
        PROVE  \/ S!StepKnown(d)' /\ S!CreationAlone(d)' /\ S!LoadKnown(d)'
               \/ /\ work'[d] = work[d]
                  /\ work[d].op = "create" => work[d].id # s /\ rows' \subseteq rows
                  /\ work[d].id = s /\ s \notin Scripted /\ S!At(d, "insert") /\ ~work[d].late
                     => folder'[s] = folder[s]
    <2>1. CASE work[d].id # s
      BY <1>3, <1>5, <1>8, <2>1
    <2>2. CASE work[d].id = s
      <3>1. S!StepKnown(d) /\ S!LoadKnown(d) /\ work[d].op # "create"
        BY <1>1, <1>8, <2>2
      <3>2. S!StepKnown(d)' /\ S!LoadKnown(d)' /\ S!CreationAlone(d)'
        BY <1>3, <1>5, <2>2, <3>1 DEF S!StepKnown, S!LoadKnown, S!CreationAlone, S!At
      <3>3. QED
        BY <3>2
    <2>3. QED
      BY <2>1, <2>2
  <1>10. used[s] <= used'[s]
    BY <1>2, <1>3
  <1>11. QED
    BY <1>1, <1>3, <1>4, <1>5, <1>6, <1>7, <1>9, <1>10, SandboxTouches

\* A context is evicted.
LEMMA SandboxForgets ==
    ASSUME S!ConstantsAssumption, S!SandboxInv, NEW s \in Sandboxes, S!Evict(s)
    PROVE  S!SandboxInv'
  <1>1. /\ S!TypeOK /\ IsFiniteSet(rows)
        /\ \A d \in Clients : S!StepKnown(d) /\ S!CreationAlone(d) /\ S!LoadKnown(d)
        /\ \A r \in Sandboxes : S!RowInv(r) /\ S!ContextInv(r)
    BY SandboxSize DEF S!SandboxInv
  <1>2. /\ opened \in [Sandboxes -> 0..MaxDirs] /\ late \in [Sandboxes -> BOOLEAN]
        /\ used \in [Sandboxes -> 0..MaxDirs] /\ MaxDirs \in Nat
    BY <1>1, SandboxCall DEF S!TypeOK
  <1>3. /\ opened' = [opened EXCEPT ![s] = 0] /\ late' = [late EXCEPT ![s] = FALSE]
        /\ UNCHANGED <<rows, used, folder, cleanup, work, wiped>>
    BY DEF S!Evict, S!files
  <1>4. /\ opened' \in [Sandboxes -> 0..MaxDirs] /\ late' \in [Sandboxes -> BOOLEAN]
        /\ opened'[s] = 0
        /\ \A r \in Sandboxes \ {s} : opened'[r] = opened[r] /\ late'[r] = late[r]
    BY <1>2, <1>3
  <1>5. \A r \in Sandboxes : opened'[r] <= used'[r] /\ folder'[r] <= used'[r]
    BY <1>1, <1>2, <1>3, <1>4 DEF S!TypeOK
  <1>6. S!TypeOK'
    BY <1>1, <1>3, <1>4, <1>5 DEF S!TypeOK
  <1>7. \A r \in Sandboxes : S!RowInv(r)' /\ S!ContextInv(r)'
    <2>1. ASSUME NEW r \in Sandboxes PROVE S!RowInv(r)' /\ S!ContextInv(r)'
      <3>1. S!RowInv(r) /\ S!ContextInv(r)
        BY <1>1
      <3>2. opened'[r] = 0 \/ (opened'[r] = opened[r] /\ late'[r] = late[r])
        BY <1>4
      <3>3. QED
        BY <1>3, <3>1, <3>2 DEF S!RowInv, S!ContextInv
    <2>2. QED
      BY <2>1
  <1>8. ASSUME NEW d \in Clients
        PROVE  S!StepKnown(d)' /\ S!CreationAlone(d)' /\ S!LoadKnown(d)'
    <2>1. S!StepKnown(d) /\ S!CreationAlone(d) /\ S!LoadKnown(d)
      BY <1>1
    <2>2. S!StepKnown(d)' /\ S!LoadKnown(d)'
      BY <1>3, <2>1 DEF S!StepKnown, S!LoadKnown, S!At
    <2>3. S!CreationAlone(d)'
      <3>1. ASSUME work[d].op = "create", opened[work[d].id] = 0
            PROVE  opened'[work[d].id] = 0
        <4>1. work[d].id \in Sandboxes
          BY <2>1, <3>1 DEF S!StepKnown, S!At
        <4>2. QED
          BY <1>4, <3>1, <4>1
      <3>2. QED
        BY <1>3, <2>1, <3>1, SandboxSize DEF S!CreationAlone, S!At
    <2>4. QED
      BY <2>2, <2>3
  <1>9. QED
    BY <1>1, <1>3, <1>6, <1>7, <1>8, SandboxSize DEF S!SandboxInv

LEMMA SandboxStart == S!ConstantsAssumption /\ S!Init => S!SandboxInv
  <1> SUFFICES ASSUME S!ConstantsAssumption, S!Init PROVE S!SandboxInv
    OBVIOUS
  <1>1. 0 \in 0..MaxDirs
    BY SandboxCall
  <1>2. S!TypeOK
    BY <1>1, SandboxCall DEF S!Init, S!TypeOK
  <1>3. IsFiniteSet(rows)
    BY FS_EmptySet DEF S!Init
  <1>4. ASSUME NEW d \in Clients
        PROVE  S!StepKnown(d) /\ S!CreationAlone(d) /\ S!LoadKnown(d)
    <2>1. work[d].step = "idle" /\ work[d].op = "get" /\ work[d].id = None
      BY SandboxCall DEF S!Init
    <2>2. QED
      BY <2>1 DEF S!StepKnown, S!CreationAlone, S!LoadKnown, S!At
  <1>5. \A s \in Sandboxes : S!RowInv(s) /\ S!ContextInv(s)
    BY DEF S!Init, S!RowInv, S!ContextInv
  <1>6. QED
    BY <1>2, <1>3, <1>4, <1>5, SandboxSize DEF S!SandboxInv

\* Every step keeps the invariant; one that gets a tenant above the limit is
\* the registration of a creation that counted too early.
LEMMA SandboxStep ==
    ASSUME S!ConstantsAssumption, S!SandboxInv, S!Next
    PROVE  S!SandboxInv' /\ S!WithinLimitStep
  <1>1. ASSUME NEW c \in Clients, NEW s \in Sandboxes, S!Api(c, s) \/ S!ScriptCreate(c, s)
        PROVE  S!SandboxInv' /\ rows' = rows
    <2>1. CASE S!Create(c, s)
      BY <2>1, SandboxBegins, SandboxSize DEF S!Create, S!BelowLimit, S!files, S!context
    <2>2. CASE S!Request(c, s)
      BY <2>2, SandboxBegins DEF S!Request, S!files, S!context
    <2>3. CASE S!Own(c, s, "delete") \/ S!Own(c, s, "publish")
      BY <2>3, SandboxBegins DEF S!Own, S!files, S!context
    <2>4. CASE S!ScriptCreate(c, s)
      BY <2>4, SandboxBegins DEF S!ScriptCreate, S!files, S!context
    <2>5. QED
      BY <1>1, <2>1, <2>2, <2>3, <2>4 DEF S!Api
  <1>2. ASSUME NEW c \in Clients,
               S!Make(c) \/ S!Get(c) \/ S!PublishOwned(c) \/ S!Insert(c)
        PROVE  S!SandboxInv' /\ rows' = rows
    <2>1. rows' = rows
      BY <1>2 DEF S!Make, S!Get, S!PublishOwned, S!Insert
    <2>2. QED
      BY <1>2, <2>1, SandboxMakes, SandboxGets, SandboxInserts
  <1>3. ASSUME NEW c \in Clients,
               \/ S!DeleteOwned(c) \/ S!Unregister(c)
               \/ \E s \in Sandboxes : S!ScriptDelete(c, s) \/ S!ScriptUpdate(c, s)
        PROVE  S!SandboxInv' /\ rows' \subseteq rows
    <2>1. rows' \subseteq rows
      BY <1>3 DEF S!DeleteOwned, S!Unregister, S!ScriptDelete, S!ScriptUpdate, S!Unregistered
    <2>2. QED
      BY <1>3, <2>1, SandboxDeletes
  <1>4. ASSUME NEW s \in Sandboxes, S!Task(s) \/ S!Evict(s)
        PROVE  S!SandboxInv' /\ rows' = rows
    <2>1. rows' = rows
      BY <1>4 DEF S!Task, S!Invalidate, S!Remove, S!Evict
    <2>2. QED
      BY <1>4, <2>1, SandboxCleansUp, SandboxForgets DEF S!Task
  <1>5. ASSUME NEW c \in Clients, S!Register(c)
        PROVE  S!SandboxInv' /\ S!WithinLimitStep
    <2>1. /\ S!SandboxInv' /\ work[c].step = "register"
          /\ ~work[c].raced => Cardinality(rows') <= Limit
      BY <1>5, SandboxRegisters
    <2>2. IsFiniteSet(rows') /\ Cardinality(rows') \in Nat /\ Limit \in Nat
      BY <2>1, SandboxSize, SandboxCall, FS_CardinalityType DEF S!SandboxInv
    <2>3. Cardinality(rows') > Limit => work[c].raced
      BY <2>1, <2>2
    <2>4. S!WithinLimitStep
      BY <2>1, <2>3, SandboxSize DEF S!WithinLimitStep, S!At
    <2>5. QED
      BY <2>1, <2>4
  <1>6. rows' \subseteq rows => S!WithinLimitStep
    BY DEF S!WithinLimitStep
  <1>7. QED
    BY <1>1, <1>2, <1>3, <1>4, <1>5, <1>6 DEF S!Next, S!Script, S!Handler

LEMMA SandboxStays == S!SandboxInv /\ UNCHANGED sandboxes => S!SandboxInv'
  BY SandboxSize
     DEF sandboxes, S!SandboxInv, S!TypeOK, S!StepKnown, S!CreationAlone, S!LoadKnown,
         S!RowInv, S!ContextInv, S!At

LEMMA SandboxHolds == S!SandboxInv => S!TypeOK /\ S!RegisteredHasFiles /\ S!ContextCurrent
  BY DEF S!SandboxInv, S!TypeOK, S!RowInv, S!ContextInv, S!RegisteredHasFiles, S!ContextCurrent

\* SandboxesHold: what is listed can be opened, requests write to the files
\* that exist, for any number of clients and sandboxes.
THEOREM SandboxesHold == MCSpec => []SandboxesSafe
  <1> DEFINE Inv == part = "sandboxes" => S!SandboxInv
  <1>1. MCInit => Inv
    BY PartsAssumption, SandboxStart DEF MCInit
  <1>2. Inv /\ [MCNext]_mcVars => Inv'
    <2> SUFFICES ASSUME Inv, [MCNext]_mcVars, part' = "sandboxes" PROVE S!SandboxInv'
      OBVIOUS
    <2>1. CASE part = "sandboxes" /\ S!Next
      BY <2>1, PartsAssumption, SandboxStep
    <2>2. CASE part = "sandboxes" /\ UNCHANGED sandboxes
      BY <2>2, SandboxStays
    <2>3. part = "sandboxes" /\ (S!Next \/ UNCHANGED sandboxes)
      BY DEF MCNext, mcVars
    <2>4. QED
      BY <2>1, <2>2, <2>3
  <1>3. Inv => SandboxesSafe
    BY SandboxHolds DEF SandboxesSafe
  <1>4. QED
    BY <1>1, <1>2, <1>3, PTL DEF MCSpec

\* StepsHold: no deleted tenant comes back by itself, and creations of
\* sandboxes one after the other stay within the limit.
THEOREM StepsHold == MCSpec => StepsSafe
  <1> DEFINE Inv == /\ part = "tenants" => T!TenantInv
                    /\ part = "sandboxes" => S!SandboxInv
             Step == /\ part = "tenants" => T!NoRevivalStep
                     /\ part = "sandboxes" => S!WithinLimitStep
  <1>1. MCInit => Inv
    BY PartsAssumption, TenantStart, SandboxStart DEF MCInit
  <1>2. Inv /\ [MCNext]_mcVars => Inv' /\ [Step]_mcVars
    <2> SUFFICES ASSUME Inv, [MCNext]_mcVars PROVE Inv' /\ [Step]_mcVars
      OBVIOUS
    <2>1. CASE part = "tenants" /\ T!Next /\ part' = part
      BY <2>1, PartsAssumption, TenantStep, TenantNoRevival
    <2>2. CASE part = "sandboxes" /\ S!Next /\ part' = part
      BY <2>2, PartsAssumption, SandboxStep
    <2>3. CASE part' = part /\ part \notin {"tenants", "sandboxes"}
      BY <2>3
    <2>4. CASE UNCHANGED mcVars
      <3>1. part' = part /\ UNCHANGED tenants /\ UNCHANGED sandboxes
        BY <2>4 DEF mcVars
      <3>2. Inv'
        BY <3>1, TenantStays, SandboxStays
      <3>3. QED
        BY <2>4, <3>2
    <2>5. QED
      BY <2>1, <2>2, <2>3, <2>4 DEF MCNext
  <1>3. QED
    BY <1>1, <1>2, PTL DEF MCSpec, StepsSafe

-----------------------------------------------------------------------------
(* The backups.                                                            *)

LEMMA BackupConstants ==
    ASSUME B!ConstantsAssumption
    PROVE  /\ \A x \in SUBSET B!AllCommits : x # None
           /\ \A x \in B!Copies : x # None
           /\ MaxCommits \in Nat /\ MaxSeconds \in Nat /\ 0 \in B!Seconds
  BY DEF B!ConstantsAssumption, B!Seconds

\* The files of a scope change, or the connections move from one to another:
\* what is read stays what it should be.
LEMMA BackupFilesStep ==
    ASSUME B!ConstantsAssumption, B!BackupInv, NEW s \in Databases,
           \/ B!Commit(s) \/ B!Evict(s)
           \/ (\E n \in wal[s] : B!Checkpoint(s, n))
           \/ (\E a \in archives[s] : B!Restore(s, a))
    PROVE  B!BackupInv'
  <1>1. /\ B!TypeOK /\ B!OwnArchive /\ B!Faithful
        /\ \A t \in B!Seconds : B!SecondInv(t)
        /\ \A j \in Clients : B!JobInv(j)
    BY DEF B!BackupInv
  <1>2. /\ commits \in [Databases -> 0..MaxCommits]
        /\ base \in [Databases -> SUBSET B!AllCommits] /\ wal \in [Databases -> SUBSET B!AllCommits]
        /\ logical \in [Databases -> SUBSET B!AllCommits]
        /\ old \in [Databases -> {None} \cup SUBSET B!AllCommits]
    BY <1>1 DEF B!TypeOK
  <1>3. /\ UNCHANGED <<second, staging, temp, archives, task, met>>
    BY DEF B!Commit, B!Evict, B!Checkpoint, B!Restore, B!backups
  <1> DEFINE Goal ==
        /\ stale' = stale /\ commits' \in [Databases -> 0..MaxCommits]
        /\ base' \in [Databases -> SUBSET B!AllCommits] /\ wal' \in [Databases -> SUBSET B!AllCommits]
        /\ logical' \in [Databases -> SUBSET B!AllCommits]
        /\ old' \in [Databases -> {None} \cup SUBSET B!AllCommits]
        /\ B!Faithful'
  <1>4. Goal
    <2>1. CASE B!Commit(s)
      <3>1. PICK n \in B!AllCommits : n = <<s, commits[s] + 1>>
        <4>1. commits[s] \in 0..MaxCommits /\ commits[s] < MaxCommits /\ MaxCommits \in Nat
          BY <1>2, <2>1, BackupConstants DEF B!Commit
        <4>2. commits[s] + 1 \in 1..MaxCommits
          BY <4>1
        <4>3. QED
          BY <4>2 DEF B!AllCommits
      <3>2. PICK kept \in {wal[s]} \cup (IF wal[s] \subseteq B!Opened(s) THEN {{}} ELSE {}) :
                wal' = [wal EXCEPT ![s] = kept \cup {n}]
        BY <2>1, <3>1 DEF B!Commit
      <3>3. /\ commits' \in [Databases -> 0..MaxCommits] /\ UNCHANGED <<base, old, stale>>
            /\ logical' = [logical EXCEPT ![s] = logical[s] \cup {n}]
        BY <1>2, <2>1, <3>1, BackupConstants DEF B!Commit
      <3>4. /\ wal' \in [Databases -> SUBSET B!AllCommits]
            /\ logical' \in [Databases -> SUBSET B!AllCommits]
        BY <1>2, <3>1, <3>2, <3>3
      <3>5. \A r \in Databases : B!Opened(r)' = B!Opened(r)
        BY <3>3 DEF B!Opened
      <3>6. B!Opened(s) \cup wal'[s] = (B!Opened(s) \cup wal[s]) \cup {n}
        BY <1>2, <3>2
      <3>7. ASSUME NEW r \in Databases \ stale PROVE B!Opened(r)' \cup wal'[r] = logical'[r]
        <4>1. CASE r = s
          BY <1>1, <1>2, <3>3, <3>5, <3>6, <4>1 DEF B!Faithful
        <4>2. CASE r # s
          BY <1>1, <1>2, <3>2, <3>3, <3>5, <4>2 DEF B!Faithful
        <4>3. QED
          BY <4>1, <4>2
      <3>8. QED
        BY <1>2, <3>3, <3>4, <3>7 DEF B!Faithful
    <2>2. ASSUME NEW n \in wal[s], B!Checkpoint(s, n)
          PROVE  Goal
      <3>1. /\ UNCHANGED <<commits, wal, logical, stale>> /\ {n} \subseteq B!AllCommits
            /\ n \in wal[s]
            /\ \/ /\ old[s] = None /\ base' = [base EXCEPT ![s] = base[s] \cup {n}] /\ old' = old
               \/ /\ old[s] # None /\ old' = [old EXCEPT ![s] = old[s] \cup {n}] /\ base' = base
        BY <1>2, <2>2 DEF B!Checkpoint
      <3>2. CASE old[s] = None
        <4>1. base' = [base EXCEPT ![s] = base[s] \cup {n}] /\ old' = old
          BY <3>1, <3>2
        <4>2. base' \in [Databases -> SUBSET B!AllCommits]
          BY <1>2, <3>1, <4>1
        <4>3. ASSUME NEW r \in Databases
              PROVE  B!Opened(r)' \cup wal[r] = B!Opened(r) \cup wal[r]
          BY <1>2, <3>1, <3>2, <4>1 DEF B!Opened
        <4>4. QED
          BY <1>1, <1>2, <3>1, <4>1, <4>2, <4>3 DEF B!Faithful
      <3>3. CASE old[s] # None
        <4>1. old' = [old EXCEPT ![s] = old[s] \cup {n}] /\ base' = base
          BY <3>1, <3>3
        <4>2. old[s] \cup {n} \in SUBSET B!AllCommits
          BY <1>2, <3>1, <3>3
        <4>3. old' \in [Databases -> {None} \cup SUBSET B!AllCommits] /\ old'[s] # None
          BY <1>2, <4>1, <4>2, BackupConstants
        <4>4. ASSUME NEW r \in Databases
              PROVE  B!Opened(r)' \cup wal[r] = B!Opened(r) \cup wal[r]
          BY <1>2, <3>1, <3>3, <4>1, <4>3 DEF B!Opened
        <4>5. QED
          BY <1>1, <1>2, <3>1, <4>1, <4>3, <4>4 DEF B!Faithful
      <3>4. QED
        BY <3>2, <3>3
    <2>3. CASE B!Evict(s)
      <3>1. /\ old' = [old EXCEPT ![s] = None] /\ wal' = [wal EXCEPT ![s] = {}]
            /\ logical' = [logical EXCEPT ![s] = base[s]] /\ UNCHANGED <<commits, base, stale>>
        BY <2>3 DEF B!Evict
      <3>2. /\ wal' \in [Databases -> SUBSET B!AllCommits]
            /\ logical' \in [Databases -> SUBSET B!AllCommits]
            /\ old' \in [Databases -> {None} \cup SUBSET B!AllCommits]
        BY <1>2, <3>1
      <3>3. ASSUME NEW r \in Databases \ stale PROVE B!Opened(r)' \cup wal'[r] = logical'[r]
        <4>1. CASE r = s
          BY <1>2, <3>1, <4>1 DEF B!Opened
        <4>2. CASE r # s
          BY <1>1, <1>2, <3>1, <4>2 DEF B!Faithful, B!Opened
        <4>3. QED
          BY <4>1, <4>2
      <3>4. QED
        BY <1>2, <3>1, <3>2, <3>3 DEF B!Faithful
    <2>4. ASSUME NEW a \in archives[s], B!Restore(s, a)
          PROVE  Goal
      <3>1. /\ old[s] = None /\ old' = [old EXCEPT ![s] = base[s]]
            /\ base' = [base EXCEPT ![s] = a.holds.db] /\ a.holds.db # None
            /\ UNCHANGED <<commits, wal, logical, stale>>
        BY <2>4 DEF B!Restore, B!Renamed
      <3>2. a.holds.db \in SUBSET B!AllCommits
        <4>1. a \in [holds : B!Copies, met : BOOLEAN]
          BY <1>1 DEF B!TypeOK
        <4>2. QED
          BY <3>1, <4>1 DEF B!Copies
      <3>3. /\ base' \in [Databases -> SUBSET B!AllCommits] /\ old'[s] # None
            /\ old' \in [Databases -> {None} \cup SUBSET B!AllCommits]
        BY <1>2, <3>1, <3>2, BackupConstants
      <3>4. \A r \in Databases : B!Opened(r)' = B!Opened(r)
        BY <1>2, <3>1, <3>3 DEF B!Opened
      <3>5. QED
        BY <1>1, <1>2, <3>1, <3>3, <3>4 DEF B!Faithful
    <2>5. QED
      BY <2>1, <2>2, <2>3, <2>4
  <1>5. B!TypeOK'
    BY <1>1, <1>3, <1>4 DEF B!TypeOK
  <1>6. B!OwnArchive' /\ (\A t \in B!Seconds : B!SecondInv(t)') /\ \A j \in Clients : B!JobInv(j)'
    BY <1>1, <1>3 DEF B!OwnArchive, B!SecondInv, B!JobInv, B!Active
  <1>7. QED
    BY <1>4, <1>5, <1>6 DEF B!BackupInv

\* The job of one backup moves, in a second of its own or in one where backups
\* met: what the others staged and archived stays what it was.
LEMMA BackupMoves ==
    ASSUME B!ConstantsAssumption, B!BackupInv, NEW j \in Clients, B!Active(j),
           NEW k, k \in {"tar", "move", "clean", "done"}, B!Step(j, k),
           NEW t \in B!Seconds, t = task[j].at,
           UNCHANGED <<second, commits, base, wal, old, met, logical, stale>>,
           {staging, temp}' \subseteq [B!Seconds -> {None} \cup B!Copies],
           archives' \in [Databases -> SUBSET [holds : B!Copies, met : BOOLEAN]],
           \A u \in B!Seconds \ {t} : staging'[u] = staging[u] /\ temp'[u] = temp[u],
           B!OwnArchive', B!JobInv(j)',
           t \notin met /\ k = "done" => staging'[t] = None /\ temp'[t] = None
    PROVE  B!BackupInv'
  <1>1. /\ B!TypeOK /\ B!Faithful
        /\ \A u \in B!Seconds : B!SecondInv(u)
        /\ \A i \in Clients : B!JobInv(i)
    BY DEF B!BackupInv
  <1> DEFINE Tasks == [step : {"idle", "copy", "tar", "move", "clean", "done"},
                       scope : Databases \cup {None}, at : B!Seconds]
  <1>2. task \in [Clients -> Tasks] /\ task' = [task EXCEPT ![j].step = k]
    BY <1>1 DEF B!TypeOK, B!Step
  <1>3. /\ task' \in [Clients -> Tasks] /\ task'[j].step = k /\ task'[j].at = t
        /\ task'[j].scope = task[j].scope
        /\ \A i \in Clients \ {j} : task'[i] = task[i]
    BY <1>2
  <1> HIDE DEF Tasks
  <1>4. B!TypeOK'
    BY <1>1, <1>3 DEF B!TypeOK, Tasks
  <1>5. B!Faithful'
    BY <1>1 DEF B!Faithful, B!Opened
  <1>6. \A i \in Clients : (B!Active(i)' => B!Active(i)) /\ task'[i].at = task[i].at
    BY <1>3 DEF B!Active
  <1>7. \A i \in Clients \ {j} : B!Active(i)' <=> B!Active(i)
    BY <1>3 DEF B!Active
  <1>8. ASSUME NEW u \in B!Seconds
        PROVE  B!SecondInv(u)'
    <2>1. B!SecondInv(u)
      BY <1>1
    <2>2. CASE u # t
      <3>1. (\A i \in Clients : B!Active(i)' => task'[i].at # u)
              => \A i \in Clients : B!Active(i) => task[i].at # u
        BY <1>6, <1>7, <2>2
      <3>2. QED
        BY <1>6, <2>1, <2>2, <3>1 DEF B!SecondInv
    <2>3. CASE u = t
      <3>1. (\A i \in Clients : B!Active(i)' => task'[i].at # t) => k = "done"
        BY <1>3 DEF B!Active
      <3>2. QED
        BY <1>6, <2>1, <2>3, <3>1 DEF B!SecondInv
    <2>4. QED
      BY <2>2, <2>3
  <1>9. ASSUME NEW i \in Clients
        PROVE  B!JobInv(i)'
    <2>1. CASE i = j
      BY <2>1
    <2>2. CASE i # j
      <3>1. B!JobInv(i) /\ task'[i] = task[i] /\ task[i].at \in B!Seconds
        BY <1>1, <1>2, <1>3, <2>2 DEF Tasks
      <3>2. task[i].at = t /\ B!Active(i) => t \in met
        BY <1>1, <2>2 DEF B!SecondInv
      <3>3. CASE B!Active(i) /\ task[i].at # t
        BY <3>1, <3>3 DEF B!JobInv, B!Active
      <3>4. CASE B!Active(i) /\ task[i].at = t
        BY <3>1, <3>2, <3>4 DEF B!JobInv, B!Active
      <3>5. CASE ~B!Active(i)
        BY <3>1, <3>5 DEF B!JobInv, B!Active
      <3>6. QED
        BY <3>3, <3>4, <3>5
    <2>3. QED
      BY <2>1, <2>2
  <1>10. QED
    BY <1>4, <1>5, <1>8, <1>9 DEF B!BackupInv

\* One that begins in a second in which no other is under way finds nothing
\* under its names.
LEMMA BackupBegins ==
    ASSUME B!ConstantsAssumption, B!BackupInv, NEW j \in Clients, NEW s \in Databases,
           NEW scheduled \in BOOLEAN, B!Begin(j, s, scheduled)
    PROVE  B!BackupInv'
  <1>1. /\ B!TypeOK /\ B!OwnArchive /\ B!Faithful
        /\ \A u \in B!Seconds : B!SecondInv(u)
        /\ \A i \in Clients : B!JobInv(i)
    BY DEF B!BackupInv
  <1> DEFINE Tasks == [step : {"idle", "copy", "tar", "move", "clean", "done"},
                       scope : Databases \cup {None}, at : B!Seconds]
             k == [step |-> "copy", scope |-> s, at |-> second]
             fresh == [db |-> None, owner |-> None, uploads |-> {}]
  <1>2. /\ task \in [Clients -> Tasks] /\ second \in B!Seconds
        /\ staging \in [B!Seconds -> {None} \cup B!Copies]
        /\ temp \in [B!Seconds -> {None} \cup B!Copies] /\ met \subseteq B!Seconds
    BY <1>1 DEF B!TypeOK
  <1>3. /\ task' = [task EXCEPT ![j] = k] /\ task[j] = B!Idle
        /\ staging' = [staging EXCEPT ![second] = IF staging[second] = None THEN fresh
                                                                           ELSE staging[second]]
        /\ UNCHANGED <<second, commits, base, wal, old, temp, archives, logical, stale>>
    BY DEF B!Begin, B!NameOf, B!files
  <1>4. met' = met \/ met' = met \cup {second}
    BY DEF B!Begin
  <1>5. (\E i \in Clients \ {j} : B!Active(i) /\ task[i].at = second) => second \in met'
    BY DEF B!Begin, B!Active
  <1>6. k \in Tasks /\ k.step = "copy" /\ k.scope = s /\ k.at = second /\ fresh \in B!Copies
    BY <1>2 DEF B!Copies
  <1> HIDE DEF k, Tasks
  <1>7. /\ task' \in [Clients -> Tasks] /\ task'[j] = k
        /\ \A i \in Clients \ {j} : task'[i] = task[i]
    BY <1>2, <1>3, <1>6
  <1>8. ~B!Active(j) /\ B!Active(j)' /\ \A i \in Clients \ {j} : B!Active(i)' <=> B!Active(i)
    BY <1>3, <1>6, <1>7 DEF B!Active, B!Idle
  <1>9. /\ staging' \in [B!Seconds -> {None} \cup B!Copies]
        /\ \A u \in B!Seconds \ {second} : staging'[u] = staging[u]
    BY <1>2, <1>3, <1>6
  <1>10. B!TypeOK'
    BY <1>1, <1>2, <1>3, <1>4, <1>7, <1>9 DEF B!TypeOK, Tasks
  <1>11. B!Faithful' /\ B!OwnArchive'
    BY <1>1, <1>3 DEF B!Faithful, B!Opened, B!OwnArchive
  <1>12. second \notin met' =>
            /\ staging'[second] # None /\ staging'[second].uploads = {} /\ temp'[second] = None
            /\ \A i \in Clients \ {j} : B!Active(i) => task[i].at # second
    <2>1. SUFFICES ASSUME second \notin met'
                   PROVE  /\ staging'[second] = fresh /\ temp'[second] = None
                          /\ \A i \in Clients \ {j} : B!Active(i) => task[i].at # second
      BY <1>6, BackupConstants
    <2>2. \A i \in Clients : B!Active(i) => task[i].at # second
      BY <1>5, <1>8, <2>1
    <2>3. second <= second /\ second \notin met
      BY <1>2, <1>4, <2>1, BackupConstants DEF B!Seconds
    <2>4. staging[second] = None /\ temp[second] = None
      BY <1>1, <1>2, <2>2, <2>3 DEF B!SecondInv
    <2>5. QED
      BY <1>2, <1>3, <2>2, <2>4
  <1>13. ASSUME NEW u \in B!Seconds
         PROVE  B!SecondInv(u)'
    <2>1. B!SecondInv(u)
      BY <1>1
    <2>2. CASE u = second
      <3>1. ASSUME second \notin met', NEW a \in Clients, NEW b \in Clients,
                   B!Active(a)', B!Active(b)', task'[a].at = second, task'[b].at = second
            PROVE  a = b
        <4>1. \A i \in Clients \ {j} : ~(B!Active(i)' /\ task'[i].at = second)
          BY <1>7, <1>8, <1>12, <3>1
        <4>2. QED
          BY <3>1, <4>1
      <3>2. ~ \A i \in Clients : B!Active(i)' => task'[i].at # second
        BY <1>6, <1>7, <1>8
      <3>3. QED
        BY <1>3, <2>2, <3>1, <3>2 DEF B!SecondInv
    <2>3. CASE u # second
      <3>1. ASSUME u \notin met', NEW a \in Clients, NEW b \in Clients,
                   B!Active(a)', B!Active(b)', task'[a].at = u, task'[b].at = u
            PROVE  a = b
        <4>1. a # j /\ b # j
          BY <1>6, <1>7, <2>3, <3>1
        <4>2. B!Active(a) /\ B!Active(b) /\ task[a].at = u /\ task[b].at = u /\ u \notin met
          BY <1>4, <1>7, <1>8, <3>1, <4>1
        <4>3. QED
          BY <2>1, <4>2 DEF B!SecondInv
      <3>2. (\A i \in Clients : B!Active(i)' => task'[i].at # u)
              => \A i \in Clients : B!Active(i) => task[i].at # u
        BY <1>7, <1>8
      <3>3. staging'[u] = staging[u] /\ temp'[u] = temp[u] /\ second' = second
            /\ (u \notin met' => u \notin met)
        BY <1>3, <1>4, <1>9, <2>3
      <3>4. QED
        BY <2>1, <3>1, <3>2, <3>3 DEF B!SecondInv
    <2>4. QED
      BY <2>2, <2>3
  <1>14. ASSUME NEW i \in Clients
         PROVE  B!JobInv(i)'
    <2>1. CASE i = j
      <3>1. second <= second
        BY <1>2, BackupConstants DEF B!Seconds
      <3>2. QED
        BY <1>3, <1>6, <1>7, <1>12, <2>1, <3>1 DEF B!JobInv
    <2>2. CASE i # j /\ ~B!Active(i)
      BY <1>8, <2>2 DEF B!JobInv
    <2>3. CASE i # j /\ B!Active(i) /\ task[i].at = second
      <3>1. B!JobInv(i) /\ task'[i] = task[i] /\ second \in met'
        BY <1>1, <1>5, <1>7, <2>3
      <3>2. QED
        BY <1>3, <2>3, <3>1 DEF B!JobInv
    <2>4. CASE i # j /\ B!Active(i) /\ task[i].at # second
      <3>1. B!JobInv(i) /\ task'[i] = task[i] /\ task[i].at \in B!Seconds
        BY <1>1, <1>2, <1>7, <2>4 DEF Tasks
      <3>2. /\ staging'[task[i].at] = staging[task[i].at] /\ temp' = temp /\ second' = second
            /\ task[i].at \notin met' => task[i].at \notin met
        BY <1>3, <1>4, <1>9, <2>4, <3>1
      <3>3. QED
        BY <2>4, <3>1, <3>2 DEF B!JobInv
    <2>5. QED
      BY <2>1, <2>2, <2>3, <2>4
  <1>15. QED
    BY <1>10, <1>11, <1>13, <1>14 DEF B!BackupInv

\* The steps of a job: copy, tar, move, clean.
LEMMA BackupJobs ==
    ASSUME B!ConstantsAssumption, B!BackupInv, NEW j \in Clients,
           B!CopyFiles(j) \/ B!MakeArchive(j) \/ B!MoveArchive(j) \/ B!CleanUp(j)
    PROVE  B!BackupInv'
  <1>1. /\ B!TypeOK /\ B!OwnArchive /\ B!JobInv(j)
    BY DEF B!BackupInv
  <1>2. /\ staging \in [B!Seconds -> {None} \cup B!Copies]
        /\ temp \in [B!Seconds -> {None} \cup B!Copies]
        /\ archives \in [Databases -> SUBSET [holds : B!Copies, met : BOOLEAN]]
        /\ base \in [Databases -> SUBSET B!AllCommits]
        /\ task \in [Clients -> [step : {"idle", "copy", "tar", "move", "clean", "done"},
                                 scope : Databases \cup {None}, at : B!Seconds]]
    BY <1>1 DEF B!TypeOK
  <1>3. B!Active(j)
    BY DEF B!CopyFiles, B!MakeArchive, B!MoveArchive, B!CleanUp, B!Active
  <1>4. PICK t \in B!Seconds : t = task[j].at
    BY <1>2
  <1>5. PICK s \in Databases : s = task[j].scope
    BY <1>1, <1>3 DEF B!JobInv
  <1>6. /\ t <= second
        /\ t \notin met =>
              /\ task[j].step = "copy" => staging[t] # None /\ staging[t].uploads = {}
              /\ task[j].step = "tar" =>
                    staging[t] # None /\ staging[t].owner = s /\ staging[t].uploads = {s}
              /\ task[j].step = "move" => temp[t].owner = s /\ temp[t].uploads = {s}
              /\ task[j].step # "move" => temp[t] = None
    BY <1>1, <1>3, <1>4, <1>5 DEF B!JobInv
  <1>7. UNCHANGED <<second, commits, base, wal, old, met, logical, stale>>
    BY DEF B!CopyFiles, B!MakeArchive, B!MoveArchive, B!CleanUp, B!files
  <1>8. ASSUME NEW k \in {"tar", "move", "clean", "done"}, B!Step(j, k)
        PROVE  task'[j].step = k /\ task'[j].at = t /\ task'[j].scope = s
    BY <1>2, <1>4, <1>5, <1>8 DEF B!Step
  <1>9. CASE B!CopyFiles(j)
    <2> DEFINE whole == [db |-> base[s], owner |-> s, uploads |-> staging[t].uploads \cup {s}]
    <2>1. /\ staging' = [staging EXCEPT ![t] = IF staging[t] = None THEN staging[t] ELSE whole]
          /\ task[j].step = "copy" /\ B!Step(j, "tar") /\ UNCHANGED <<temp, archives>>
      BY <1>4, <1>5, <1>9 DEF B!CopyFiles, B!NameOf
    <2>2. staging[t] # None => whole \in B!Copies
      <3>1. staging[t] # None => staging[t].uploads \subseteq Databases
        BY <1>2 DEF B!Copies
      <3>2. QED
        BY <1>2, <3>1 DEF B!Copies
    <2>3. whole.owner = s /\ whole.uploads = staging[t].uploads \cup {s}
      OBVIOUS
    <2> HIDE DEF whole
    <2>4. /\ staging' \in [B!Seconds -> {None} \cup B!Copies]
          /\ \A u \in B!Seconds \ {t} : staging'[u] = staging[u]
          /\ staging[t] # None => staging'[t] = whole /\ staging'[t] # None
      BY <1>2, <2>1, <2>2, BackupConstants
    <2>5. B!JobInv(j)'
      BY <1>6, <1>7, <1>8, <2>1, <2>3, <2>4 DEF B!JobInv
    <2>6. B!OwnArchive' /\ archives' \in [Databases -> SUBSET [holds : B!Copies, met : BOOLEAN]]
      BY <1>1, <1>2, <2>1 DEF B!OwnArchive
    <2>7. QED
      BY <1>2, <1>3, <1>4, <1>7, <2>1, <2>4, <2>5, <2>6, BackupMoves
  <1>10. CASE B!MakeArchive(j) /\ staging[t] = None
    <2>1. task[j].step = "tar" /\ B!Step(j, "clean") /\ UNCHANGED <<staging, temp, archives>>
      BY <1>4, <1>10 DEF B!MakeArchive, B!NameOf
    <2>2. B!JobInv(j)'
      BY <1>6, <1>7, <1>8, <1>10, <2>1 DEF B!JobInv
    <2>3. B!OwnArchive'
      BY <1>1, <2>1 DEF B!OwnArchive
    <2>4. QED
      BY <1>2, <1>3, <1>4, <1>7, <2>1, <2>2, <2>3, BackupMoves
  <1>11. CASE B!MakeArchive(j) /\ staging[t] # None
    <2>1. /\ task[j].step = "tar" /\ B!Step(j, "move") /\ UNCHANGED <<staging, archives>>
          /\ temp' = [temp EXCEPT ![t] = staging[t]]
      BY <1>4, <1>11 DEF B!MakeArchive, B!NameOf
    <2>2. /\ temp' \in [B!Seconds -> {None} \cup B!Copies] /\ temp'[t] = staging[t]
          /\ \A u \in B!Seconds \ {t} : temp'[u] = temp[u]
      BY <1>2, <2>1
    <2>3. B!JobInv(j)'
      BY <1>6, <1>7, <1>8, <2>1, <2>2 DEF B!JobInv
    <2>4. B!OwnArchive'
      BY <1>1, <2>1 DEF B!OwnArchive
    <2>5. QED
      BY <1>2, <1>3, <1>4, <1>7, <2>1, <2>2, <2>3, <2>4, BackupMoves
  <1>12. CASE B!MoveArchive(j) /\ temp[t] = None
    <2>1. task[j].step = "move" /\ B!Step(j, "clean") /\ UNCHANGED <<staging, temp, archives>>
      BY <1>4, <1>12 DEF B!MoveArchive, B!NameOf
    <2>2. B!JobInv(j)'
      BY <1>6, <1>7, <1>8, <1>12, <2>1 DEF B!JobInv
    <2>3. B!OwnArchive'
      BY <1>1, <2>1 DEF B!OwnArchive
    <2>4. QED
      BY <1>2, <1>3, <1>4, <1>7, <2>1, <2>2, <2>3, BackupMoves
  <1>13. CASE B!MoveArchive(j) /\ temp[t] # None
    <2> DEFINE a == [holds |-> temp[t], met |-> t \in met]
    <2>1. /\ task[j].step = "move" /\ B!Step(j, "clean") /\ staging' = staging
          /\ archives' = [archives EXCEPT ![s] = archives[s] \cup {a}]
          /\ temp' = [temp EXCEPT ![t] = None]
      BY <1>4, <1>5, <1>13 DEF B!MoveArchive, B!NameOf
    <2>2. a \in [holds : B!Copies, met : BOOLEAN] /\ a.holds = temp[t] /\ a.met = (t \in met)
      BY <1>2, <1>13
    <2> HIDE DEF a
    <2>3. /\ temp' \in [B!Seconds -> {None} \cup B!Copies] /\ temp'[t] = None
          /\ \A u \in B!Seconds \ {t} : temp'[u] = temp[u]
      BY <1>2, <2>1
    <2>4. /\ archives' \in [Databases -> SUBSET [holds : B!Copies, met : BOOLEAN]]
          /\ archives'[s] = archives[s] \cup {a}
          /\ \A r \in Databases \ {s} : archives'[r] = archives[r]
      BY <1>2, <2>1, <2>2
    <2>5. B!JobInv(j)'
      BY <1>6, <1>7, <1>8, <2>1, <2>3 DEF B!JobInv
    <2>6. B!OwnArchive'
      BY <1>1, <1>6, <2>1, <2>2, <2>4 DEF B!OwnArchive
    <2>7. QED
      BY <1>2, <1>3, <1>4, <1>7, <2>1, <2>3, <2>4, <2>5, <2>6, BackupMoves
  <1>14. CASE B!CleanUp(j)
    <2>1. /\ task[j].step = "clean" /\ B!Step(j, "done") /\ UNCHANGED <<temp, archives>>
          /\ staging' = [staging EXCEPT ![t] = None]
      BY <1>4, <1>14 DEF B!CleanUp, B!NameOf
    <2>2. /\ staging' \in [B!Seconds -> {None} \cup B!Copies] /\ staging'[t] = None
          /\ \A u \in B!Seconds \ {t} : staging'[u] = staging[u]
      BY <1>2, <2>1
    <2>3. B!JobInv(j)'
      BY <1>8, <2>1 DEF B!JobInv, B!Active
    <2>4. B!OwnArchive'
      BY <1>1, <2>1 DEF B!OwnArchive
    <2>5. QED
      BY <1>2, <1>3, <1>4, <1>6, <1>7, <2>1, <2>2, <2>3, <2>4, BackupMoves
  <1>15. QED
    BY <1>9, <1>10, <1>11, <1>12, <1>13, <1>14

\* Archives are pruned.
LEMMA BackupPrunes ==
    ASSUME B!ConstantsAssumption, B!BackupInv, NEW s \in Databases, NEW a, B!Prune(s, a)
    PROVE  B!BackupInv'
  <1>1. /\ B!TypeOK /\ B!OwnArchive /\ B!Faithful
        /\ \A u \in B!Seconds : B!SecondInv(u)
        /\ \A i \in Clients : B!JobInv(i)
    BY DEF B!BackupInv
  <1>2. /\ archives' = [archives EXCEPT ![s] = archives[s] \ {a}]
        /\ UNCHANGED <<second, commits, base, wal, old, staging, temp, task, met, logical, stale>>
    BY DEF B!Prune, B!files
  <1>3. /\ archives' \in [Databases -> SUBSET [holds : B!Copies, met : BOOLEAN]]
        /\ \A r \in Databases : archives'[r] \subseteq archives[r]
    BY <1>1, <1>2 DEF B!TypeOK
  <1>4. B!TypeOK'
    BY <1>1, <1>2, <1>3 DEF B!TypeOK
  <1>5. B!OwnArchive'
    BY <1>1, <1>3 DEF B!OwnArchive
  <1>6. B!Faithful' /\ (\A u \in B!Seconds : B!SecondInv(u)') /\ \A i \in Clients : B!JobInv(i)'
    BY <1>1, <1>2 DEF B!Faithful, B!Opened, B!SecondInv, B!JobInv, B!Active
  <1>7. QED
    BY <1>4, <1>5, <1>6 DEF B!BackupInv

\* A second passes, with a restart or without.
LEMMA BackupPasses ==
    ASSUME B!ConstantsAssumption, B!BackupInv, B!Pass \/ B!Restart
    PROVE  B!BackupInv'
  <1>1. /\ B!TypeOK /\ B!OwnArchive /\ B!Faithful
        /\ \A u \in B!Seconds : B!SecondInv(u)
        /\ \A i \in Clients : B!JobInv(i)
    BY DEF B!BackupInv
  <1> DEFINE Tasks == [step : {"idle", "copy", "tar", "move", "clean", "done"},
                       scope : Databases \cup {None}, at : B!Seconds]
  <1>2. /\ task \in [Clients -> Tasks] /\ second \in 0..MaxSeconds /\ second < MaxSeconds
        /\ second' = second + 1
        /\ UNCHANGED <<commits, base, wal, staging, temp, archives, met>>
    BY <1>1 DEF B!TypeOK, B!Pass, B!Restart, B!Seconds, B!files, B!backups
  <1>3. second' \in B!Seconds /\ \A u \in B!Seconds : /\ second' <= u => second <= u /\ second < u
                                                      /\ u <= second => u <= second' /\ u < second'
    BY <1>2, BackupConstants DEF B!Seconds
  <1>4. ASSUME NEW i \in Clients
        PROVE  task'[i] \in Tasks /\ (B!Active(i)' => task'[i] = task[i] /\ B!Active(i))
    <2>1. CASE B!Pass
      BY <1>2, <2>1 DEF B!Pass, B!backups, B!Active
    <2>2. CASE B!Restart
      <3>1. PICK m \in Tasks : m = task[i]
        BY <1>2
      <3>2. PICK n : n = [m EXCEPT !.step = "done"]
        OBVIOUS
      <3>3. n \in Tasks /\ n.step = "done" /\ B!Idle \in Tasks /\ B!Idle.step = "idle"
        BY <3>2, BackupConstants DEF B!Idle
      <3>4. task'[i] = IF m.step = "idle" THEN B!Idle ELSE n
        BY <2>2, <3>1, <3>2 DEF B!Restart
      <3>5. QED
        BY <3>3, <3>4 DEF B!Active
    <2>3. QED
      BY <2>1, <2>2
  <1> HIDE DEF Tasks
  <1>5. /\ old' \in [Databases -> {None} \cup SUBSET B!AllCommits]
        /\ logical' \in [Databases -> SUBSET B!AllCommits]
        /\ B!Faithful'
    <2>1. CASE B!Pass
      BY <1>1, <2>1 DEF B!Pass, B!TypeOK, B!Faithful, B!Opened, B!files
    <2>2. CASE B!Restart
      <3>1. /\ old' = [r \in Databases |-> None]
            /\ logical' = [r \in Databases |-> IF old[r] = None THEN logical[r] ELSE base[r]]
            /\ stale' = stale \cup {r \in Databases : old[r] # None /\ wal[r] # {}}
        BY <2>2 DEF B!Restart
      <3>2. /\ base \in [Databases -> SUBSET B!AllCommits] /\ logical \in [Databases -> SUBSET B!AllCommits]
        BY <1>1 DEF B!TypeOK
      <3>3. ASSUME NEW r \in Databases \ stale' PROVE B!Opened(r)' \cup wal'[r] = logical'[r]
        <4>1. B!Opened(r)' = base[r] /\ r \in Databases \ stale
          BY <1>2, <3>1 DEF B!Opened
        <4>2. CASE old[r] = None
          BY <1>1, <1>2, <3>1, <4>1, <4>2 DEF B!Faithful, B!Opened
        <4>3. CASE old[r] # None
          BY <1>2, <3>1, <4>1, <4>3
        <4>4. QED
          BY <4>2, <4>3
      <3>4. QED
        BY <3>1, <3>2, <3>3 DEF B!Faithful
    <2>3. QED
      BY <2>1, <2>2
  <1>6. task' \in [Clients -> Tasks]
    <2>1. CASE B!Pass
      BY <1>2, <2>1 DEF B!Pass, B!backups
    <2>2. CASE B!Restart
      BY <1>4, <2>2 DEF B!Restart
    <2>3. QED
      BY <2>1, <2>2
  <1>7. B!TypeOK'
    BY <1>1, <1>2, <1>3, <1>5, <1>6 DEF B!TypeOK, Tasks
  <1>8. B!OwnArchive'
    BY <1>1, <1>2 DEF B!OwnArchive
  <1>9. ASSUME NEW u \in B!Seconds
        PROVE  B!SecondInv(u)'
    <2>1. B!SecondInv(u)
      BY <1>1
    <2>2. ASSUME u \notin met, second' <= u
          PROVE  staging'[u] = None /\ temp'[u] = None
      <3>1. second <= u /\ second < u
        BY <1>3, <2>2
      <3>2. ASSUME NEW i \in Clients, B!Active(i) PROVE task[i].at # u
        <4>1. task[i].at <= second /\ task[i].at \in B!Seconds
          BY <1>1, <1>2, <3>2 DEF B!JobInv, Tasks
        <4>2. QED
          BY <1>2, <3>1, <4>1, BackupConstants DEF B!Seconds
      <3>3. QED
        BY <1>2, <2>1, <2>2, <3>1, <3>2 DEF B!SecondInv
    <2>3. ASSUME u \notin met, NEW a \in Clients, NEW b \in Clients,
                 B!Active(a)', B!Active(b)', task'[a].at = u, task'[b].at = u
          PROVE  a = b
      BY <1>4, <2>1, <2>3 DEF B!SecondInv
    <2>4. QED
      BY <1>2, <2>2, <2>3 DEF B!SecondInv
  <1>10. ASSUME NEW i \in Clients
         PROVE  B!JobInv(i)'
    <2>1. CASE ~B!Active(i)'
      BY <2>1 DEF B!JobInv
    <2>2. CASE B!Active(i)'
      <3>1. task'[i] = task[i] /\ B!Active(i) /\ B!JobInv(i) /\ task[i].at \in B!Seconds
        BY <1>1, <1>2, <1>4, <2>2 DEF Tasks
      <3>2. task[i].at <= second'
        BY <1>3, <3>1 DEF B!JobInv
      <3>3. QED
        BY <1>2, <3>1, <3>2 DEF B!JobInv
    <2>3. QED
      BY <2>1, <2>2
  <1>11. QED
    BY <1>5, <1>7, <1>8, <1>9, <1>10 DEF B!BackupInv

LEMMA BackupStart == B!ConstantsAssumption /\ B!Init => B!BackupInv
  <1> SUFFICES ASSUME B!ConstantsAssumption, B!Init PROVE B!BackupInv
    OBVIOUS
  <1>1. 0 \in B!Seconds /\ 0 \in 0..MaxCommits
    BY BackupConstants
  <1>2. B!Idle \in [step : {"idle", "copy", "tar", "move", "clean", "done"},
                    scope : Databases \cup {None}, at : B!Seconds]
    BY <1>1 DEF B!Idle
  <1>3. B!TypeOK
    BY <1>1, <1>2 DEF B!Init, B!TypeOK
  <1>4. B!OwnArchive /\ B!Faithful
    BY DEF B!Init, B!OwnArchive, B!Faithful, B!Opened
  <1>5. \A j \in Clients : ~B!Active(j)
    BY DEF B!Init, B!Active, B!Idle
  <1>6. (\A t \in B!Seconds : B!SecondInv(t)) /\ \A j \in Clients : B!JobInv(j)
    BY <1>5 DEF B!Init, B!SecondInv, B!JobInv
  <1>7. QED
    BY <1>3, <1>4, <1>6 DEF B!BackupInv

LEMMA BackupStep ==
    ASSUME B!ConstantsAssumption, B!BackupInv, B!Next PROVE B!BackupInv'
  <1>1. CASE B!Pass \/ B!Restart
    BY <1>1, BackupPasses
  <1>2. ASSUME NEW s \in Databases,
               B!Commit(s) \/ B!Evict(s) \/ (\E n \in wal[s] : B!Checkpoint(s, n))
        PROVE  B!BackupInv'
    BY <1>2, BackupFilesStep
  <1>3. ASSUME NEW s \in Databases, NEW a \in archives[s], B!Prune(s, a) \/ B!Restore(s, a)
        PROVE  B!BackupInv'
    BY <1>3, BackupPrunes, BackupFilesStep
  <1>4. ASSUME NEW j \in Clients, NEW s \in Databases, NEW scheduled \in BOOLEAN,
               B!Begin(j, s, scheduled)
        PROVE  B!BackupInv'
    BY <1>4, BackupBegins
  <1>5. ASSUME NEW j \in Clients,
               B!CopyFiles(j) \/ B!MakeArchive(j) \/ B!MoveArchive(j) \/ B!CleanUp(j)
        PROVE  B!BackupInv'
    BY <1>5, BackupJobs
  <1>6. QED
    BY <1>1, <1>2, <1>3, <1>4, <1>5 DEF B!Next

LEMMA BackupStays == B!BackupInv /\ UNCHANGED backups => B!BackupInv'
  BY DEF backups, B!BackupInv, B!TypeOK, B!OwnArchive, B!Faithful, B!Opened, B!SecondInv,
         B!JobInv, B!Active

-----------------------------------------------------------------------------
(* The command line.                                                       *)

LEMMA RestoreStart == C!Init => C!RestoreInv
  BY DEF C!Init, C!RestoreInv, C!TypeOK, C!OriginalKept

LEMMA RestoreStep == C!RestoreInv /\ C!Next => C!RestoreInv'
  <1> SUFFICES ASSUME C!RestoreInv, C!Next PROVE C!RestoreInv'
    OBVIOUS
  <1>1. C!TypeOK /\ C!OriginalKept
    BY DEF C!RestoreInv
  <1>2. CASE C!Begin
    BY <1>1, <1>2 DEF C!Begin, C!RestoreInv, C!TypeOK, C!OriginalKept
  <1>3. CASE C!Fail
    BY <1>1, <1>3 DEF C!Fail, C!RestoreInv, C!TypeOK, C!OriginalKept
  <1>4. ASSUME NEW s \in Archived, C!CleanUp(s) PROVE C!RestoreInv'
    BY <1>1, <1>4 DEF C!CleanUp, C!RestoreInv, C!TypeOK, C!OriginalKept
  <1>5. ASSUME NEW s \in Archived, C!MoveAway(s) PROVE C!RestoreInv'
    <2>1. /\ step = "bak" /\ s \in todo /\ path[s] = "original"
          /\ step' = "move" /\ scope' = s /\ todo' = todo /\ baks' = baks \cup {s}
          /\ path' = [path EXCEPT ![s] = "nothing"] /\ bak' = [bak EXCEPT ![s] = path[s]]
      BY <1>5 DEF C!MoveAway, C!RestoreInv
    <2>2. C!TypeOK'
      BY <1>1, <2>1 DEF C!TypeOK
    <2>3. bak'[s] = "original" /\ \A r \in Archived \ {s} : path'[r] = path[r] /\ bak'[r] = bak[r]
      BY <1>1, <2>1 DEF C!TypeOK
    <2>4. C!OriginalKept'
      BY <1>1, <2>1, <2>3 DEF C!OriginalKept
    <2>5. \A r \in todo' : path'[r] = "original" \/ r = s
      BY <1>1, <2>1, <2>3 DEF C!RestoreInv, C!TypeOK
    <2>6. QED
      BY <2>1, <2>2, <2>3, <2>4, <2>5 DEF C!RestoreInv
  <1>6. CASE C!MoveIn
    <2>1. /\ step = "move" /\ scope \in Archived /\ bak[scope] = "original"
          /\ step' \in {"clean", "bak"} /\ todo' = todo \ {scope}
          /\ UNCHANGED <<scope, baks>>
          /\ path' = [path EXCEPT ![scope] = "restored"]
      BY <1>6 DEF C!MoveIn, C!RestoreInv
    <2>2. bak' = bak
      BY <1>1, <1>6 DEF C!MoveIn, C!Dropped, C!TypeOK
    <2>3. C!TypeOK'
      BY <1>1, <2>1, <2>2 DEF C!TypeOK
    <2>4. \A r \in Archived \ {scope} : path'[r] = path[r]
      BY <1>1, <2>1 DEF C!TypeOK
    <2>5. C!OriginalKept'
      BY <1>1, <2>1, <2>2, <2>4 DEF C!OriginalKept
    <2>6. \A r \in todo' : path'[r] = "original"
      BY <1>1, <2>1, <2>4 DEF C!RestoreInv, C!TypeOK
    <2>7. QED
      BY <2>1, <2>3, <2>5, <2>6 DEF C!RestoreInv
  <1>7. QED
    BY <1>2, <1>3, <1>4, <1>5, <1>6 DEF C!Next

LEMMA RestoreStays == C!RestoreInv /\ UNCHANGED restore => C!RestoreInv'
  BY DEF restore, C!RestoreInv, C!TypeOK, C!OriginalKept

\* BackupsHold: an archive holds its own scope unless backups met in a second,
\* what is read is what was committed unless a WAL was replayed, and a restore
\* of the command line that fails has the original at its path or at .bak.
THEOREM BackupsHold == MCSpec => []BackupsSafe
  <1> DEFINE Inv == /\ part = "backups" => B!BackupInv
                    /\ part = "restore" => C!RestoreInv
  <1>1. MCInit => Inv
    BY PartsAssumption, BackupStart, RestoreStart DEF MCInit
  <1>2. Inv /\ [MCNext]_mcVars => Inv'
    <2> SUFFICES ASSUME Inv, [MCNext]_mcVars PROVE Inv'
      OBVIOUS
    <2>1. CASE part' = "backups"
      <3>1. part = "backups" /\ (B!Next \/ UNCHANGED backups)
        BY <2>1 DEF MCNext, mcVars
      <3>2. QED
        BY <2>1, <3>1, PartsAssumption, BackupStep, BackupStays
    <2>2. CASE part' = "restore"
      <3>1. part = "restore" /\ (C!Next \/ UNCHANGED restore)
        BY <2>2 DEF MCNext, mcVars
      <3>2. QED
        BY <2>2, <3>1, RestoreStep, RestoreStays
    <2>3. QED
      BY <2>1, <2>2
  <1>3. Inv => BackupsSafe
    BY DEF BackupsSafe, B!BackupInv, C!RestoreInv
  <1>4. QED
    BY <1>1, <1>2, <1>3, PTL DEF MCSpec

-----------------------------------------------------------------------------
(* Settings.                                                               *)

\* SettingsApart: while no requests have overlapped, only one is not idle.
LEMMA SettingsApart ==
    ASSUME G!SettingsInv, NEW a \in Admins, ~G!At(a, "idle"), "overlap" \notin disturbed
    PROVE  \A b \in Admins \ {a} : G!At(b, "idle")
  BY DEF G!SettingsInv

\* SettingsRead: what the group holds may be read.
LEMMA SettingsRead == G!SecretKept => G!Sound(group)
  BY DEF G!SecretKept, G!Sound

\* SettingsCalls: a step of one admin changes its request alone.
LEMMA SettingsCalls ==
    ASSUME G!TypeOK, NEW a \in Admins, NEW k \in G!Calls, edit' = [edit EXCEPT ![a] = k]
    PROVE  /\ edit' \in [Admins -> G!Calls]
           /\ edit'[a] = k
           /\ \A b \in Admins \ {a} : edit'[b] = edit[b]
  BY DEF G!TypeOK

\* SettingsQuiet: an admin that a step does not concern keeps what is known.
LEMMA SettingsQuiet ==
    ASSUME G!SettingsInv, NEW b \in Admins, edit'[b] = edit[b], form'[b] = form[b],
           disturbed \subseteq disturbed',
           "endpoint" \notin disturbed' /\ group.shape = "dto" => group'.shape = "dto",
           "overlap" \notin disturbed' /\ G!At(b, "general") => general' = general,
           disturbed' \cap {"overlap", "endpoint"} = {} /\ G!At(b, "group") => group' = group
    PROVE  G!CallInv(b)'
  <1>1. G!CallInv(b)
    BY DEF G!SettingsInv
  <1>2. /\ G!At(b, "group")' = G!At(b, "group") /\ G!At(b, "general")' = G!At(b, "general")
    BY DEF G!At
  <1>3. G!At(b, "group") => G!Sound(edit[b].found) /\ G!Sound(edit[b].found)'
    BY <1>1 DEF G!CallInv, G!Sound
  <1>4. QED
    BY <1>1, <1>2, <1>3 DEF G!CallInv

LEMMA SettingsNoCall == G!NoCall \in G!Calls /\ G!NoRow \in G!Rows
  BY DEF G!NoCall, G!Calls, G!NoRow, G!Rows, G!Groups, G!Secrets

\* SettingsShows: the mask is shown for a secret that is there.
LEMMA SettingsShows ==
    ASSUME G!SettingsInv, NEW a \in Admins, G!Show(a) PROVE G!SettingsInv'
  <1>1. G!TypeOK /\ G!CallInv(a) /\ G!At(a, "idle") /\ edit' = edit /\ disturbed' = disturbed
        /\ UNCHANGED <<general, group, calls, typed, intended>>
        /\ form' = [form EXCEPT ![a] = [secret |-> G!Masked(group), shown |-> TRUE]]
    BY DEF G!Show, G!SettingsInv
  <1>2. G!TypeOK'
    BY <1>1 DEF G!TypeOK, G!Masked
  <1>3. form'[a].secret = G!Masked(group) /\ \A b \in Admins \ {a} : form'[b] = form[b]
    BY <1>1 DEF G!TypeOK
  <1>4. form'[a].secret = G!Mask => group.shape = "dto"
    BY <1>3 DEF G!Masked, G!Mask, G!Empty
  <1>5. G!CallInv(a)'
    BY <1>1, <1>4 DEF G!CallInv, G!At
  <1>6. \A b \in Admins \ {a} : G!CallInv(b)'
    BY <1>1, <1>3, SettingsQuiet
  <1>7. QED
    BY <1>1, <1>2, <1>5, <1>6 DEF G!SettingsInv, G!SecretKept, G!GeneralKept, G!At

\* SettingsPatches: a form that shows the mask was read from a secret that is there.
LEMMA SettingsPatches ==
    ASSUME G!ConstantsAssumption, G!SettingsInv, NEW a \in Admins, G!Patch(a)
    PROVE  G!SettingsInv'
  <1>1. /\ G!TypeOK /\ G!CallInv(a) /\ G!At(a, "idle") /\ calls < MaxCalls /\ calls' = calls + 1
        /\ UNCHANGED <<general, group, form, typed, intended>>
        /\ disturbed' = IF G!Others(a) THEN disturbed \cup {"overlap"} ELSE disturbed
    BY DEF G!Patch, G!SettingsInv, G!Started
  <1>2. PICK fs \in SUBSET Fields, v \in Values, s \in Values \cup {form[a].secret} :
          edit' = [edit EXCEPT ![a] = [G!NoCall EXCEPT !.step = "general", !.fields = fs,
                     !.value = v, !.secret = s, !.seen = general]]
    BY DEF G!Patch
  <1>3. PICK k : k = [G!NoCall EXCEPT !.step = "general", !.fields = fs,
                     !.value = v, !.secret = s, !.seen = general]
    OBVIOUS
  <1>4. k \in G!Calls /\ k.step = "general" /\ k.secret = s /\ k.seen = general
    <2>1. general \in G!Groups /\ s \in G!Secrets
      BY <1>1, <1>2 DEF G!TypeOK, G!Secrets
    <2>2. QED
      BY <1>3, <2>1, SettingsNoCall DEF G!Calls
  <1>5. /\ edit' \in [Admins -> G!Calls] /\ edit'[a] = k
        /\ \A b \in Admins \ {a} : edit'[b] = edit[b]
    BY <1>1, <1>2, <1>3, <1>4, SettingsCalls
  <1>6. calls' \in 0..MaxCalls
    BY <1>1 DEF G!TypeOK, G!ConstantsAssumption
  <1>7. G!TypeOK'
    BY <1>1, <1>5, <1>6 DEF G!TypeOK
  <1>8. disturbed \subseteq disturbed'
        /\ ("overlap" \notin disturbed' => \A b \in Admins \ {a} : G!At(b, "idle"))
        /\ ("endpoint" \in disturbed' <=> "endpoint" \in disturbed)
        /\ ("shape" \in disturbed' <=> "shape" \in disturbed)
        /\ ("vanished" \in disturbed' <=> "vanished" \in disturbed)
    BY <1>1 DEF G!Others
  <1>9. G!CallInv(a)'
    <2>1. k.secret = G!Mask => form[a].secret = G!Mask
      BY <1>4 DEF G!ConstantsAssumption
    <2>2. ~G!At(a, "group")'
      BY <1>4, <1>5 DEF G!At
    <2>3. QED
      BY <1>1, <1>4, <1>5, <1>8, <2>1, <2>2 DEF G!CallInv
  <1>10. \A b \in Admins \ {a} : G!CallInv(b)'
    BY <1>1, <1>5, <1>8, SettingsQuiet
  <1>11. "overlap" \notin disturbed' =>
            \A b, c \in Admins : b = c \/ G!At(b, "idle")' \/ G!At(c, "idle")'
    BY <1>5, <1>8 DEF G!At
  <1>12. (G!SecretKept /\ G!GeneralKept)'
    BY <1>1, <1>8 DEF G!SettingsInv, G!SecretKept, G!GeneralKept
  <1>13. QED
    BY <1>1, <1>7, <1>8, <1>9, <1>10, <1>11, <1>12 DEF G!SettingsInv

\* SettingsMerges: what a request alone has seen of the general group is there.
LEMMA SettingsMerges ==
    ASSUME G!SettingsInv, NEW a \in Admins, G!SaveGeneral(a) PROVE G!SettingsInv'
  <1>1. /\ G!TypeOK /\ G!CallInv(a) /\ G!At(a, "general")
        /\ UNCHANGED <<group, form, calls, typed, disturbed>>
        /\ general' = G!Merged(edit[a])
        /\ intended' = [f \in Fields |-> IF f \in edit[a].fields THEN edit[a].value ELSE intended[f]]
    BY DEF G!SaveGeneral, G!SettingsInv
  <1>2. PICK k : k = [edit[a] EXCEPT !.step = "read"]
    OBVIOUS
  <1>3. edit[a] \in G!Calls
    BY <1>1 DEF G!TypeOK
  <1>4. k \in G!Calls /\ k.step = "read" /\ k.secret = edit[a].secret
    BY <1>2, <1>3 DEF G!Calls
  <1>5. edit' = [edit EXCEPT ![a] = k]
    BY <1>2 DEF G!SaveGeneral
  <1>6. /\ edit' \in [Admins -> G!Calls] /\ edit'[a] = k
        /\ \A b \in Admins \ {a} : edit'[b] = edit[b]
    BY <1>1, <1>4, <1>5, SettingsCalls
  <1>7. general' \in G!Groups /\ intended' \in G!Groups
    BY <1>1, <1>3 DEF G!TypeOK, G!Merged, G!Calls, G!Groups
  <1>8. G!TypeOK'
    BY <1>1, <1>6, <1>7 DEF G!TypeOK
  <1>9. ~G!At(a, "idle")
    BY <1>1 DEF G!At
  <1>10. "overlap" \notin disturbed => \A b \in Admins \ {a} : G!At(b, "idle")
    BY <1>9, SettingsApart
  <1>11. G!GeneralKept'
    <2>1. SUFFICES ASSUME "overlap" \notin disturbed PROVE general' = intended'
      BY <1>1 DEF G!GeneralKept
    <2>2. edit[a].seen = general /\ general = intended
      BY <1>1, <2>1 DEF G!CallInv, G!SettingsInv, G!GeneralKept
    <2>3. QED
      BY <1>1, <2>2 DEF G!Merged
  <1>12. G!CallInv(a)'
    BY <1>1, <1>4, <1>6 DEF G!CallInv, G!At
  <1>13. \A b \in Admins \ {a} : G!CallInv(b)'
    <2> TAKE b \in Admins \ {a}
    <2>1. "overlap" \notin disturbed => ~G!At(b, "general")
      BY <1>10 DEF G!At
    <2>2. QED
      BY <1>1, <1>6, <2>1, SettingsQuiet
  <1>14. "overlap" \notin disturbed' =>
            \A b, c \in Admins : b = c \/ G!At(b, "idle")' \/ G!At(c, "idle")'
    BY <1>1, <1>6, <1>10 DEF G!At
  <1>15. G!SecretKept'
    BY <1>1 DEF G!SettingsInv, G!SecretKept
  <1>16. "endpoint" \notin disturbed' => group'.shape # "other"
    BY <1>1 DEF G!SettingsInv
  <1>17. QED
    BY <1>8, <1>11, <1>12, <1>13, <1>14, <1>15, <1>16 DEF G!SettingsInv

\* SettingsReads: a request ends, or reads the group.
LEMMA SettingsReads ==
    ASSUME G!SettingsInv, NEW a \in Admins, G!Leave(a) \/ G!ReadGroup(a) PROVE G!SettingsInv'
  <1>1. /\ G!TypeOK /\ G!CallInv(a) /\ G!At(a, "read")
        /\ UNCHANGED <<general, group, form, calls, typed, intended, disturbed>>
    BY DEF G!Leave, G!ReadGroup, G!SettingsInv
  <1>2. edit[a] \in G!Calls /\ group \in G!Rows
    BY <1>1 DEF G!TypeOK
  <1>3. PICK k \in G!Calls :
          /\ edit' = [edit EXCEPT ![a] = k]
          /\ \/ k.step = "idle" /\ k.secret = G!Empty
             \/ k.step = "group" /\ k.secret = edit[a].secret /\ k.found = group
    <2>1. CASE G!Leave(a)
      BY <2>1, SettingsNoCall DEF G!Leave, G!NoCall
    <2>2. CASE G!ReadGroup(a)
      <3>1. PICK k : k = [edit[a] EXCEPT !.step = "group", !.found = group]
        OBVIOUS
      <3>2. k \in G!Calls /\ k.step = "group" /\ k.secret = edit[a].secret /\ k.found = group
        BY <1>2, <3>1 DEF G!Calls
      <3>3. edit' = [edit EXCEPT ![a] = k]
        BY <2>2, <3>1 DEF G!ReadGroup
      <3>4. QED
        BY <3>2, <3>3
    <2>3. QED
      BY <2>1, <2>2
  <1>4. /\ edit' \in [Admins -> G!Calls] /\ edit'[a] = k
        /\ \A b \in Admins \ {a} : edit'[b] = edit[b]
    BY <1>1, <1>3, SettingsCalls
  <1>5. G!TypeOK'
    BY <1>1, <1>4 DEF G!TypeOK
  <1>6. ~G!At(a, "idle")
    BY <1>1 DEF G!At
  <1>7. "overlap" \notin disturbed => \A b \in Admins \ {a} : G!At(b, "idle")
    BY <1>6, SettingsApart
  <1>8. G!Sound(group)
    BY SettingsRead DEF G!SettingsInv
  <1>9. G!CallInv(a)'
    <2>1. ~G!At(a, "general")' /\ (G!At(a, "group")' => edit'[a].found = group)
      BY <1>3, <1>4 DEF G!At
    <2>2. G!At(a, "group")' => G!Sound(edit[a].found)'
      BY <1>1, <1>8, <2>1 DEF G!Sound
    <2>3. edit'[a].secret = G!Mask => edit[a].secret = G!Mask
      BY <1>3, <1>4 DEF G!Mask, G!Empty
    <2>4. QED
      BY <1>1, <2>1, <2>2, <2>3 DEF G!CallInv
  <1>10. \A b \in Admins \ {a} : G!CallInv(b)'
    BY <1>1, <1>4, SettingsQuiet
  <1>11. "overlap" \notin disturbed' =>
            \A b, c \in Admins : b = c \/ G!At(b, "idle")' \/ G!At(c, "idle")'
    BY <1>1, <1>4, <1>7 DEF G!At
  <1>12. QED
    BY <1>1, <1>5, <1>9, <1>10, <1>11 DEF G!SettingsInv, G!SecretKept, G!GeneralKept

\* SettingsWrites: a mask is replaced by the secret that was read, so that what
\* is written is the last secret typed.
LEMMA SettingsWrites ==
    ASSUME G!SettingsInv, NEW a \in Admins, G!SaveGroup(a) PROVE G!SettingsInv'
  <1> DEFINE s == edit[a].secret
             found == edit[a].found
  <1>1. /\ G!TypeOK /\ G!SecretKept /\ G!CallInv(a) /\ G!At(a, "group")
        /\ UNCHANGED <<general, form, calls, intended>>
        /\ edit' = [edit EXCEPT ![a] = G!NoCall]
        /\ group' = G!Sealed(s, found)
        /\ typed' = IF s = G!Mask THEN typed ELSE s
        /\ disturbed' = disturbed
             \cup (IF found.shape = "other" THEN {"shape"} ELSE {})
             \cup (IF s = G!Mask /\ found.shape = "absent" THEN {"vanished"} ELSE {})
    BY DEF G!SaveGroup, G!SettingsInv
  <1>2. s \in G!Secrets /\ found \in G!Rows /\ G!Sound(found)
    BY <1>1 DEF G!TypeOK, G!Calls, G!CallInv
  <1>3. /\ edit' \in [Admins -> G!Calls] /\ edit'[a] = G!NoCall
        /\ \A b \in Admins \ {a} : edit'[b] = edit[b]
    BY <1>1, SettingsCalls, SettingsNoCall
  <1> HIDE DEF s, found
  <1>4. group' \in G!Rows /\ group'.shape = "dto"
        /\ \/ s = G!Mask /\ found.shape = "dto" /\ group'.sealed = found.sealed
              /\ group'.secret = found.secret
           \/ found.shape = "other" /\ group'.secret = s
           \/ found.shape # "other" /\ (s = G!Mask => found.shape = "absent")
              /\ group'.secret = s /\ group'.sealed = (s # G!Empty)
    BY <1>1, <1>2 DEF G!Sealed, G!Dto, G!Rows
  <1>5. disturbed \subseteq disturbed' /\ ("endpoint" \in disturbed' <=> "endpoint" \in disturbed)
        /\ ("overlap" \in disturbed' <=> "overlap" \in disturbed)
        /\ ("shape" \notin disturbed' => found.shape # "other")
        /\ ("vanished" \notin disturbed' => ~(s = G!Mask /\ found.shape = "absent"))
    BY <1>1
  <1>6. G!TypeOK'
    BY <1>1, <1>2, <1>3, <1>4 DEF G!TypeOK
  <1>7. "overlap" \notin disturbed => \A b \in Admins \ {a} : G!At(b, "idle")
    <2>1. ~G!At(a, "idle")
      BY <1>1 DEF G!At
    <2>2. QED
      BY <2>1, SettingsApart
  <1>8. G!SecretKept'
    <2>1. ASSUME disturbed' \cap {"overlap", "endpoint"} = {} PROVE group'.secret = typed'
      <3>1. found = group /\ group.secret = typed /\ group.shape # "other"
        BY <1>1, <1>5, <2>1 DEF G!CallInv, G!SecretKept, G!SettingsInv, found
      <3>2. s = G!Mask => found.shape = "dto"
        BY <1>1, <1>5, <2>1, <3>1 DEF G!CallInv, s
      <3>3. QED
        BY <1>1, <1>4, <3>1, <3>2
    <2>2. ASSUME "shape" \notin disturbed' PROVE group'.sealed = (group'.secret # G!Empty)
      BY <1>2, <1>4, <1>5, <2>2 DEF G!Sound
    <2>3. ASSUME disturbed' \cap {"shape", "vanished"} = {} PROVE group'.secret # G!Mask
      BY <1>2, <1>4, <1>5, <2>3 DEF G!Sound
    <2>4. QED
      BY <2>1, <2>2, <2>3 DEF G!SecretKept
  <1>9. G!GeneralKept'
    BY <1>1, <1>5 DEF G!SettingsInv, G!GeneralKept
  <1>10. G!CallInv(a)'
    BY <1>3, <1>4 DEF G!CallInv, G!At, G!NoCall
  <1>11. \A b \in Admins \ {a} : G!CallInv(b)'
    <2> TAKE b \in Admins \ {a}
    <2>1. "overlap" \notin disturbed => ~G!At(b, "group")
      BY <1>7 DEF G!At
    <2>2. QED
      BY <1>1, <1>3, <1>4, <1>5, <2>1, SettingsQuiet
  <1>12. "overlap" \notin disturbed' =>
            \A b, c \in Admins : b = c \/ G!At(b, "idle")' \/ G!At(c, "idle")'
    BY <1>3, <1>5, <1>7 DEF G!At
  <1>13. QED
    BY <1>4, <1>6, <1>8, <1>9, <1>10, <1>11, <1>12 DEF G!SettingsInv

\* SettingsSet: the config endpoint puts another shape in the row.
LEMMA SettingsSet ==
    ASSUME G!ConstantsAssumption, G!SettingsInv, G!SetConfig PROVE G!SettingsInv'
  <1>1. /\ G!TypeOK /\ calls < MaxCalls /\ calls' = calls + 1
        /\ group' \in {G!NoRow, [shape |-> "other", sealed |-> FALSE, secret |-> G!Empty]}
        /\ typed' = G!Empty /\ disturbed' = disturbed \cup {"endpoint"}
        /\ UNCHANGED <<general, form, edit, intended>>
    BY DEF G!SetConfig, G!SettingsInv, G!Started
  <1>2. group' \in G!Rows /\ group'.secret = G!Empty /\ group'.sealed = FALSE /\ typed' \in G!Secrets
    <2>1. G!NoRow.secret = G!Empty /\ G!NoRow.sealed = FALSE /\ G!Empty \in G!Secrets
      BY DEF G!NoRow, G!Secrets
    <2>2. [shape |-> "other", sealed |-> FALSE, secret |-> G!Empty] \in G!Rows
      BY <2>1 DEF G!Rows
    <2>3. CASE group' = G!NoRow
      BY <1>1, <2>1, <2>3, SettingsNoCall
    <2>4. CASE group' = [shape |-> "other", sealed |-> FALSE, secret |-> G!Empty]
      BY <1>1, <2>1, <2>2, <2>4
    <2>5. QED
      BY <1>1, <2>3, <2>4
  <1>3. calls' \in 0..MaxCalls
    BY <1>1 DEF G!TypeOK, G!ConstantsAssumption
  <1>4. G!TypeOK'
    BY <1>1, <1>2, <1>3 DEF G!TypeOK
  <1>5. G!SecretKept'
    BY <1>1, <1>2 DEF G!SecretKept, G!Mask, G!Empty
  <1>6. G!GeneralKept'
    BY <1>1 DEF G!SettingsInv, G!GeneralKept
  <1>7. \A b \in Admins : G!CallInv(b)'
    BY <1>1, SettingsQuiet
  <1>8. "overlap" \notin disturbed' =>
            \A b, c \in Admins : b = c \/ G!At(b, "idle")' \/ G!At(c, "idle")'
    BY <1>1 DEF G!SettingsInv, G!At
  <1>9. QED
    BY <1>1, <1>4, <1>5, <1>6, <1>7, <1>8 DEF G!SettingsInv

LEMMA SettingsStart == G!ConstantsAssumption /\ G!Init => G!SettingsInv
  <1> SUFFICES ASSUME G!ConstantsAssumption, G!Init PROVE G!SettingsInv
    OBVIOUS
  <1>1. general \in G!Groups
    BY DEF G!Init, G!Groups
  <1>2. G!NoForm \in [secret : {G!Mask, G!Empty}, shown : BOOLEAN]
    BY DEF G!NoForm
  <1>3. G!TypeOK
    BY <1>1, <1>2, SettingsNoCall DEF G!Init, G!TypeOK, G!ConstantsAssumption, G!Secrets
  <1>4. G!SecretKept /\ G!GeneralKept
    BY DEF G!Init, G!SecretKept, G!GeneralKept, G!NoRow, G!Mask, G!Empty
  <1>5. \A a \in Admins : G!At(a, "idle") /\ G!CallInv(a)
    BY DEF G!Init, G!CallInv, G!At, G!NoCall, G!NoForm, G!Mask, G!Empty
  <1>6. QED
    BY <1>3, <1>4, <1>5 DEF G!SettingsInv, G!Init, G!NoRow

LEMMA SettingsStep ==
    ASSUME G!ConstantsAssumption, G!SettingsInv, G!Next PROVE G!SettingsInv'
  BY SettingsShows, SettingsPatches, SettingsMerges, SettingsReads, SettingsWrites, SettingsSet
     DEF G!Next

LEMMA SettingsStays == G!SettingsInv /\ UNCHANGED settings => G!SettingsInv'
  BY DEF settings, G!SettingsInv, G!TypeOK, G!SecretKept, G!GeneralKept, G!CallInv, G!At, G!Sound

-----------------------------------------------------------------------------
(* Limits.                                                                 *)

\* ThrottleCalls: a step of one request changes that request alone.
LEMMA ThrottleCalls ==
    ASSUME R!TypeOK, NEW r \in Clients, NEW m \in R!Calls, request' = [request EXCEPT ![r] = m]
    PROVE  /\ request' \in [Clients -> R!Calls]
           /\ request'[r] = m
           /\ \A o \in Clients \ {r} : request'[o] = request[o]
  BY DEF R!TypeOK

\* ThrottleBounds: how many limiters there are.
LEMMA ThrottleBounds ==
    ASSUME R!ConstantsAssumption, R!ThrottleInv
    PROVE  /\ MaxLimiters \in Nat /\ limiters \in Nat /\ limiters <= MaxLimiters
           /\ 0 \notin 1..limiters
  <1>1. MaxLimiters \in Nat
    BY DEF R!ConstantsAssumption
  <1>2. limiters \in 0..MaxLimiters
    BY DEF R!ThrottleInv, R!TypeOK
  <1>3. QED
    BY <1>1, <1>2

LEMMA ThrottleNoRequest == R!ConstantsAssumption => R!NoRequest \in R!Calls
  <1> SUFFICES ASSUME R!ConstantsAssumption PROVE R!NoRequest \in R!Calls
    OBVIOUS
  <1>1. 0 \in 0..MaxLimiters
    BY DEF R!ConstantsAssumption
  <1>2. QED
    BY <1>1 DEF R!NoRequest, R!Calls, R!Steps

LEMMA ThrottleLimitOf ==
    ASSUME R!ConstantsAssumption, NEW c \in Configs, NEW s, NEW t
    PROVE  R!LimitOf(c, s, t) \in Limits /\ R!LimitOf(c, s, t) \in Nat
  BY DEF R!ConstantsAssumption, R!LimitOf

\* ThrottleReadQuiet: a request that is not changed has read what there still is.
LEMMA ThrottleReadQuiet ==
    ASSUME R!ThrottleInv, NEW r \in Clients, request'[r] = request[r],
           UNCHANGED <<config, tier>>
    PROVE  R!ReadInv(r)'
  <1>1. R!ReadInv(r)
    BY DEF R!ThrottleInv
  <1>2. QED
    BY <1>1 DEF R!ReadInv, R!At

\* ThrottleHolds: the steps before a request asks for its limiter, and those of
\* the settings, leave limiters and buckets alone.
LEMMA ThrottleHolds ==
    ASSUME R!ConstantsAssumption, R!ThrottleInv, UNCHANGED <<limiter, tokens, limiters, spent, replaced>>,
           \A r \in Clients :
              /\ request'[r].with = request[r].with
              /\ \/ /\ request'[r].step = request[r].step
                    /\ request'[r].limit = request[r].limit
                 \/ /\ request'[r].step \notin {"insert limiter", "check"}
                    /\ request[r].step \notin {"insert limiter", "check"}
    PROVE  (R!LimiterInv /\ R!TokenInv /\ \A r \in Clients : R!HoldInv(r))'
  <1>1. \A r \in Clients : R!HoldInv(r)
    BY DEF R!ThrottleInv
  <1>2. \A r \in Clients : request[r].with # 0 =>
            request'[r].step = request[r].step /\ request'[r].limit = request[r].limit
    BY <1>1 DEF R!HoldInv
  <1>3. \A l \in Limits, i \in 1..limiters : R!Owns(l, i)' => R!Owns(l, i)
    <2> TAKE l \in Limits, i \in 1..limiters
    <2> SUFFICES ASSUME NEW r \in Clients, request'[r].with = i, request'[r].limit = l
                 PROVE  R!Owns(l, i)
      BY DEF R!Owns
    <2>1. request[r].with = i
      OBVIOUS
    <2>2. i # 0
      BY ThrottleBounds
    <2>3. QED
      BY <1>2, <2>1, <2>2 DEF R!Owns
  <1>4. R!LimiterInv'
    BY <1>3 DEF R!ThrottleInv, R!LimiterInv
  <1>5. R!TokenInv'
    BY DEF R!ThrottleInv, R!TokenInv
  <1>6. ASSUME NEW r \in Clients PROVE R!HoldInv(r)'
    <2>1. R!HoldInv(r)
      BY <1>1
    <2>2. CASE request'[r].step = request[r].step /\ request'[r].limit = request[r].limit
      BY <2>1, <2>2 DEF R!HoldInv, R!At
    <2>3. CASE /\ request'[r].step \notin {"insert limiter", "check"}
               /\ request[r].step \notin {"insert limiter", "check"}
      BY <2>1, <2>3 DEF R!HoldInv, R!At
    <2>4. QED
      BY <2>2, <2>3
  <1>7. QED
    BY <1>4, <1>5, <1>6

\* ThrottleArrives: a request comes in with nothing read.
LEMMA ThrottleArrives ==
    ASSUME R!ConstantsAssumption, R!ThrottleInv, NEW r \in Clients, R!Arrive(r)
    PROVE  R!ThrottleInv'
  <1>1. /\ R!TypeOK /\ R!HoldInv(r) /\ R!At(r, "idle")
        /\ UNCHANGED <<config, tier, entry, limiter, tokens, limiters, changes, spent, replaced, aged>>
    BY DEF R!Arrive, R!ThrottleInv
  <1>2. PICK s \in R!Scopes :
          request' = [request EXCEPT ![r] = [R!NoRequest EXCEPT !.step = "config", !.scope = s]]
    BY DEF R!Arrive
  <1>3. PICK m : m = [R!NoRequest EXCEPT !.step = "config", !.scope = s]
    OBVIOUS
  <1>4. m \in R!Calls
    BY <1>3, ThrottleNoRequest DEF R!Calls, R!Steps
  <1>5. m.step = "config" /\ m.scope = s /\ m.with = 0
    BY <1>3 DEF R!NoRequest
  <1>6. /\ request' \in [Clients -> R!Calls] /\ request'[r] = m
        /\ \A o \in Clients \ {r} : request'[o] = request[o]
    BY <1>1, <1>2, <1>3, <1>4, ThrottleCalls
  <1>7. R!TypeOK'
    BY <1>1, <1>6 DEF R!TypeOK
  <1>8. R!EntryInv'
    BY <1>1 DEF R!ThrottleInv, R!EntryInv
  <1>9. R!ReadInv(r)'
    BY <1>5, <1>6 DEF R!ReadInv, R!At
  <1>10. \A o \in Clients \ {r} : R!ReadInv(o)'
    BY <1>1, <1>6, ThrottleReadQuiet
  <1>11. request[r].with = 0
    BY <1>1 DEF R!HoldInv, R!At
  <1>12. (R!LimiterInv /\ R!TokenInv /\ \A o \in Clients : R!HoldInv(o))'
    BY <1>1, <1>5, <1>6, <1>11, ThrottleHolds DEF R!At
  <1>13. QED
    BY <1>7, <1>8, <1>9, <1>10, <1>12 DEF R!ThrottleInv

\* ThrottleGoesOn: what a step of a request before its limiter has to show.
LEMMA ThrottleGoesOn ==
    ASSUME R!ConstantsAssumption, R!ThrottleInv, NEW r \in Clients, NEW m \in R!Calls,
           request' = [request EXCEPT ![r] = m],
           request[r].step \notin {"insert limiter", "check"},
           m.step \notin {"insert limiter", "check"}, m.with = request[r].with,
           UNCHANGED <<config, tier, limiter, tokens, limiters, changes, admits, spent, replaced>>,
           entry' \in [config : Configs \cup {R!NoConfig},
                       tier : [Throttled -> R!Tiers \cup {R!Unset}]],
           aged' \subseteq {"config"} \cup Throttled,
           R!EntryInv', R!ReadInv(r)'
    PROVE  R!ThrottleInv'
  <1>1. R!TypeOK
    BY DEF R!ThrottleInv
  <1>2. /\ request' \in [Clients -> R!Calls] /\ request'[r] = m
        /\ \A o \in Clients \ {r} : request'[o] = request[o]
    BY <1>1, ThrottleCalls
  <1>3. R!TypeOK'
    BY <1>1, <1>2 DEF R!TypeOK
  <1>4. \A o \in Clients \ {r} : R!ReadInv(o)'
    BY <1>2, ThrottleReadQuiet
  <1>5. (R!LimiterInv /\ R!TokenInv /\ \A o \in Clients : R!HoldInv(o))'
    BY <1>2, ThrottleHolds
  <1>6. QED
    BY <1>3, <1>4, <1>5 DEF R!ThrottleInv

\* ThrottleReadsConfig: from an entry that is not stale, or from the settings.
LEMMA ThrottleReadsConfig ==
    ASSUME R!ConstantsAssumption, R!ThrottleInv, NEW r \in Clients, R!ReadConfig(r)
    PROVE  R!ThrottleInv'
  <1>1. /\ R!TypeOK /\ R!ReadInv(r) /\ R!EntryInv /\ R!At(r, "config")
        /\ UNCHANGED <<config, tier, entry, limiter, tokens, limiters, changes, admits, spent,
                       replaced, aged>>
    BY DEF R!ReadConfig, R!ThrottleInv
  <1>2. request[r] \in R!Calls /\ entry.config \in Configs \cup {R!NoConfig} /\ config \in Configs
    BY <1>1 DEF R!TypeOK
  <1>3. PICK m \in R!Calls :
          /\ request' = [request EXCEPT ![r] = m]
          /\ m.with = request[r].with /\ m.scope = request[r].scope /\ m.config \in Configs
          /\ m.step \in {"tier", "insert config"}
          /\ ~m.old => m.config = config
    <2>1. CASE entry.config # R!NoConfig
      <3>1. PICK m : m = [request[r] EXCEPT !.config = entry.config, !.step = "tier",
                                            !.old = @ \/ "config" \in aged]
        OBVIOUS
      <3>2. request' = [request EXCEPT ![r] = m]
        BY <2>1, <3>1 DEF R!ReadConfig
      <3>3. (request[r].old \/ "config" \in aged) \in BOOLEAN
        OBVIOUS
      <3>4. /\ m.with = request[r].with /\ m.scope = request[r].scope
            /\ m.config = entry.config /\ m.step = "tier"
            /\ m.old = (request[r].old \/ "config" \in aged)
        BY <1>2, <3>1 DEF R!Calls
      <3>5. m \in R!Calls
        BY <1>2, <3>1, <3>3 DEF R!Calls, R!Steps
      <3>6. ~m.old => m.config = config
        BY <1>1, <2>1, <3>4 DEF R!EntryInv
      <3>7. QED
        BY <1>2, <2>1, <3>2, <3>4, <3>5, <3>6
    <2>2. CASE entry.config = R!NoConfig
      <3>1. PICK m : m = [request[r] EXCEPT !.config = config, !.step = "insert config"]
        OBVIOUS
      <3>2. request' = [request EXCEPT ![r] = m]
        BY <2>2, <3>1 DEF R!ReadConfig
      <3>3. m \in R!Calls
        BY <1>2, <3>1 DEF R!Calls, R!Steps
      <3>4. /\ m.with = request[r].with /\ m.scope = request[r].scope
            /\ m.config = config /\ m.step = "insert config"
        BY <1>2, <3>1 DEF R!Calls
      <3>5. QED
        BY <1>2, <3>2, <3>3, <3>4
    <2>3. QED
      BY <2>1, <2>2
  <1>4. request'[r] = m
    BY <1>1, <1>3, ThrottleCalls
  <1>5. R!ReadInv(r)'
    BY <1>1, <1>3, <1>4 DEF R!ReadInv, R!At
  <1>6. R!EntryInv'
    BY <1>1 DEF R!EntryInv
  <1>7. entry \in [config : Configs \cup {R!NoConfig}, tier : [Throttled -> R!Tiers \cup {R!Unset}]]
        /\ aged \subseteq {"config"} \cup Throttled
    BY <1>1 DEF R!TypeOK
  <1>8. QED
    BY <1>1, <1>3, <1>5, <1>6, <1>7, ThrottleGoesOn DEF R!At

\* ThrottleInsertsConfig: the entry is stale if the request that read it is old.
LEMMA ThrottleInsertsConfig ==
    ASSUME R!ConstantsAssumption, R!ThrottleInv, NEW r \in Clients, R!InsertConfig(r)
    PROVE  R!ThrottleInv'
  <1>1. /\ R!TypeOK /\ R!ReadInv(r) /\ R!EntryInv /\ R!At(r, "insert config")
        /\ entry' = [entry EXCEPT !.config = request[r].config]
        /\ aged' = IF request[r].old THEN aged \cup {"config"} ELSE aged \ {"config"}
        /\ UNCHANGED <<config, tier, limiter, tokens, limiters, changes, admits, spent, replaced>>
    BY DEF R!InsertConfig, R!Aged, R!ThrottleInv
  <1>2. request[r] \in R!Calls /\ request[r].config \in Configs /\ "config" \notin Throttled
    BY <1>1 DEF R!TypeOK, R!ReadInv, R!At, R!ConstantsAssumption
  <1>3. PICK m : m = [request[r] EXCEPT !.step = "tier"]
    OBVIOUS
  <1>4. m \in R!Calls /\ request' = [request EXCEPT ![r] = m]
    BY <1>2, <1>3 DEF R!InsertConfig, R!Calls, R!Steps
  <1>5. /\ m.with = request[r].with /\ m.scope = request[r].scope /\ m.step = "tier"
        /\ m.config = request[r].config /\ m.old = request[r].old
    BY <1>2, <1>3 DEF R!Calls
  <1>6. request'[r] = m
    BY <1>1, <1>4, ThrottleCalls
  <1>7. R!ReadInv(r)'
    BY <1>1, <1>2, <1>5, <1>6 DEF R!ReadInv, R!At
  <1>8. entry' \in [config : Configs \cup {R!NoConfig}, tier : [Throttled -> R!Tiers \cup {R!Unset}]]
        /\ entry'.config = request[r].config /\ entry'.tier = entry.tier
    BY <1>1, <1>2 DEF R!TypeOK
  <1>9. aged' \subseteq {"config"} \cup Throttled /\ ("config" \notin aged' => ~request[r].old)
        /\ \A t \in Throttled : t \in aged' <=> t \in aged
    BY <1>1, <1>2 DEF R!TypeOK
  <1>10. R!EntryInv'
    BY <1>1, <1>8, <1>9 DEF R!EntryInv, R!ReadInv, R!At
  <1>11. QED
    BY <1>1, <1>4, <1>5, <1>7, <1>8, <1>9, <1>10, ThrottleGoesOn DEF R!At

\* ThrottleReadsTier: likewise for a tenant; the root has no tier.
LEMMA ThrottleReadsTier ==
    ASSUME R!ConstantsAssumption, R!ThrottleInv, NEW r \in Clients, R!ReadTier(r)
    PROVE  R!ThrottleInv'
  <1> DEFINE t == request[r].scope
  <1>1. /\ R!TypeOK /\ R!ReadInv(r) /\ R!EntryInv /\ R!At(r, "tier") /\ t \in R!Scopes
        /\ UNCHANGED <<config, tier, entry, limiter, tokens, limiters, changes, admits, spent,
                       replaced, aged>>
    BY DEF R!ReadTier, R!ThrottleInv, R!ReadInv, R!At
  <1>2. request[r] \in R!Calls /\ request[r].config \in Configs
    BY <1>1 DEF R!TypeOK, R!ReadInv, R!At
  <1>3. t # R!Root => t \in Throttled /\ tier[t] \in R!Tiers
                      /\ entry.tier[t] \in R!Tiers \cup {R!Unset}
    BY <1>1 DEF R!TypeOK, R!Scopes
  <1> HIDE DEF t
  <1>4. PICK m \in R!Calls :
          /\ request' = [request EXCEPT ![r] = m]
          /\ m.with = request[r].with /\ m.scope = t /\ m.config = request[r].config
          /\ \/ m.step = "limit"
             \/ m.step = "insert tier" /\ t # R!Root
          /\ ~m.old => ~request[r].old /\ (t # R!Root => m.tier = tier[t])
    <2>1. CASE t = R!Root
      <3>1. PICK m : m = [request[r] EXCEPT !.step = "limit"]
        OBVIOUS
      <3>2. request' = [request EXCEPT ![r] = m]
        BY <2>1, <3>1 DEF R!ReadTier, t
      <3>3. m \in R!Calls
        BY <1>2, <3>1 DEF R!Calls, R!Steps
      <3>4. /\ m.with = request[r].with /\ m.scope = t /\ m.config = request[r].config
            /\ m.step = "limit" /\ m.old = request[r].old
        BY <1>2, <3>1 DEF R!Calls, t
      <3>5. QED
        BY <2>1, <3>2, <3>3, <3>4
    <2>2. CASE t # R!Root /\ entry.tier[t] # R!Unset
      <3>1. PICK m : m = [request[r] EXCEPT !.tier = entry.tier[t], !.step = "limit",
                                            !.old = @ \/ t \in aged]
        OBVIOUS
      <3>2. request' = [request EXCEPT ![r] = m]
        BY <2>2, <3>1 DEF R!ReadTier, R!TierKey, t
      <3>3. (request[r].old \/ t \in aged) \in BOOLEAN
        OBVIOUS
      <3>4. /\ m.with = request[r].with /\ m.scope = t /\ m.config = request[r].config
            /\ m.step = "limit" /\ m.tier = entry.tier[t]
            /\ m.old = (request[r].old \/ t \in aged)
        BY <1>2, <3>1 DEF R!Calls, t
      <3>5. m \in R!Calls
        BY <1>2, <1>3, <2>2, <3>1, <3>3 DEF R!Calls, R!Steps
      <3>6. ~m.old => ~request[r].old /\ m.tier = tier[t]
        BY <1>1, <1>3, <2>2, <3>4 DEF R!EntryInv
      <3>7. QED
        BY <3>2, <3>4, <3>5, <3>6
    <2>3. CASE t # R!Root /\ entry.tier[t] = R!Unset
      <3>1. PICK m : m = [request[r] EXCEPT !.tier = tier[t], !.step = "insert tier"]
        OBVIOUS
      <3>2. request' = [request EXCEPT ![r] = m]
        BY <2>3, <3>1 DEF R!ReadTier, R!TierKey, t
      <3>3. m \in R!Calls
        BY <1>2, <1>3, <2>3, <3>1 DEF R!Calls, R!Steps
      <3>4. /\ m.with = request[r].with /\ m.scope = t /\ m.config = request[r].config
            /\ m.step = "insert tier" /\ m.tier = tier[t] /\ m.old = request[r].old
        BY <1>2, <3>1 DEF R!Calls, t
      <3>5. QED
        BY <2>3, <3>2, <3>3, <3>4
    <2>4. QED
      BY <2>1, <2>2, <2>3
  <1>5. request'[r] = m
    BY <1>1, <1>4, ThrottleCalls
  <1>6. R!ReadInv(r)'
    BY <1>1, <1>2, <1>4, <1>5 DEF R!ReadInv, R!At
  <1>7. R!EntryInv'
    BY <1>1 DEF R!EntryInv
  <1>8. entry \in [config : Configs \cup {R!NoConfig}, tier : [Throttled -> R!Tiers \cup {R!Unset}]]
        /\ aged \subseteq {"config"} \cup Throttled
    BY <1>1 DEF R!TypeOK
  <1>9. QED
    BY <1>1, <1>4, <1>6, <1>7, <1>8, ThrottleGoesOn DEF R!At

\* ThrottleInsertsTier: under the key of the tenant, and of no other.
LEMMA ThrottleInsertsTier ==
    ASSUME R!ConstantsAssumption, R!ThrottleInv, NEW r \in Clients, R!InsertTier(r)
    PROVE  R!ThrottleInv'
  <1> DEFINE t == request[r].scope
  <1>1. /\ R!TypeOK /\ R!ReadInv(r) /\ R!EntryInv /\ R!At(r, "insert tier")
        /\ entry' = [entry EXCEPT !.tier[t] = request[r].tier]
        /\ aged' = IF request[r].old THEN aged \cup {t} ELSE aged \ {t}
        /\ UNCHANGED <<config, tier, limiter, tokens, limiters, changes, admits, spent, replaced>>
    BY DEF R!InsertTier, R!Aged, R!TierKey, R!ThrottleInv
  <1>2. /\ request[r] \in R!Calls /\ t \in Throttled /\ t # "config" /\ t # R!Root
        /\ request[r].config \in Configs /\ request[r].tier \in R!Tiers \cup {R!Unset}
    BY <1>1 DEF R!TypeOK, R!ReadInv, R!At, R!ConstantsAssumption, R!Calls, R!Scopes
  <1>3. PICK m : m = [request[r] EXCEPT !.step = "limit"]
    OBVIOUS
  <1>4. m \in R!Calls /\ request' = [request EXCEPT ![r] = m]
    BY <1>2, <1>3 DEF R!InsertTier, R!Calls, R!Steps
  <1>5. /\ m.with = request[r].with /\ m.scope = t /\ m.step = "limit" /\ m.tier = request[r].tier
        /\ m.config = request[r].config /\ m.old = request[r].old
    BY <1>2, <1>3 DEF R!Calls
  <1>6. request'[r] = m
    BY <1>1, <1>4, ThrottleCalls
  <1>7. R!ReadInv(r)'
    BY <1>1, <1>2, <1>5, <1>6 DEF R!ReadInv, R!At, R!Scopes
  <1> HIDE DEF t
  <1>8. /\ entry.tier \in [Throttled -> R!Tiers \cup {R!Unset}]
        /\ entry' = [entry EXCEPT !.tier = [entry.tier EXCEPT ![t] = request[r].tier]]
    BY <1>1 DEF R!TypeOK
  <1>9. PICK e : e = [entry.tier EXCEPT ![t] = request[r].tier]
    OBVIOUS
  <1>10. e \in [Throttled -> R!Tiers \cup {R!Unset}] /\ e[t] = request[r].tier
         /\ \A u \in Throttled \ {t} : e[u] = entry.tier[u]
    BY <1>2, <1>8, <1>9
  <1>11. entry' \in [config : Configs \cup {R!NoConfig}, tier : [Throttled -> R!Tiers \cup {R!Unset}]]
         /\ entry'.config = entry.config /\ entry'.tier = e
    BY <1>1, <1>8, <1>9, <1>10 DEF R!TypeOK
  <1>12. aged' \subseteq {"config"} \cup Throttled /\ (t \notin aged' => ~request[r].old)
         /\ ("config" \in aged' <=> "config" \in aged)
         /\ \A u \in Throttled \ {t} : u \in aged' <=> u \in aged
    BY <1>1, <1>2 DEF R!TypeOK
  <1>13. ~request[r].old => request[r].tier = tier[t]
    BY <1>1, <1>2 DEF R!ReadInv, R!At, t
  <1>14. R!EntryInv'
    <2>1. entry'.config # R!NoConfig /\ "config" \notin aged' => entry'.config = config'
      BY <1>1, <1>11, <1>12 DEF R!EntryInv
    <2>2. ASSUME NEW u \in Throttled, entry'.tier[u] # R!Unset, u \notin aged'
          PROVE  entry'.tier[u] = tier'[u]
      <3>1. CASE u = t
        BY <1>1, <1>10, <1>11, <1>12, <1>13, <2>2, <3>1
      <3>2. CASE u # t
        BY <1>1, <1>10, <1>11, <1>12, <2>2, <3>2 DEF R!EntryInv
      <3>3. QED
        BY <3>1, <3>2
    <2>3. QED
      BY <2>1, <2>2 DEF R!EntryInv
  <1>15. QED
    BY <1>1, <1>4, <1>5, <1>7, <1>11, <1>12, <1>14, ThrottleGoesOn DEF R!At

\* ThrottleOwned: the limiter of a limit and that of a request have one limit.
LEMMA ThrottleOwned ==
    ASSUME R!ThrottleInv, NEW l \in Limits, NEW m \in Limits, NEW i \in 1..limiters,
           R!Owns(l, i), R!Owns(m, i)
    PROVE  l = m
  BY DEF R!ThrottleInv, R!LimiterInv

\* ThrottleAsks: what a request knows when it asks for its limiter.
LEMMA ThrottleAsks ==
    ASSUME R!ConstantsAssumption, R!ThrottleInv, NEW r \in Clients, R!At(r, "limit"), NEW l,
           l = R!LimitOf(request[r].config, request[r].scope, request[r].tier)
    PROVE  /\ l \in Limits /\ l \in Nat /\ request[r].with = 0
           /\ ~request[r].old => l = R!LimitOf(config, request[r].scope,
                    IF request[r].scope = R!Root THEN R!Unset ELSE tier[request[r].scope])
  <1>1. R!ReadInv(r) /\ R!HoldInv(r)
    BY DEF R!ThrottleInv
  <1>2. request[r].config \in Configs /\ request[r].with = 0
    BY <1>1 DEF R!ReadInv, R!HoldInv, R!At
  <1>3. l \in Limits /\ l \in Nat
    BY <1>2, ThrottleLimitOf
  <1>4. ASSUME ~request[r].old
        PROVE  l = R!LimitOf(config, request[r].scope,
                    IF request[r].scope = R!Root THEN R!Unset ELSE tier[request[r].scope])
    BY <1>1, <1>4 DEF R!ReadInv, R!At, R!LimitOf
  <1>5. QED
    BY <1>2, <1>3, <1>4

\* ThrottleFinds: a request takes the limiter there is for its limit.
LEMMA ThrottleFinds ==
    ASSUME R!ConstantsAssumption, R!ThrottleInv, NEW r \in Clients, R!GetLimiter(r),
           NEW l \in Limits, l = R!LimitOf(request[r].config, request[r].scope, request[r].tier),
           limiter[l] # 0
    PROVE  R!ThrottleInv'
  <1>0. /\ R!At(r, "limit")
        /\ UNCHANGED <<config, tier, entry, limiter, tokens, limiters, changes, admits, spent,
                       replaced, aged>>
    BY DEF R!GetLimiter
  <1>1. R!TypeOK /\ R!ReadInv(r)
    BY <1>0 DEF R!ThrottleInv
  <1>2. l \in Limits /\ request[r].with = 0 /\ request[r] \in R!Calls
    BY <1>0, <1>1, ThrottleAsks DEF R!TypeOK
  <1>3. limiter[l] \in 1..limiters /\ limiter[l] \in 0..MaxLimiters /\ limiters \in Nat
    <2>1. limiter[l] \in 0..limiters
      BY <1>0, <1>1, <1>2 DEF R!TypeOK
    <2>2. QED
      BY <2>1, ThrottleBounds
  <1>4. PICK m : m = [request[r] EXCEPT !.limit = l, !.with = limiter[l], !.step = "check"]
    OBVIOUS
  <1>5. m \in R!Calls /\ request' = [request EXCEPT ![r] = m]
    <2>1. m \in R!Calls
      BY <1>2, <1>3, <1>4 DEF R!Calls, R!Steps
    <2>2. request' = [request EXCEPT ![r] = m]
      BY <1>4 DEF R!GetLimiter
    <2>3. QED
      BY <2>1, <2>2
  <1>6. /\ m.step = "check" /\ m.limit = l /\ m.with = limiter[l]
        /\ m.scope = request[r].scope /\ m.old = request[r].old /\ m.config = request[r].config
    BY <1>0, <1>2, <1>4 DEF R!Calls
  <1>7. /\ request' \in [Clients -> R!Calls] /\ request'[r] = m
        /\ \A o \in Clients \ {r} : request'[o] = request[o]
    BY <1>0, <1>1, <1>5, ThrottleCalls
  <1>8. R!TypeOK'
    BY <1>0, <1>1, <1>7 DEF R!TypeOK
  <1>9. R!ReadInv(r)'
    <2>1. request[r].config \in Configs /\ request[r].scope \in R!Scopes
      BY <1>0, <1>1 DEF R!ReadInv, R!At
    <2>2. ~request[r].old => l = R!LimitOf(config, request[r].scope,
                    IF request[r].scope = R!Root THEN R!Unset ELSE tier[request[r].scope])
      BY <1>0, ThrottleAsks
    <2>3. QED
      BY <1>0, <1>6, <1>7, <2>1, <2>2 DEF R!ReadInv, R!At, R!LimitOf
  <1>10. \A o \in Clients \ {r} : R!ReadInv(o)'
    BY <1>0, <1>7, ThrottleReadQuiet
  <1>11. \A k \in Limits, i \in 1..limiters : R!Owns(k, i)' => R!Owns(k, i)
    BY <1>0, <1>2, <1>6, <1>7 DEF R!Owns
  <1>12. R!LimiterInv'
    BY <1>0, <1>11 DEF R!ThrottleInv, R!LimiterInv
  <1>13. R!TokenInv' /\ R!EntryInv'
    BY <1>0 DEF R!ThrottleInv, R!TokenInv, R!EntryInv
  <1>14. R!HoldInv(r)'
    BY <1>0, <1>2, <1>3, <1>6, <1>7 DEF R!HoldInv, R!At
  <1>15. ASSUME NEW o \in Clients \ {r} PROVE R!HoldInv(o)'
    <2>1. R!HoldInv(o) /\ request'[o] = request[o]
      BY <1>0, <1>7 DEF R!ThrottleInv
    <2>2. CASE R!At(o, "insert limiter")
      <3>1. /\ request[o].with \in 1..limiters /\ request[o].limit \in Limits
            /\ limiter[request[o].limit] # request[o].with
        BY <1>0, <2>1, <2>2 DEF R!HoldInv, R!At
      <3>2. limiter[l] # request[o].with
        <4>1. SUFFICES ASSUME limiter[l] = request[o].with PROVE FALSE
          OBVIOUS
        <4>2. R!Owns(l, request[o].with) /\ R!Owns(request[o].limit, request[o].with)
          BY <1>0, <4>1 DEF R!Owns
        <4>3. QED
          BY <1>0, <1>2, <3>1, <4>1, <4>2, ThrottleOwned
      <3>3. \A c \in Clients \ {o} : request'[c].with # request'[o].with
        BY <1>0, <1>6, <1>7, <2>1, <2>2, <3>2 DEF R!HoldInv, R!At
      <3>4. QED
        BY <1>0, <2>1, <2>2, <3>1, <3>3 DEF R!HoldInv, R!At
    <2>3. CASE ~R!At(o, "insert limiter")
      BY <1>0, <2>1, <2>3 DEF R!HoldInv, R!At
    <2>4. QED
      BY <1>0, <2>2, <2>3
  <1>16. QED
    BY <1>0, <1>8, <1>9, <1>10, <1>12, <1>13, <1>14, <1>15 DEF R!ThrottleInv

\* ThrottleMakes: a limiter that a request makes is full, and its own.
LEMMA ThrottleMakes ==
    ASSUME R!ConstantsAssumption, R!ThrottleInv, NEW r \in Clients, R!GetLimiter(r),
           NEW l \in Limits, l = R!LimitOf(request[r].config, request[r].scope, request[r].tier),
           limiter[l] = 0
    PROVE  R!ThrottleInv'
  <1>0. /\ R!At(r, "limit")
        /\ UNCHANGED <<config, tier, entry, limiter, changes, admits, spent, replaced, aged>>
    BY DEF R!GetLimiter
  <1>1. R!TypeOK /\ R!ReadInv(r)
    BY <1>0 DEF R!ThrottleInv
  <1>2. l \in Limits /\ l \in Nat /\ request[r].with = 0 /\ request[r] \in R!Calls
    BY <1>0, <1>1, ThrottleAsks DEF R!TypeOK
  <1>3. MaxLimiters \in Nat /\ limiters \in Nat /\ limiters < MaxLimiters
    BY ThrottleBounds DEF R!GetLimiter
  <1>4. PICK n \in Nat : n = limiters + 1
    BY <1>3
  <1>5. /\ n \in 1..MaxLimiters /\ n \in 0..MaxLimiters /\ n # 0
        /\ \A i \in 0..limiters : i # n /\ i \in 0..n /\ i \in 0..MaxLimiters
        /\ \A i \in 1..n : i \in 1..limiters \/ i = n
        /\ \A i \in 1..limiters : i \in 0..limiters /\ i \in 1..n /\ i \in 1..MaxLimiters
        /\ 0 \in 0..limiters /\ n \in 1..n
    BY <1>3, <1>4
  <1>5a. limiters' = n
    BY <1>4 DEF R!GetLimiter
  <1>6. PICK m : m = [request[r] EXCEPT !.limit = l, !.with = n, !.step = "insert limiter"]
    OBVIOUS
  <1>7. m \in R!Calls
    BY <1>0, <1>2, <1>5, <1>6 DEF R!Calls, R!Steps
  <1>8. /\ request' = [request EXCEPT ![r] = m]
        /\ tokens' = [tokens EXCEPT ![n] = [s \in R!Scopes |-> l]]
    BY <1>4, <1>6 DEF R!GetLimiter
  <1>9. /\ m.step = "insert limiter" /\ m.limit = l /\ m.with = n
        /\ m.scope = request[r].scope /\ m.old = request[r].old /\ m.config = request[r].config
    BY <1>0, <1>2, <1>6 DEF R!Calls
  <1>10. /\ request' \in [Clients -> R!Calls] /\ request'[r] = m
         /\ \A o \in Clients \ {r} : request'[o] = request[o]
    BY <1>0, <1>1, <1>7, <1>8, ThrottleCalls
  <1>11. /\ tokens' \in [1..MaxLimiters -> [R!Scopes -> Nat]]
         /\ \A s \in R!Scopes : tokens'[n][s] = l
         /\ \A i \in 1..limiters : tokens'[i] = tokens[i]
    BY <1>1, <1>2, <1>5, <1>8 DEF R!TypeOK
  <1>12. limiter \in [Limits -> 0..limiters] /\ limiter \in [Limits -> 0..n]
    BY <1>0, <1>1, <1>5 DEF R!TypeOK
  <1>13. R!TypeOK'
    BY <1>0, <1>1, <1>5, <1>5a, <1>10, <1>11, <1>12 DEF R!TypeOK
  <1>14. R!ReadInv(r)'
    <2>1. request[r].config \in Configs /\ request[r].scope \in R!Scopes
      BY <1>0, <1>1 DEF R!ReadInv, R!At
    <2>2. ~request[r].old => l = R!LimitOf(config, request[r].scope,
                    IF request[r].scope = R!Root THEN R!Unset ELSE tier[request[r].scope])
      BY <1>0, ThrottleAsks
    <2>3. QED
      BY <1>0, <1>9, <1>10, <2>1, <2>2 DEF R!ReadInv, R!At, R!LimitOf
  <1>15. \A o \in Clients \ {r} : R!ReadInv(o)'
    BY <1>0, <1>10, ThrottleReadQuiet
  <1>16. R!EntryInv'
    BY <1>0 DEF R!ThrottleInv, R!EntryInv
  <1>17. \A o \in Clients : request[o].with \in 0..limiters /\ request[o].with # n
    BY <1>5 DEF R!ThrottleInv, R!HoldInv
  <1>18. R!LimiterInv'
    <2>1. \A k \in Limits, i \in 1..limiters : R!Owns(k, i)' => R!Owns(k, i)
      BY <1>0, <1>5, <1>9, <1>10 DEF R!Owns
    <2>2. \A k \in Limits : R!Owns(k, n)' => k = l
      BY <1>0, <1>5, <1>9, <1>10, <1>12, <1>17 DEF R!Owns
    <2>3. SUFFICES ASSUME NEW i \in 1..n, NEW k \in Limits, NEW j \in Limits,
                          R!Owns(k, i)', R!Owns(j, i)'
                   PROVE  k = j
      BY <1>5a DEF R!LimiterInv
    <2>4. CASE i = n
      BY <1>0, <2>2, <2>3, <2>4
    <2>5. CASE i \in 1..limiters
      BY <1>0, <2>1, <2>3, <2>5, ThrottleOwned
    <2>6. QED
      BY <1>0, <1>5, <2>4, <2>5
  <1>19. R!TokenInv'
    <2>1. \A k \in Limits : limiter[k] # 0 => limiter[k] \in 1..limiters
      BY <1>3, <1>12
    <2>2. QED
      BY <1>0, <1>11, <2>1 DEF R!ThrottleInv, R!TokenInv
  <1>20. R!HoldInv(r)'
    <2>1. n \in 1..n /\ limiter[l] # n
      BY <1>5
    <2>2. QED
      BY <1>0, <1>2, <1>5a, <1>9, <1>10, <1>11, <1>17, <2>1 DEF R!HoldInv, R!At
  <1>21. ASSUME NEW o \in Clients \ {r} PROVE R!HoldInv(o)'
    <2>1. R!HoldInv(o) /\ request'[o] = request[o]
      BY <1>0, <1>10 DEF R!ThrottleInv
    <2>2. CASE R!At(o, "insert limiter")
      <3>1. /\ request[o].with \in 1..limiters /\ request[o].limit \in Limits
            /\ limiter[request[o].limit] # request[o].with
            /\ \A s \in R!Scopes : tokens[request[o].with][s] = request[o].limit
        BY <2>1, <2>2 DEF R!HoldInv, R!At
      <3>2. \A c \in Clients \ {o} : request'[c].with # request'[o].with
        BY <1>0, <1>9, <1>10, <1>17, <2>1, <2>2 DEF R!HoldInv, R!At
      <3>3. request[o].with \in 1..limiters' /\ tokens'[request[o].with] = tokens[request[o].with]
        BY <1>5, <1>5a, <1>11, <3>1
      <3>4. /\ request'[o].step = "insert limiter" /\ request'[o].with \in 1..limiters'
            /\ request'[o].limit \in Limits /\ limiter'[request'[o].limit] # request'[o].with
            /\ \A s \in R!Scopes : tokens'[request'[o].with][s] = request'[o].limit
        BY <1>0, <2>1, <2>2, <3>1, <3>3 DEF R!At
      <3>5. QED
        BY <3>2, <3>4 DEF R!HoldInv, R!At
    <2>3. CASE ~R!At(o, "insert limiter")
      BY <1>0, <1>5, <1>5a, <2>1, <2>3 DEF R!HoldInv, R!At
    <2>4. QED
      BY <1>0, <2>2, <2>3
  <1>22. QED
    BY <1>0, <1>13, <1>14, <1>15, <1>16, <1>18, <1>19, <1>20, <1>21 DEF R!ThrottleInv

LEMMA ThrottleGets ==
    ASSUME R!ConstantsAssumption, R!ThrottleInv, NEW r \in Clients, R!GetLimiter(r)
    PROVE  R!ThrottleInv'
  <1>1. PICK l : l = R!LimitOf(request[r].config, request[r].scope, request[r].tier)
    OBVIOUS
  <1>2. l \in Limits
    BY <1>1, ThrottleAsks DEF R!GetLimiter
  <1>3. QED
    BY <1>1, <1>2, ThrottleFinds, ThrottleMakes

\* ThrottleHeld: a request that has made a limiter is the only one to hold it.
LEMMA ThrottleHeld ==
    ASSUME R!ThrottleInv, NEW r \in Clients, R!At(r, "insert limiter")
    PROVE  /\ request[r].with \in 1..limiters /\ request[r].limit \in Limits
           /\ R!Owns(request[r].limit, request[r].with)
           /\ \A l \in Limits : limiter[l] # request[r].with
           /\ \A o \in Clients \ {r} : request[o].with # request[r].with
           /\ \A s \in R!Scopes : tokens[request[r].with][s] = request[r].limit
  <1>1. R!HoldInv(r)
    BY DEF R!ThrottleInv
  <1>2. /\ request[r].with \in 1..limiters /\ request[r].limit \in Limits
        /\ limiter[request[r].limit] # request[r].with
        /\ \A o \in Clients \ {r} : request[o].with # request[r].with
        /\ \A s \in R!Scopes : tokens[request[r].with][s] = request[r].limit
    BY <1>1 DEF R!HoldInv, R!At
  <1>3. R!Owns(request[r].limit, request[r].with)
    BY DEF R!Owns
  <1>4. ASSUME NEW l \in Limits, limiter[l] = request[r].with PROVE FALSE
    <2>1. R!Owns(l, request[r].with)
      BY <1>4 DEF R!Owns
    <2>2. l = request[r].limit
      BY <1>2, <1>3, <2>1, ThrottleOwned
    <2>3. QED
      BY <1>2, <1>4, <2>2
  <1>5. QED
    BY <1>2, <1>3, <1>4

\* ThrottleInserts: the limiter that comes second takes the place of the first.
LEMMA ThrottleInserts ==
    ASSUME R!ConstantsAssumption, R!ThrottleInv, NEW r \in Clients, R!InsertLimiter(r)
    PROVE  R!ThrottleInv'
  <1> DEFINE l == request[r].limit
             i == request[r].with
  <1>1. /\ R!TypeOK /\ R!ReadInv(r) /\ R!At(r, "insert limiter")
        /\ UNCHANGED <<config, tier, entry, tokens, limiters, changes, admits, spent, aged>>
        /\ replaced' = IF limiter[l] # 0 THEN replaced \cup {l} ELSE replaced
        /\ limiter' = [limiter EXCEPT ![l] = i]
    BY DEF R!InsertLimiter, R!Inserted, R!ThrottleInv
  <1>2. /\ l \in Limits /\ i \in 1..limiters /\ R!Owns(l, i)
        /\ \A k \in Limits : limiter[k] # i
        /\ \A o \in Clients \ {r} : request[o].with # i
        /\ \A s \in R!Scopes : tokens[i][s] = l
    BY <1>1, ThrottleHeld
  <1>3. request[r] \in R!Calls /\ i \in 0..limiters /\ i # 0
    <2>1. request[r] \in R!Calls
      BY <1>1 DEF R!TypeOK
    <2>2. QED
      BY <1>2, <2>1, ThrottleBounds
  <1>4. PICK m : m = [request[r] EXCEPT !.step = "check"]
    OBVIOUS
  <1>5. m \in R!Calls /\ request' = [request EXCEPT ![r] = m]
    BY <1>3, <1>4 DEF R!InsertLimiter, R!Calls, R!Steps
  <1>6. /\ m.step = "check" /\ m.limit = l /\ m.with = i
        /\ m.scope = request[r].scope /\ m.old = request[r].old /\ m.config = request[r].config
    BY <1>3, <1>4 DEF R!Calls
  <1>7. /\ request' \in [Clients -> R!Calls] /\ request'[r] = m
        /\ \A o \in Clients \ {r} : request'[o] = request[o]
    BY <1>1, <1>5, ThrottleCalls
  <1> HIDE DEF l, i
  <1>8. /\ limiter' \in [Limits -> 0..limiters] /\ limiter'[l] = i
        /\ \A k \in Limits \ {l} : limiter'[k] = limiter[k]
    BY <1>1, <1>2, <1>3 DEF R!TypeOK
  <1>9. R!TypeOK'
    BY <1>1, <1>2, <1>7, <1>8 DEF R!TypeOK
  <1>10. R!ReadInv(r)'
    BY <1>1, <1>6, <1>7 DEF R!ReadInv, R!At, l
  <1>11. \A o \in Clients \ {r} : R!ReadInv(o)'
    BY <1>1, <1>7, ThrottleReadQuiet
  <1>12. R!EntryInv'
    BY <1>1 DEF R!ThrottleInv, R!EntryInv
  <1>13. R!LimiterInv'
    <2>1. ASSUME NEW k \in Limits, NEW j \in 1..limiters, R!Owns(k, j)' PROVE R!Owns(k, j)
      <3>1. CASE limiter'[k] = j
        <4>1. CASE k = l
          BY <1>2, <1>8, <3>1, <4>1
        <4>2. CASE k # l
          BY <1>8, <3>1, <4>2 DEF R!Owns
        <4>3. QED
          BY <4>1, <4>2
      <3>2. ASSUME NEW o \in Clients, request'[o].with = j, request'[o].limit = k
            PROVE  R!Owns(k, j)
        <4>1. request[o].with = j /\ request[o].limit = k
          BY <1>6, <1>7, <3>2 DEF l, i
        <4>2. QED
          BY <4>1 DEF R!Owns
      <3>3. QED
        BY <2>1, <3>1, <3>2 DEF R!Owns
    <2>2. QED
      BY <1>1, <2>1 DEF R!ThrottleInv, R!LimiterInv
  <1>14. R!TokenInv'
    <2> SUFFICES ASSUME NEW k \in Limits \ replaced', NEW s \in R!Scopes
                 PROVE  IF limiter'[k] = 0 THEN spent[k][s] = 0
                        ELSE tokens[limiter'[k]][s] + spent[k][s] = k
      BY <1>1 DEF R!TokenInv
    <2>1. k \notin replaced /\ (k = l => limiter[l] = 0)
      BY <1>1
    <2>2. IF limiter[k] = 0 THEN spent[k][s] = 0 ELSE tokens[limiter[k]][s] + spent[k][s] = k
      BY <2>1 DEF R!ThrottleInv, R!TokenInv
    <2>3. CASE k = l
      <3>1. spent[k][s] = 0 /\ limiter'[k] = i /\ tokens[i][s] = k
        BY <1>2, <1>8, <2>1, <2>2, <2>3
      <3>2. k \in Nat
        BY DEF R!ConstantsAssumption
      <3>3. QED
        BY <1>3, <3>1, <3>2
    <2>4. CASE k # l
      BY <1>8, <2>2, <2>4
    <2>5. QED
      BY <2>3, <2>4
  <1>15. R!HoldInv(r)'
    BY <1>1, <1>2, <1>6, <1>7, <1>8 DEF R!HoldInv, R!At
  <1>16. ASSUME NEW o \in Clients \ {r} PROVE R!HoldInv(o)'
    <2>1. R!HoldInv(o) /\ request'[o] = request[o]
      BY <1>7 DEF R!ThrottleInv
    <2>2. CASE R!At(o, "insert limiter")
      <3>1. /\ request[o].with \in 1..limiters /\ request[o].limit \in Limits
            /\ \A c \in Clients \ {o} : request[c].with # request[o].with
            /\ \A k \in Limits : limiter[k] # request[o].with
            /\ \A s \in R!Scopes : tokens[request[o].with][s] = request[o].limit
        BY <2>2, ThrottleHeld
      <3>2. \A c \in Clients \ {o} : request'[c].with # request'[o].with
        BY <1>6, <1>7, <2>1, <3>1 DEF i
      <3>3. limiter'[request[o].limit] # request[o].with
        BY <1>2, <1>8, <3>1
      <3>4. QED
        BY <1>1, <2>1, <2>2, <3>1, <3>2, <3>3 DEF R!HoldInv, R!At
    <2>3. CASE R!At(o, "check")
      <3>1. request[o].with \in 1..limiters /\ request[o].limit \in Limits
            /\ (request[o].limit \notin replaced => request[o].with = limiter[request[o].limit])
        BY <2>1, <2>3 DEF R!HoldInv, R!At
      <3>2. request[o].with # 0
        BY <3>1, ThrottleBounds
      <3>3. request[o].limit \notin replaced' => request[o].with = limiter'[request[o].limit]
        BY <1>1, <1>8, <3>1, <3>2
      <3>4. QED
        BY <1>1, <2>1, <2>3, <3>1, <3>3 DEF R!HoldInv, R!At
    <2>4. CASE ~R!At(o, "insert limiter") /\ ~R!At(o, "check")
      BY <2>1, <2>4 DEF R!HoldInv, R!At
    <2>5. QED
      BY <2>2, <2>3, <2>4
  <1>17. QED
    BY <1>9, <1>10, <1>11, <1>12, <1>13, <1>14, <1>15, <1>16 DEF R!ThrottleInv

\* ThrottleEnds: what the check of a request leaves of the requests.
LEMMA ThrottleEnds ==
    ASSUME R!ConstantsAssumption, R!ThrottleInv, NEW r \in Clients, R!At(r, "check"),
           request' = [request EXCEPT ![r] = R!NoRequest],
           UNCHANGED <<config, tier, limiter, limiters, replaced>>,
           \A i \in 1..limiters : i # request[r].with => tokens'[i] = tokens[i]
    PROVE  /\ request' \in [Clients -> R!Calls]
           /\ R!LimiterInv'
           /\ \A o \in Clients : R!ReadInv(o)' /\ R!HoldInv(o)'
  <1>1. /\ request' \in [Clients -> R!Calls] /\ request'[r] = R!NoRequest
        /\ \A o \in Clients \ {r} : request'[o] = request[o]
    BY ThrottleNoRequest, ThrottleCalls DEF R!ThrottleInv
  <1>2. R!NoRequest.with = 0 /\ R!NoRequest.step = "idle"
    BY DEF R!NoRequest
  <1>3. R!ReadInv(r)' /\ R!HoldInv(r)'
    BY <1>1, <1>2 DEF R!ReadInv, R!HoldInv, R!At
  <1>4. \A o \in Clients \ {r} : R!ReadInv(o)'
    BY <1>1, ThrottleReadQuiet
  <1>5. 0 \notin 1..limiters
    BY ThrottleBounds
  <1>6. \A k \in Limits, i \in 1..limiters : R!Owns(k, i)' => R!Owns(k, i)
    BY <1>1, <1>2, <1>5 DEF R!Owns
  <1>7. R!LimiterInv'
    BY <1>6 DEF R!ThrottleInv, R!LimiterInv
  <1>8. ASSUME NEW o \in Clients \ {r} PROVE R!HoldInv(o)'
    <2>1. R!HoldInv(o) /\ request'[o] = request[o]
      BY <1>1 DEF R!ThrottleInv
    <2>2. CASE R!At(o, "insert limiter")
      <3>1. /\ request[o].with \in 1..limiters /\ request[o].limit \in Limits
            /\ limiter[request[o].limit] # request[o].with
            /\ \A c \in Clients \ {o} : request[c].with # request[o].with
            /\ \A s \in R!Scopes : tokens[request[o].with][s] = request[o].limit
        BY <2>2, ThrottleHeld
      <3>2. \A c \in Clients \ {o} : request'[c].with # request'[o].with
        BY <1>1, <1>2, <1>5, <2>1, <3>1
      <3>3. UNCHANGED <<limiter, limiters>> /\ tokens'[request[o].with] = tokens[request[o].with]
        BY <3>1
      <3>4. /\ request'[o].step = "insert limiter" /\ request'[o].with \in 1..limiters'
            /\ request'[o].limit \in Limits /\ limiter'[request'[o].limit] # request'[o].with
            /\ \A s \in R!Scopes : tokens'[request'[o].with][s] = request'[o].limit
        BY <2>1, <2>2, <3>1, <3>3 DEF R!At
      <3>5. QED
        BY <3>2, <3>4 DEF R!HoldInv, R!At
    <2>3. CASE R!At(o, "check")
      <3>1. /\ request[o].with \in 1..limiters /\ request[o].limit \in Limits
            /\ (request[o].limit \notin replaced => request[o].with = limiter[request[o].limit])
        BY <2>1, <2>3 DEF R!HoldInv, R!At
      <3>2. UNCHANGED <<limiter, limiters, replaced>>
        OBVIOUS
      <3>3. /\ request'[o].step = "check"
            /\ request'[o].with \in 1..limiters' /\ request'[o].limit \in Limits
            /\ request'[o].limit \notin replaced' =>
                  request'[o].with = limiter'[request'[o].limit]
        BY <2>1, <2>3, <3>1, <3>2 DEF R!At
      <3>4. QED
        BY <3>3 DEF R!HoldInv, R!At
    <2>4. CASE ~R!At(o, "insert limiter") /\ ~R!At(o, "check")
      BY <2>1, <2>4 DEF R!HoldInv, R!At
    <2>5. QED
      BY <2>2, <2>3, <2>4
  <1>9. QED
    BY <1>1, <1>3, <1>4, <1>7, <1>8

\* ThrottleChecks: a request takes a token and what is spent is one more.
LEMMA ThrottleChecks ==
    ASSUME R!ConstantsAssumption, R!ThrottleInv, NEW r \in Clients, R!Check(r)
    PROVE  R!ThrottleInv'
  <1> DEFINE l == request[r].limit
             i == request[r].with
             c == request[r].scope
  <1>1. /\ R!TypeOK /\ R!At(r, "check")
        /\ request' = [request EXCEPT ![r] = R!NoRequest]
        /\ UNCHANGED <<config, tier, entry, limiter, limiters, changes, admits, replaced, aged>>
        /\ \/ /\ tokens[i][c] > 0
              /\ tokens' = [tokens EXCEPT ![i][c] = @ - 1]
              /\ spent' = [spent EXCEPT ![l][c] = @ + 1]
           \/ UNCHANGED <<tokens, spent>>
    BY DEF R!Check, R!ThrottleInv
  <1>2. i \in 1..limiters /\ l \in Limits /\ (l \notin replaced => i = limiter[l])
    BY <1>1 DEF R!ThrottleInv, R!HoldInv, R!At
  <1>3. R!Owns(l, i)
    BY DEF R!Owns
  <1>4. c \in R!Scopes
    BY <1>1 DEF R!ThrottleInv, R!ReadInv, R!At
  <1>5. i \in 1..MaxLimiters /\ i # 0
    BY <1>2, ThrottleBounds
  <1> HIDE DEF l, i, c
  <1>6. /\ tokens \in [1..MaxLimiters -> [R!Scopes -> Nat]]
        /\ spent \in [Limits -> [R!Scopes -> Nat]]
    BY <1>1 DEF R!TypeOK
  <1>7. /\ tokens' \in [1..MaxLimiters -> [R!Scopes -> Nat]]
        /\ spent' \in [Limits -> [R!Scopes -> Nat]]
        /\ \A j \in 1..MaxLimiters : j # i => tokens'[j] = tokens[j]
        /\ \A k \in Limits : k # l => spent'[k] = spent[k]
        /\ \A s \in R!Scopes : tokens'[i][s] + spent'[l][s] = tokens[i][s] + spent[l][s]
    <2>1. CASE UNCHANGED <<tokens, spent>>
      BY <1>6, <2>1
    <2>2. CASE /\ tokens[i][c] > 0
               /\ tokens' = [tokens EXCEPT ![i][c] = @ - 1]
               /\ spent' = [spent EXCEPT ![l][c] = @ + 1]
      <3>1. tokens[i][c] \in Nat /\ spent[l][c] \in Nat
        BY <1>2, <1>4, <1>5, <1>6
      <3>2. PICK a \in Nat, b \in Nat : a = tokens[i][c] - 1 /\ b = spent[l][c] + 1
        BY <2>2, <3>1
      <3>3. a + b = tokens[i][c] + spent[l][c]
        BY <3>1, <3>2
      <3>4. /\ tokens' = [tokens EXCEPT ![i] = [tokens[i] EXCEPT ![c] = a]]
            /\ spent' = [spent EXCEPT ![l] = [spent[l] EXCEPT ![c] = b]]
        BY <2>2, <3>2
      <3>5. PICK f, g : f = [tokens[i] EXCEPT ![c] = a] /\ g = [spent[l] EXCEPT ![c] = b]
        OBVIOUS
      <3>6. /\ tokens[i] \in [R!Scopes -> Nat] /\ spent[l] \in [R!Scopes -> Nat]
        BY <1>2, <1>5, <1>6
      <3>7. /\ f \in [R!Scopes -> Nat] /\ g \in [R!Scopes -> Nat] /\ f[c] = a /\ g[c] = b
            /\ \A s \in R!Scopes \ {c} : f[s] = tokens[i][s] /\ g[s] = spent[l][s]
        BY <1>4, <3>5, <3>6
      <3>8. /\ tokens' \in [1..MaxLimiters -> [R!Scopes -> Nat]] /\ tokens'[i] = f
            /\ \A j \in 1..MaxLimiters : j # i => tokens'[j] = tokens[j]
        BY <1>5, <1>6, <3>4, <3>5, <3>7
      <3>9. /\ spent' \in [Limits -> [R!Scopes -> Nat]] /\ spent'[l] = g
            /\ \A k \in Limits : k # l => spent'[k] = spent[k]
        BY <1>2, <1>6, <3>4, <3>5, <3>7
      <3>10. ASSUME NEW s \in R!Scopes
             PROVE  tokens'[i][s] + spent'[l][s] = tokens[i][s] + spent[l][s]
        <4>1. CASE s = c
          BY <3>3, <3>7, <3>8, <3>9, <4>1
        <4>2. CASE s # c
          BY <3>7, <3>8, <3>9, <4>2
        <4>3. QED
          BY <4>1, <4>2
      <3>11. QED
        BY <3>8, <3>9, <3>10
    <2>3. QED
      BY <1>1, <2>1, <2>2
  <1>8. \A j \in 1..limiters : j \in 1..MaxLimiters
    BY ThrottleBounds
  <1>9. \A j \in 1..limiters : j # request[r].with => tokens'[j] = tokens[j]
    BY <1>7, <1>8 DEF i
  <1>10. /\ request' \in [Clients -> R!Calls] /\ R!LimiterInv'
         /\ \A o \in Clients : R!ReadInv(o)' /\ R!HoldInv(o)'
    BY <1>1, <1>9, ThrottleEnds
  <1>11. R!TypeOK'
    BY <1>1, <1>7, <1>10 DEF R!TypeOK
  <1>12. R!EntryInv'
    BY <1>1 DEF R!ThrottleInv, R!EntryInv
  <1>13. R!TokenInv'
    <2> SUFFICES ASSUME NEW k \in Limits \ replaced, NEW s \in R!Scopes
                 PROVE  IF limiter[k] = 0 THEN spent'[k][s] = 0
                        ELSE tokens'[limiter[k]][s] + spent'[k][s] = k
      BY <1>1 DEF R!TokenInv
    <2>1. IF limiter[k] = 0 THEN spent[k][s] = 0 ELSE tokens[limiter[k]][s] + spent[k][s] = k
      BY DEF R!ThrottleInv, R!TokenInv
    <2>2. CASE k = l
      BY <1>2, <1>5, <1>7, <2>1, <2>2
    <2>3. CASE k # l /\ limiter[k] # 0
      <3>1. limiter[k] \in 0..limiters
        BY <1>1 DEF R!TypeOK
      <3>2. limiter[k] \in 1..limiters
        BY <2>3, <3>1, ThrottleBounds
      <3>3. limiter[k] # i
        <4>1. SUFFICES ASSUME limiter[k] = i PROVE FALSE
          OBVIOUS
        <4>2. R!Owns(k, i)
          BY <4>1 DEF R!Owns
        <4>3. QED
          BY <1>2, <1>3, <2>3, <4>2, ThrottleOwned
      <3>4. QED
        BY <1>7, <1>8, <2>1, <2>3, <3>2, <3>3
    <2>4. CASE k # l /\ limiter[k] = 0
      BY <1>7, <2>1, <2>4
    <2>5. QED
      BY <2>2, <2>3, <2>4
  <1>14. QED
    BY <1>10, <1>11, <1>12, <1>13 DEF R!ThrottleInv

\* ThrottleRefills: a bucket that fills up by a token has a token less spent of it.
LEMMA ThrottleRefills ==
    ASSUME R!ConstantsAssumption, R!ThrottleInv, NEW l \in Limits, R!Refill(l)
    PROVE  R!ThrottleInv'
  <1>1. /\ R!TypeOK
        /\ UNCHANGED <<config, tier, entry, limiter, limiters, request, changes, admits, replaced, aged>>
        /\ spent' = [spent EXCEPT ![l] = [s \in R!Scopes |-> IF @[s] > 0 THEN @[s] - 1 ELSE 0]]
    BY DEF R!Refill, R!ThrottleInv
  <1>2. tokens' = [i \in 1..MaxLimiters |->
                     IF R!Owns(l, i)
                     THEN [s \in R!Scopes |-> IF tokens[i][s] < l THEN tokens[i][s] + 1 ELSE l]
                     ELSE tokens[i]]
    BY DEF R!Refill, R!Owns
  <1>3. /\ tokens \in [1..MaxLimiters -> [R!Scopes -> Nat]]
        /\ spent \in [Limits -> [R!Scopes -> Nat]] /\ l \in Nat
    BY <1>1 DEF R!TypeOK, R!ConstantsAssumption
  <1>4. /\ spent' \in [Limits -> [R!Scopes -> Nat]]
        /\ \A s \in R!Scopes : spent'[l][s] = IF spent[l][s] > 0 THEN spent[l][s] - 1 ELSE 0
        /\ \A k \in Limits \ {l} : spent'[k] = spent[k]
    <2>1. PICK g : g = [s \in R!Scopes |-> IF spent[l][s] > 0 THEN spent[l][s] - 1 ELSE 0]
      OBVIOUS
    <2>2. spent' = [spent EXCEPT ![l] = g]
      BY <1>1, <2>1
    <2>3. g \in [R!Scopes -> Nat] /\ \A s \in R!Scopes : spent[l][s] \in Nat
      BY <1>3, <2>1
    <2>4. spent'[l] = g /\ spent' \in [Limits -> [R!Scopes -> Nat]]
          /\ \A k \in Limits \ {l} : spent'[k] = spent[k]
      BY <1>3, <2>2, <2>3
    <2>5. QED
      BY <2>1, <2>4
  <1>5. /\ \A i \in 1..MaxLimiters : ~R!Owns(l, i) => tokens'[i] = tokens[i]
        /\ \A i \in 1..MaxLimiters : R!Owns(l, i) => \A s \in R!Scopes :
              tokens'[i][s] = IF tokens[i][s] < l THEN tokens[i][s] + 1 ELSE l
    BY <1>2
  <1>6. tokens' \in [1..MaxLimiters -> [R!Scopes -> Nat]]
    <2>1. ASSUME NEW i \in 1..MaxLimiters
          PROVE  [s \in R!Scopes |-> IF tokens[i][s] < l THEN tokens[i][s] + 1 ELSE l]
                    \in [R!Scopes -> Nat]
      BY <1>3
    <2>2. QED
      BY <1>2, <1>3, <2>1
  <1>7. R!TypeOK'
    BY <1>1, <1>4, <1>6 DEF R!TypeOK
  <1>8. (R!EntryInv /\ \A r \in Clients : R!ReadInv(r))'
    BY <1>1 DEF R!ThrottleInv, R!EntryInv, R!ReadInv, R!At
  <1>9. R!LimiterInv'
    BY <1>1 DEF R!ThrottleInv, R!LimiterInv, R!Owns
  <1>10. \A i \in 1..limiters : i \in 1..MaxLimiters
    BY ThrottleBounds
  <1>11. R!TokenInv'
    <2> SUFFICES ASSUME NEW k \in Limits \ replaced, NEW s \in R!Scopes
                 PROVE  IF limiter[k] = 0 THEN spent'[k][s] = 0
                        ELSE tokens'[limiter[k]][s] + spent'[k][s] = k
      BY <1>1 DEF R!TokenInv
    <2>1. IF limiter[k] = 0 THEN spent[k][s] = 0 ELSE tokens[limiter[k]][s] + spent[k][s] = k
      BY DEF R!ThrottleInv, R!TokenInv
    <2>2. limiter[k] # 0 => limiter[k] \in 1..limiters
      <3>1. limiter[k] \in 0..limiters
        BY <1>1 DEF R!TypeOK
      <3>2. QED
        BY <3>1, ThrottleBounds
    <2>3. CASE limiter[k] = 0
      <3>1. CASE k = l
        BY <1>4, <2>1, <2>3, <3>1
      <3>2. CASE k # l
        BY <1>4, <2>1, <2>3, <3>2
      <3>3. QED
        BY <3>1, <3>2
    <2>4. CASE limiter[k] # 0 /\ k = l
      <3>1. R!Owns(l, limiter[l]) /\ limiter[l] \in 1..MaxLimiters
        BY <1>10, <2>2, <2>4 DEF R!Owns
      <3>2. PICK a \in Nat, b \in Nat : a = tokens[limiter[l]][s] /\ b = spent[l][s]
        BY <1>3, <3>1
      <3>3. /\ tokens'[limiter[l]][s] = IF a < l THEN a + 1 ELSE l
            /\ spent'[l][s] = IF b > 0 THEN b - 1 ELSE 0
            /\ a + b = l
        BY <1>4, <1>5, <2>1, <2>4, <3>1, <3>2
      <3>4. (IF a < l THEN a + 1 ELSE l) + (IF b > 0 THEN b - 1 ELSE 0) = l
        <4>1. a + b = l
          BY <3>3
        <4>2. QED
          BY <1>3, <4>1
      <3>5. QED
        BY <2>4, <3>3, <3>4
    <2>5. CASE limiter[k] # 0 /\ k # l
      <3>1. ~R!Owns(l, limiter[k])
        <4>1. R!Owns(k, limiter[k])
          BY DEF R!Owns
        <4>2. QED
          BY <2>2, <2>5, <4>1, ThrottleOwned
      <3>2. QED
        BY <1>4, <1>5, <1>10, <2>1, <2>2, <2>5, <3>1
    <2>6. QED
      BY <2>3, <2>4, <2>5
  <1>12. ASSUME NEW r \in Clients PROVE R!HoldInv(r)'
    <2>1. R!HoldInv(r) /\ request' = request
      BY <1>1 DEF R!ThrottleInv
    <2>2. CASE R!At(r, "insert limiter")
      <3>1. /\ request[r].with \in 1..limiters /\ request[r].limit \in Limits
            /\ R!Owns(request[r].limit, request[r].with)
            /\ \A s \in R!Scopes : tokens[request[r].with][s] = request[r].limit
        BY <2>2, ThrottleHeld
      <3>2. \A s \in R!Scopes : tokens'[request[r].with][s] = request[r].limit
        <4>1. CASE R!Owns(l, request[r].with)
          <5>1. request[r].limit = l
            BY <3>1, <4>1, ThrottleOwned
          <5>2. QED
            BY <1>3, <1>5, <1>10, <3>1, <4>1, <5>1
        <4>2. CASE ~R!Owns(l, request[r].with)
          BY <1>5, <1>10, <3>1, <4>2
        <4>3. QED
          BY <4>1, <4>2
      <3>3. QED
        BY <1>1, <2>1, <2>2, <3>2 DEF R!HoldInv, R!At
    <2>3. CASE ~R!At(r, "insert limiter")
      BY <1>1, <2>1, <2>3 DEF R!HoldInv, R!At
    <2>4. QED
      BY <2>2, <2>3
  <1>13. QED
    BY <1>7, <1>8, <1>9, <1>11, <1>12 DEF R!ThrottleInv

\* ThrottleOutdated: a change makes old what the requests under way have read.
LEMMA ThrottleOutdated ==
    ASSUME R!ConstantsAssumption, R!ThrottleInv, request' = R!Outdated,
           UNCHANGED <<limiter, tokens, limiters, spent, replaced>>
    PROVE  /\ request' \in [Clients -> R!Calls]
           /\ (R!LimiterInv /\ R!TokenInv /\ \A r \in Clients : R!HoldInv(r))'
           /\ config' \in Configs => \A r \in Clients : R!ReadInv(r)'
  <1>1. ASSUME NEW r \in Clients
        PROVE  /\ request'[r] \in R!Calls
               /\ request'[r].old = ~R!At(r, "idle")
               /\ request'[r].step = request[r].step /\ request'[r].scope = request[r].scope
               /\ request'[r].config = request[r].config
               /\ request'[r].with = request[r].with /\ request'[r].limit = request[r].limit
    <2>1. PICK b \in BOOLEAN : b = ~R!At(r, "idle")
      OBVIOUS
    <2>2. request'[r] = [request[r] EXCEPT !.old = b] /\ request[r] \in R!Calls
      BY <2>1 DEF R!Outdated, R!ThrottleInv, R!TypeOK
    <2>3. QED
      BY <2>1, <2>2 DEF R!Calls
  <1>2. request' \in [Clients -> R!Calls]
    BY <1>1 DEF R!Outdated
  <1>3. (R!LimiterInv /\ R!TokenInv /\ \A r \in Clients : R!HoldInv(r))'
    BY <1>1, ThrottleHolds
  <1>4. ASSUME NEW r \in Clients PROVE R!ReadInv(r)'
    <2>1. R!ReadInv(r)
      BY DEF R!ThrottleInv
    <2>2. ~request'[r].old => request'[r].step = "idle"
      BY <1>1 DEF R!At
    <2>3. QED
      BY <1>1, <2>1, <2>2 DEF R!ReadInv, R!At
  <1>5. QED
    BY <1>2, <1>3, <1>4

LEMMA ThrottleChanges ==
    ASSUME R!ConstantsAssumption, R!ThrottleInv, R!ChangeConfig PROVE R!ThrottleInv'
  <1>1. /\ R!TypeOK /\ R!EntryInv /\ config' \in Configs /\ aged' = aged \cup {"config"}
        /\ request' = R!Outdated
        /\ UNCHANGED <<tier, entry, limiter, tokens, limiters, admits, spent, replaced>>
    BY DEF R!ChangeConfig, R!ThrottleInv
  <1>2. /\ request' \in [Clients -> R!Calls]
        /\ (R!LimiterInv /\ R!TokenInv /\ \A r \in Clients : R!HoldInv(r))'
        /\ \A r \in Clients : R!ReadInv(r)'
    BY <1>1, ThrottleOutdated
  <1>3. R!TypeOK'
    BY <1>1, <1>2 DEF R!TypeOK
  <1>4. R!EntryInv'
    BY <1>1 DEF R!EntryInv
  <1>5. QED
    BY <1>2, <1>3, <1>4 DEF R!ThrottleInv

LEMMA ThrottleChangesTier ==
    ASSUME R!ConstantsAssumption, R!ThrottleInv, NEW t \in Throttled, R!ChangeTier(t)
    PROVE  R!ThrottleInv'
  <1>1. /\ R!TypeOK /\ R!EntryInv /\ aged' = aged \cup {t}
        /\ tier' = [tier EXCEPT ![t] = IF @ = "free" THEN "pro" ELSE "free"]
        /\ request' = R!Outdated
        /\ UNCHANGED <<config, entry, limiter, tokens, limiters, admits, spent, replaced>>
    BY DEF R!ChangeTier, R!ThrottleInv
  <1>2. config' \in Configs
    BY <1>1 DEF R!TypeOK
  <1>3. /\ request' \in [Clients -> R!Calls]
        /\ (R!LimiterInv /\ R!TokenInv /\ \A r \in Clients : R!HoldInv(r))'
        /\ \A r \in Clients : R!ReadInv(r)'
    BY <1>1, <1>2, ThrottleOutdated
  <1>4. tier' \in [Throttled -> R!Tiers] /\ \A u \in Throttled \ {t} : tier'[u] = tier[u]
    BY <1>1 DEF R!TypeOK, R!Tiers
  <1>5. R!TypeOK'
    BY <1>1, <1>3, <1>4 DEF R!TypeOK
  <1>6. t # "config"
    BY DEF R!ConstantsAssumption
  <1>7. R!EntryInv'
    BY <1>1, <1>4, <1>6 DEF R!EntryInv
  <1>8. QED
    BY <1>3, <1>5, <1>7 DEF R!ThrottleInv

\* ThrottleEvicts: what is gone from the cache is not stale.
LEMMA ThrottleEvicts ==
    ASSUME R!ConstantsAssumption, R!ThrottleInv, R!Evict PROVE R!ThrottleInv'
  <1>1. /\ R!TypeOK /\ R!EntryInv
        /\ UNCHANGED <<config, tier, limiter, tokens, limiters, request, changes, admits, spent,
                       replaced, aged>>
    BY DEF R!Evict, R!ThrottleInv
  <1>2. entry.config \in Configs \cup {R!NoConfig} /\ entry.tier \in [Throttled -> R!Tiers \cup {R!Unset}]
    BY <1>1 DEF R!TypeOK
  <1>3. entry' \in [config : Configs \cup {R!NoConfig}, tier : [Throttled -> R!Tiers \cup {R!Unset}]]
        /\ R!EntryInv'
    <2>1. CASE entry' = [entry EXCEPT !.config = R!NoConfig]
      <3>1. entry'.config = R!NoConfig /\ entry'.tier = entry.tier
            /\ entry' \in [config : Configs \cup {R!NoConfig},
                           tier : [Throttled -> R!Tiers \cup {R!Unset}]]
        BY <1>1, <2>1 DEF R!TypeOK
      <3>2. QED
        BY <1>1, <3>1 DEF R!EntryInv
    <2>2. ASSUME NEW t \in Throttled, entry' = [entry EXCEPT !.tier[t] = R!Unset]
          PROVE  entry' \in [config : Configs \cup {R!NoConfig},
                             tier : [Throttled -> R!Tiers \cup {R!Unset}]]
                 /\ R!EntryInv'
      <3>1. PICK e : e = [entry.tier EXCEPT ![t] = R!Unset]
        OBVIOUS
      <3>2. entry' = [entry EXCEPT !.tier = e]
        BY <2>2, <3>1
      <3>3. e \in [Throttled -> R!Tiers \cup {R!Unset}] /\ e[t] = R!Unset
            /\ \A u \in Throttled \ {t} : e[u] = entry.tier[u]
        BY <1>2, <3>1
      <3>4. entry'.config = entry.config /\ entry'.tier = e
            /\ entry' \in [config : Configs \cup {R!NoConfig},
                           tier : [Throttled -> R!Tiers \cup {R!Unset}]]
        BY <1>1, <3>2, <3>3 DEF R!TypeOK
      <3>5. QED
        BY <1>1, <3>3, <3>4 DEF R!EntryInv
    <2>3. QED
      BY <2>1, <2>2 DEF R!Evict
  <1>4. R!TypeOK'
    BY <1>1, <1>3 DEF R!TypeOK
  <1>5. \A r \in Clients : R!ReadInv(r)'
    BY <1>1, ThrottleReadQuiet
  <1>6. (R!LimiterInv /\ R!TokenInv /\ \A r \in Clients : R!HoldInv(r))'
    BY <1>1, ThrottleHolds
  <1>7. QED
    BY <1>3, <1>4, <1>5, <1>6 DEF R!ThrottleInv

LEMMA ThrottleStart == R!ConstantsAssumption /\ R!Init => R!ThrottleInv
  <1> SUFFICES ASSUME R!ConstantsAssumption, R!Init PROVE R!ThrottleInv
    OBVIOUS
  <1>1. 0 \in 0..MaxLimiters /\ 0 \in 0..limiters /\ limiters = 0 /\ 1..limiters = {}
    BY DEF R!Init, R!ConstantsAssumption
  <1>2. [r \in Clients |-> R!NoRequest] \in [Clients -> R!Calls]
    BY ThrottleNoRequest
  <1>3. R!TypeOK
    BY <1>1, <1>2 DEF R!Init, R!TypeOK, R!Tiers
  <1>4. R!EntryInv
    BY DEF R!Init, R!EntryInv
  <1>5. R!LimiterInv
    BY <1>1 DEF R!LimiterInv
  <1>6. R!TokenInv
    BY DEF R!Init, R!TokenInv
  <1>7. \A r \in Clients : R!ReadInv(r) /\ R!HoldInv(r)
    BY DEF R!Init, R!ReadInv, R!HoldInv, R!At, R!NoRequest
  <1>8. QED
    BY <1>3, <1>4, <1>5, <1>6, <1>7 DEF R!ThrottleInv

LEMMA ThrottleStep ==
    ASSUME R!ConstantsAssumption, R!ThrottleInv, R!Next PROVE R!ThrottleInv'
  BY ThrottleArrives, ThrottleReadsConfig, ThrottleInsertsConfig, ThrottleReadsTier,
     ThrottleInsertsTier, ThrottleGets, ThrottleInserts, ThrottleChecks, ThrottleRefills,
     ThrottleChanges, ThrottleChangesTier, ThrottleEvicts DEF R!Next

LEMMA ThrottleStays == R!ThrottleInv /\ UNCHANGED throttle => R!ThrottleInv'
  <1> SUFFICES ASSUME R!ThrottleInv, UNCHANGED throttle PROVE R!ThrottleInv'
    OBVIOUS
  <1>1. UNCHANGED <<config, tier, entry, limiter, tokens, limiters, request, spent, replaced, aged>>
    BY DEF throttle
  <1>2. R!TypeOK'
    BY <1>1 DEF R!ThrottleInv, R!TypeOK
  <1>3. (R!EntryInv /\ R!LimiterInv /\ R!TokenInv)'
    BY <1>1 DEF R!ThrottleInv, R!EntryInv, R!LimiterInv, R!TokenInv, R!Owns
  <1>4. \A r \in Clients : R!ReadInv(r)'
    BY <1>1, ThrottleReadQuiet
  <1>5. \A r \in Clients : R!HoldInv(r)'
    BY <1>1 DEF R!ThrottleInv, R!HoldInv, R!At
  <1>6. QED
    BY <1>2, <1>3, <1>4, <1>5 DEF R!ThrottleInv

\* ThrottleHolding: what is spent is no more than a bucket, and what is checked
\* is the limit of the scope.
LEMMA ThrottleHolding ==
    ASSUME R!ConstantsAssumption, R!ThrottleInv PROVE R!TypeOK /\ R!LimitHolds /\ R!LimitIsOwn
  <1>1. R!TypeOK
    BY DEF R!ThrottleInv
  <1>2. ASSUME NEW l \in Limits \ replaced, NEW s \in R!Scopes PROVE spent[l][s] <= l
    <2>1. l \in Nat /\ spent[l][s] \in Nat
      BY <1>1 DEF R!TypeOK, R!ConstantsAssumption
    <2>2. IF limiter[l] = 0 THEN spent[l][s] = 0 ELSE tokens[limiter[l]][s] + spent[l][s] = l
      BY DEF R!ThrottleInv, R!TokenInv
    <2>3. CASE limiter[l] = 0
      BY <2>1, <2>2, <2>3
    <2>4. CASE limiter[l] # 0
      <3>1. limiter[l] \in 0..limiters
        BY <1>1 DEF R!TypeOK
      <3>2. limiter[l] \in 1..MaxLimiters
        BY <2>4, <3>1, ThrottleBounds
      <3>3. tokens[limiter[l]][s] \in Nat
        BY <1>1, <3>2 DEF R!TypeOK
      <3>4. QED
        BY <2>1, <2>2, <2>4, <3>3
    <2>5. QED
      BY <2>3, <2>4
  <1>3. R!LimitIsOwn
    BY DEF R!ThrottleInv, R!ReadInv, R!LimitIsOwn, R!At
  <1>4. QED
    BY <1>1, <1>2, <1>3 DEF R!LimitHolds

\* SettingsHold: the stored secret is the last one typed, a general field the
\* last value sent for it, a client has no more admitted than the limit of its
\* scope, but for what overlapped (see SecretKept, GeneralKept, LimitHolds).
THEOREM SettingsHold == MCSpec => []SettingsSafe
  <1> DEFINE Inv == /\ part = "settings" => G!SettingsInv
                    /\ part = "throttle" => R!ThrottleInv
  <1>1. MCInit => Inv
    BY PartsAssumption, SettingsStart, ThrottleStart DEF MCInit
  <1>2. Inv /\ [MCNext]_mcVars => Inv'
    <2> SUFFICES ASSUME Inv, [MCNext]_mcVars PROVE Inv'
      OBVIOUS
    <2>1. CASE part' = "settings"
      <3>1. part = "settings" /\ (G!Next \/ UNCHANGED settings)
        BY <2>1 DEF MCNext, mcVars
      <3>2. QED
        BY <2>1, <3>1, PartsAssumption, SettingsStep, SettingsStays
    <2>2. CASE part' = "throttle"
      <3>1. part = "throttle" /\ (R!Next \/ UNCHANGED throttle)
        BY <2>2 DEF MCNext, mcVars
      <3>2. QED
        BY <2>2, <3>1, PartsAssumption, ThrottleStep, ThrottleStays
    <2>3. QED
      BY <2>1, <2>2
  <1>3. Inv => SettingsSafe
    BY PartsAssumption, ThrottleHolding DEF SettingsSafe, G!SettingsInv
  <1>4. QED
    BY <1>1, <1>2, <1>3, PTL DEF MCSpec

-----------------------------------------------------------------------------
(* The scheduler.                                                          *)

\* Positions and minutes, minutes and intervals: quotient and remainder.
LEMMA DivMod ==
    ASSUME NEW n \in Nat, NEW s \in Nat \ {0}
    PROVE  /\ n = s * (n \div s) + (n % s)
           /\ n \div s \in Nat /\ n % s \in 0..(s - 1)
  BY SMT

\* There is one quotient and one remainder.
LEMMA DivUnique ==
    ASSUME NEW n \in Nat, NEW s \in Nat \ {0}, NEW m \in Nat, NEW r \in 0..(s - 1), n = s * m + r
    PROVE  n \div s = m /\ n % s = r
  BY SMT

\* Division is monotone.
LEMMA DivMono ==
    ASSUME NEW n \in Nat, NEW s \in Nat \ {0}, NEW m \in Nat, n <= m
    PROVE  (n \div s) <= (m \div s)
  BY SMT

\* A product is at least as large as what one factor grows by.
LEMMA Apart ==
    ASSUME NEW m \in Nat, NEW n \in Nat, NEW s \in Nat, m < n
    PROVE  m * s + s <= n * s
  <1>1. n >= m + 1
    OBVIOUS
  <1>2. n * s >= (m + 1) * s
    BY <1>1
  <1>3. (m + 1) * s = m * s + s
    OBVIOUS
  <1>4. QED
    BY <1>2, <1>3

\* The next position is in the same minute or the first of the next.
LEMMA NextPosition ==
    ASSUME NEW n \in Nat, NEW s \in Nat \ {0}
    PROVE  \/ /\ n % s = s - 1 /\ (n + 1) \div s = (n \div s) + 1 /\ (n + 1) % s = 0
           \/ /\ n % s < s - 1 /\ (n + 1) \div s = n \div s /\ (n + 1) % s = (n % s) + 1
  <1> DEFINE m == n \div s
             r == n % s
  <1>1. m \in Nat /\ r \in 0..(s - 1) /\ n = s * m + r
    BY DivMod
  <1>2. ASSUME r = s - 1 PROVE (n + 1) \div s = m + 1 /\ (n + 1) % s = 0
    <2>1. n + 1 = s * (m + 1) + 0 /\ 0 \in 0..(s - 1) /\ n + 1 \in Nat /\ m + 1 \in Nat
      BY <1>1, <1>2
    <2> HIDE DEF m, r
    <2>2. QED
      BY <2>1, DivUnique
  <1>3. ASSUME r < s - 1 PROVE (n + 1) \div s = m /\ (n + 1) % s = r + 1
    <2>1. n + 1 = s * m + (r + 1) /\ r + 1 \in 0..(s - 1) /\ n + 1 \in Nat /\ m \in Nat
      BY <1>1, <1>3
    <2> HIDE DEF m, r
    <2>2. QED
      BY <2>1, DivUnique
  <1>4. r = s - 1 \/ r < s - 1
    BY <1>1
  <1>5. QED
    BY <1>2, <1>3, <1>4

\* Every moment has its minute and its interval.
LEMMA TimeFacts ==
    ASSUME D!ConstantsAssumption, NEW time \in 0..(Minutes * Positions + MaxDelay)
    PROVE  /\ time \in Nat /\ Positions \in Nat \ {0} /\ MaxDelay \in 0..(Positions - 1)
           /\ D!Minute(time) \in D!Stamps /\ time % Positions \in 0..(Positions - 1)
           /\ D!Minute(time) \in Nat /\ D!Window(time) \in D!Windows /\ D!Window(time) \in Nat
  <1>1. /\ Positions \in Nat \ {0} /\ MaxDelay \in 0..(Positions - 1) /\ Minutes \in Nat
        /\ Interval \in Nat \ {0} /\ Minutes * Positions \in Nat /\ time \in Nat
    BY DEF D!ConstantsAssumption
  <1> DEFINE m == time \div Positions
             end == Minutes * Positions + Positions
  <1>2. /\ m \in Nat /\ time % Positions \in 0..(Positions - 1)
        /\ time = Positions * m + (time % Positions)
    BY <1>1, DivMod
  <1>3. m <= Minutes
    <2>1. SUFFICES ASSUME Minutes < m PROVE FALSE
      BY <1>1, <1>2
    <2>2. Minutes * Positions + Positions <= m * Positions
      BY <1>1, <1>2, <2>1, Apart
    <2>3. m * Positions = Positions * m /\ m * Positions \in Nat
      BY <1>1, <1>2
    <2> HIDE DEF m
    <2>4. QED
      BY <1>1, <1>2, <2>2, <2>3
  <1>4. end \in Nat /\ time <= end
    BY <1>1
  <1>5. m <= end \div Positions /\ end \div Positions \in Nat
    <2> HIDE DEF end
    <2>1. QED
      BY <1>1, <1>4, DivMono, DivMod
  <1>6. /\ m \div Interval <= (end \div Positions) \div Interval
        /\ m \div Interval \in Nat /\ (end \div Positions) \div Interval \in Nat
    <2> HIDE DEF m, end
    <2>1. QED
      BY <1>1, <1>2, <1>5, DivMono, DivMod
  <1>7. D!Minute(time) = m /\ D!Window(time) = m \div Interval
        /\ D!Windows = 0..((end \div Positions) \div Interval) /\ D!Stamps = 0..Minutes
    BY DEF D!Minute, D!Window, D!Windows, D!Stamps
  <1> HIDE DEF m, end
  <1>8. QED
    BY <1>1, <1>2, <1>3, <1>6, <1>7

\* Later is in no earlier interval.
LEMMA WindowsGrow ==
    ASSUME D!ConstantsAssumption, NEW s \in Nat, NEW t \in Nat, s <= t
    PROVE  D!Window(s) <= D!Window(t) /\ D!Window(s) \in Nat /\ D!Window(t) \in Nat
  <1>1. Positions \in Nat \ {0} /\ Interval \in Nat \ {0}
    BY DEF D!ConstantsAssumption
  <1>2. s \div Positions <= t \div Positions /\ s \div Positions \in Nat /\ t \div Positions \in Nat
    BY <1>1, DivMono, DivMod
  <1>3. QED
    BY <1>1, <1>2, DivMono, DivMod DEF D!Window, D!Minute

\* A tick serves one due time.
LEMMA OneServed ==
    ASSUME D!ConstantsAssumption, NEW x \in D!Tasks, NEW now \in Nat,
           NEW d \in D!Served(x, now), NEW e \in D!Served(x, now)
    PROVE  d = e
  <1>1. /\ Positions \in Nat \ {0} /\ Due[x] \in Nat /\ d \in Nat /\ e \in Nat
        /\ d * Positions + Due[x] + Positions > now /\ d * Positions + Due[x] <= now
        /\ e * Positions + Due[x] + Positions > now /\ e * Positions + Due[x] <= now
    BY DEF D!ConstantsAssumption, D!Served, D!InWindow, D!Stamps
  <1>2. d * Positions \in Nat /\ e * Positions \in Nat
    BY <1>1
  <1>3. ~(d < e)
    <2>1. SUFFICES ASSUME d < e PROVE FALSE
      OBVIOUS
    <2>2. d * Positions + Positions <= e * Positions
      BY <1>1, <2>1, Apart
    <2>3. QED
      BY <1>1, <1>2, <2>2
  <1>4. ~(e < d)
    <2>1. SUFFICES ASSUME e < d PROVE FALSE
      OBVIOUS
    <2>2. e * Positions + Positions <= d * Positions
      BY <1>1, <2>1, Apart
    <2>3. QED
      BY <1>1, <1>2, <2>2
  <1>5. QED
    BY <1>1, <1>3, <1>4

\* A steady due time is served by the ticks of one minute.
LEMMA SteadyTick ==
    ASSUME D!ConstantsAssumption, NEW x \in D!Tasks, D!Steady(x), NEW now \in Nat,
           now % Positions <= MaxDelay, NEW d \in D!Stamps,
           D!InWindow(d * Positions + Due[x], now)
    PROVE  D!Minute(now) = D!TickOf(x, d)
  <1> DEFINE m == now \div Positions
             r == now % Positions
  <1>1. /\ Positions \in Nat \ {0} /\ Due[x] \in 0..(Positions - 1) /\ d \in Nat
        /\ MaxDelay \in Nat /\ MaxDelay < Positions
        /\ d * Positions + Due[x] + Positions > now /\ d * Positions + Due[x] <= now
    BY DEF D!ConstantsAssumption, D!InWindow, D!Stamps
  <1>2. m \in Nat /\ r \in 0..(Positions - 1) /\ now = m * Positions + r /\ r <= MaxDelay
        /\ m * Positions \in Nat
    <2>1. m \in Nat /\ r \in 0..(Positions - 1) /\ now = Positions * m + r /\ r <= MaxDelay
      BY <1>1, DivMod
    <2> HIDE DEF m, r
    <2>2. QED
      BY <1>1, <2>1
  <1>3. D!Minute(now) = m
    BY DEF D!Minute
  <1>4. D!TickOf(x, d) = (IF Due[x] = 0 THEN d ELSE d + 1) /\ (Due[x] = 0 \/ Due[x] > MaxDelay)
    BY DEF D!TickOf, D!Steady
  <1>5. d * Positions \in Nat
    BY <1>1
  <1> HIDE DEF m, r
  <1>6. ~(m < d)
    <2>1. SUFFICES ASSUME m < d PROVE FALSE
      OBVIOUS
    <2>2. m * Positions + Positions <= d * Positions
      BY <1>1, <1>2, <2>1, Apart
    <2>3. QED
      BY <1>1, <1>2, <1>5, <2>2
  <1>7. ~(d + 1 < m)
    <2>1. SUFFICES ASSUME d + 1 < m PROVE FALSE
      OBVIOUS
    <2>2. (d + 1) * Positions + Positions <= m * Positions
      BY <1>1, <1>2, <2>1, Apart
    <2>3. (d + 1) * Positions = d * Positions + Positions
      BY <1>1
    <2>4. QED
      BY <1>1, <1>2, <1>5, <2>2, <2>3
  <1>8. m = d \/ m = d + 1
    BY <1>1, <1>2, <1>6, <1>7
  <1>9. m = d + 1 => m * Positions = d * Positions + Positions
    BY <1>1
  <1>10. QED
    BY <1>1, <1>2, <1>3, <1>4, <1>5, <1>8, <1>9

\* A steady task is due in every minute but the first.
LEMMA SteadyDue ==
    ASSUME D!ConstantsAssumption, NEW x \in D!Tasks, D!Steady(x), NEW now \in Nat,
           now % Positions <= MaxDelay, D!Minute(now) \in 1..Minutes
    PROVE  D!IsDue(x, now)
  <1> DEFINE m == now \div Positions
             r == now % Positions
  <1>1. /\ Positions \in Nat \ {0} /\ Due[x] \in 0..(Positions - 1) /\ Minutes \in Nat
        /\ MaxDelay \in Nat /\ MaxDelay < Positions /\ m \in 1..Minutes
    BY DEF D!ConstantsAssumption, D!Minute
  <1>2. m \in Nat /\ r \in 0..(Positions - 1) /\ now = m * Positions + r /\ r <= MaxDelay
        /\ m * Positions \in Nat
    <2>1. m \in Nat /\ r \in 0..(Positions - 1) /\ now = Positions * m + r /\ r <= MaxDelay
      BY <1>1, DivMod
    <2> HIDE DEF m, r
    <2>2. QED
      BY <1>1, <2>1
  <1> HIDE DEF m, r
  <1>3. CASE Due[x] = 0
    <2>1. m \in D!Stamps /\ D!InWindow(m * Positions + Due[x], now)
      BY <1>1, <1>2, <1>3 DEF D!Stamps, D!InWindow
    <2>2. QED
      BY <2>1 DEF D!IsDue, D!Served
  <1>4. CASE Due[x] > MaxDelay
    <2>1. m - 1 \in D!Stamps /\ (m - 1) * Positions = m * Positions - Positions
      BY <1>1, <1>2 DEF D!Stamps
    <2>2. D!InWindow((m - 1) * Positions + Due[x], now)
      BY <1>1, <1>2, <1>4, <2>1 DEF D!InWindow
    <2>3. QED
      BY <2>1, <2>2 DEF D!IsDue, D!Served
  <1>5. QED
    BY <1>3, <1>4 DEF D!Steady

\* What holds of every tick at work.
SoundTick(t) ==
    /\ t \in D!Ticks /\ t.now <= clock /\ t.ran + Len(t.todo) <= Len(Jobs)
    /\ t.now % Positions <= MaxDelay
    /\ D!Fresh(t) => t.todo = Jobs /\ t.ran = 0
    /\ t.step \in {"lock", "run"} => t.todo # <<>>
    /\ t.win <= D!Window(clock)
    /\ \A x \in D!Tasks : D!Takes(t, x) => D!IsDue(x, t.now)
TicksInv ==
    /\ clock \in 0..(Minutes * Positions + MaxDelay) /\ IsFiniteSet(ticks)
    /\ Cardinality(ticks) <= MaxTicks /\ \A t \in ticks : SoundTick(t)

\* Sizes are the same in the scheduler's module.
LEMMA SchedulerSizes ==
    ASSUME NEW X
    PROVE  D!Cardinality(X) = Cardinality(X) /\ D!IsFiniteSet(X) = IsFiniteSet(X)
  BY DEF D!Cardinality, Cardinality, D!IsFiniteSet, IsFiniteSet

\* The fields of a tick.
LEMMA TickFields ==
    ASSUME NEW t \in D!Ticks
    PROVE  /\ t.ticker \in D!Tickers /\ t.now \in Nat /\ t.step \in D!Steps
           /\ t.todo \in Seq(D!JobSet) /\ t.ran \in Nat /\ t.win \in Nat /\ t.read \in Nat
           /\ Len(t.todo) \in Nat /\ DOMAIN t.todo = 1..Len(t.todo)
           /\ t.todo # <<>> => /\ Head(t.todo) \in D!JobSet /\ Tail(t.todo) \in Seq(D!JobSet)
                               /\ Len(Tail(t.todo)) = Len(t.todo) - 1 /\ Len(t.todo) # 0
                               /\ Head(t.todo) = t.todo[1]
  <1>1. /\ t.ticker \in D!Tickers /\ t.now \in Nat /\ t.step \in D!Steps
        /\ t.todo \in Seq(D!JobSet) /\ t.ran \in Nat /\ t.win \in Nat /\ t.read \in Nat
    BY DEF D!Ticks
  <1>2. QED
    BY <1>1

\* The tick t after a step: another of its fields has changed.
StepTo(t, s) == [t EXCEPT !.step = s]

\* A tick that works stays sound, or is gone.
LEMMA WorkSound ==
    ASSUME D!ConstantsAssumption, TicksInv, D!TypeOK, NEW t \in ticks, D!Work(t)
    PROVE  /\ UNCHANGED <<limited, clock, tickers, last>>
           /\ \/ ticks' = ticks \ {t}
              \/ \E u : SoundTick(u) /\ ticks' = (ticks \ {t}) \cup {u}
  <1>1. SoundTick(t) /\ t \in D!Ticks
    BY DEF TicksInv, SoundTick
  <1>2. /\ t.ticker \in D!Tickers /\ t.now \in Nat /\ t.step \in D!Steps
        /\ t.todo \in Seq(D!JobSet) /\ t.ran \in Nat /\ t.win \in Nat /\ t.read \in Nat
        /\ Len(t.todo) \in Nat /\ DOMAIN t.todo = 1..Len(t.todo)
        /\ t.todo # <<>> => /\ Head(t.todo) \in D!JobSet /\ Tail(t.todo) \in Seq(D!JobSet)
                            /\ Len(Tail(t.todo)) = Len(t.todo) - 1 /\ Len(t.todo) # 0
    BY <1>1, TickFields
  <1>3. D!Window(clock) \in Nat /\ D!Window(clock) \in D!Windows
    BY TimeFacts DEF TicksInv
  <1>4. count[D!Window(clock)] \in Nat
    BY <1>3 DEF D!TypeOK
  <1>5. \A s \in D!Steps : StepTo(t, s) \in D!Ticks
    BY <1>2, <1>1 DEF D!Ticks, StepTo
  <1>6. \A s : /\ StepTo(t, s).step = s /\ StepTo(t, s).todo = t.todo
               /\ StepTo(t, s).now = t.now /\ StepTo(t, s).ran = t.ran
               /\ StepTo(t, s).win = t.win
    BY <1>1 DEF D!Ticks, StepTo
  <1>7. CASE D!LookForBackup(t)
    <2>1. PICK s \in {"block", "limit"} :
              /\ ticks' = (ticks \ {t}) \cup {StepTo(t, s)}
              /\ s = "block" => D!IsDue(D!Backup, t.now)
      BY <1>7 DEF D!LookForBackup, D!Become, StepTo
    <2>2. SoundTick(StepTo(t, s))
      <3>1. t.step = "backup" /\ StepTo(t, s) \in D!Ticks
        BY <1>5, <1>7 DEF D!LookForBackup, D!Steps
      <3>2. t.todo = Jobs /\ t.ran = 0 /\ t.now <= clock /\ t.now % Positions <= MaxDelay
            /\ t.win <= D!Window(clock) /\ t.ran + Len(t.todo) <= Len(Jobs)
        BY <1>1, <3>1 DEF SoundTick, D!Fresh
      <3>3. \A x \in D!Tasks : D!Takes(StepTo(t, s), x) => D!IsDue(x, t.now)
        BY <1>6, <2>1 DEF D!Takes
      <3>4. QED
        BY <1>6, <3>1, <3>2, <3>3 DEF SoundTick
    <2>3. QED
      BY <1>7, <2>1, <2>2 DEF D!LookForBackup
  <1>8. CASE D!StartBackup(t)
    <2>1. ticks' = (ticks \ {t}) \cup {StepTo(t, "limit")}
      BY <1>8 DEF D!StartBackup, D!Become, StepTo
    <2>2. SoundTick(StepTo(t, "limit"))
      <3>1. t.step = "block" /\ StepTo(t, "limit") \in D!Ticks
        BY <1>5, <1>8 DEF D!StartBackup, D!Steps
      <3>2. t.todo = Jobs /\ t.ran = 0 /\ t.now <= clock /\ t.now % Positions <= MaxDelay
            /\ t.win <= D!Window(clock) /\ t.ran + Len(t.todo) <= Len(Jobs)
        BY <1>1, <3>1 DEF SoundTick, D!Fresh
      <3>3. QED
        BY <1>6, <3>1, <3>2 DEF SoundTick, D!Takes
    <2>3. QED
      BY <1>8, <2>1, <2>2 DEF D!StartBackup
  <1>9. CASE D!CheckLimit(t)
    <2>1. ASSUME ticks' # ticks \ {t} PROVE \E u : SoundTick(u) /\ ticks' = (ticks \ {t}) \cup {u}
      <3> DEFINE u == [t EXCEPT !.step = "job", !.win = D!Window(clock)]
      <3>1. ticks' = (ticks \ {t}) \cup {u} /\ t.step = "limit"
        BY <1>9, <2>1 DEF D!CheckLimit, D!Become
      <3>2. u \in D!Ticks /\ u.step = "job" /\ u.todo = t.todo /\ u.now = t.now /\ u.ran = t.ran
            /\ u.win = D!Window(clock)
        BY <1>1, <1>2, <1>3 DEF D!Ticks, D!Steps
      <3>3. SoundTick(u)
        BY <1>1, <1>3, <3>2 DEF SoundTick, D!Fresh, D!Takes
      <3>4. QED
        BY <3>1, <3>3
    <2>2. QED
      BY <1>9, <2>1 DEF D!CheckLimit
  <1>10. CASE D!LookForJob(t)
    <2>1. t.step = "job" /\ t.todo # <<>>
      BY <1>10 DEF D!LookForJob
    <2>2. CASE D!IsDue(Head(t.todo), t.now) /\ ticks' = (ticks \ {t}) \cup {StepTo(t, "lock")}
      <3>1. StepTo(t, "lock") \in D!Ticks
        BY <1>5 DEF D!Steps
      <3>2. SoundTick(StepTo(t, "lock"))
        BY <1>1, <1>6, <2>1, <2>2, <3>1 DEF SoundTick, D!Fresh, D!Takes
      <3>3. QED
        BY <1>10, <2>2, <3>2 DEF D!LookForJob
    <2>3. CASE ticks' = (ticks \ {t}) \cup {[t EXCEPT !.todo = Tail(@)]}
      <3> DEFINE u == [t EXCEPT !.todo = Tail(@)]
      <3>1. u \in D!Ticks /\ u.step = "job" /\ u.todo = Tail(t.todo) /\ u.now = t.now
            /\ u.ran = t.ran /\ u.win = t.win
        BY <1>1, <1>2, <2>1 DEF D!Ticks
      <3>2. SoundTick(u)
        BY <1>1, <1>2, <2>1, <3>1 DEF SoundTick, D!Fresh, D!Takes
      <3>3. QED
        BY <1>10, <2>3, <3>2 DEF D!LookForJob
    <2>4. QED
      BY <1>10, <2>2, <2>3 DEF D!LookForJob, D!Become, StepTo
  <1>11. CASE D!StartJob(t)
    <2>1. ticks' = (ticks \ {t}) \cup {StepTo(t, "run")} /\ t.step = "lock"
      BY <1>11 DEF D!StartJob, D!Become, StepTo
    <2>2. SoundTick(StepTo(t, "run"))
      <3>1. StepTo(t, "run") \in D!Ticks
        BY <1>5 DEF D!Steps
      <3>2. QED
        BY <1>1, <1>6, <2>1, <3>1 DEF SoundTick, D!Fresh, D!Takes
    <2>3. QED
      BY <1>11, <2>1, <2>2 DEF D!StartJob
  <1>12. CASE D!EndJob(t)
    <2> DEFINE u == [t EXCEPT !.step = "job", !.todo = Tail(@), !.ran = @ + 1]
    <2>1. ticks' = (ticks \ {t}) \cup {u} /\ t.step = "run" /\ t.todo # <<>>
      BY <1>1, <1>12 DEF D!EndJob, D!Become, SoundTick
    <2>2. u \in D!Ticks /\ u.step = "job" /\ u.todo = Tail(t.todo) /\ u.now = t.now
          /\ u.ran = t.ran + 1 /\ u.win = t.win
      <3>1. Tail(t.todo) \in Seq(D!JobSet) /\ t.ran + 1 \in Nat
        BY <1>2, <2>1
      <3>2. /\ u.ticker = t.ticker /\ u.now = t.now /\ u.step = "job" /\ u.todo = Tail(t.todo)
            /\ u.ran = t.ran + 1 /\ u.win = t.win /\ u.read = t.read
        BY <1>1 DEF D!Ticks
      <3>3. u \in D!Ticks
        BY <1>1, <3>1 DEF D!Ticks, D!Steps
      <3>4. QED
        BY <3>2, <3>3
    <2>3. SoundTick(u)
      BY <1>1, <1>2, <2>1, <2>2 DEF SoundTick, D!Fresh, D!Takes
    <2>4. QED
      BY <1>12, <2>1, <2>3 DEF D!EndJob
  <1>13. CASE D!ReadCount(t)
    <2>1. ASSUME ticks' # ticks \ {t} PROVE \E u : SoundTick(u) /\ ticks' = (ticks \ {t}) \cup {u}
      <3> DEFINE u == [t EXCEPT !.step = "count", !.read = count[D!Window(clock)]]
      <3>1. ticks' = (ticks \ {t}) \cup {u} /\ t.step = "job"
        BY <1>13, <2>1 DEF D!ReadCount, D!Become
      <3>2. u \in D!Ticks /\ u.step = "count" /\ u.todo = t.todo /\ u.now = t.now /\ u.ran = t.ran
            /\ u.win = t.win
        BY <1>1, <1>2, <1>4 DEF D!Ticks, D!Steps
      <3>3. SoundTick(u)
        BY <1>1, <3>2 DEF SoundTick, D!Fresh, D!Takes
      <3>4. QED
        BY <3>1, <3>3
    <2>2. QED
      BY <1>13, <2>1 DEF D!ReadCount
  <1>14. CASE D!WriteCount(t)
    BY <1>14 DEF D!WriteCount
  <1>15. QED
    BY <1>7, <1>8, <1>9, <1>10, <1>11, <1>12, <1>13, <1>14 DEF D!Work

\* The time of a tick at work.
LEMMA TickTime ==
    ASSUME D!ConstantsAssumption, NEW t, SoundTick(t), clock \in 0..(Minutes * Positions + MaxDelay)
    PROVE  /\ t.now \in 0..(Minutes * Positions + MaxDelay) /\ D!Minute(t.now) \in D!Stamps
           /\ D!Minute(t.now) \in Nat /\ t \in D!Ticks
  <1>1. /\ t.now \in Nat /\ t.now <= clock /\ clock \in 0..(Minutes * Positions + MaxDelay)
        /\ Minutes * Positions + MaxDelay \in Nat /\ t \in D!Ticks
    BY TickFields DEF SoundTick, D!ConstantsAssumption
  <1>2. QED
    BY <1>1, TimeFacts

\* A start: a lock, and one entry more in the history.
LEMMA StartFacts ==
    ASSUME D!ConstantsAssumption, D!TypeOK, TicksInv, NEW t \in ticks, NEW x \in D!Tasks,
           D!Start(t, x)
    PROVE  /\ locks' = locks \cup {<<x, D!Minute(t.now)>>} /\ locks' \subseteq D!Tasks \X D!Stamps
           /\ raced \subseteq raced'
           /\ D!Rivals(t, x) # {} => <<x, D!Minute(t.now)>> \in raced'
           /\ D!BagToSet(starts') = D!BagToSet(starts)
                                      \cup ({x} \X {D!Minute(t.now)} \X D!Served(x, t.now))
           /\ \A k \in D!BagToSet(starts) :
                 k \notin {x} \X {D!Minute(t.now)} \X D!Served(x, t.now) => starts'[k] = starts[k]
           /\ \A k \in D!BagToSet(starts') : k \notin D!BagToSet(starts) => starts'[k] = 1
           /\ D!IsABag(starts') /\ D!BagToSet(starts') \subseteq D!Tasks \X D!Stamps \X D!Stamps
  <1> DEFINE m == D!Minute(t.now)
             K == {x} \X {m} \X D!Served(x, t.now)
  <1>1. m \in D!Stamps
    BY TickTime DEF TicksInv
  <1>2. /\ locks' = locks \cup {<<x, m>>}
        /\ starts' = [k \in DOMAIN starts \cup K |-> (IF k \in DOMAIN starts THEN starts[k] ELSE 0)
                                                     + (IF k \in K THEN 1 ELSE 0)]
        /\ raced' = IF D!Rivals(t, x) # {} THEN raced \cup {<<x, m>>} ELSE raced
    BY DEF D!Start, D!(+), D!SetToBag
  <1>3. K \subseteq D!Tasks \X D!Stamps \X D!Stamps
    BY <1>1 DEF D!Served
  <1>4. D!IsABag(starts) /\ D!BagToSet(starts) \subseteq D!Tasks \X D!Stamps \X D!Stamps
        /\ locks \subseteq D!Tasks \X D!Stamps
    BY DEF D!TypeOK
  <1> HIDE DEF K, m
  <1>5. /\ DOMAIN starts' = DOMAIN starts \cup K
        /\ \A k \in DOMAIN starts : k \notin K => starts'[k] = starts[k]
        /\ \A k \in K : k \notin DOMAIN starts => starts'[k] = 1
        /\ D!IsABag(starts')
    BY <1>2, <1>4 DEF D!IsABag
  <1>6. QED
    BY <1>1, <1>2, <1>3, <1>4, <1>5 DEF D!BagToSet, K, m

\* Time passes only when the ticks of the minute have come.
LEMMA PassTime ==
    ASSUME D!ConstantsAssumption, D!TypeOK, D!TimeInv, D!Pass
    PROVE  /\ clock' = clock + 1 /\ clock' \in 0..(Minutes * Positions + MaxDelay)
           /\ D!TimeInv' /\ D!Window(clock) <= D!Window(clock')
           /\ \/ /\ D!Minute(clock') = D!Minute(clock) /\ clock' % Positions = (clock % Positions) + 1
              \/ D!Minute(clock') = D!Minute(clock) + 1 /\ clock' % Positions = 0
  <1>1. /\ clock' = clock + 1 /\ clock \in 0..(Minutes * Positions + MaxDelay)
        /\ Minutes * Positions + MaxDelay \in Nat /\ clock < Minutes * Positions + MaxDelay
        /\ UNCHANGED <<tickers, last>> /\ Positions \in Nat \ {0}
        /\ MaxDelay \in 0..(Positions - 1) /\ tickers \in Nat
        /\ clock % Positions = MaxDelay => \A k \in 1..tickers : last[k] = D!Minute(clock)
    BY DEF D!TypeOK, D!Pass, D!ConstantsAssumption, D!Tickers
  <1>2. clock \in Nat /\ clock' \in 0..(Minutes * Positions + MaxDelay)
    BY <1>1
  <1>3. D!Window(clock) <= D!Window(clock + 1)
    BY <1>2, WindowsGrow
  <1>4. \/ /\ clock % Positions = Positions - 1
           /\ D!Minute(clock + 1) = D!Minute(clock) + 1 /\ (clock + 1) % Positions = 0
        \/ /\ clock % Positions < Positions - 1
           /\ D!Minute(clock + 1) = D!Minute(clock) /\ (clock + 1) % Positions = (clock % Positions) + 1
    BY <1>1, <1>2, NextPosition DEF D!Minute
  <1>5. /\ \A k \in 1..tickers : last[k] = D!Minute(clock) \/ last[k] + 1 = D!Minute(clock)
        /\ clock % Positions > MaxDelay => \A k \in 1..tickers : last[k] = D!Minute(clock)
    BY DEF D!TimeInv
  <1>6. D!Minute(clock) \in Nat /\ clock % Positions \in 0..(Positions - 1)
    BY <1>1, TimeFacts
  <1>7. /\ \A k \in 1..tickers : last[k] = D!Minute(clock + 1) \/ last[k] + 1 = D!Minute(clock + 1)
        /\ (clock + 1) % Positions > MaxDelay => \A k \in 1..tickers : last[k] = D!Minute(clock + 1)
    <2>1. CASE clock % Positions = Positions - 1
      <3>1. \A k \in 1..tickers : last[k] = D!Minute(clock)
        BY <1>1, <1>5, <2>1
      <3>2. D!Minute(clock + 1) = D!Minute(clock) + 1 /\ (clock + 1) % Positions = 0
        BY <1>1, <1>4, <2>1
      <3>3. QED
        BY <1>1, <3>1, <3>2
    <2>2. CASE clock % Positions < Positions - 1
      <3>1. D!Minute(clock + 1) = D!Minute(clock) /\ (clock + 1) % Positions = (clock % Positions) + 1
        BY <1>1, <1>4, <2>2
      <3>2. (clock + 1) % Positions > MaxDelay => clock % Positions = MaxDelay \/ clock % Positions > MaxDelay
        BY <1>1, <1>6, <3>1
      <3>3. QED
        BY <1>1, <1>5, <3>1, <3>2
    <2>3. QED
      BY <1>4, <2>1, <2>2
  <1>8. D!TimeInv'
    <2>1. D!Minute(clock)' = D!Minute(clock + 1)
      BY <1>1 DEF D!Minute
    <2>2. (clock % Positions)' = (clock + 1) % Positions /\ tickers' = tickers /\ last' = last
      BY <1>1
    <2>3. QED
      BY <1>7, <2>1, <2>2 DEF D!TimeInv
  <1>9. QED
    BY <1>1, <1>2, <1>3, <1>4, <1>8

\* A tick starts at its minute, in time.
LEMMA TickFacts ==
    ASSUME D!ConstantsAssumption, D!TypeOK, D!TimeInv, NEW k \in D!Tickers, D!Tick(k)
    PROVE  /\ clock % Positions <= MaxDelay /\ k \in 1..tickers
           /\ last' = [last EXCEPT ![k] = D!Minute(clock)]
           /\ last[k] + 1 = D!Minute(clock)
           /\ \E u : /\ ticks' = ticks \cup {u} /\ u \in D!Ticks /\ u.now = clock
                     /\ u.step = "backup" /\ u.todo = Jobs /\ u.ran = 0 /\ u.win = 0
  <1>1. /\ k \in Nat /\ 1 <= k /\ k <= tickers /\ tickers \in Nat /\ last[k] < D!Minute(clock)
        /\ last[k] \in Nat /\ last' = [last EXCEPT ![k] = D!Minute(clock)]
        /\ clock \in 0..(Minutes * Positions + MaxDelay)
    BY DEF D!Tick, D!TypeOK, D!Tickers, D!Stamps, D!ConstantsAssumption
  <1>2. k \in 1..tickers /\ D!Minute(clock) \in Nat /\ clock % Positions \in 0..(Positions - 1)
        /\ clock \in Nat /\ MaxDelay \in Nat /\ Positions \in Nat
    BY <1>1, TimeFacts
  <1>3. clock % Positions <= MaxDelay /\ last[k] + 1 = D!Minute(clock)
    BY <1>1, <1>2 DEF D!TimeInv
  <1> DEFINE u == [ticker |-> k, now |-> clock, step |-> "backup", todo |-> Jobs, ran |-> 0,
                   win |-> 0, read |-> 0]
  <1>4. ticks' = ticks \cup {u}
    BY DEF D!Tick
  <1>5. u \in D!Ticks /\ u.now = clock /\ u.step = "backup" /\ u.todo = Jobs /\ u.ran = 0
        /\ u.win = 0
    BY <1>2 DEF D!Ticks, D!Steps, D!ConstantsAssumption
  <1>6. QED
    BY <1>1, <1>2, <1>3, <1>4, <1>5

\* The invariant of the ticks, of the module and of this one.
LEMMA TicksAre ==
    ASSUME D!TypeOK, D!IsFiniteSet(ticks), D!TickInv
    PROVE  TicksInv
  BY SchedulerSizes DEF D!TypeOK, D!TickInv, TicksInv, SoundTick

\* Every step keeps the ticks sound.
LEMMA TicksStep ==
    ASSUME D!ConstantsAssumption, D!TypeOK, D!TimeInv, TicksInv, D!Next
    PROVE  TicksInv'
  <1>1. /\ clock \in 0..(Minutes * Positions + MaxDelay) /\ IsFiniteSet(ticks)
        /\ Cardinality(ticks) <= MaxTicks /\ \A t \in ticks : SoundTick(t)
        /\ Cardinality(ticks) \in Nat /\ MaxTicks \in Nat
    BY FS_CardinalityType DEF TicksInv, D!ConstantsAssumption
  <1>2. CASE D!Pass
    <2>1. clock' = clock + 1 /\ clock' \in 0..(Minutes * Positions + MaxDelay)
          /\ D!Window(clock) <= D!Window(clock') /\ ticks' = ticks
      BY <1>2, PassTime DEF D!Pass
    <2>2. D!Window(clock) \in Nat /\ D!Window(clock') \in Nat
      BY <1>1, <2>1, TimeFacts
    <2>3. ASSUME NEW t \in ticks PROVE SoundTick(t)'
      <3>1. SoundTick(t) /\ t.now \in Nat /\ t.win \in Nat
        BY <1>1, TickFields DEF SoundTick
      <3>2. D!Window(clock)' = D!Window(clock')
        BY DEF D!Window, D!Minute
      <3>3. t.now <= clock' /\ t.win <= D!Window(clock)'
        BY <1>1, <2>1, <2>2, <3>1, <3>2 DEF SoundTick
      <3>4. QED
        BY <3>1, <3>3 DEF SoundTick
    <2>4. QED
      BY <1>1, <2>1, <2>3 DEF TicksInv
  <1>3. ASSUME UNCHANGED <<ticks, clock>> PROVE TicksInv'
    BY <1>3 DEF TicksInv, SoundTick, D!Window, D!Minute
  <1>4. ASSUME NEW k \in D!Tickers, D!Tick(k) PROVE TicksInv'
    <2>1. PICK u : /\ ticks' = ticks \cup {u} /\ u \in D!Ticks /\ u.now = clock
                   /\ u.step = "backup" /\ u.todo = Jobs /\ u.ran = 0 /\ u.win = 0
      BY <1>4, TickFacts
    <2>2. Cardinality(ticks) < MaxTicks /\ clock' = clock
      BY <1>4, SchedulerSizes DEF D!Tick
    <2>3. IsFiniteSet(ticks') /\ Cardinality(ticks') <= MaxTicks
      <3>1. u \in ticks => ticks' = ticks
        BY <2>1
      <3>2. u \notin ticks => IsFiniteSet(ticks') /\ Cardinality(ticks') = Cardinality(ticks) + 1
        BY <1>1, <2>1, FS_AddElement
      <3>3. QED
        BY <1>1, <2>2, <3>1, <3>2
    <2>4. SoundTick(u)
      <3>1. clock % Positions <= MaxDelay /\ clock \in Nat /\ D!Window(clock) \in Nat
        BY <1>1, <1>4, TickFacts, TimeFacts
      <3>2. Len(Jobs) \in Nat
        BY DEF D!ConstantsAssumption
      <3>3. QED
        BY <2>1, <3>1, <3>2 DEF SoundTick, D!Takes
    <2>5. \A t \in ticks' : SoundTick(t)
      BY <1>1, <2>1, <2>4
    <2>6. QED
      BY <1>1, <2>2, <2>3, <2>5 DEF TicksInv, SoundTick, D!Window, D!Minute
  <1>5. ASSUME NEW t \in ticks, D!Work(t) PROVE TicksInv'
    <2>1. /\ clock' = clock
          /\ \/ ticks' = ticks \ {t}
             \/ \E u : SoundTick(u) /\ ticks' = (ticks \ {t}) \cup {u}
      BY <1>5, WorkSound
    <2>2. \A s \in ticks' : SoundTick(s)
      BY <1>1, <2>1
    <2>3. IsFiniteSet(ticks \ {t}) /\ Cardinality(ticks \ {t}) = Cardinality(ticks) - 1
      BY <1>1, FS_RemoveElement
    <2>4. IsFiniteSet(ticks') /\ Cardinality(ticks') <= MaxTicks
      <3>1. CASE ticks' = ticks \ {t}
        BY <1>1, <2>3, <3>1
      <3>2. ASSUME NEW u, ticks' = (ticks \ {t}) \cup {u}
            PROVE  IsFiniteSet(ticks') /\ Cardinality(ticks') <= MaxTicks
        <4>1. u \in ticks \ {t} => ticks' = ticks \ {t}
          BY <3>2
        <4>2. u \notin ticks \ {t} =>
                 IsFiniteSet(ticks') /\ Cardinality(ticks') = Cardinality(ticks \ {t}) + 1
          BY <2>3, <3>2, FS_AddElement
        <4>3. Cardinality(ticks \ {t}) + 1 = Cardinality(ticks) /\ Cardinality(ticks \ {t}) <= MaxTicks
          BY <1>1, <2>3
        <4>4. CASE u \in ticks \ {t}
          BY <2>3, <4>1, <4>3, <4>4
        <4>5. CASE u \notin ticks \ {t}
          BY <1>1, <4>2, <4>3, <4>5
        <4>6. QED
          BY <4>4, <4>5
      <3>3. QED
        BY <2>1, <3>1, <3>2
    <2>5. QED
      BY <1>1, <2>1, <2>2, <2>4 DEF TicksInv, SoundTick, D!Window, D!Minute
  <1>6. QED
    BY <1>2, <1>3, <1>4, <1>5 DEF D!Next, D!LoadJobs, D!Forget

\* What a step of a tick does to the locks, the history and the counts.
LEMMA WorkTypes ==
    ASSUME D!ConstantsAssumption, D!TypeOK, TicksInv, NEW t \in ticks, D!Work(t)
    PROVE  /\ locks' \subseteq D!Tasks \X D!Stamps
           /\ count' \in [D!Windows -> Nat] /\ runs' \in [D!Windows -> Nat]
           /\ D!IsABag(starts') /\ D!BagToSet(starts') \subseteq D!Tasks \X D!Stamps \X D!Stamps
  <1>1. /\ locks \subseteq D!Tasks \X D!Stamps
        /\ count \in [D!Windows -> Nat] /\ runs \in [D!Windows -> Nat]
        /\ D!IsABag(starts) /\ D!BagToSet(starts) \subseteq D!Tasks \X D!Stamps \X D!Stamps
    BY DEF D!TypeOK
  <1>2. /\ t.step \in {"lock", "run"} => t.todo # <<>> /\ Head(t.todo) \in D!JobSet
        /\ t.ran \in Nat /\ t.win \in Nat /\ t.read \in Nat
    BY TickFields DEF TicksInv, SoundTick
  <1>3. CASE D!StartBackup(t)
    <2>1. D!Start(t, D!Backup) /\ D!Backup \in D!Tasks
      BY <1>3 DEF D!StartBackup, D!Tasks
    <2>2. QED
      BY <1>1, <1>3, <2>1, StartFacts DEF D!StartBackup
  <1>4. CASE D!StartJob(t)
    <2>1. D!Start(t, Head(t.todo)) /\ Head(t.todo) \in D!Tasks
      BY <1>2, <1>4 DEF D!StartJob, D!Tasks
    <2>2. runs' \in [D!Windows -> Nat]
      <3>1. runs' = [runs EXCEPT ![t.win] = runs[t.win] + 1]
        BY <1>4 DEF D!StartJob
      <3>2. t.win \in D!Windows => runs[t.win] + 1 \in Nat
        BY <1>1
      <3>3. QED
        BY <1>1, <3>1, <3>2
    <2>3. QED
      BY <1>1, <1>4, <2>1, <2>2, StartFacts DEF D!StartJob
  <1>5. CASE D!WriteCount(t)
    <2>1. count' = [count EXCEPT ![D!Window(clock)] = t.read + t.ran] /\ t.read + t.ran \in Nat
      BY <1>2, <1>5 DEF D!WriteCount
    <2>2. QED
      BY <1>1, <1>5, <2>1 DEF D!WriteCount, D!ghosts
  <1>6. CASE UNCHANGED <<locks, count, starts, runs>>
    BY <1>1, <1>6
  <1>7. QED
    BY <1>3, <1>4, <1>5, <1>6
       DEF D!Work, D!LookForBackup, D!CheckLimit, D!LookForJob, D!EndJob, D!ReadCount, D!ghosts

\* Every step keeps the types, and the tickers with the time.
LEMMA ScheduleTypes ==
    ASSUME D!ConstantsAssumption, D!TypeOK, D!TimeInv, TicksInv, D!Next
    PROVE  D!TypeOK' /\ D!IsFiniteSet(ticks)' /\ D!TimeInv' /\ D!TickInv'
  <1>1. TicksInv'
    BY TicksStep
  <1>2. D!IsFiniteSet(ticks)' /\ D!TickInv'
    BY <1>1, SchedulerSizes DEF TicksInv, SoundTick, D!TickInv, D!Window, D!Minute, D!IsDue, D!Served
  <1>3. /\ ticks' \subseteq D!Ticks /\ D!Cardinality(ticks') <= MaxTicks
        /\ \A t \in ticks' : t.now <= clock' /\ t.ran + Len(t.todo) <= Len(Jobs)
        /\ clock' \in 0..(Minutes * Positions + MaxDelay)
    BY <1>1, SchedulerSizes DEF TicksInv, SoundTick
  <1>4. D!TimeInv' /\ tickers' \in D!Tickers /\ last' \in [D!Tickers -> D!Stamps]
    <2>1. tickers \in D!Tickers /\ last \in [D!Tickers -> D!Stamps] /\ tickers \in Nat
          /\ D!Minute(clock) \in D!Stamps /\ D!Minute(clock) \in Nat
      BY TimeFacts DEF D!TypeOK, D!Tickers
    <2>2. CASE D!Pass
      BY <2>1, <2>2, PassTime DEF D!Pass
    <2>3. CASE D!LoadJobs
      <3>1. /\ tickers' = tickers + 1 /\ clock' = clock /\ clock % Positions > MaxDelay
            /\ last' = [last EXCEPT ![tickers + 1] = D!Minute(clock)] /\ tickers + 1 \in D!Tickers
        BY <2>1, <2>3 DEF D!LoadJobs, D!Tickers, D!ConstantsAssumption
      <3>2. \A k \in 1..(tickers + 1) : last'[k] = D!Minute(clock)
        <4>1. \A k \in 1..tickers : last[k] = D!Minute(clock)
          BY <3>1 DEF D!TimeInv
        <4>2. \A k \in 1..(tickers + 1) : k \in D!Tickers /\ (k = tickers + 1 \/ k \in 1..tickers)
          BY <2>1, <3>1 DEF D!Tickers, D!ConstantsAssumption
        <4>3. QED
          BY <2>1, <3>1, <4>1, <4>2
      <3>3. D!Minute(clock)' = D!Minute(clock)
        BY <3>1 DEF D!Minute
      <3>4. D!TimeInv'
        BY <3>1, <3>2, <3>3 DEF D!TimeInv
      <3>5. QED
        BY <2>1, <3>1, <3>4
    <2>4. ASSUME NEW k \in D!Tickers, D!Tick(k)
          PROVE  D!TimeInv' /\ tickers' \in D!Tickers /\ last' \in [D!Tickers -> D!Stamps]
      <3>1. last' = [last EXCEPT ![k] = D!Minute(clock)] /\ clock' = clock /\ tickers' = tickers
        BY <2>4 DEF D!Tick
      <3>2. D!Minute(clock)' = D!Minute(clock)
        BY <3>1 DEF D!Minute
      <3>3. \A j \in 1..tickers : last'[j] = D!Minute(clock) \/ last'[j] = last[j]
        BY <2>1, <3>1 DEF D!Tickers
      <3>4. D!TimeInv'
        BY <3>1, <3>2, <3>3 DEF D!TimeInv
      <3>5. QED
        BY <2>1, <3>1, <3>4
    <2>5. CASE UNCHANGED <<clock, tickers, last>>
      BY <2>1, <2>5 DEF D!TimeInv, D!Minute
    <2>6. ASSUME NEW t \in ticks, D!Work(t) PROVE UNCHANGED <<clock, tickers, last>>
      BY <2>6, WorkSound
    <2>7. QED
      BY <2>2, <2>3, <2>4, <2>5, <2>6 DEF D!Next, D!Forget
  <1>5. /\ limited' \in BOOLEAN /\ locks' \subseteq D!Tasks \X D!Stamps
        /\ count' \in [D!Windows -> Nat] /\ runs' \in [D!Windows -> Nat]
        /\ D!IsABag(starts') /\ D!BagToSet(starts') \subseteq D!Tasks \X D!Stamps \X D!Stamps
    <2>1. /\ limited \in BOOLEAN /\ locks \subseteq D!Tasks \X D!Stamps
          /\ count \in [D!Windows -> Nat] /\ runs \in [D!Windows -> Nat]
          /\ D!IsABag(starts) /\ D!BagToSet(starts) \subseteq D!Tasks \X D!Stamps \X D!Stamps
      BY DEF D!TypeOK
    <2>2. CASE UNCHANGED <<limited, locks, count, runs, starts>>
      BY <2>1, <2>2
    <2>3. ASSUME NEW t \in ticks, D!Work(t)
          PROVE  /\ limited' \in BOOLEAN /\ locks' \subseteq D!Tasks \X D!Stamps
                 /\ count' \in [D!Windows -> Nat] /\ runs' \in [D!Windows -> Nat]
                 /\ D!IsABag(starts')
                 /\ D!BagToSet(starts') \subseteq D!Tasks \X D!Stamps \X D!Stamps
      BY <2>1, <2>3, WorkSound, WorkTypes
    <2>4. CASE D!Forget
      <3>1. limited' = limited /\ starts' = starts /\ runs' = runs /\ locks' \subseteq locks
        BY <2>4 DEF D!Forget
      <3>2. count' \in [D!Windows -> Nat]
        BY <2>1, <2>4 DEF D!Forget
      <3>3. QED
        BY <2>1, <3>1, <3>2
    <2>5. QED
      BY <2>2, <2>3, <2>4 DEF D!Next, D!Pass, D!LoadJobs, D!Tick, D!ghosts
  <1>6. QED
    BY <1>2, <1>3, <1>4, <1>5 DEF D!TypeOK

\* The steps of a tick that set no lock.
QuietWork(t) ==
    \/ D!LookForBackup(t) \/ D!CheckLimit(t) \/ D!LookForJob(t) \/ D!EndJob(t)
    \/ D!ReadCount(t) \/ D!WriteCount(t)

\* A tick that is about to set a lock has just found it free.
LEMMA FoundFree ==
    ASSUME TicksInv, NEW t \in ticks, QuietWork(t)
    PROVE  /\ UNCHANGED <<locks, starts, raced>>
           /\ \A u \in ticks' : u \in ticks \/ \A x \in D!Tasks :
                 D!Takes(u, x) => <<x, D!Minute(u.now)>> \notin locks
  <1>1. t \in D!Ticks
    BY DEF TicksInv, SoundTick
  <1>2. \A s : /\ StepTo(t, s).step = s /\ StepTo(t, s).todo = t.todo
               /\ StepTo(t, s).now = t.now
    BY <1>1 DEF D!Ticks, StepTo
  <1>3. CASE D!LookForBackup(t)
    <2>1. PICK s \in {"block", "limit"} :
              /\ ticks' = (ticks \ {t}) \cup {StepTo(t, s)}
              /\ s = "block" => <<D!Backup, D!Minute(t.now)>> \notin locks
      BY <1>3 DEF D!LookForBackup, D!Become, StepTo, D!Locked
    <2>2. \A x \in D!Tasks :
              D!Takes(StepTo(t, s), x) => <<x, D!Minute(StepTo(t, s).now)>> \notin locks
      BY <1>2, <2>1 DEF D!Takes
    <2>3. QED
      BY <1>3, <2>1, <2>2 DEF D!LookForBackup, D!ghosts
  <1>4. CASE D!CheckLimit(t)
    <2> DEFINE u == [t EXCEPT !.step = "job", !.win = D!Window(clock)]
    <2>1. u.step = "job"
      BY <1>1 DEF D!Ticks
    <2>2. \A v \in ticks' : v \in ticks \/ v = u
      BY <1>4 DEF D!CheckLimit, D!Become
    <2>3. QED
      BY <1>4, <2>1, <2>2 DEF D!CheckLimit, D!Takes
  <1>5. CASE D!LookForJob(t)
    <2> DEFINE u == [t EXCEPT !.todo = Tail(@)]
    <2>1. u.step = "job"
      BY <1>1, <1>5 DEF D!Ticks, D!LookForJob
    <2>2. \/ ticks' = (ticks \ {t}) \cup {u}
          \/ /\ ticks' = (ticks \ {t}) \cup {StepTo(t, "lock")}
             /\ <<Head(t.todo), D!Minute(t.now)>> \notin locks
      BY <1>5 DEF D!LookForJob, D!Become, StepTo, D!Locked
    <2>3. \A x \in D!Tasks : ~D!Takes(u, x)
      BY <2>1 DEF D!Takes
    <2>4. \A x \in D!Tasks : D!Takes(StepTo(t, "lock"), x) => x = Head(t.todo)
      BY <1>2 DEF D!Takes
    <2>5. UNCHANGED <<locks, starts, raced>>
      BY <1>5 DEF D!LookForJob, D!ghosts
    <2> HIDE DEF u
    <2>6. QED
      BY <1>2, <2>2, <2>3, <2>4, <2>5
  <1>6. CASE D!EndJob(t)
    <2> DEFINE u == [t EXCEPT !.step = "job", !.todo = Tail(@), !.ran = @ + 1]
    <2>1. u.step = "job"
      BY <1>1 DEF D!Ticks
    <2>2. \A v \in ticks' : v \in ticks \/ v = u
      BY <1>6 DEF D!EndJob, D!Become
    <2>3. QED
      BY <1>6, <2>1, <2>2 DEF D!EndJob, D!Takes, D!ghosts
  <1>7. CASE D!ReadCount(t)
    <2> DEFINE u == [t EXCEPT !.step = "count", !.read = count[D!Window(clock)]]
    <2>1. u.step = "count"
      BY <1>1 DEF D!Ticks
    <2>2. \A v \in ticks' : v \in ticks \/ v = u
      BY <1>7 DEF D!ReadCount, D!Become
    <2>3. QED
      BY <1>7, <2>1, <2>2 DEF D!ReadCount, D!Takes, D!ghosts
  <1>8. CASE D!WriteCount(t)
    BY <1>8 DEF D!WriteCount, D!ghosts
  <1>9. QED
    BY <1>3, <1>4, <1>5, <1>6, <1>7, <1>8 DEF QuietWork

\* A start of the backup or of a job: the tick holds the task, and lets it go.
LEMMA WorkStarts ==
    ASSUME TicksInv, NEW t \in ticks, D!StartBackup(t) \/ D!StartJob(t)
    PROVE  \E x \in D!Tasks :
              /\ D!Start(t, x) /\ D!Takes(t, x)
              /\ \A u \in ticks' : u \in ticks \ {t} \/ \A y \in D!Tasks : ~D!Takes(u, y)
  <1>1. t \in D!Ticks /\ (t.step = "lock" => t.todo # <<>> /\ Head(t.todo) \in D!JobSet)
    BY TickFields DEF TicksInv, SoundTick
  <1>2. \A s : StepTo(t, s).step = s
    BY <1>1 DEF D!Ticks, StepTo
  <1>3. CASE D!StartBackup(t)
    <2>1. ticks' = (ticks \ {t}) \cup {StepTo(t, "limit")} /\ D!Start(t, D!Backup)
          /\ t.step = "block" /\ D!Backup \in D!Tasks
      BY <1>3 DEF D!StartBackup, D!Become, StepTo, D!Tasks
    <2>2. QED
      BY <1>2, <2>1 DEF D!Takes
  <1>4. CASE D!StartJob(t)
    <2>1. ticks' = (ticks \ {t}) \cup {StepTo(t, "run")} /\ D!Start(t, Head(t.todo))
          /\ t.step = "lock" /\ Head(t.todo) \in D!Tasks
      BY <1>1, <1>4 DEF D!StartJob, D!Become, StepTo, D!Tasks
    <2>2. QED
      BY <1>2, <2>1 DEF D!Takes
  <1>5. QED
    BY <1>3, <1>4

\* A start keeps the locks and the history together.
LEMMA StartLocks ==
    ASSUME D!ConstantsAssumption, D!TypeOK, TicksInv, D!LockInv, D!StartedOnce,
           NEW t \in ticks, NEW x \in D!Tasks, D!Start(t, x), D!Takes(t, x),
           \A u \in ticks' : u \in ticks \ {t} \/ \A y \in D!Tasks : ~D!Takes(u, y)
    PROVE  D!LockInv' /\ D!StartedOnce'
  <1> DEFINE m == D!Minute(t.now)
             K == {x} \X {m} \X D!Served(x, t.now)
             had == D!BagToSet(starts)
             has == D!BagToSet(starts')
  <1>1. /\ m \in D!Stamps /\ D!IsDue(x, t.now) /\ t.now \in Nat
    BY TickTime, TickFields DEF TicksInv, SoundTick
  <1>2. /\ locks' = locks \cup {<<x, m>>} /\ raced \subseteq raced'
        /\ D!Rivals(t, x) # {} => <<x, m>> \in raced'
        /\ has = had \cup K
        /\ \A k \in had : k \notin K => starts'[k] = starts[k]
        /\ \A k \in has : k \notin had => starts'[k] = 1
    BY StartFacts
  <1>3. /\ \A y \in D!Tasks, n \in D!Stamps : D!Started(y, n) <=> \E d \in D!Stamps : <<y, n, d>> \in had
        /\ \A y \in D!Tasks, n \in D!Stamps : D!Started(y, n)' <=> \E d \in D!Stamps : <<y, n, d>> \in has
    BY DEF D!Started
  <1>4. \E d \in D!Stamps : <<x, m, d>> \in K
    BY <1>1 DEF D!IsDue, D!Served
  <1>5. \A y, n, d : <<y, n, d>> \in K => y = x /\ n = m
    OBVIOUS
  <1>6. \A y \in D!Tasks, n \in D!Stamps : <<y, n>> # <<x, m>> => (D!Started(y, n)' <=> D!Started(y, n))
    <2> HIDE DEF K, had, has, m
    <2>1. TAKE y \in D!Tasks, n \in D!Stamps
    <2>2. HAVE <<y, n>> # <<x, m>>
    <2>3. \A d : <<y, n, d>> \in has <=> <<y, n, d>> \in had
      BY <1>2, <1>5, <2>2
    <2>4. QED
      BY <1>3, <2>3
  <1>7. D!Started(x, m)'
    BY <1>1, <1>2, <1>3, <1>4
  <1>8. /\ \A y \in D!Tasks, n \in D!Stamps : <<y, n>> \in locks => D!Started(y, n)
        /\ \A y \in D!Tasks, n \in D!Stamps :
              <<y, n>> \notin raced /\ <<y, n>> \notin locks => ~D!Started(y, n)
        /\ \A y \in D!Tasks, n \in D!Stamps : <<y, n>> \notin raced /\ <<y, n>> \in locks =>
              \A s \in ticks : D!Takes(s, y) => D!Minute(s.now) # n
    BY DEF D!LockInv
  <1>9. <<x, m>> \notin raced' => \A s \in ticks' : D!Takes(s, x) => D!Minute(s.now) # m
    <2>1. SUFFICES ASSUME <<x, m>> \notin raced', NEW s \in ticks', D!Takes(s, x), D!Minute(s.now) = m
                   PROVE  FALSE
      OBVIOUS
    <2>2. s \in ticks \ {t}
      BY <2>1
    <2>3. D!Taking(s) = x
      BY <2>1 DEF D!Takes, D!Taking
    <2>4. s \in D!Rivals(t, x)
      BY <2>1, <2>2, <2>3 DEF D!Rivals
    <2>5. QED
      BY <1>2, <2>1, <2>4
  <1>10. D!LockInv'
    <2>1. ASSUME NEW y \in D!Tasks, NEW n \in D!Stamps
          PROVE  /\ <<y, n>> \in locks' => D!Started(y, n)'
                 /\ <<y, n>> \notin raced' /\ <<y, n>> \notin locks' => ~D!Started(y, n)'
                 /\ <<y, n>> \notin raced' /\ <<y, n>> \in locks' =>
                       \A s \in ticks' : D!Takes(s, y) => D!Minute(s.now) # n
      <3>1. CASE y = x /\ n = m
        <4> HIDE DEF m
        <4>1. QED
          BY <1>2, <1>7, <1>9, <3>1
      <3>2. CASE <<y, n>> # <<x, m>>
        <4>1. <<y, n>> \in locks' <=> <<y, n>> \in locks
          BY <1>2, <3>2
        <4>2. <<y, n>> \notin raced' => <<y, n>> \notin raced
          BY <1>2
        <4>3. D!Started(y, n)' <=> D!Started(y, n)
          BY <1>6, <3>2
        <4>4. \A s \in ticks' : D!Takes(s, y) => s \in ticks
          OBVIOUS
        <4> HIDE DEF m
        <4>5. QED
          BY <1>8, <4>1, <4>2, <4>3, <4>4
      <3>3. QED
        BY <3>1, <3>2
    <2>2. QED
      BY <2>1 DEF D!LockInv, D!Takes, D!Minute
  <1>11. D!StartedOnce'
    <2>1. SUFFICES ASSUME NEW y \in D!Tasks, NEW n \in D!Stamps, <<y, n>> \notin raced'
                   PROVE  \A k, l \in has \cap ({y} \X {n} \X D!Stamps) : k = l /\ starts'[k] = 1
      BY DEF D!StartedOnce, D!AtMostOnce, D!StartsOf
    <2>2. <<y, n>> \notin raced
      BY <1>2, <2>1
    <2>3. \A k, l \in had \cap ({y} \X {n} \X D!Stamps) : k = l /\ starts[k] = 1
      BY <2>2 DEF D!StartedOnce, D!AtMostOnce, D!StartsOf
    <2>4. CASE <<y, n>> # <<x, m>>
      <3>1. \A k \in {y} \X {n} \X D!Stamps : k \notin K
        BY <2>4
      <3> HIDE DEF K, had, has, m
      <3>2. \A k \in has \cap ({y} \X {n} \X D!Stamps) : k \in had /\ starts'[k] = starts[k]
        BY <1>2, <3>1
      <3>3. QED
        BY <2>3, <3>2
    <2>5. CASE y = x /\ n = m
      <3>1. ~D!Started(x, m)
        <4>1. <<x, m>> \notin locks
          BY <1>1, <1>8, <2>2, <2>5
        <4>2. QED
          BY <1>1, <1>8, <2>2, <2>5, <4>1
      <3>2. \A k \in {x} \X {m} \X D!Stamps : k \notin had
        <4>1. \A d \in D!Stamps : <<x, m, d>> \notin had
          BY <1>1, <1>3, <3>1
        <4> HIDE DEF m, had
        <4>2. QED
          BY <4>1
      <3>3. \A k, l \in K : k = l
        <4>1. \A d, e \in D!Served(x, t.now) : d = e
          BY <1>1, OneServed
        <4> HIDE DEF m
        <4>2. QED
          BY <4>1
      <3> HIDE DEF K, had, has, m
      <3>4. QED
        BY <1>2, <2>5, <3>2, <3>3
    <2>6. QED
      BY <2>4, <2>5
  <1>12. QED
    BY <1>10, <1>11

\* Every step keeps the locks and the history together.
LEMMA LockStep ==
    ASSUME D!ConstantsAssumption, D!TypeOK, TicksInv, D!TimeInv, D!LockInv, D!StartedOnce, D!Next
    PROVE  D!LockInv' /\ D!StartedOnce'
  <1>1. /\ \A y \in D!Tasks, n \in D!Stamps : <<y, n>> \in locks => D!Started(y, n)
        /\ \A y \in D!Tasks, n \in D!Stamps :
              <<y, n>> \notin raced /\ <<y, n>> \notin locks => ~D!Started(y, n)
        /\ \A y \in D!Tasks, n \in D!Stamps : <<y, n>> \notin raced /\ <<y, n>> \in locks =>
              \A s \in ticks : D!Takes(s, y) => D!Minute(s.now) # n
    BY DEF D!LockInv
  <1>2. ASSUME UNCHANGED <<locks, starts, raced>>,
               \A u \in ticks' : u \in ticks \/ \A x \in D!Tasks :
                  D!Takes(u, x) => <<x, D!Minute(u.now)>> \notin locks
        PROVE  D!LockInv' /\ D!StartedOnce'
    <2>1. D!StartedOnce'
      BY <1>2 DEF D!StartedOnce, D!AtMostOnce, D!StartsOf, D!BagToSet
    <2>2. \A y \in D!Tasks, n \in D!Stamps : D!Started(y, n)' <=> D!Started(y, n)
      BY <1>2 DEF D!Started, D!BagToSet
    <2>3. \A y \in D!Tasks, n \in D!Stamps : <<y, n>> \notin raced /\ <<y, n>> \in locks =>
              \A s \in ticks' : D!Takes(s, y) => D!Minute(s.now) # n
      BY <1>1, <1>2
    <2>4. QED
      BY <1>1, <1>2, <2>1, <2>2, <2>3 DEF D!LockInv
  <1>3. CASE D!Pass \/ D!LoadJobs
    <2>1. UNCHANGED <<locks, starts, raced, ticks>>
      BY <1>3 DEF D!Pass, D!LoadJobs, D!ghosts
    <2>2. QED
      BY <1>2, <2>1
  <1>4. ASSUME NEW k \in D!Tickers, D!Tick(k) PROVE D!LockInv' /\ D!StartedOnce'
    <2>1. PICK u : ticks' = ticks \cup {u} /\ u.step = "backup"
      BY <1>4, TickFacts
    <2>2. UNCHANGED <<locks, starts, raced>> /\ \A x \in D!Tasks : ~D!Takes(u, x)
      BY <1>4, <2>1 DEF D!Tick, D!ghosts, D!Takes
    <2>3. QED
      BY <1>2, <2>1, <2>2
  <1>5. ASSUME NEW t \in ticks, QuietWork(t) PROVE D!LockInv' /\ D!StartedOnce'
    BY <1>2, <1>5, FoundFree
  <1>6. ASSUME NEW t \in ticks, D!StartBackup(t) \/ D!StartJob(t) PROVE D!LockInv' /\ D!StartedOnce'
    <2>1. PICK x \in D!Tasks :
              /\ D!Start(t, x) /\ D!Takes(t, x)
              /\ \A u \in ticks' : u \in ticks \ {t} \/ \A y \in D!Tasks : ~D!Takes(u, y)
      BY <1>6, WorkStarts
    <2>2. QED
      BY <2>1, StartLocks
  <1>7. CASE D!Forget
    <2>1. starts' = starts /\ ticks' = ticks /\ locks' \subseteq locks /\ raced \subseteq raced'
          /\ \A l \in locks : l \in locks' \/ l \in raced'
      BY <1>7 DEF D!Forget
    <2>2. D!StartedOnce'
      BY <2>1 DEF D!StartedOnce, D!AtMostOnce, D!StartsOf, D!BagToSet
    <2>3. \A y \in D!Tasks, n \in D!Stamps : D!Started(y, n)' <=> D!Started(y, n)
      BY <2>1 DEF D!Started, D!BagToSet
    <2>4. D!LockInv'
      BY <1>1, <2>1, <2>3 DEF D!LockInv
    <2>5. QED
      BY <2>2, <2>4
  <1>8. QED
    BY <1>3, <1>4, <1>5, <1>6, <1>7 DEF D!Next, D!Work, QuietWork

\* What a step adds to the history serves a due time of its tick's minute.
LEMMA ServedStep ==
    ASSUME D!ConstantsAssumption, D!TypeOK, TicksInv, D!TimeInv, D!ServedInv, D!Next
    PROVE  D!ServedInv'
  <1>1. clock \in Nat /\ clock' \in Nat /\ clock <= clock'
    <2>1. clock \in 0..(Minutes * Positions + MaxDelay) /\ clock \in Nat
      BY TimeFacts DEF TicksInv
    <2>2. CASE D!Pass
      BY <2>1, <2>2 DEF D!Pass
    <2>3. CASE clock' = clock
      BY <2>1, <2>3
    <2>4. ASSUME NEW t \in ticks, D!Work(t) PROVE clock' = clock
      BY <2>4, WorkSound
    <2>5. QED
      BY <2>2, <2>3, <2>4 DEF D!Next, D!LoadJobs, D!Tick, D!Forget
  <1>2. \A x \in D!Tasks, m, d \in D!Stamps : D!Serves(x, m, d) => D!Serves(x, m, d)'
    <2>1. TAKE x \in D!Tasks, m, d \in D!Stamps
    <2>2. HAVE D!Serves(x, m, d)
    <2>3. PICK now \in 0..clock : D!Minute(now) = m /\ now % Positions <= MaxDelay
                                  /\ D!InWindow(d * Positions + Due[x], now)
      BY <2>2 DEF D!Serves
    <2>4. now \in 0..clock'
      BY <1>1
    <2>5. QED
      BY <2>3, <2>4 DEF D!Serves
  <1>3. CASE D!BagToSet(starts)' = D!BagToSet(starts)
    BY <1>2, <1>3 DEF D!ServedInv
  <1>4. ASSUME NEW t \in ticks, D!StartBackup(t) \/ D!StartJob(t) PROVE D!ServedInv'
    <2>1. PICK x \in D!Tasks : D!Start(t, x)
      BY <1>4, WorkStarts
    <2> DEFINE m == D!Minute(t.now)
    <2>2. D!BagToSet(starts') = D!BagToSet(starts) \cup ({x} \X {m} \X D!Served(x, t.now))
      BY <2>1, StartFacts
    <2>3. t.now \in 0..clock' /\ t.now % Positions <= MaxDelay
      <3>1. SoundTick(t) /\ t.now \in Nat /\ t.now <= clock
        BY TickFields DEF TicksInv, SoundTick
      <3>2. QED
        BY <1>1, <3>1 DEF SoundTick
    <2>4. \A d \in D!Served(x, t.now) : D!Serves(x, m, d)'
      <3>1. \A d \in D!Served(x, t.now) : D!InWindow(d * Positions + Due[x], t.now)
        BY DEF D!Served
      <3>2. QED
        BY <2>3, <3>1 DEF D!Serves
    <2>5. ASSUME NEW y \in D!Tasks, NEW n \in D!Stamps, NEW d \in D!Stamps,
                 <<y, n, d>> \in D!BagToSet(starts')
          PROVE  D!Serves(y, n, d)'
      <3> HIDE DEF m
      <3>1. CASE <<y, n, d>> \in D!BagToSet(starts)
        BY <1>2, <3>1 DEF D!ServedInv
      <3>2. CASE <<y, n, d>> \in {x} \X {m} \X D!Served(x, t.now)
        <4>1. y = x /\ n = m /\ d \in D!Served(x, t.now)
          BY <3>2
        <4>2. QED
          BY <2>4, <4>1
      <3>3. QED
        BY <2>2, <2>5, <3>1, <3>2
    <2>6. QED
      BY <2>5 DEF D!ServedInv, D!BagToSet
  <1>5. ASSUME NEW t \in ticks, QuietWork(t) PROVE D!BagToSet(starts)' = D!BagToSet(starts)
    BY <1>5, FoundFree DEF D!BagToSet
  <1>6. D!Pass \/ D!LoadJobs \/ (\E k \in D!Tickers : D!Tick(k)) \/ D!Forget
        => D!BagToSet(starts)' = D!BagToSet(starts)
    BY DEF D!Pass, D!LoadJobs, D!Tick, D!Forget, D!ghosts, D!BagToSet
  <1>7. QED
    BY <1>3, <1>4, <1>5, <1>6 DEF D!Next, D!Work, QuietWork

\* A tick that will look for a steady task does, or finds it started.
LEMMA SeenWork ==
    ASSUME D!ConstantsAssumption, D!TypeOK, TicksInv, D!LockInv, ~limited, NEW t \in ticks, D!Work(t),
           NEW x \in D!Tasks, D!Steady(x), D!Minute(t.now) \in 1..Minutes, D!WillLookFor(t, x)
    PROVE  \/ D!Started(x, D!Minute(t.now))'
           \/ \E u \in ticks' : u.now = t.now /\ D!WillLookFor(u, x)
  <1> DEFINE m == D!Minute(t.now)
  <1>1. /\ t \in D!Ticks /\ t.now \in Nat /\ t.now % Positions <= MaxDelay /\ m \in D!Stamps
        /\ t.step \in {"lock", "run"} => t.todo # <<>>
        /\ t.todo \in Seq(D!JobSet) /\ Len(t.todo) \in Nat /\ DOMAIN t.todo = 1..Len(t.todo)
        /\ t.todo # <<>> => /\ Head(t.todo) \in D!JobSet /\ Tail(t.todo) \in Seq(D!JobSet)
                            /\ Len(Tail(t.todo)) = Len(t.todo) - 1 /\ Len(t.todo) # 0
                            /\ Head(t.todo) = t.todo[1]
    BY TickFields, TickTime DEF TicksInv, SoundTick
  <1>2. \A s : /\ StepTo(t, s).step = s /\ StepTo(t, s).todo = t.todo
               /\ StepTo(t, s).now = t.now
    BY <1>1 DEF D!Ticks, StepTo
  <1>3. D!IsDue(x, t.now)
    BY <1>1, SteadyDue
  <1>4. ASSUME D!Locked(x, m), D!BagToSet(starts)' = D!BagToSet(starts)
        PROVE  D!Started(x, m)'
    <2>1. D!Started(x, m)
      BY <1>1, <1>4 DEF D!LockInv, D!Locked
    <2>2. QED
      BY <1>4, <2>1 DEF D!Started
  <1>5. ASSUME t.todo # <<>>
        PROVE  \A i \in 2..Len(t.todo) : \E j \in DOMAIN Tail(t.todo) : Tail(t.todo)[j] = t.todo[i]
    <2>1. \A i \in 2..Len(t.todo) : i - 1 \in 1..Len(Tail(t.todo)) /\ Tail(t.todo)[i - 1] = t.todo[i]
      BY <1>1, <1>5
    <2>2. DOMAIN Tail(t.todo) = 1..Len(Tail(t.todo))
      BY <1>1, <1>5
    <2>3. QED
      BY <2>1, <2>2
  <1>6. ASSUME NEW y \in D!Tasks, D!Start(t, y), x = y PROVE D!Started(x, m)'
    <2>1. D!BagToSet(starts') = D!BagToSet(starts) \cup ({y} \X {m} \X D!Served(y, t.now))
      BY <1>6, StartFacts
    <2>2. \E d \in D!Stamps : <<x, m, d>> \in D!BagToSet(starts')
      BY <1>3, <1>6, <2>1 DEF D!IsDue, D!Served
    <2>3. QED
      BY <2>2 DEF D!Started, D!BagToSet
  <1>7. CASE D!LookForBackup(t)
    <2>1. t.step = "backup" /\ D!BagToSet(starts)' = D!BagToSet(starts)
      BY <1>7 DEF D!LookForBackup, D!ghosts, D!BagToSet
    <2>2. \/ StepTo(t, "block") \in ticks'
          \/ /\ StepTo(t, "limit") \in ticks'
             /\ ~D!IsDue(D!Backup, t.now) \/ D!Locked(D!Backup, m)
      BY <1>7 DEF D!LookForBackup, D!Become, StepTo
    <2>3. CASE StepTo(t, "block") \in ticks'
      <3>1. D!WillLookFor(StepTo(t, "block"), x)
        BY <1>2, <2>1 DEF D!WillLookFor
      <3>2. QED
        BY <1>2, <2>3, <3>1
    <2>4. CASE x # D!Backup /\ StepTo(t, "limit") \in ticks'
      <3>1. D!WillLookFor(StepTo(t, "limit"), x)
        BY <1>2, <2>1, <2>4 DEF D!WillLookFor
      <3>2. QED
        BY <1>2, <2>4, <3>1
    <2>5. CASE x = D!Backup /\ D!Locked(x, m)
      BY <1>4, <2>1, <2>5
    <2>6. QED
      BY <1>3, <2>2, <2>3, <2>4, <2>5
  <1>8. CASE D!StartBackup(t)
    <2>1. t.step = "block" /\ StepTo(t, "limit") \in ticks' /\ D!Start(t, D!Backup)
          /\ D!Backup \in D!Tasks
      BY <1>8 DEF D!StartBackup, D!Become, StepTo, D!Tasks
    <2>2. CASE x # D!Backup
      <3>1. D!WillLookFor(StepTo(t, "limit"), x)
        BY <1>2, <2>1, <2>2 DEF D!WillLookFor
      <3>2. QED
        BY <1>2, <2>1, <3>1
    <2>3. QED
      BY <1>6, <2>1, <2>2
  <1>9. CASE D!CheckLimit(t)
    <2> DEFINE u == [t EXCEPT !.step = "job", !.win = D!Window(clock)]
    <2>1. u \in ticks' /\ t.step = "limit"
      BY <1>9 DEF D!CheckLimit, D!Become
    <2>2. u.step = "job" /\ u.todo = t.todo /\ u.now = t.now
      BY <1>1 DEF D!Ticks
    <2> HIDE DEF u
    <2>3. D!WillLookFor(u, x)
      BY <2>1, <2>2 DEF D!WillLookFor
    <2>4. QED
      BY <2>1, <2>2, <2>3
  <1>10. CASE D!LookForJob(t)
    <2> DEFINE u == [t EXCEPT !.todo = Tail(@)]
    <2>1. t.step = "job" /\ t.todo # <<>> /\ D!BagToSet(starts)' = D!BagToSet(starts)
      BY <1>10 DEF D!LookForJob, D!ghosts, D!BagToSet
    <2>2. \/ StepTo(t, "lock") \in ticks'
          \/ u \in ticks' /\ (~D!IsDue(Head(t.todo), t.now) \/ D!Locked(Head(t.todo), m))
      BY <1>10 DEF D!LookForJob, D!Become, StepTo
    <2>3. u.step = "job" /\ u.todo = Tail(t.todo) /\ u.now = t.now
      BY <1>1, <2>1 DEF D!Ticks
    <2> HIDE DEF u
    <2>4. PICK i \in DOMAIN t.todo : x = t.todo[i]
      BY <2>1 DEF D!WillLookFor
    <2>5. CASE StepTo(t, "lock") \in ticks'
      <3>1. D!WillLookFor(StepTo(t, "lock"), x)
        BY <1>2, <2>4 DEF D!WillLookFor
      <3>2. QED
        BY <1>2, <2>5, <3>1
    <2>6. CASE i # 1 /\ u \in ticks'
      <3>1. i \in 2..Len(t.todo)
        BY <1>1, <2>6
      <3>2. D!WillLookFor(u, x)
        BY <1>5, <2>1, <2>3, <2>4, <3>1 DEF D!WillLookFor
      <3>3. QED
        BY <2>3, <2>6, <3>2
    <2>7. CASE i = 1 /\ D!Locked(Head(t.todo), m)
      <3>1. x = Head(t.todo)
        BY <1>1, <2>1, <2>4, <2>7
      <3>2. QED
        BY <1>4, <2>1, <2>7, <3>1
    <2>8. i = 1 => D!IsDue(Head(t.todo), t.now)
      BY <1>1, <1>3, <2>1, <2>4
    <2>9. QED
      BY <2>2, <2>5, <2>6, <2>7, <2>8
  <1>11. CASE D!StartJob(t)
    <2>1. t.step = "lock" /\ StepTo(t, "run") \in ticks' /\ D!Start(t, Head(t.todo))
          /\ t.todo # <<>> /\ Head(t.todo) \in D!Tasks
      BY <1>1, <1>11 DEF D!StartJob, D!Become, StepTo, D!Tasks
    <2>2. PICK i \in DOMAIN t.todo : x = t.todo[i]
      BY <2>1 DEF D!WillLookFor
    <2>3. CASE i = 1
      <3>1. x = Head(t.todo)
        BY <1>1, <2>1, <2>2, <2>3
      <3>2. QED
        BY <1>6, <2>1, <3>1
    <2>4. CASE i # 1
      <3>1. i \in 2..Len(t.todo)
        BY <1>1, <2>4
      <3>2. D!WillLookFor(StepTo(t, "run"), x)
        BY <1>2, <2>2, <3>1 DEF D!WillLookFor
      <3>3. QED
        BY <1>2, <2>1, <3>2
    <2>5. QED
      BY <2>3, <2>4
  <1>12. CASE D!EndJob(t)
    <2> DEFINE u == [t EXCEPT !.step = "job", !.todo = Tail(@), !.ran = @ + 1]
    <2>1. t.step = "run" /\ u \in ticks' /\ t.todo # <<>>
      BY <1>1, <1>12 DEF D!EndJob, D!Become
    <2>2. u.step = "job" /\ u.todo = Tail(t.todo) /\ u.now = t.now
      BY <1>1 DEF D!Ticks
    <2> HIDE DEF u
    <2>3. PICK i \in 2..Len(t.todo) : x = t.todo[i]
      BY <2>1 DEF D!WillLookFor
    <2>4. D!WillLookFor(u, x)
      BY <1>5, <2>1, <2>2, <2>3 DEF D!WillLookFor
    <2>5. QED
      BY <2>1, <2>2, <2>4
  <1>13. ~D!ReadCount(t) /\ ~D!WriteCount(t)
    <2>1. t.step # "count"
      BY DEF D!WillLookFor
    <2>2. t.step = "job" => t.todo # <<>>
      BY <1>1 DEF D!WillLookFor
    <2>3. QED
      BY <2>1, <2>2 DEF D!ReadCount, D!WriteCount
  <1>14. QED
    BY <1>7, <1>8, <1>9, <1>10, <1>11, <1>12, <1>13 DEF D!Work

\* The history only grows.
LEMMA StartedStays ==
    ASSUME D!ConstantsAssumption, D!TypeOK, TicksInv, D!Next
    PROVE  /\ D!BagToSet(starts) \subseteq D!BagToSet(starts')
           /\ limited' = limited
           /\ \A x \in D!Tasks, m \in D!Stamps : D!Started(x, m) => D!Started(x, m)'
  <1>1. D!BagToSet(starts) \subseteq D!BagToSet(starts')
    <2>1. CASE starts' = starts
      BY <2>1
    <2>2. ASSUME NEW t \in ticks, D!StartBackup(t) \/ D!StartJob(t)
          PROVE  D!BagToSet(starts) \subseteq D!BagToSet(starts')
      BY <2>2, WorkStarts, StartFacts
    <2>3. ASSUME NEW t \in ticks, QuietWork(t) PROVE starts' = starts
      BY <2>3, FoundFree
    <2>4. D!Pass \/ D!LoadJobs \/ (\E k \in D!Tickers : D!Tick(k)) \/ D!Forget => starts' = starts
      BY DEF D!Pass, D!LoadJobs, D!Tick, D!Forget, D!ghosts
    <2>5. QED
      BY <2>1, <2>2, <2>3, <2>4 DEF D!Next, D!Work, QuietWork
  <1>2. limited' = limited
    BY WorkSound DEF D!Next, D!Pass, D!LoadJobs, D!Tick, D!Forget
  <1>3. \A x \in D!Tasks, m \in D!Stamps : D!Started(x, m) => D!Started(x, m)'
    BY <1>1 DEF D!Started, D!BagToSet
  <1>4. QED
    BY <1>1, <1>2, <1>3

\* Every step leaves the minutes gone by served, or about to be.
LEMMA SeenStep ==
    ASSUME D!ConstantsAssumption, D!TypeOK, TicksInv, D!TimeInv, D!LockInv, D!SeenInv, D!Next
    PROVE  D!SeenInv'
  <1> DEFINE Seen(x, m) == \/ D!Started(x, m) \/ ~D!Steady(x)
                           \/ \E t \in ticks : D!Minute(t.now) = m /\ D!WillLookFor(t, x)
             SeenNext(x, m) == \/ D!Started(x, m)' \/ ~D!Steady(x)
                               \/ \E t \in ticks' : D!Minute(t.now) = m /\ D!WillLookFor(t, x)
  <1>1. /\ limited' = limited
        /\ \A x \in D!Tasks, m \in D!Stamps : D!Started(x, m) => D!Started(x, m)'
    BY StartedStays
  <1>2. /\ last \in [D!Tickers -> D!Stamps] /\ tickers \in Nat /\ tickers \in D!Tickers /\ 1 \in D!Tickers
        /\ D!Minute(clock) \in D!Stamps /\ last[1] \in 0..Minutes /\ Minutes \in Nat
        /\ tickers + 1 # 1
    BY TimeFacts DEF D!TypeOK, D!Tickers, D!Stamps, D!ConstantsAssumption
  <1>3. SUFFICES ASSUME ~limited, NEW x \in D!Tasks, NEW m \in 1..last'[1] PROVE SeenNext(x, m)
    <2>1. D!SeenInv' <=> (~limited' => \A y \in D!Tasks : \A n \in 1..last'[1] : SeenNext(y, n))
      BY DEF D!SeenInv, D!WillLookFor, D!Minute, D!Steady
    <2>2. QED
      BY <1>1, <1>3, <2>1
  <1>4. \A n \in 1..last[1] : Seen(x, n) /\ n \in D!Stamps /\ n \in 1..Minutes
    BY <1>2, <1>3 DEF D!SeenInv, D!Stamps
  <1>5. CASE last'[1] = last[1] /\ ticks \subseteq ticks'
    BY <1>1, <1>4, <1>5
  <1>6. CASE D!Pass \/ D!Forget
    BY <1>5, <1>6 DEF D!Pass, D!Forget
  <1>7. CASE D!LoadJobs
    <2>1. last'[1] = last[1] /\ ticks' = ticks
      BY <1>2, <1>7 DEF D!LoadJobs
    <2>2. QED
      BY <1>5, <2>1
  <1>8. ASSUME NEW k \in D!Tickers, D!Tick(k) PROVE SeenNext(x, m)
    <2>1. PICK u : ticks' = ticks \cup {u} /\ u.now = clock /\ u.step = "backup" /\ u.todo = Jobs
      BY <1>8, TickFacts
    <2>2. last' = [last EXCEPT ![k] = D!Minute(clock)] /\ last[k] + 1 = D!Minute(clock)
      BY <1>8, TickFacts
    <2>3. CASE m \in 1..last[1]
      BY <1>1, <1>4, <2>1, <2>3
    <2>4. CASE m \notin 1..last[1]
      <3>1. k = 1
        BY <1>2, <2>2, <2>4
      <3>2. m = D!Minute(clock)
        BY <1>2, <2>2, <2>4, <3>1
      <3>3. D!WillLookFor(u, x)
        BY <2>1 DEF D!WillLookFor, D!Tasks, D!JobSet
      <3>4. QED
        BY <2>1, <3>2, <3>3
    <2>5. QED
      BY <2>3, <2>4
  <1>9. ASSUME NEW t \in ticks, D!Work(t) PROVE SeenNext(x, m)
    <2>1. last' = last /\ ticks \ {t} \subseteq ticks'
      BY <1>9, WorkSound
    <2>2. m \in 1..last[1] /\ m \in D!Stamps /\ m \in 1..Minutes /\ Seen(x, m)
      BY <1>3, <1>4, <2>1
    <2>3. CASE D!Started(x, m) \/ ~D!Steady(x)
      BY <1>1, <2>2, <2>3
    <2>4. ASSUME D!Steady(x), NEW s \in ticks, D!Minute(s.now) = m, D!WillLookFor(s, x)
          PROVE  SeenNext(x, m)
      <3>1. CASE s # t
        BY <2>1, <2>4, <3>1
      <3>2. CASE s = t
        <4>1. \/ D!Started(x, D!Minute(t.now))'
              \/ \E u \in ticks' : u.now = t.now /\ D!WillLookFor(u, x)
          BY <1>3, <1>9, <2>2, <2>4, <3>2, SeenWork
        <4>2. D!Started(x, D!Minute(t.now))' => D!Started(x, m)'
          BY <2>4, <3>2 DEF D!Started
        <4>3. QED
          BY <2>4, <3>2, <4>1, <4>2
      <3>3. QED
        BY <3>1, <3>2
    <2>5. QED
      BY <2>2, <2>3, <2>4
  <1>10. QED
    BY <1>6, <1>7, <1>8, <1>9 DEF D!Next

\* What LimitInv says of one interval.
LimitAt(w) ==
    /\ w > D!Window(clock) => runs[w] = 0
    /\ w \notin clash =>
          /\ \A t, u \in D!In(w) : t = u
          /\ \A t \in D!In(w) : runs[w] < MaxCrons + D!Done(t)
          /\ D!In(w) = {} => runs[w] = 0 \/ runs[w] < MaxCrons + Len(Jobs)
    /\ w \notin clash /\ w = D!Window(clock) =>
          /\ D!In(w) # {} \/ runs[w] # 0 => \A t \in ticks : D!Past(t) => t \in D!In(w)
          /\ D!In(w) = {} => runs[w] <= count[w]
          /\ \A t \in D!In(w) : /\ runs[w] <= count[w] + D!Done(t)
                                /\ t.step = "count" => t.read = count[w]

\* LimitInv speaks of every interval.
LEMMA LimitEach == D!LimitInv <=> (limited => \A w \in D!Windows : LimitAt(w))
  BY DEF D!LimitInv, LimitAt

\* The numbers that LimitInv compares.
LEMMA LimitNumbers ==
    ASSUME D!ConstantsAssumption, D!TypeOK, NEW w \in D!Windows
    PROVE  /\ w \in Nat /\ runs[w] \in Nat /\ count[w] \in Nat /\ MaxCrons \in Nat /\ Len(Jobs) \in Nat
           /\ D!Window(clock) \in D!Windows /\ D!Window(clock) \in Nat
           /\ \A t \in D!Ticks : D!Done(t) \in Nat
  <1>1. D!Window(clock) \in D!Windows /\ D!Window(clock) \in Nat
    BY TimeFacts DEF D!TypeOK
  <1>2. w \in Nat
    BY <1>1 DEF D!Windows
  <1>3. runs[w] \in Nat /\ count[w] \in Nat /\ MaxCrons \in Nat /\ Len(Jobs) \in Nat
    BY DEF D!TypeOK, D!ConstantsAssumption
  <1>4. \A t \in D!Ticks : D!Done(t) \in Nat
    BY TickFields DEF D!Done
  <1>5. QED
    BY <1>1, <1>2, <1>3, <1>4

\* The counts of an interval that a step leaves alone.
LEMMA LimitCalm ==
    ASSUME NEW w \in D!Windows, LimitAt(w), D!In(w)' = D!In(w), clock' = clock, clash \subseteq clash',
           runs'[w] = runs[w], w \notin clash' => count'[w] = count[w],
           w = D!Window(clock) /\ w \notin clash' => \A s \in ticks' : D!Past(s) => s \in ticks
    PROVE  LimitAt(w)'
  <1>1. D!Window(clock)' = D!Window(clock)
    BY DEF D!Window, D!Minute
  <1> DEFINE N == D!In(w)
             W == D!Window(clock)
  <1>2. N' = N /\ W' = W /\ (w \notin clash' => w \notin clash)
    BY <1>1
  <1>3. /\ w > W => runs[w] = 0
        /\ w \notin clash => /\ \A t, u \in N : t = u
                             /\ \A t \in N : runs[w] < MaxCrons + D!Done(t)
                             /\ N = {} => runs[w] = 0 \/ runs[w] < MaxCrons + Len(Jobs)
        /\ w \notin clash /\ w = W =>
              /\ N # {} \/ runs[w] # 0 => \A t \in ticks : D!Past(t) => t \in N
              /\ N = {} => runs[w] <= count[w]
              /\ \A t \in N : runs[w] <= count[w] + D!Done(t) /\ (t.step = "count" => t.read = count[w])
    BY DEF LimitAt
  <1>4. /\ w > W' => runs'[w] = 0
        /\ w \notin clash' => /\ \A t, u \in N' : t = u
                              /\ \A t \in N' : runs'[w] < MaxCrons + D!Done(t)
                              /\ N' = {} => runs'[w] = 0 \/ runs'[w] < MaxCrons + Len(Jobs)
        /\ w \notin clash' /\ w = W' =>
              /\ N' # {} \/ runs'[w] # 0 => \A t \in ticks' : D!Past(t) => t \in N'
              /\ N' = {} => runs'[w] <= count'[w]
              /\ \A t \in N' : runs'[w] <= count'[w] + D!Done(t) /\ (t.step = "count" => t.read = count'[w])
    <2>1. w \notin clash' /\ w = W' /\ (N' # {} \/ runs'[w] # 0) => \A t \in ticks' : D!Past(t) => t \in N'
      <3>1. W = D!Window(clock)
        OBVIOUS
      <3> HIDE DEF N, W
      <3>2. QED
        BY <1>2, <1>3, <3>1
    <2> HIDE DEF N, W
    <2>2. w > W' => runs'[w] = 0
      BY <1>2, <1>3
    <2>3. w \notin clash' => /\ \A t, u \in N' : t = u
                             /\ \A t \in N' : runs'[w] < MaxCrons + D!Done(t)
                             /\ N' = {} => runs'[w] = 0 \/ runs'[w] < MaxCrons + Len(Jobs)
      BY <1>2, <1>3
    <2>4. w \notin clash' /\ w = W' =>
              /\ N' = {} => runs'[w] <= count'[w]
              /\ \A t \in N' : runs'[w] <= count'[w] + D!Done(t) /\ (t.step = "count" => t.read = count'[w])
      BY <1>2, <1>3
    <2>5. QED
      BY <2>1, <2>2, <2>3, <2>4
  <1>5. QED
    BY <1>4 DEF LimitAt, D!Done, D!Past

\* A tick past the limit goes on, and has started g jobs more.
LEMMA LimitGoesOn ==
    ASSUME D!ConstantsAssumption, D!TypeOK, NEW w \in D!Windows, LimitAt(w), NEW t \in ticks, D!Past(t),
           NEW u, D!Past(u), u.win = t.win, t.win <= D!Window(clock), t.win \in Nat,
           ticks' = (ticks \ {t}) \cup {u}, UNCHANGED <<clock, count, clash>>,
           NEW g \in {0, 1}, D!Done(u) = D!Done(t) + g,
           runs'[w] = IF w = t.win THEN runs[w] + g ELSE runs[w],
           u.step = "count" => u.read = count[D!Window(clock)]
    PROVE  LimitAt(w)'
  <1> DEFINE N == D!In(w)
             W == D!Window(clock)
  <1>1. /\ w \in Nat /\ runs[w] \in Nat /\ count[w] \in Nat /\ MaxCrons \in Nat /\ Len(Jobs) \in Nat
        /\ W \in Nat /\ D!Done(t) \in Nat
    BY LimitNumbers DEF D!TypeOK
  <1>2. W' = W
    BY DEF D!Window, D!Minute
  <1>3. N' = {s \in ticks' : D!Past(s) /\ s.win = w} /\ N = {s \in ticks : D!Past(s) /\ s.win = w}
    BY DEF D!In, D!Past
  <1>4. /\ w > W => runs[w] = 0
        /\ w \notin clash => /\ \A s, v \in N : s = v
                             /\ \A s \in N : runs[w] < MaxCrons + D!Done(s)
                             /\ N = {} => runs[w] = 0 \/ runs[w] < MaxCrons + Len(Jobs)
        /\ w \notin clash /\ w = W =>
              /\ N # {} \/ runs[w] # 0 => \A s \in ticks : D!Past(s) => s \in N
              /\ N = {} => runs[w] <= count[w]
              /\ \A s \in N : runs[w] <= count[w] + D!Done(s) /\ (s.step = "count" => s.read = count[w])
    BY DEF LimitAt
  <1>5. /\ w > W => runs'[w] = 0
        /\ w \notin clash => /\ \A s, v \in N' : s = v
                             /\ \A s \in N' : runs'[w] < MaxCrons + D!Done(s)
                             /\ N' = {} => runs'[w] = 0 \/ runs'[w] < MaxCrons + Len(Jobs)
        /\ w \notin clash /\ w = W =>
              /\ N' # {} \/ runs'[w] # 0 => \A s \in ticks' : D!Past(s) => s \in N'
              /\ N' = {} => runs'[w] <= count'[w]
              /\ \A s \in N' : runs'[w] <= count'[w] + D!Done(s) /\ (s.step = "count" => s.read = count'[w])
    <2>1. CASE w # t.win
      <3>1. N' = N /\ t \notin N
        BY <1>3, <2>1
      <3>2. w \notin clash /\ w = W => N = {} /\ runs[w] = 0
        BY <1>4, <3>1
      <3> HIDE DEF N, W
      <3>3. QED
        BY <1>1, <1>4, <2>1, <3>1, <3>2
    <2>2. CASE w = t.win
      <3>1. t \in N /\ u \in N'
        BY <1>3, <2>2
      <3>2. w \notin clash => \A s \in N' : s = u
        BY <1>3, <1>4, <3>1
      <3>3. w \notin clash /\ w = W => \A s \in ticks' : D!Past(s) => s \in N'
        BY <1>3, <1>4, <3>1
      <3>4. runs'[w] = runs[w] + g /\ ~(w > W) /\ count'[w] = count[w]
        BY <1>1, <2>2
      <3> HIDE DEF N, W
      <3>5. w \notin clash => runs'[w] < MaxCrons + D!Done(u)
        BY <1>1, <1>4, <3>1, <3>4
      <3>6. w \notin clash /\ w = W => runs'[w] <= count'[w] + D!Done(u)
        BY <1>1, <1>4, <3>1, <3>4
      <3>7. w = W => (u.step = "count" => u.read = count'[w])
        BY <3>4 DEF W
      <3>8. QED
        BY <3>1, <3>2, <3>3, <3>4, <3>5, <3>6, <3>7
    <2>3. QED
      BY <2>1, <2>2
  <1>6. QED
    BY <1>2, <1>5 DEF LimitAt, D!Done, D!Past

\* A tick past the limit has ended.
LEMMA LimitEnds ==
    ASSUME D!ConstantsAssumption, D!TypeOK, NEW w \in D!Windows, LimitAt(w), NEW t \in ticks, D!Past(t),
           ticks' = ticks \ {t}, UNCHANGED <<clock, runs, clash>>, D!Done(t) <= Len(Jobs),
           count'[w] \in Nat,
           w = D!Window(clock) /\ w = t.win /\ w \notin clash => runs[w] <= count'[w]
    PROVE  LimitAt(w)'
  <1> DEFINE N == D!In(w)
             W == D!Window(clock)
  <1>1. /\ w \in Nat /\ runs[w] \in Nat /\ MaxCrons \in Nat /\ Len(Jobs) \in Nat
        /\ W \in Nat /\ D!Done(t) \in Nat
    BY LimitNumbers DEF D!TypeOK
  <1>2. W' = W
    BY DEF D!Window, D!Minute
  <1>3. N' = {s \in ticks' : D!Past(s) /\ s.win = w} /\ N = {s \in ticks : D!Past(s) /\ s.win = w}
    BY DEF D!In, D!Past
  <1>4. /\ w > W => runs[w] = 0
        /\ w \notin clash => /\ \A s, v \in N : s = v
                             /\ \A s \in N : runs[w] < MaxCrons + D!Done(s)
                             /\ N = {} => runs[w] = 0 \/ runs[w] < MaxCrons + Len(Jobs)
        /\ w \notin clash /\ w = W =>
              (N # {} \/ runs[w] # 0 => \A s \in ticks : D!Past(s) => s \in N)
    BY DEF LimitAt
  <1>5. /\ w > W => runs[w] = 0
        /\ w \notin clash => /\ \A s, v \in N' : s = v
                             /\ \A s \in N' : runs[w] < MaxCrons + D!Done(s)
                             /\ N' = {} => runs[w] = 0 \/ runs[w] < MaxCrons + Len(Jobs)
        /\ w \notin clash /\ w = W =>
              /\ N' # {} \/ runs[w] # 0 => \A s \in ticks' : D!Past(s) => s \in N'
              /\ N' = {} => runs[w] <= count'[w]
              /\ \A s \in N' : runs[w] <= count'[w] + D!Done(s) /\ (s.step = "count" => s.read = count'[w])
    <2>1. CASE w # t.win
      <3>1. N' = N /\ t \notin N
        BY <1>3, <2>1
      <3>2. w \notin clash /\ w = W => N = {} /\ runs[w] = 0
        BY <1>4, <3>1
      <3> HIDE DEF N, W
      <3>3. QED
        BY <1>1, <1>4, <3>1, <3>2
    <2>2. CASE w = t.win
      <3>1. t \in N
        BY <1>3, <2>2
      <3>2. w \notin clash => N' = {}
        BY <1>3, <1>4, <3>1
      <3>3. w \notin clash /\ w = W => \A s \in ticks' : ~D!Past(s)
        BY <1>3, <1>4, <3>1
      <3>4. w \notin clash => runs[w] < MaxCrons + Len(Jobs)
        <4> HIDE DEF N
        <4>1. QED
          BY <1>1, <1>4, <3>1
      <3> HIDE DEF N
      <3>5. QED
        BY <1>4, <2>2, <3>2, <3>3, <3>4
    <2>3. QED
      BY <2>1, <2>2
  <1>6. QED
    BY <1>2, <1>5 DEF LimitAt, D!Done, D!Past

\* A tick that asks for the limit is the first of its interval, or not alone.
LEMMA LimitIsChecked ==
    ASSUME D!ConstantsAssumption, D!TypeOK, TicksInv, limited, NEW w \in D!Windows, LimitAt(w),
           NEW t \in ticks, D!CheckLimit(t)
    PROVE  LimitAt(w)'
  <1> DEFINE N == D!In(w)
             W == D!Window(clock)
             u == [t EXCEPT !.step = "job", !.win = W]
  <1>1. /\ w \in Nat /\ runs[w] \in Nat /\ count[w] \in Nat /\ MaxCrons \in Nat /\ Len(Jobs) \in Nat
        /\ W \in Nat
    BY LimitNumbers
  <1>2. /\ t.step = "limit" /\ UNCHANGED <<clock, count, runs>>
        /\ ticks' = ticks \ {t} \/ (ticks' = (ticks \ {t}) \cup {u} /\ ~D!AtLimit(W))
        /\ clash' = IF ticks = {t} THEN clash ELSE clash \cup {W}
    BY DEF D!CheckLimit, D!Become
  <1>3. t \in D!Ticks /\ t.ran = 0
    BY <1>2 DEF TicksInv, SoundTick, D!Fresh
  <1>4. u.step = "job" /\ u.win = W /\ u.ran = 0
    BY <1>3 DEF D!Ticks
  <1>5. W' = W
    BY <1>2 DEF D!Window, D!Minute
  <1>6. N' = {s \in ticks' : D!Past(s) /\ s.win = w} /\ N = {s \in ticks : D!Past(s) /\ s.win = w}
        /\ ~D!Past(t) /\ D!Past(u) /\ D!Done(u) = 0
    BY <1>2, <1>4 DEF D!In, D!Past, D!Done
  <1> HIDE DEF u
  <1>7. ASSUME w # W \/ ticks' = ticks \ {t} \/ ticks # {t} PROVE LimitAt(w)'
    <2>1. CASE w = W /\ ticks # {t}
      <3>1. w \in clash' /\ ~(w > W)
        BY <1>1, <1>2, <2>1
      <3>2. QED
        BY <1>5, <3>1 DEF LimitAt
    <2>2. CASE w # W \/ (ticks' = ticks \ {t} /\ ticks = {t})
      <3>1. N' = N
        BY <1>2, <1>4, <1>6, <2>2
      <3>2. w = W => \A s \in ticks' : s \in ticks
        BY <2>2
      <3>3. clash \subseteq clash' /\ clock' = clock /\ runs'[w] = runs[w] /\ count'[w] = count[w]
        BY <1>2
      <3>4. QED
        BY <3>1, <3>2, <3>3, LimitCalm
    <2>3. QED
      BY <1>7, <2>1, <2>2
  <1>8. ASSUME w = W, ticks = {t}, ticks' = (ticks \ {t}) \cup {u}, ~D!AtLimit(W) PROVE LimitAt(w)'
    <2>1. N = {} /\ N' = {u} /\ ticks' = {u} /\ clash' = clash
      BY <1>2, <1>4, <1>6, <1>8
    <2>2. w \notin clash => runs[w] <= count[w]
      BY <1>8, <2>1 DEF LimitAt
    <2>3. count[w] < MaxCrons
      BY <1>1, <1>8 DEF D!AtLimit
    <2>4. /\ ~(w > W)
          /\ w \notin clash' => /\ \A s, v \in N' : s = v
                                /\ \A s \in N' : runs'[w] < MaxCrons + D!Done(s)
                                /\ N' # {}
          /\ w \notin clash' => /\ \A s \in ticks' : s \in N'
                                /\ \A s \in N' : runs'[w] <= count'[w] + D!Done(s) /\ s.step # "count"
      <3> HIDE DEF N, W
      <3>1. QED
        BY <1>1, <1>2, <1>4, <1>6, <1>8, <2>1, <2>2, <2>3
    <2>5. QED
      BY <1>5, <2>4 DEF LimitAt, D!Done, D!Past
  <1>9. QED
    BY <1>2, <1>7, <1>8

\* Every step keeps the counts of the intervals.
LEMMA LimitStep ==
    ASSUME D!ConstantsAssumption, D!TypeOK, TicksInv, D!TimeInv, D!LimitInv, D!Next
    PROVE  D!LimitInv'
  <1>1. limited' = limited
    BY StartedStays
  <1>2. D!LimitInv' <=> (limited' => \A w \in D!Windows : LimitAt(w)')
    BY DEF D!LimitInv, LimitAt
  <1>3. SUFFICES ASSUME limited, NEW w \in D!Windows PROVE LimitAt(w)'
    BY <1>1, <1>2
  <1>4. LimitAt(w)
    BY <1>3, LimitEach
  <1>5. /\ w \in Nat /\ runs[w] \in Nat /\ count[w] \in Nat /\ Len(Jobs) \in Nat
        /\ D!Window(clock) \in D!Windows /\ D!Window(clock) \in Nat
        /\ count \in [D!Windows -> Nat] /\ runs \in [D!Windows -> Nat]
    BY LimitNumbers DEF D!TypeOK
  <1>6. CASE D!Pass
    <2>1. UNCHANGED <<ticks, count, runs, clash>> /\ clock' \in 0..(Minutes * Positions + MaxDelay)
          /\ D!Window(clock) <= D!Window(clock')
      BY <1>6, PassTime DEF D!Pass, D!ghosts
    <2>2. D!Window(clock') \in Nat /\ D!Window(clock)' = D!Window(clock')
      BY <2>1, TimeFacts DEF D!Window, D!Minute
    <2>3. D!In(w)' = D!In(w)
      BY <2>1 DEF D!In, D!Past
    <2>4. w > D!Window(clock)' => w > D!Window(clock)
      BY <1>5, <2>1, <2>2
    <2>5. CASE w = D!Window(clock)' /\ w # D!Window(clock)
      <3>1. w > D!Window(clock)
        BY <1>5, <2>1, <2>2, <2>5
      <3>2. D!In(w) = {}
        <4>1. \A t \in ticks : t.win \in Nat /\ t.win <= D!Window(clock)
          BY TickFields DEF TicksInv, SoundTick
        <4>2. QED
          BY <1>5, <3>1, <4>1 DEF D!In
      <3>3. runs[w] = 0
        BY <1>4, <3>1 DEF LimitAt
      <3>4. D!In(w)' = {} /\ runs'[w] = 0 /\ 0 <= count'[w] /\ ~(w > D!Window(clock)')
        BY <1>5, <2>1, <2>2, <2>3, <2>5, <3>2, <3>3
      <3>5. QED
        BY <3>4 DEF LimitAt
    <2>6. CASE w # D!Window(clock)' \/ w = D!Window(clock)
      <3>1. w = D!Window(clock)' => w = D!Window(clock)
        BY <2>6
      <3>2. QED
        BY <1>4, <2>1, <2>3, <2>4, <3>1 DEF LimitAt, D!Done, D!Past
    <2>7. QED
      BY <2>5, <2>6
  <1>7. CASE D!LoadJobs
    <2>1. UNCHANGED <<ticks, clock, count, runs, clash>>
      BY <1>7 DEF D!LoadJobs, D!ghosts
    <2>2. D!In(w)' = D!In(w)
      BY <2>1 DEF D!In, D!Past
    <2>3. QED
      BY <1>4, <2>1, <2>2, LimitCalm
  <1>8. ASSUME NEW k \in D!Tickers, D!Tick(k) PROVE LimitAt(w)'
    <2>1. UNCHANGED <<clock, count, runs, clash>>
      BY <1>8 DEF D!Tick, D!ghosts
    <2>2. PICK u : ticks' = ticks \cup {u} /\ u.step = "backup"
      BY <1>8, TickFacts
    <2>3. ~D!Past(u)
      BY <2>2 DEF D!Past
    <2>4. D!In(w)' = D!In(w)
      BY <2>2, <2>3 DEF D!In, D!Past
    <2>5. \A s \in ticks' : D!Past(s) => s \in ticks
      BY <2>2, <2>3
    <2>6. QED
      BY <1>4, <2>1, <2>4, <2>5, LimitCalm
  <1>9. CASE D!Forget
    <2>1. UNCHANGED <<ticks, clock, runs>> /\ clash \subseteq clash'
          /\ (w \notin clash' => count'[w] = count[w])
      BY <1>5, <1>9 DEF D!Forget
    <2>2. D!In(w)' = D!In(w)
      BY <2>1 DEF D!In, D!Past
    <2>3. QED
      BY <1>4, <2>1, <2>2, LimitCalm
  <1>10. ASSUME NEW t \in ticks, D!Work(t) PROVE LimitAt(w)'
    <2>1. /\ t \in D!Ticks /\ t.ran \in Nat /\ t.win \in Nat /\ t.win <= D!Window(clock)
          /\ t.read \in Nat /\ Len(t.todo) \in Nat /\ t.ran + Len(t.todo) <= Len(Jobs)
      BY TickFields DEF TicksInv, SoundTick
    <2>2. \A s : /\ StepTo(t, s).step = s /\ StepTo(t, s).ran = t.ran /\ StepTo(t, s).win = t.win
      BY <2>1 DEF D!Ticks, StepTo
    <2>3. CASE D!LookForBackup(t) \/ D!StartBackup(t)
      <3>1. UNCHANGED <<clock, count, runs, clash>> /\ t.step \in {"backup", "block"}
            /\ \E s \in {"block", "limit"} : ticks' = (ticks \ {t}) \cup {StepTo(t, s)}
        BY <2>3 DEF D!LookForBackup, D!StartBackup, D!Become, StepTo, D!ghosts
      <3>2. PICK s \in {"block", "limit"} : ticks' = (ticks \ {t}) \cup {StepTo(t, s)}
        BY <3>1
      <3>3. ~D!Past(t) /\ ~D!Past(StepTo(t, s))
        BY <2>2, <3>1 DEF D!Past
      <3>4. D!In(w)' = D!In(w)
        BY <3>2, <3>3 DEF D!In, D!Past
      <3>5. \A v \in ticks' : D!Past(v) => v \in ticks
        BY <3>2, <3>3
      <3>6. QED
        BY <1>4, <3>1, <3>4, <3>5, LimitCalm
    <2>4. CASE D!CheckLimit(t)
      BY <1>3, <1>4, <2>4, LimitIsChecked
    <2>5. CASE D!LookForJob(t)
      <3> DEFINE u == [t EXCEPT !.todo = Tail(@)]
      <3>1. UNCHANGED <<clock, count, runs, clash>> /\ t.step = "job"
            /\ \/ ticks' = (ticks \ {t}) \cup {u}
               \/ ticks' = (ticks \ {t}) \cup {StepTo(t, "lock")}
        BY <2>5 DEF D!LookForJob, D!Become, StepTo, D!ghosts
      <3>2. u.step = "job" /\ u.win = t.win /\ u.ran = t.ran
        BY <2>1, <3>1 DEF D!Ticks
      <3> HIDE DEF u
      <3>3. D!Past(t) /\ D!Past(u) /\ D!Done(u) = D!Done(t) + 0
        BY <2>1, <3>1, <3>2 DEF D!Past, D!Done
      <3>4. D!Past(StepTo(t, "lock")) /\ D!Done(StepTo(t, "lock")) = D!Done(t) + 0
        BY <2>1, <2>2, <3>1 DEF D!Past, D!Done
      <3>5. runs'[w] = IF w = t.win THEN runs[w] + 0 ELSE runs[w]
        BY <1>5, <3>1
      <3>6. CASE ticks' = (ticks \ {t}) \cup {u}
        BY <1>4, <2>1, <3>1, <3>2, <3>3, <3>5, <3>6, LimitGoesOn
      <3>7. CASE ticks' = (ticks \ {t}) \cup {StepTo(t, "lock")}
        BY <1>4, <2>1, <2>2, <3>1, <3>3, <3>4, <3>5, <3>7, LimitGoesOn
      <3>8. QED
        BY <3>1, <3>6, <3>7
    <2>6. CASE D!StartJob(t)
      <3>1. UNCHANGED <<clock, count, clash>> /\ t.step = "lock"
            /\ ticks' = (ticks \ {t}) \cup {StepTo(t, "run")}
            /\ runs' = [runs EXCEPT ![t.win] = runs[t.win] + 1]
        BY <2>6 DEF D!StartJob, D!Become, StepTo
      <3>2. D!Past(t) /\ D!Past(StepTo(t, "run")) /\ D!Done(StepTo(t, "run")) = D!Done(t) + 1
        BY <2>1, <2>2, <3>1 DEF D!Past, D!Done
      <3>3. runs'[w] = IF w = t.win THEN runs[w] + 1 ELSE runs[w]
        BY <1>5, <3>1
      <3>4. QED
        BY <1>4, <2>1, <2>2, <3>1, <3>2, <3>3, LimitGoesOn
    <2>7. CASE D!EndJob(t)
      <3> DEFINE u == [t EXCEPT !.step = "job", !.todo = Tail(@), !.ran = @ + 1]
      <3>1. UNCHANGED <<clock, count, runs, clash>> /\ t.step = "run"
            /\ ticks' = (ticks \ {t}) \cup {u}
        BY <2>7 DEF D!EndJob, D!Become, D!ghosts
      <3>2. u.step = "job" /\ u.win = t.win /\ u.ran = t.ran + 1
        BY <2>1 DEF D!Ticks
      <3> HIDE DEF u
      <3>3. D!Past(t) /\ D!Past(u) /\ D!Done(u) = D!Done(t) + 0
        BY <2>1, <3>1, <3>2 DEF D!Past, D!Done
      <3>4. runs'[w] = IF w = t.win THEN runs[w] + 0 ELSE runs[w]
        BY <1>5, <3>1
      <3>5. QED
        BY <1>4, <2>1, <3>1, <3>2, <3>3, <3>4, LimitGoesOn
    <2>8. CASE D!ReadCount(t) /\ t.ran > 0
      <3> DEFINE u == [t EXCEPT !.step = "count", !.read = count[D!Window(clock)]]
      <3>1. UNCHANGED <<clock, count, runs, clash>> /\ t.step = "job"
            /\ ticks' = (ticks \ {t}) \cup {u}
        BY <1>3, <2>8 DEF D!ReadCount, D!Become, D!ghosts
      <3>2. u.step = "count" /\ u.win = t.win /\ u.ran = t.ran /\ u.read = count[D!Window(clock)]
        BY <2>1 DEF D!Ticks
      <3> HIDE DEF u
      <3>3. D!Past(t) /\ D!Past(u) /\ D!Done(u) = D!Done(t) + 0
        BY <2>1, <3>1, <3>2 DEF D!Past, D!Done
      <3>4. runs'[w] = IF w = t.win THEN runs[w] + 0 ELSE runs[w]
        BY <1>5, <3>1
      <3>5. QED
        BY <1>4, <2>1, <3>1, <3>2, <3>3, <3>4, LimitGoesOn
    <2>9. CASE D!ReadCount(t) /\ ~(t.ran > 0)
      <3>1. UNCHANGED <<clock, count, runs, clash>> /\ t.step = "job" /\ ticks' = ticks \ {t}
        BY <2>9 DEF D!ReadCount, D!ghosts
      <3>2. D!Past(t) /\ D!Done(t) = 0
        BY <2>1, <2>9, <3>1 DEF D!Past, D!Done
      <3>3. w = D!Window(clock) /\ w = t.win /\ w \notin clash => runs[w] <= count[w]
        <4>1. w = t.win => t \in D!In(w)
          BY <3>2 DEF D!In
        <4>2. w = D!Window(clock) /\ w = t.win /\ w \notin clash => runs[w] <= count[w] + D!Done(t)
          BY <1>4, <4>1 DEF LimitAt
        <4>3. QED
          BY <1>5, <3>2, <4>2
      <3>4. D!Done(t) <= Len(Jobs) /\ count'[w] = count[w]
        BY <1>5, <3>1, <3>2
      <3>5. QED
        BY <1>4, <1>5, <3>1, <3>2, <3>3, <3>4, LimitEnds
    <2>10. CASE D!WriteCount(t)
      <3>1. UNCHANGED <<clock, runs, clash>> /\ t.step = "count" /\ ticks' = ticks \ {t}
            /\ count' = [count EXCEPT ![D!Window(clock)] = t.read + t.ran]
        BY <2>10 DEF D!WriteCount, D!ghosts
      <3>2. D!Past(t) /\ D!Done(t) = t.ran
        BY <2>1, <3>1 DEF D!Past, D!Done
      <3>3. w = D!Window(clock) /\ w = t.win /\ w \notin clash => runs[w] <= count'[w]
        <4>1. w = t.win => t \in D!In(w)
          BY <3>2 DEF D!In
        <4>2. w = D!Window(clock) /\ w = t.win /\ w \notin clash =>
                 runs[w] <= count[w] + D!Done(t) /\ t.read = count[w]
          BY <1>4, <3>1, <4>1 DEF LimitAt
        <4>3. w = D!Window(clock) => count'[w] = t.read + t.ran
          BY <1>5, <3>1
        <4>4. QED
          BY <1>5, <3>2, <4>2, <4>3
      <3>4. D!Done(t) <= Len(Jobs)
        BY <1>5, <2>1, <3>2
      <3>5. count'[w] \in Nat
        BY <1>5, <2>1, <3>1
      <3>6. QED
        BY <1>4, <3>1, <3>2, <3>3, <3>4, <3>5, LimitEnds
    <2>11. QED
      BY <1>10, <2>3, <2>4, <2>5, <2>6, <2>7, <2>8, <2>9, <2>10 DEF D!Work
  <1>11. QED
    BY <1>6, <1>7, <1>8, <1>9, <1>10 DEF D!Next

\* The initial states satisfy the invariant.
LEMMA ScheduleStart == ASSUME D!ConstantsAssumption, D!Init PROVE D!SchedulerInv
  <1>1. /\ limited \in BOOLEAN /\ clock = 0 /\ tickers = 1 /\ last = [k \in D!Tickers |-> 0]
        /\ ticks = {} /\ locks = {} /\ count = [w \in D!Windows |-> 0]
        /\ runs = [w \in D!Windows |-> 0] /\ raced = {} /\ clash = {}
        /\ DOMAIN starts = {} /\ D!BagToSet(starts) = {} /\ D!IsABag(starts)
    BY DEF D!Init, D!EmptyBag, D!SetToBag, D!BagToSet, D!IsABag
  <1>2. /\ 0 \in 0..(Minutes * Positions + MaxDelay) /\ 1 \in D!Tickers /\ 0 \in D!Stamps
        /\ Positions \in Nat \ {0} /\ MaxDelay \in Nat /\ MaxTicks \in Nat
    BY DEF D!ConstantsAssumption, D!Tickers, D!Stamps
  <1>3. D!Minute(0) = 0 /\ 0 % Positions = 0
    BY <1>2, DivUnique DEF D!Minute
  <1>4. D!Cardinality({}) = 0 /\ D!IsFiniteSet({})
    BY SchedulerSizes, FS_EmptySet
  <1>5. D!TypeOK
    <2>1. /\ clock \in 0..(Minutes * Positions + MaxDelay) /\ tickers \in D!Tickers
          /\ last \in [D!Tickers -> D!Stamps] /\ D!Cardinality(ticks) <= MaxTicks
          /\ count \in [D!Windows -> Nat] /\ runs \in [D!Windows -> Nat]
      BY <1>1, <1>2, <1>4
    <2>2. QED
      BY <1>1, <2>1 DEF D!TypeOK
  <1>6. D!TimeInv
    <2>1. \A k \in 1..1 : last[k] = 0
      BY <1>1, <1>2
    <2>2. QED
      BY <1>1, <1>3, <2>1 DEF D!TimeInv
  <1>7. D!TickInv /\ D!LockInv /\ D!ServedInv /\ D!StartedOnce
    BY <1>1 DEF D!TickInv, D!LockInv, D!Started, D!ServedInv, D!StartedOnce, D!AtMostOnce, D!StartsOf
  <1>8. D!SeenInv
    BY <1>1, <1>2 DEF D!SeenInv
  <1>9. D!LimitInv
    <2>1. ASSUME NEW w \in D!Windows PROVE LimitAt(w)
      <3>1. runs[w] = 0 /\ count[w] = 0 /\ D!In(w) = {}
        BY <1>1 DEF D!In
      <3>2. QED
        BY <3>1 DEF LimitAt
    <2>2. QED
      BY <2>1, LimitEach
  <1>10. QED
    BY <1>1, <1>4, <1>5, <1>6, <1>7, <1>8, <1>9 DEF D!SchedulerInv

\* Every step of the scheduler keeps the invariant.
LEMMA ScheduleStep == ASSUME D!ConstantsAssumption, D!SchedulerInv, D!Next PROVE D!SchedulerInv'
  <1>1. /\ D!TypeOK /\ D!IsFiniteSet(ticks) /\ D!TimeInv /\ D!TickInv /\ D!LockInv /\ D!ServedInv
        /\ D!StartedOnce /\ D!SeenInv /\ D!LimitInv
    BY DEF D!SchedulerInv
  <1>2. TicksInv
    BY <1>1, TicksAre
  <1>3. D!TypeOK' /\ D!IsFiniteSet(ticks)' /\ D!TimeInv' /\ D!TickInv'
    BY <1>1, <1>2, ScheduleTypes
  <1>4. D!LockInv' /\ D!StartedOnce'
    BY <1>1, <1>2, LockStep
  <1>5. D!ServedInv' /\ D!SeenInv' /\ D!LimitInv'
    BY <1>1, <1>2, ServedStep, SeenStep, LimitStep
  <1>6. QED
    BY <1>3, <1>4, <1>5 DEF D!SchedulerInv

\* A step of no part keeps the invariant.
LEMMA ScheduleStays == D!SchedulerInv /\ UNCHANGED scheduler => D!SchedulerInv'
  <1> SUFFICES ASSUME D!SchedulerInv, UNCHANGED scheduler PROVE D!SchedulerInv'
    OBVIOUS
  <1>1. UNCHANGED <<limited, clock, tickers, last, ticks, locks, count, starts, runs, raced, clash>>
    BY DEF scheduler
  <1>2. D!TypeOK' /\ D!IsFiniteSet(ticks)' /\ D!TimeInv'
    BY <1>1 DEF D!SchedulerInv, D!TypeOK, D!TimeInv, D!Minute
  <1>3. D!TickInv'
    BY <1>1 DEF D!SchedulerInv, D!TickInv, D!Window, D!Minute, D!Fresh, D!Takes, D!IsDue, D!Served
  <1>4. D!LockInv' /\ D!ServedInv' /\ D!StartedOnce'
    <2>1. D!LockInv'
      BY <1>1 DEF D!SchedulerInv, D!LockInv, D!Started, D!BagToSet
    <2>2. D!ServedInv'
      BY <1>1 DEF D!SchedulerInv, D!ServedInv, D!Serves, D!BagToSet
    <2>3. D!StartedOnce'
      BY <1>1 DEF D!SchedulerInv, D!StartedOnce, D!AtMostOnce, D!StartsOf, D!BagToSet
    <2>4. QED
      BY <2>1, <2>2, <2>3
  <1>5. D!SeenInv'
    BY <1>1 DEF D!SchedulerInv, D!SeenInv, D!Started, D!Steady, D!WillLookFor, D!Minute
  <1>6. D!LimitInv'
    BY <1>1 DEF D!SchedulerInv, D!LimitInv, D!Window, D!Minute, D!In, D!Past, D!Done
  <1>7. QED
    BY <1>2, <1>3, <1>4, <1>5, <1>6 DEF D!SchedulerInv

\* A steady due time is served in the minute of its ticks alone, and in that
\* minute no other is.
LEMMA DueHolds ==
    ASSUME D!ConstantsAssumption, D!SchedulerInv PROVE D!DueOnce
  <1>1. /\ D!TypeOK /\ D!ServedInv /\ D!StartedOnce /\ D!SeenInv
        /\ D!BagToSet(starts) \subseteq D!Tasks \X D!Stamps \X D!Stamps
        /\ clock \in Nat
    BY TimeFacts DEF D!SchedulerInv, D!TypeOK
  <1>2. ASSUME NEW x \in D!Tasks, D!Steady(x), NEW n \in D!Stamps, NEW d \in D!Stamps,
               <<x, n, d>> \in D!BagToSet(starts)
        PROVE  n = D!TickOf(x, d)
    <2>1. PICK now \in 0..clock : D!Minute(now) = n /\ now % Positions <= MaxDelay
                                  /\ D!InWindow(d * Positions + Due[x], now)
      BY <1>1, <1>2 DEF D!ServedInv, D!Serves
    <2>2. now \in Nat
      BY <1>1
    <2>3. QED
      BY <1>2, <2>1, <2>2, SteadyTick
  <1>3. SUFFICES ASSUME NEW x \in D!Tasks, NEW m \in D!Stamps, D!Steady(x), D!TickOf(x, m) \in 1..last[1]
                 PROVE  /\ <<x, D!TickOf(x, m)>> \notin raced => D!AtMostOnce(D!StartsOf(x, D!Stamps, {m}))
                        /\ ticks = {} /\ ~limited => D!StartsOf(x, D!Stamps, {m}) # {}
    BY DEF D!DueOnce
  <1> DEFINE due == D!TickOf(x, m)
  <1>4. due \in D!Stamps
    BY <1>1, <1>3 DEF D!TypeOK, D!Stamps, D!Tickers, D!ConstantsAssumption
  <1>5. D!StartsOf(x, D!Stamps, {m}) \subseteq D!StartsOf(x, {due}, D!Stamps)
    <2>1. ASSUME NEW n \in D!Stamps, <<x, n, m>> \in D!BagToSet(starts) PROVE n = due
      BY <1>2, <1>3, <2>1
    <2> HIDE DEF due
    <2>2. QED
      BY <1>3, <2>1 DEF D!StartsOf
  <1>6. <<x, due>> \notin raced => D!AtMostOnce(D!StartsOf(x, D!Stamps, {m}))
    <2>1. <<x, due>> \notin raced => D!AtMostOnce(D!StartsOf(x, {due}, D!Stamps))
      BY <1>1, <1>4 DEF D!StartedOnce
    <2> HIDE DEF due
    <2>2. QED
      BY <1>5, <2>1 DEF D!AtMostOnce
  <1>7. ASSUME ticks = {}, ~limited PROVE D!StartsOf(x, D!Stamps, {m}) # {}
    <2>1. D!Started(x, due)
      BY <1>1, <1>3, <1>7 DEF D!SeenInv
    <2>2. PICK d \in D!Stamps : <<x, due, d>> \in D!BagToSet(starts)
      BY <2>1 DEF D!Started
    <2>3. due = D!TickOf(x, d)
      BY <1>2, <1>3, <1>4, <2>2
    <2>4. d = m
      <3>1. d \in Nat /\ m \in Nat
        BY DEF D!Stamps
      <3>2. QED
        BY <2>3, <3>1 DEF D!TickOf
    <2>5. <<x, due, m>> \in D!StartsOf(x, D!Stamps, {m})
      <3> HIDE DEF due
      <3>1. QED
        BY <1>4, <2>2, <2>4 DEF D!StartsOf
    <2>6. QED
      BY <2>5
  <1>8. QED
    BY <1>6, <1>7

\* Of an interval that no two ticks met in, one tick at most is over the limit.
LEMMA BoundHolds ==
    ASSUME D!ConstantsAssumption, D!SchedulerInv PROVE D!IntervalBound
  <1>1. D!TypeOK /\ D!LimitInv /\ TicksInv
    BY TicksAre DEF D!SchedulerInv
  <1>2. SUFFICES ASSUME NEW w \in D!Windows, w \notin clash, limited
                 PROVE  runs[w] = 0 \/ runs[w] < MaxCrons + Len(Jobs)
    BY DEF D!IntervalBound
  <1>3. LimitAt(w)
    BY <1>1, <1>2, LimitEach
  <1>4. runs[w] \in Nat /\ MaxCrons \in Nat /\ Len(Jobs) \in Nat
    BY <1>1, LimitNumbers
  <1>5. ASSUME NEW t \in D!In(w) PROVE runs[w] < MaxCrons + Len(Jobs)
    <2>1. t \in ticks /\ runs[w] < MaxCrons + D!Done(t)
      BY <1>2, <1>3 DEF LimitAt, D!In
    <2>2. /\ t.ran \in Nat /\ Len(t.todo) \in Nat /\ t.ran + Len(t.todo) <= Len(Jobs)
          /\ t.step = "run" => Len(t.todo) # 0
      BY <1>1, <2>1, TickFields DEF TicksInv, SoundTick
    <2>3. D!Done(t) \in Nat /\ D!Done(t) <= Len(Jobs)
      BY <1>4, <2>2 DEF D!Done
    <2>4. QED
      BY <1>4, <2>1, <2>3
  <1>6. QED
    BY <1>2, <1>3, <1>5 DEF LimitAt

\* SchedulerHolds: the ticks of a minute start a task once, a due time that no
\* tick can fall on both sides of is served once, and a scope starts no more
\* jobs in an interval than its limit and one tick allow, but for what raced or
\* was pushed out of the cache (system/scheduler.rs).
THEOREM SchedulerHolds == MCSpec => []SchedulerSafe
  <1> DEFINE Inv == part = "scheduler" => D!SchedulerInv
  <1>1. MCInit => Inv
    BY PartsAssumption, ScheduleStart DEF MCInit
  <1>2. Inv /\ [MCNext]_mcVars => Inv'
    <2> SUFFICES ASSUME Inv, [MCNext]_mcVars, part' = "scheduler" PROVE D!SchedulerInv'
      OBVIOUS
    <2>1. CASE part = "scheduler" /\ D!Next
      BY <2>1, PartsAssumption, ScheduleStep
    <2>2. CASE part = "scheduler" /\ UNCHANGED scheduler
      BY <2>2, ScheduleStays
    <2>3. part = "scheduler" /\ (D!Next \/ UNCHANGED scheduler)
      BY DEF MCNext, mcVars
    <2>4. QED
      BY <2>1, <2>2, <2>3
  <1>3. Inv => SchedulerSafe
    BY PartsAssumption, DueHolds, BoundHolds DEF SchedulerSafe, D!SchedulerInv
  <1>4. QED
    BY <1>1, <1>2, <1>3, PTL DEF MCSpec
=============================================================================
