---------------------------- MODULE ProgressProofs ----------------------------
(***************************************************************************)
(* What holds of the components of MCProgress for every value of the       *)
(* constants: feeds, clones, the writes a replica forwards, the runs of    *)
(* scripts, and the schema of GraphQL.                                     *)
(***************************************************************************)
EXTENDS MCProgress, FiniteSetTheorems, SequenceTheorems, TLAPS

-----------------------------------------------------------------------------
(* Feeds.                                                                  *)

\* What is sent stays where it is.
LEMMA SentKept ==
    ASSUME sent \in Seq(R!Events), NEW e \in R!Events, sent' = Append(sent, e)
    PROVE  /\ sent' \in Seq(R!Events) /\ Len(sent') = Len(sent) + 1 /\ Len(sent) \in Nat
           /\ \A i \in 1..Len(sent) : sent'[i] = sent[i]
  BY AppendProperties, LenProperties

\* Such a step keeps all.
LEMMA FeedAsideKeeps ==
    ASSUME R!ConstantsAssumption, R!FeedInv, R!Aside
    PROVE  R!FeedInv'
  <1>1. /\ sent' \in Seq(R!Events) /\ Len(sent) =< Len(sent') /\ Len(sent') =< MaxEvents
        /\ Len(sent) \in Nat /\ Len(sent') \in Nat
        /\ \A i \in 1..Len(sent) : sent'[i] = sent[i]
    <2>1. sent \in Seq(R!Events) /\ Len(sent) =< MaxEvents /\ Len(sent) \in Nat
      BY LenProperties DEF R!FeedInv, R!Shape, R!TypeOK
    <2>2. CASE UNCHANGED sent
      BY <2>1, <2>2
    <2>3. CASE Len(sent) < MaxEvents /\ \E e \in R!Events : sent' = Append(sent, e)
      BY <2>1, <2>3, SentKept DEF R!ConstantsAssumption
    <2>4. QED
      BY <2>2, <2>3 DEF R!Aside
  <1>2. UNCHANGED <<next, got, skipped>>
    BY DEF R!Aside
  <1>3. R!Shape'
    <2>1. R!TypeOK'
      <3>1. \A c \in Streams : ~waiting'[c]
        BY DEF R!Aside, R!FeedInv, R!Shape, R!TypeOK
      <3>2. \A c \in R!Subscribers : skipped'[c] \subseteq 1..Len(sent')
        BY <1>1, <1>2 DEF R!FeedInv, R!Shape, R!TypeOK
      <3>3. QED
        BY <1>1, <1>2, <3>1, <3>2 DEF R!Aside, R!FeedInv, R!Shape, R!TypeOK
    <2>2. \A c \in R!Subscribers : next[c] \in Nat /\ next[c] =< Len(sent') + 1
      BY <1>1 DEF R!FeedInv, R!Shape
    <2>3. QED
      BY <1>2, <2>1, <2>2 DEF R!Aside, R!FeedInv, R!Shape
  <1>4. R!InOrder'
    BY <1>2 DEF R!FeedInv, R!InOrder
  <1>5. R!OwnScope'
    <2> SUFFICES ASSUME NEW c \in R!Subscribers, NEW i \in 1..Len(got[c])
                 PROVE  sent'[got[c][i]].from = ScopeOf[c]
      BY <1>2 DEF R!OwnScope
    <2>1. got[c][i] \in 1..(next[c] - 1) /\ next[c] =< Len(sent) + 1 /\ next[c] \in Nat
      BY DEF R!FeedInv, R!Shape
    <2>2. got[c][i] \in 1..Len(sent)
      BY <1>1, <2>1
    <2>3. QED
      BY <1>1, <2>2 DEF R!FeedInv, R!OwnScope
  <1>6. R!Complete'
    <2> SUFFICES ASSUME NEW c \in Streams, open'[c], NEW i \in 1..(next[c] - 1), R!Wanted(c, sent[i])'
                 PROVE  \E j \in 1..Len(got[c]) : got[c][j] = i
      BY <1>2 DEF R!Complete
    <2>1. next[c] =< Len(sent) + 1 /\ next[c] \in Nat
      BY DEF R!FeedInv, R!Shape, R!Subscribers
    <2>2. sent'[i] = sent[i]
      BY <1>1, <2>1
    <2>3. open[c] /\ filter'[c] = filter[c] /\ user'[c] = user[c]
      BY DEF R!Aside
    <2>4. R!Wanted(c, sent[i])
      BY <2>2, <2>3 DEF R!Wanted, R!MatchesScope, R!MatchesFilter, R!Readable
    <2>5. QED
      BY <2>3, <2>4 DEF R!FeedInv, R!Complete
  <1>7. QED
    BY <1>3, <1>4, <1>5, <1>6 DEF R!FeedInv

\* A request of a socket is such a step.
LEMMA SocketAside ==
    ASSUME R!ConstantsAssumption, R!Shape, NEW c \in Sockets, R!Message(c),
           filter' = filter \/ (\E f \in R!Filters : filter' = [filter EXCEPT ![c] = f]),
           user' = user \/ user' = [user EXCEPT ![c] = TRUE]
    PROVE  R!Aside
  <1>1. c \notin Streams /\ c \in R!Subscribers /\ \A d \in Streams : d \in R!Subscribers
    BY DEF R!ConstantsAssumption, R!Subscribers
  <1>2. /\ UNCHANGED <<sent, tables, next, open, got, skipped>>
        /\ waiting' = [waiting EXCEPT ![c] = FALSE]
    BY DEF R!Message, R!Woken
  <1>3. filter' \in [R!Subscribers -> R!Filters] /\ \A d \in Streams : filter'[d] = filter[d]
    <2>1. filter \in [R!Subscribers -> R!Filters]
      BY DEF R!Shape
    <2>2. CASE filter' = filter
      BY <2>1, <2>2
    <2>3. ASSUME NEW f \in R!Filters, filter' = [filter EXCEPT ![c] = f]
          PROVE  filter' \in [R!Subscribers -> R!Filters] /\ \A d \in Streams : filter'[d] = filter[d]
      BY <1>1, <2>1, <2>3
    <2>4. QED
      BY <2>2, <2>3
  <1>4. user' \in [R!Subscribers -> BOOLEAN] /\ \A d \in Streams : user'[d] = user[d]
    BY <1>1 DEF R!Shape
  <1>5. waiting' \in [R!Subscribers -> BOOLEAN] /\ \A d \in Streams : waiting'[d] = waiting[d]
    BY <1>1, <1>2 DEF R!Shape
  <1>6. QED
    BY <1>2, <1>3, <1>4, <1>5 DEF R!Aside, R!Shape, R!TypeOK

\* The steps that move no receiver.
LEMMA FeedAsideSteps ==
    ASSUME R!ConstantsAssumption, R!Shape,
           \/ \E e \in R!Events : R!Publish(e)
           \/ R!CreateCollection
           \/ \E c \in Sockets : R!Subscribe(c) \/ R!Unsubscribe(c) \/ R!Auth(c) \/ R!Ping(c) \/ R!Signal(c)
           \/ \E c \in R!Subscribers : R!Close(c)
           \/ UNCHANGED R!vars
    PROVE  R!Aside
  <1>0. /\ tables \subseteq Tables /\ waiting \in [R!Subscribers -> BOOLEAN]
        /\ open \in [R!Subscribers -> BOOLEAN] /\ user \in [R!Subscribers -> BOOLEAN]
        /\ filter \in [R!Subscribers -> R!Filters]
    BY DEF R!Shape, R!TypeOK
  <1>1. ASSUME NEW e \in R!Events, R!Publish(e) PROVE R!Aside
    BY <1>0, <1>1 DEF R!Publish, R!receivers, R!Aside
  <1>2. CASE R!CreateCollection
    BY <1>0, <1>2 DEF R!CreateCollection, R!receivers, R!Aside
  <1>3. ASSUME NEW c \in Sockets, R!Subscribe(c) PROVE R!Aside
    <2>1. PICK asked \in Tables \cup {None}, ch \in Channels \cup {None} :
              filter' = [filter EXCEPT ![c] =
                [asked |-> asked, col |-> IF asked \in tables THEN asked ELSE None, channel |-> ch]]
      BY <1>3 DEF R!Subscribe
    <2>2. [asked |-> asked, col |-> IF asked \in tables THEN asked ELSE None, channel |-> ch] \in R!Filters
      BY <1>0 DEF R!Filters
    <2>3. R!Message(c) /\ UNCHANGED user
      BY <1>3 DEF R!Subscribe
    <2>4. QED
      BY <2>1, <2>2, <2>3, SocketAside
  <1>4. ASSUME NEW c \in Sockets, R!Unsubscribe(c) PROVE R!Aside
    <2>1. R!NoFilter \in R!Filters
      BY DEF R!NoFilter, R!Filters
    <2>2. QED
      BY <1>4, <2>1, SocketAside DEF R!Unsubscribe
  <1>5. ASSUME NEW c \in Sockets, R!Auth(c) PROVE R!Aside
    BY <1>5, SocketAside DEF R!Auth
  <1>6. ASSUME NEW c \in Sockets, R!Ping(c) PROVE R!Aside
    BY <1>6, SocketAside DEF R!Ping
  <1>7. ASSUME NEW c \in Sockets, R!Signal(c) PROVE R!Aside
    <2>1. PICK ch \in Channels : sent' = Append(sent,
              [type |-> "signal", from |-> ScopeOf[c], to |-> ch, col |-> None])
      BY <1>7 DEF R!Signal
    <2>2. ScopeOf[c] \in Scopes /\ c \notin Streams
      BY DEF R!ConstantsAssumption, R!Subscribers
    <2>3. [type |-> "signal", from |-> ScopeOf[c], to |-> ch, col |-> None] \in R!Events
      BY <2>2 DEF R!Events, R!Signals
    <2>4. /\ waiting' = [waiting EXCEPT ![c] = FALSE] /\ Len(sent) < MaxEvents
          /\ UNCHANGED <<tables, next, open, filter, user, got, skipped>>
      BY <1>7 DEF R!Signal, R!Woken
    <2>5. waiting' \in [R!Subscribers -> BOOLEAN] /\ \A d \in Streams : waiting'[d] = waiting[d]
      BY <1>0, <2>2, <2>4 DEF R!Subscribers
    <2>6. QED
      BY <1>0, <2>1, <2>3, <2>4, <2>5 DEF R!Aside
  <1>8. ASSUME NEW c \in R!Subscribers, R!Close(c) PROVE R!Aside
    BY <1>0, <1>8 DEF R!Close, R!Aside, R!Subscribers
  <1>9. CASE UNCHANGED R!vars
    BY <1>0, <1>9 DEF R!vars, R!Aside
  <1>10. QED
    BY <1>1, <1>2, <1>3, <1>4, <1>5, <1>6, <1>7, <1>8, <1>9

\* A receiver gets the next event: the list of its events grows by one, or not.
LEMMA ReceiveKeeps ==
    ASSUME R!ConstantsAssumption, R!FeedInv, NEW c \in R!Subscribers, R!Receive(c)
    PROVE  R!FeedInv'
  <1> DEFINE n == next[c]
  <1>1. /\ n \in Nat \ {0} /\ n =< Len(sent) /\ Len(sent) \in Nat /\ Len(sent) =< MaxEvents
        /\ MaxEvents \in Nat /\ n + 1 \in 1..(MaxEvents + 1)
    <2>1. n \in Nat \ {0} /\ n =< Len(sent) /\ Len(sent) \in Nat /\ Len(sent) =< MaxEvents
          /\ MaxEvents \in Nat
      BY LenProperties DEF R!FeedInv, R!Shape, R!TypeOK, R!Receive, R!ConstantsAssumption
    <2>2. QED
      BY <2>1
  <1>2. /\ UNCHANGED <<sent, tables, waiting, open, filter, user, skipped>>
        /\ next'[c] = n + 1 /\ \A d \in R!Subscribers \ {c} : next'[d] = next[d] /\ got'[d] = got[d]
        /\ got'[c] = IF R!Wanted(c, sent[n]) THEN Append(got[c], n) ELSE got[c]
        /\ next' \in [R!Subscribers -> Nat \ {0}]
        /\ next' \in [R!Subscribers -> 1..(MaxEvents + 1)]
    <2>1. /\ UNCHANGED <<sent, tables, waiting, open, filter, user, skipped>>
          /\ next' = [next EXCEPT ![c] = n + 1]
          /\ got' = [got EXCEPT ![c] = IF R!Wanted(c, sent[n]) THEN Append(@, n) ELSE @]
      BY DEF R!Receive
    <2>2. /\ next \in [R!Subscribers -> Nat \ {0}] /\ next \in [R!Subscribers -> 1..(MaxEvents + 1)]
          /\ got \in [R!Subscribers -> Seq(Nat)]
      BY DEF R!FeedInv, R!Shape, R!TypeOK
    <2>3. QED
      BY <1>1, <2>1, <2>2
  <1>3. /\ got[c] \in Seq(Nat) /\ Len(got[c]) \in Nat
        /\ \A i \in 1..Len(got[c]) : got[c][i] \in 1..(n - 1) /\ got[c][i] \notin skipped[c]
        /\ \A i, j \in 1..Len(got[c]) : i < j => got[c][i] < got[c][j]
        /\ \A k \in skipped[c] : k \in 1..(n - 1)
    BY LenProperties DEF R!FeedInv, R!Shape, R!InOrder
  <1> HIDE DEF n
  <1>4. /\ got'[c] \in Seq(Nat)
        /\ \A i \in 1..Len(got'[c]) : /\ got'[c][i] \in 1..n /\ got'[c][i] \notin skipped[c]
                                      /\ sent[got'[c][i]].from = ScopeOf[c]
        /\ \A i, j \in 1..Len(got'[c]) : i < j => got'[c][i] < got'[c][j]
        /\ \A i \in 1..Len(got[c]) : i \in 1..Len(got'[c]) /\ got'[c][i] = got[c][i]
        /\ R!Wanted(c, sent[n]) => \E j \in 1..Len(got'[c]) : got'[c][j] = n
    <2>0. \A i \in 1..Len(got[c]) : sent[got[c][i]].from = ScopeOf[c]
      BY DEF R!FeedInv, R!OwnScope
    <2>1. CASE R!Wanted(c, sent[n])
      <3> DEFINE s == got[c]
                 t == Append(s, n)
      <3>1. /\ t \in Seq(Nat) /\ Len(t) = Len(s) + 1 /\ t[Len(s) + 1] = n
            /\ \A i \in 1..Len(s) : t[i] = s[i]
        BY <1>1, <1>3, AppendProperties
      <3>2. got'[c] = t
        BY <1>2, <2>1
      <3>3. sent[n].from = ScopeOf[c]
        BY <2>1 DEF R!Wanted, R!MatchesScope, R!Namespaced
      <3> HIDE DEF t
      <3>4. /\ \A i \in 1..Len(t) : i \in 1..Len(s) \/ i = Len(s) + 1
            /\ \A i \in 1..Len(s) : i \in 1..Len(t)
            /\ Len(s) + 1 \in 1..Len(t)
        BY <1>3, <3>1
      <3>5. \A i \in 1..Len(t) : t[i] \in 1..n /\ t[i] \notin skipped[c]
        <4> SUFFICES ASSUME NEW i \in 1..Len(t) PROVE t[i] \in 1..n /\ t[i] \notin skipped[c]
          OBVIOUS
        <4>1. CASE i \in 1..Len(s)
          <5>1. t[i] = s[i] /\ s[i] \in 1..(n - 1) /\ s[i] \notin skipped[c]
            BY <1>3, <3>1, <4>1
          <5>2. QED
            BY <1>1, <5>1
        <4>2. CASE i = Len(s) + 1
          <5>1. t[i] = n /\ n \notin skipped[c]
            BY <1>1, <1>3, <3>1, <4>2
          <5>2. QED
            BY <1>1, <5>1
        <4>3. QED
          BY <3>4, <4>1, <4>2
      <3>6. \A i, j \in 1..Len(t) : i < j => t[i] < t[j]
        <4> SUFFICES ASSUME NEW i \in 1..Len(t), NEW j \in 1..Len(t), i < j PROVE t[i] < t[j]
          OBVIOUS
        <4>1. i \in 1..Len(s) /\ t[i] = s[i] /\ s[i] \in 1..(n - 1)
          <5>1. i \in 1..Len(s)
            BY <1>3, <3>1
          <5>2. QED
            BY <1>3, <3>1, <5>1
        <4>2. CASE j \in 1..Len(s)
          BY <1>3, <3>1, <4>1, <4>2
        <4>3. CASE j = Len(s) + 1
          <5>1. t[j] = n
            BY <3>1, <4>3
          <5>2. QED
            BY <1>1, <4>1, <5>1
        <4>4. QED
          BY <3>4, <4>2, <4>3
      <3>7. \A i \in 1..Len(t) : sent[t[i]].from = ScopeOf[c]
        BY <2>0, <3>1, <3>3, <3>4
      <3>8. QED
        BY <3>1, <3>2, <3>4, <3>5, <3>6, <3>7
    <2>2. CASE ~R!Wanted(c, sent[n])
      <3>1. got'[c] = got[c]
        BY <1>2, <2>2
      <3>2. \A i \in 1..Len(got[c]) : got[c][i] \in 1..n
        <4>1. \A i \in 1..Len(got[c]) : got[c][i] \in 1..(n - 1)
          BY <1>3
        <4>2. QED
          BY <1>1, <4>1
      <3>3. QED
        BY <1>3, <2>0, <2>2, <3>1, <3>2
    <2>3. QED
      BY <2>1, <2>2
  <1>5. /\ next'[c] \in Nat \ {0} /\ next'[c] =< Len(sent) + 1 /\ next'[c] - 1 = n
        /\ \A k \in 1..n : k \in 1..(next'[c] - 1) /\ k < next'[c]
    BY <1>1, <1>2
  <1>6. R!Shape'
    <2>1. R!TypeOK'
      BY <1>2 DEF R!FeedInv, R!Shape, R!TypeOK
    <2>2. got' \in [R!Subscribers -> Seq(Nat)]
      <3>1. got \in [R!Subscribers -> Seq(Nat)]
        BY DEF R!FeedInv, R!Shape
      <3>2. got' = [got EXCEPT ![c] = got'[c]]
        BY <1>2, <3>1 DEF R!Receive
      <3>3. QED
        BY <1>4, <3>1, <3>2
    <2>3. ASSUME NEW d \in R!Subscribers
          PROVE  /\ next'[d] =< Len(sent) + 1
                 /\ \A i \in 1..Len(got'[d]) : got'[d][i] \in 1..(next'[d] - 1)
                 /\ \A k \in skipped[d] : k \in 1..(next'[d] - 1)
      <3>1. CASE d = c
        <4>1. \A k \in skipped[c] : k \in 1..n
          <5>1. \A k \in skipped[c] : k \in 1..(n - 1)
            BY <1>3
          <5>2. QED
            BY <1>1, <5>1
        <4>2. QED
          BY <1>4, <1>5, <3>1, <4>1
      <3>2. CASE d # c
        BY <1>2, <3>2 DEF R!FeedInv, R!Shape
      <3>3. QED
        BY <3>1, <3>2
    <2>4. QED
      BY <1>2, <2>1, <2>2, <2>3 DEF R!FeedInv, R!Shape
  <1>7. R!InOrder'
    <2> SUFFICES ASSUME NEW d \in R!Subscribers
                 PROVE  /\ \A i, j \in 1..Len(got'[d]) : i < j => got'[d][i] < got'[d][j]
                        /\ \A i \in 1..Len(got'[d]) :
                              got'[d][i] < next'[d] /\ got'[d][i] \notin skipped[d]
      BY <1>2 DEF R!InOrder
    <2>1. CASE d = c
      BY <1>4, <1>5, <2>1
    <2>2. CASE d # c
      BY <1>2, <2>2 DEF R!FeedInv, R!InOrder
    <2>3. QED
      BY <2>1, <2>2
  <1>8. R!OwnScope'
    <2> SUFFICES ASSUME NEW d \in R!Subscribers, NEW i \in 1..Len(got'[d])
                 PROVE  sent[got'[d][i]].from = ScopeOf[d]
      BY <1>2 DEF R!OwnScope
    <2>1. CASE d = c
      BY <1>4, <2>1
    <2>2. CASE d # c
      BY <1>2, <2>2 DEF R!FeedInv, R!OwnScope
    <2>3. QED
      BY <2>1, <2>2
  <1>9. R!Complete'
    <2> SUFFICES ASSUME NEW d \in Streams, open[d], NEW i \in 1..(next'[d] - 1), R!Wanted(d, sent[i])
                 PROVE  \E j \in 1..Len(got'[d]) : got'[d][j] = i
      BY <1>2 DEF R!Complete, R!Wanted, R!MatchesScope, R!MatchesFilter, R!Readable
    <2>1. CASE d # c
      BY <1>2, <2>1 DEF R!FeedInv, R!Complete, R!Subscribers
    <2>2. CASE d = c /\ i = n
      BY <1>4, <2>2
    <2>3. CASE d = c /\ i # n
      <3>1. i \in 1..(n - 1)
        BY <1>1, <1>5, <2>3
      <3>2. PICK j \in 1..Len(got[c]) : got[c][j] = i
        BY <2>3, <3>1 DEF R!FeedInv, R!Complete, n
      <3>3. QED
        BY <1>4, <2>3, <3>2
    <2>4. QED
      BY <2>1, <2>2, <2>3
  <1>10. QED
    BY <1>6, <1>7, <1>8, <1>9 DEF R!FeedInv

\* A receiver is told that it has fallen behind: a stream ends, a socket waits.
LEMMA LagKeeps ==
    ASSUME R!ConstantsAssumption, R!FeedInv, NEW c \in R!Subscribers, R!Lag(c)
    PROVE  R!FeedInv'
  <1>1. /\ next[c] \in Nat \ {0} /\ Len(sent) \in Nat /\ Len(sent) =< MaxEvents /\ MaxEvents \in Nat
        /\ R!Oldest \in Nat /\ next[c] < R!Oldest /\ R!Oldest =< Len(sent) + 1 /\ R!Oldest - 1 =< Len(sent)
        /\ R!Oldest \in 1..(MaxEvents + 1)
    <2>1. next[c] \in Nat \ {0} /\ Len(sent) \in Nat /\ Len(sent) =< MaxEvents /\ MaxEvents \in Nat
          /\ next[c] < R!Oldest /\ Capacity \in Nat \ {0}
      BY LenProperties DEF R!FeedInv, R!Shape, R!TypeOK, R!Lag, R!ConstantsAssumption
    <2>2. R!Oldest \in Nat /\ R!Oldest =< Len(sent) + 1
      BY <2>1 DEF R!Oldest
    <2>3. QED
      BY <2>1, <2>2
  <1> DEFINE o == R!Oldest
  <1>2. /\ UNCHANGED <<sent, tables, filter, user, got>>
        /\ next' = [next EXCEPT ![c] = o]
        /\ skipped' = [skipped EXCEPT ![c] = @ \cup (next[c]..(o - 1))]
        /\ open' \in [R!Subscribers -> BOOLEAN] /\ waiting' \in [R!Subscribers -> BOOLEAN]
        /\ \A d \in Streams : ~waiting'[d]
        /\ \A d \in Streams : open'[d] => open[d] /\ d # c
    <2>1. c \in Streams <=> c \notin Sockets
      BY DEF R!ConstantsAssumption, R!Subscribers
    <2>2. open \in [R!Subscribers -> BOOLEAN] /\ waiting \in [R!Subscribers -> BOOLEAN]
          /\ \A d \in Streams : ~waiting[d] /\ d \in R!Subscribers
      BY DEF R!FeedInv, R!Shape, R!TypeOK, R!Subscribers
    <2>3. CASE c \in Sockets
      BY <2>1, <2>2, <2>3 DEF R!Lag
    <2>4. CASE c \notin Sockets
      <3>1. open' = [open EXCEPT ![c] = FALSE] /\ UNCHANGED waiting
        BY <2>4 DEF R!Lag, R!Up
      <3>2. QED
        BY <2>1, <2>2, <2>4, <3>1 DEF R!Lag
    <2>5. QED
      BY <2>3, <2>4
  <1> HIDE DEF o
  <1>3. /\ next'[c] = o /\ \A d \in R!Subscribers \ {c} : next'[d] = next[d] /\ skipped'[d] = skipped[d]
        /\ next' \in [R!Subscribers -> Nat \ {0}] /\ next' \in [R!Subscribers -> 1..(MaxEvents + 1)]
        /\ skipped'[c] = skipped[c] \cup (next[c]..(o - 1))
        /\ skipped' \in [R!Subscribers -> SUBSET Nat]
    <2>1. /\ next \in [R!Subscribers -> Nat \ {0}] /\ next \in [R!Subscribers -> 1..(MaxEvents + 1)]
          /\ skipped \in [R!Subscribers -> SUBSET Nat]
      BY DEF R!FeedInv, R!Shape, R!TypeOK
    <2>2. o \in Nat \ {0} /\ o \in 1..(MaxEvents + 1) /\ next[c]..(o - 1) \subseteq Nat
      BY <1>1 DEF o
    <2>3. QED
      BY <1>2, <2>1, <2>2
  <1>4. /\ o \in Nat \ {0} /\ next[c] < o /\ o =< Len(sent) + 1
        /\ \A k \in skipped'[c] : k \in 1..(o - 1) /\ (k \in skipped[c] \/ k >= next[c])
    <2>1. \A k \in skipped[c] : k \in 1..(next[c] - 1)
      BY DEF R!FeedInv, R!Shape
    <2>2. QED
      BY <1>1, <1>3, <2>1 DEF o
  <1>5. \A i \in 1..Len(got[c]) :
            got[c][i] \in 1..(next[c] - 1) /\ got[c][i] \notin skipped'[c] /\ got[c][i] < o
    <2> SUFFICES ASSUME NEW i \in 1..Len(got[c])
                 PROVE  got[c][i] \in 1..(next[c] - 1) /\ got[c][i] \notin skipped'[c] /\ got[c][i] < o
      OBVIOUS
    <2> DEFINE g == got[c][i]
    <2>1. g \in 1..(next[c] - 1) /\ g \notin skipped[c]
      BY DEF R!FeedInv, R!Shape, R!InOrder
    <2> HIDE DEF g
    <2>2. next[c] \in Nat
      BY <1>1
    <2>3. g < o /\ ~(g >= next[c])
      BY <1>4, <2>1, <2>2
    <2>4. g \notin skipped'[c]
      BY <1>4, <2>1, <2>3
    <2>5. QED
      BY <2>1, <2>3, <2>4 DEF g
  <1>6. R!Shape'
    <2>1. ASSUME NEW d \in R!Subscribers
          PROVE  /\ next'[d] =< Len(sent) + 1
                 /\ \A i \in 1..Len(got[d]) : got[d][i] \in 1..(next'[d] - 1)
                 /\ \A k \in skipped'[d] : k \in 1..(next'[d] - 1)
                 /\ skipped'[d] \subseteq 1..Len(sent)
      <3>1. CASE d = c
        <4>1. \A i \in 1..Len(got[c]) : got[c][i] \in 1..(o - 1)
          BY <1>1, <1>4, <1>5
        <4>2. \A k \in skipped'[c] : k \in 1..(o - 1) /\ k \in 1..Len(sent)
          <5>1. \A k \in 1..(o - 1) : k \in 1..Len(sent)
            BY <1>1, <1>4
          <5>2. QED
            BY <1>4, <5>1
        <4>3. QED
          BY <1>3, <1>4, <3>1, <4>1, <4>2
      <3>2. CASE d # c
        BY <1>3, <3>2 DEF R!FeedInv, R!Shape, R!TypeOK
      <3>3. QED
        BY <3>1, <3>2
    <2>2. R!TypeOK'
      BY <1>2, <1>3, <2>1 DEF R!FeedInv, R!Shape, R!TypeOK
    <2>3. QED
      BY <1>2, <1>3, <2>1, <2>2 DEF R!FeedInv, R!Shape
  <1>7. R!InOrder'
    <2> SUFFICES ASSUME NEW d \in R!Subscribers
                 PROVE  /\ \A i, j \in 1..Len(got[d]) : i < j => got[d][i] < got[d][j]
                        /\ \A i \in 1..Len(got[d]) : got[d][i] < next'[d] /\ got[d][i] \notin skipped'[d]
      BY <1>2 DEF R!InOrder
    <2>1. \A i, j \in 1..Len(got[d]) : i < j => got[d][i] < got[d][j]
      BY DEF R!FeedInv, R!InOrder
    <2>2. CASE d = c
      BY <1>3, <1>5, <2>1, <2>2
    <2>3. CASE d # c
      BY <1>3, <2>1, <2>3 DEF R!FeedInv, R!InOrder
    <2>4. QED
      BY <2>2, <2>3
  <1>8. R!OwnScope'
    BY <1>2 DEF R!FeedInv, R!OwnScope
  <1>9. R!Complete'
    <2> SUFFICES ASSUME NEW d \in Streams, open'[d], NEW i \in 1..(next'[d] - 1), R!Wanted(d, sent[i])
                 PROVE  \E j \in 1..Len(got[d]) : got[d][j] = i
      BY <1>2 DEF R!Complete, R!Wanted, R!MatchesScope, R!MatchesFilter, R!Readable
    <2>1. open[d] /\ d \in R!Subscribers \ {c}
      BY <1>2 DEF R!Subscribers
    <2>2. QED
      BY <1>3, <2>1 DEF R!FeedInv, R!Complete
  <1>10. QED
    BY <1>6, <1>7, <1>8, <1>9 DEF R!FeedInv

\* At the start nothing is sent.
LEMMA FeedInit ==
    ASSUME R!ConstantsAssumption, R!Init
    PROVE  R!FeedInv
  <1>1. /\ sent = << >> /\ Len(sent) = 0 /\ sent \in Seq(R!Events)
        /\ << >> \in Seq(Nat) /\ MaxEvents \in Nat
    BY EmptySeq DEF R!Init, R!ConstantsAssumption
  <1>2. \A c \in R!Subscribers : got[c] = << >> /\ Len(got[c]) = 0 /\ next[c] = 1 /\ skipped[c] = {}
    BY EmptySeq DEF R!Init
  <1>3. filter \in [R!Subscribers -> R!Filters]
    <2>1. [asked : {None}, col : {None}, channel : Channels \cup {None}] \subseteq R!Filters
      BY DEF R!Filters
    <2>2. QED
      BY <2>1 DEF R!Init
  <1>4. R!Shape
    BY <1>1, <1>2, <1>3 DEF R!Init, R!Shape, R!TypeOK, R!Subscribers, R!ConstantsAssumption
  <1>5. R!InOrder /\ R!OwnScope /\ R!Complete
    BY <1>2 DEF R!InOrder, R!OwnScope, R!Complete, R!Subscribers
  <1>6. QED
    BY <1>4, <1>5 DEF R!FeedInv

LEMMA FeedStep ==
    ASSUME R!ConstantsAssumption, R!FeedInv, R!Next \/ UNCHANGED R!vars
    PROVE  R!FeedInv'
  <1>1. CASE \E c \in R!Subscribers : R!Receive(c) \/ R!Lag(c)
    BY <1>1, ReceiveKeeps, LagKeeps
  <1>2. CASE ~\E c \in R!Subscribers : R!Receive(c) \/ R!Lag(c)
    <2>1. R!Aside
      BY <1>2, FeedAsideSteps DEF R!Next, R!FeedInv
    <2>2. QED
      BY <2>1, FeedAsideKeeps
  <1>3. QED
    BY <1>1, <1>2

\* For any number of sockets and streams, events, collections and channels, and
\* any capacity of the broadcast channel: an event reaches connections of its own
\* scope only, in the order of sending and once, and a stream that is open has
\* missed nothing it wants and may read.
THEOREM FeedsAreTrue ==
    ASSUME R!ConstantsAssumption
    PROVE  R!Spec => [](R!TypeOK /\ R!InOrder /\ R!OwnScope /\ R!Complete)
  <1>1. R!Init => R!FeedInv
    BY FeedInit
  <1>2. R!FeedInv /\ [R!Next]_(R!vars) => R!FeedInv'
    BY FeedStep
  <1>3. R!FeedInv => R!TypeOK /\ R!InOrder /\ R!OwnScope /\ R!Complete
    BY DEF R!FeedInv, R!Shape
  <1>4. QED
    BY <1>1, <1>2, <1>3, PTL DEF R!Spec

\* FeedsHold: the run's own property of the feeds.
THEOREM FeedsHold == MCSpec => []FeedsSafe
  <1> DEFINE Inv == part = "feeds" => R!FeedInv
  <1>1. MCInit => Inv
    BY PartsAssumption, FeedInit DEF MCInit
  <1>2. Inv /\ [MCNext]_mcVars => Inv'
    <2> SUFFICES ASSUME Inv, [MCNext]_mcVars, part' = "feeds" PROVE R!FeedInv'
      OBVIOUS
    <2>1. part = "feeds" /\ (R!Next \/ UNCHANGED feeds)
      BY DEF MCNext, mcVars, OfGraphQL, OfClone, OfForwarding, OfScripts, OfFeeds
    <2>2. R!Next \/ UNCHANGED R!vars
      BY <2>1 DEF feeds, R!vars
    <2>3. QED
      BY <2>1, <2>2, PartsAssumption, FeedStep
  <1>3. Inv => FeedsSafe
    BY DEF FeedsSafe, R!FeedInv, R!Shape
  <1>4. QED
    BY <1>1, <1>2, <1>3, PTL DEF MCSpec

-----------------------------------------------------------------------------
(* Clones.                                                                 *)

\* The number of elements, in the instance and outside.
LEMMA CloneSize ==
    ASSUME NEW X PROVE C!Cardinality(X) = Cardinality(X)
  BY DEF C!Cardinality, Cardinality

\* A stack that grows and one that shrinks.
LEMMA StackGrows ==
    ASSUME NEW S, NEW s \in Seq(S), NEW e \in S
    PROVE  /\ Append(s, e) \in Seq(S) /\ Len(Append(s, e)) = Len(s) + 1 /\ Len(s) \in Nat
           /\ Append(s, e)[Len(s) + 1] = e
           /\ \A k \in 1..Len(s) : Append(s, e)[k] = s[k]
           /\ \A k \in 1..(Len(s) + 1) : k \in 1..Len(s) \/ k = Len(s) + 1
  <1>1. /\ Append(s, e) \in Seq(S) /\ Len(Append(s, e)) = Len(s) + 1 /\ Len(s) \in Nat
        /\ Append(s, e)[Len(s) + 1] = e /\ \A k \in 1..Len(s) : Append(s, e)[k] = s[k]
    BY AppendProperties, LenProperties
  <1>2. \A k \in 1..(Len(s) + 1) : k \in 1..Len(s) \/ k = Len(s) + 1
    BY <1>1
  <1>3. QED
    BY <1>1, <1>2

\* Without its last element.
LEMMA StackShrinks ==
    ASSUME NEW S, NEW s \in Seq(S), NEW n \in Nat, Len(s) = n + 1
    PROVE  LET t == SubSeq(s, 1, Len(s) - 1) IN
           /\ t \in Seq(S) /\ Len(t) = n
           /\ \A k \in 1..n : t[k] = s[k]
  <1> DEFINE t == SubSeq(s, 1, n)
  <1>1. \A k \in 1..n : s[k] \in S
    BY ElementOfSeq
  <1>2. /\ t \in Seq(S) /\ Len(t) = (IF 1 =< n THEN n - 1 + 1 ELSE 0)
        /\ \A k \in 1..(n - 1 + 1) : t[k] = s[1 + k - 1]
    BY <1>1, SubSeqProperties
  <1>3. Len(s) - 1 = n
    OBVIOUS
  <1> HIDE DEF t
  <1>4. Len(t) = n /\ \A k \in 1..n : t[k] = s[k]
    BY <1>2
  <1>5. QED
    BY <1>2, <1>3, <1>4 DEF t

\* The end of resolve_dependencies takes the top off.
LEMMA PopShrinks ==
    ASSUME C!CloneInv, Len(stack) >= 1, C!Pop
    PROVE  /\ stack' \in Seq(C!Records) /\ Len(stack') = Len(stack) - 1 /\ Len(stack) \in Nat
           /\ \A k \in 1..Len(stack') : /\ stack'[k] = stack[k] /\ k \in 1..Len(stack)
                                         /\ k \in 1..(Len(stack) - 1)
  <1> DEFINE m == Len(stack)
             n == m - 1
  <1>1. stack \in Seq(C!Records) /\ m \in Nat /\ m >= 1
    BY LenProperties DEF C!CloneInv, C!TypeOK
  <1>2. stack' = SubSeq(stack, 1, m - 1)
    BY DEF C!Pop
  <1> HIDE DEF m
  <1>3. n \in Nat /\ m = n + 1
    BY <1>1
  <1> HIDE DEF n
  <1>4. stack' \in Seq(C!Records) /\ Len(stack') = n /\ \A k \in 1..n : stack'[k] = stack[k]
    <2>1. Len(stack) = n + 1
      BY <1>3 DEF m
    <2>2. stack' = SubSeq(stack, 1, Len(stack) - 1)
      BY <1>2 DEF m
    <2>3. QED
      BY <1>1, <1>3, <2>1, <2>2, StackShrinks
  <1>5. \A k \in 1..n : k \in 1..m /\ k \in 1..(m - 1)
    BY <1>3
  <1>6. QED
    BY <1>1, <1>4, <1>5 DEF m, n

\* The record at the top of the stack, when all it points to is copied, is
\* nowhere else on the stack: the next one up would not be copied.
LEMMA TopIsAlone ==
    ASSUME C!ConstantsAssumption, C!CloneInv, Len(stack) >= 1, ~C!Missing(ref[C!Top])
    PROVE  /\ C!Top \in C!Records /\ C!Top \notin copied /\ Owner[C!Top] \in users \cup {0}
           /\ \A k \in 1..(Len(stack) - 1) : stack[k] # C!Top
  <1>1. stack \in Seq(C!Records) /\ Len(stack) \in Nat
    BY LenProperties DEF C!CloneInv, C!TypeOK
  <1>2. Len(stack) \in 1..Len(stack) /\ C!Top \in C!Records
    BY <1>1, ElementOfSeq DEF C!Top
  <1>3. C!Top \notin copied /\ Owner[C!Top] \in users \cup {0}
    BY <1>2 DEF C!CloneInv, C!Top
  <1>4. ASSUME NEW k \in 1..(Len(stack) - 1), stack[k] = C!Top PROVE FALSE
    <2>1. k + 1 \in 1..Len(stack) /\ k + 1 > 1 /\ (k + 1) - 1 = k
      BY <1>1
    <2>2. stack[k + 1] = ref[C!Top] /\ stack[k + 1] \notin copied
      BY <1>4, <2>1 DEF C!CloneInv
    <2>3. stack[k + 1] \in C!Records /\ 0 \notin C!Records
      <3>1. stack[k + 1] \in C!Records
        BY <1>1, <2>1, ElementOfSeq
      <3>2. 0 \notin C!Records
        BY DEF C!Records, C!ConstantsAssumption
      <3>3. QED
        BY <3>1, <3>2
    <2>4. QED
      BY <2>2, <2>3 DEF C!Missing
  <1>5. QED
    BY <1>2, <1>3, <1>4

\* The beginning of resolve_dependencies: for the loop's record, or for the one
\* that the record at the top points to.
LEMMA EnterKeeps ==
    ASSUME C!ConstantsAssumption, C!CloneInv, NEW r \in C!Records, r \notin copied, C!Enter(r),
           Len(stack) < MaxDepth, stack = << >> \/ r = ref[C!Top],
           loop' \in 0..N, UNCHANGED <<ref, limit, copied, rows, lastId, refused>>
    PROVE  C!CloneInv'
  <1>1. /\ stack \in Seq(C!Records) /\ stack' = Append(stack, r) /\ users \subseteq users'
        /\ users' \subseteq {Owner[x] : x \in C!Records} /\ Owner[r] \in users' \cup {0}
    BY DEF C!CloneInv, C!TypeOK, C!Enter, C!OwnersOf
  <1>2. /\ stack' \in Seq(C!Records) /\ Len(stack') = Len(stack) + 1 /\ Len(stack) \in Nat
        /\ stack'[Len(stack) + 1] = r
        /\ \A k \in 1..Len(stack) : stack'[k] = stack[k]
        /\ \A k \in 1..Len(stack') : k \in 1..Len(stack) \/ k = Len(stack) + 1
    BY <1>1, StackGrows
  <1>3. C!TypeOK'
    <2>1. Len(stack') =< MaxDepth
      BY <1>2 DEF C!ConstantsAssumption
    <2>2. QED
      BY <1>1, <1>2, <2>1 DEF C!CloneInv, C!TypeOK
  <1>4. \A k \in 1..Len(stack') : stack'[k] \notin copied /\ Owner[stack'[k]] \in users' \cup {0}
    BY <1>1, <1>2 DEF C!CloneInv
  <1>5. ASSUME NEW k \in 1..Len(stack'), k > 1 PROVE stack'[k] = ref[stack'[k - 1]]
    <2>1. CASE k \in 1..Len(stack)
      <3>1. k - 1 \in 1..Len(stack)
        BY <1>2, <1>5, <2>1
      <3>2. QED
        BY <1>2, <1>5, <2>1, <3>1 DEF C!CloneInv
    <2>2. CASE k = Len(stack) + 1
      <3>1. k - 1 = Len(stack) /\ Len(stack) \in 1..Len(stack)
        BY <1>2, <1>5, <2>2
      <3>2. stack # << >>
        BY <3>1
      <3>3. stack'[k - 1] = C!Top
        BY <1>2, <3>1 DEF C!Top
      <3>4. QED
        BY <1>2, <2>2, <3>2, <3>3
    <2>3. QED
      BY <1>2, <2>1, <2>2
  <1>6. C!OwnersCopied'
    BY <1>1 DEF C!CloneInv, C!OwnersCopied
  <1>7. QED
    BY <1>3, <1>4, <1>5, <1>6 DEF C!CloneInv, C!CopiedOnce

\* The end of resolve_dependencies: the record is copied under an id.
LEMMA CopyKeeps ==
    ASSUME C!ConstantsAssumption, C!CloneInv, Len(stack) >= 1, ~C!Missing(ref[C!Top]), C!Pop,
           copied' = copied \cup {C!Top}, NEW id \in Nat \ {0}, rows' = rows \cup {<<id, C!Top>>},
           lastId' \in Nat, lastId =< lastId', id =< lastId', lastId' =< lastId + 1 \/ lastId' =< N,
           UNCHANGED <<ref, limit, loop, users>>, refused' = refused
    PROVE  C!CloneInv'
  <1>1. /\ C!Top \in C!Records /\ C!Top \notin copied /\ Owner[C!Top] \in users \cup {0}
        /\ \A k \in 1..(Len(stack) - 1) : stack[k] # C!Top
    BY TopIsAlone
  <1>2. /\ stack' \in Seq(C!Records) /\ Len(stack') = Len(stack) - 1 /\ Len(stack) \in Nat
        /\ \A k \in 1..Len(stack') : stack'[k] = stack[k] /\ k \in 1..Len(stack)
    BY PopShrinks
  <1>3. /\ IsFiniteSet(copied) /\ copied' \subseteq C!Records
        /\ Cardinality(copied) \in Nat
        /\ Cardinality(copied') = Cardinality(copied) + 1 /\ Cardinality(copied') =< N
    <2>1. copied \subseteq C!Records /\ copied' \subseteq C!Records /\ N \in Nat
      BY <1>1 DEF C!CloneInv, C!TypeOK, C!ConstantsAssumption
    <2>2. IsFiniteSet(C!Records) /\ Cardinality(C!Records) = N
      <3>1. 1 \in Int /\ N \in Int /\ N >= 1
        BY <2>1 DEF C!ConstantsAssumption
      <3>2. IsFiniteSet(1..N) /\ Cardinality(1..N) = (IF 1 > N THEN 0 ELSE N - 1 + 1)
        BY <3>1, FS_Interval
      <3>3. QED
        BY <3>1, <3>2 DEF C!Records
    <2>3. IsFiniteSet(copied) /\ Cardinality(copied') =< N
      BY <2>1, <2>2, FS_Subset
    <2>4. Cardinality(copied) \in Nat /\ Cardinality(copied') = Cardinality(copied) + 1
      BY <1>1, <2>3, FS_AddElement, FS_CardinalityType
    <2>5. QED
      BY <2>1, <2>3, <2>4
  <1>4. /\ lastId \in Nat /\ N \in Nat /\ lastId' =< N + Cardinality(copied') /\ lastId' \in 0..(2 * N)
        /\ id \in 1..(2 * N)
    <2>1. lastId \in Nat /\ N \in Nat /\ lastId =< N + Cardinality(copied)
      BY CloneSize DEF C!CloneInv, C!TypeOK, C!ConstantsAssumption
    <2>2. QED
      BY <1>3, <2>1
  <1>5. C!TypeOK'
    <2>1. rows' \subseteq (1..(2 * N)) \X C!Records
      BY <1>1, <1>4 DEF C!CloneInv, C!TypeOK
    <2>2. Len(stack') =< MaxDepth
      BY <1>2 DEF C!CloneInv, C!TypeOK, C!ConstantsAssumption
    <2>3. QED
      BY <1>2, <1>3, <1>4, <2>1, <2>2 DEF C!CloneInv, C!TypeOK
  <1>6. \A p \in rows' : p[1] =< lastId' /\ p[2] \in copied'
    <2> SUFFICES ASSUME NEW p \in rows' PROVE p[1] =< lastId' /\ p[2] \in copied'
      OBVIOUS
    <2>1. CASE p \in rows
      <3>1. p[1] \in Nat /\ p[1] =< lastId /\ p[2] \in copied
        BY <2>1 DEF C!CloneInv, C!TypeOK
      <3>2. QED
        BY <1>4, <3>1
    <2>2. CASE p = <<id, C!Top>>
      BY <2>2
    <2>3. QED
      BY <2>1, <2>2
  <1>7. \A k \in 1..Len(stack') : stack'[k] \notin copied' /\ Owner[stack'[k]] \in users \cup {0}
    BY <1>1, <1>2 DEF C!CloneInv
  <1>8. ASSUME NEW k \in 1..Len(stack'), k > 1 PROVE stack'[k] = ref[stack'[k - 1]]
    <2>1. k - 1 \in 1..Len(stack')
      BY <1>2, <1>8
    <2>2. QED
      BY <1>2, <1>8, <2>1 DEF C!CloneInv
  <1>9. C!OwnersCopied'
    BY <1>1 DEF C!CloneInv, C!OwnersCopied
  <1>10. C!CopiedOnce'
    <2>1. /\ rows' = rows \cup {<<id, C!Top>>} /\ <<id, C!Top>>[2] = C!Top
          /\ \A p \in rows : p[2] # C!Top
      BY <1>1 DEF C!CloneInv
    <2>2. \A p, q \in rows : p[2] = q[2] => p = q
      BY DEF C!CloneInv, C!CopiedOnce
    <2>3. ASSUME NEW p \in rows', NEW q \in rows', p[2] = q[2] PROVE p = q
      <3>1. /\ p \in rows \/ p = <<id, C!Top>>
            /\ q \in rows \/ q = <<id, C!Top>>
        BY <2>1
      <3>2. CASE p \in rows
        <4>1. q \in rows
          BY <2>1, <2>3, <3>1, <3>2
        <4>2. QED
          BY <2>2, <2>3, <3>2, <4>1
      <3>3. CASE p = <<id, C!Top>>
        <4>1. q \notin rows
          BY <2>1, <2>3, <3>3
        <4>2. QED
          BY <3>1, <3>3, <4>1
      <3>4. QED
        BY <3>1, <3>2, <3>3
    <2>4. QED
      BY <2>3 DEF C!CopiedOnce
  <1>11. C!Cardinality(copied') = Cardinality(copied')
    BY CloneSize
  <1>12. QED
    BY <1>4, <1>5, <1>6, <1>7, <1>8, <1>9, <1>10, <1>11 DEF C!CloneInv

\* A refused import copies nothing and ends the task.
LEMMA RefusedKeeps ==
    ASSUME C!ConstantsAssumption, C!CloneInv, Len(stack) >= 1, C!Pop,
           UNCHANGED <<ref, limit, loop, users, rows, lastId, copied>>
    PROVE  C!CloneInv'
  <1>1. /\ stack' \in Seq(C!Records) /\ Len(stack') = Len(stack) - 1 /\ Len(stack) \in Nat
        /\ \A k \in 1..Len(stack') : stack'[k] = stack[k] /\ k \in 1..Len(stack)
    BY PopShrinks
  <1>2. C!TypeOK'
    BY <1>1 DEF C!CloneInv, C!TypeOK, C!ConstantsAssumption
  <1>3. ASSUME NEW k \in 1..Len(stack'), k > 1 PROVE stack'[k] = ref[stack'[k - 1]]
    <2>1. k - 1 \in 1..Len(stack')
      BY <1>1, <1>3
    <2>2. QED
      BY <1>1, <1>3, <2>1 DEF C!CloneInv
  <1>4. QED
    BY <1>1, <1>2, <1>3 DEF C!CloneInv, C!OwnersCopied, C!CopiedOnce

\* The four steps of the clone.
LEMMA CloneSteps ==
    ASSUME C!ConstantsAssumption, C!CloneInv, [C!Next]_C!vars
    PROVE  C!CloneInv'
  <1>0. /\ stack \in Seq(C!Records) /\ Len(stack) \in Nat /\ (stack # << >> => Len(stack) >= 1)
        /\ C!Listed \subseteq C!Records /\ N \in Nat /\ MaxDepth \in Nat /\ MaxDepth > N /\ N > 0
        /\ lastId \in Nat /\ ref \in [C!Records -> 0..N]
    BY EmptySeq, LenProperties DEF C!CloneInv, C!TypeOK, C!Listed, C!ConstantsAssumption
  <1>1. CASE C!Take
    <2>1. stack = << >> /\ loop \in C!Listed /\ UNCHANGED <<ref, limit, copied, rows, lastId, refused>>
      BY <1>1 DEF C!Take, C!Done
    <2>2. loop \in C!Records /\ loop' \in 0..N
      <3>1. loop \in 1..N
        BY <1>0, <2>1 DEF C!Records
      <3>2. QED
        BY <1>0, <1>1, <3>1 DEF C!Take, C!After, C!Records
    <2>3. CASE loop \in copied
      <3>1. UNCHANGED <<stack, users>>
        BY <1>1, <2>3 DEF C!Take
      <3>2. QED
        BY <2>1, <2>2, <3>1 DEF C!CloneInv, C!TypeOK, C!OwnersCopied, C!CopiedOnce
    <2>4. CASE loop \notin copied
      <3>1. C!Enter(loop) /\ Len(stack) < MaxDepth
        BY <1>0, <1>1, <2>1, <2>4, EmptySeq DEF C!Take
      <3>2. QED
        BY <2>1, <2>2, <2>4, <3>1, EnterKeeps
    <2>5. QED
      BY <2>3, <2>4
  <1>2. CASE C!Descend
    <2>1. C!Top \in C!Records
      BY <1>0, <1>2, ElementOfSeq DEF C!Descend, C!Top
    <2>2. ref[C!Top] \in C!Records /\ ref[C!Top] \notin copied /\ loop' \in 0..N
      <3>1. ref[C!Top] \in 0..N /\ ref[C!Top] # 0 /\ ref[C!Top] \notin copied
        BY <1>0, <1>2, <2>1 DEF C!Descend, C!Missing
      <3>2. QED
        BY <1>0, <1>2, <3>1 DEF C!Records, C!Descend, C!CloneInv, C!TypeOK
    <2>3. QED
      BY <1>2, <2>2, EnterKeeps DEF C!Descend
  <1>3. CASE C!Create
    <2>1. lastId + 1 \in Nat \ {0} /\ lastId =< lastId + 1
      BY <1>0
    <2>2. /\ Len(stack) >= 1 /\ ~C!Missing(ref[C!Top]) /\ C!Pop /\ copied' = copied \cup {C!Top}
          /\ lastId' = lastId + 1 /\ rows' = rows \cup {<<lastId + 1, C!Top>>}
          /\ UNCHANGED <<ref, limit, loop, users>> /\ refused' = refused
      BY <1>0, <1>3 DEF C!Create, C!Tracked
    <2>3. QED
      BY <2>1, <2>2, CopyKeeps
  <1>4. CASE C!Import
    <2>1. Len(stack) >= 1 /\ ~C!Missing(ref[C!Top]) /\ C!Pop /\ UNCHANGED <<ref, limit, loop, users>>
      BY <1>0, <1>4 DEF C!Import
    <2>2. CASE \E p \in rows : p[1] = C!Top
      BY <1>4, <2>1, <2>2, RefusedKeeps DEF C!Import
    <2>3. CASE ~\E p \in rows : p[1] = C!Top
      <3>1. /\ rows' = rows \cup {<<C!Top, C!Top>>} /\ copied' = copied \cup {C!Top}
            /\ lastId' = (IF C!Top > lastId THEN C!Top ELSE lastId) /\ refused' = refused
        BY <1>4, <2>3 DEF C!Import, C!Tracked
      <3>2. C!Top \in 1..N
        BY <2>1, TopIsAlone DEF C!Records
      <3>3. C!Top \in Nat \ {0} /\ lastId' \in Nat /\ lastId =< lastId' /\ C!Top =< lastId' /\ (lastId' =< lastId + 1 \/ lastId' =< N)
        BY <1>0, <3>1, <3>2
      <3>4. QED
        BY <2>1, <3>1, <3>3, CopyKeeps
    <2>4. QED
      BY <2>2, <2>3
  <1>5. CASE UNCHANGED C!vars
    BY <1>5 DEF C!vars, C!CloneInv, C!TypeOK, C!OwnersCopied, C!CopiedOnce
  <1>6. QED
    BY <1>1, <1>2, <1>3, <1>4, <1>5 DEF C!Next

\* The steps where relations point to newer records only.
LEMMA ForwardSteps ==
    ASSUME C!ConstantsAssumption, C!CloneInv, C!ForwardInv, [C!Next]_C!vars
    PROVE  C!ForwardInv'
  <1> SUFFICES ASSUME C!Forward'
               PROVE  /\ ~refused' /\ loop' >= N - limit'
                      /\ \/ stack' = << >> /\ copied' = {r \in C!Records : r > loop'}
                         \/ stack' = <<loop' + 1>> /\ copied' = {r \in C!Records : r > loop' + 1}
                      /\ rows' = {<<r, r>> : r \in copied'}
    BY DEF C!ForwardInv
  <1>0. UNCHANGED <<ref, limit>>
    BY DEF C!Next, C!vars, C!Take, C!Descend, C!Create, C!Import
  <1>1. /\ C!Forward /\ ~refused /\ loop >= N - limit
        /\ \/ stack = << >> /\ copied = {r \in C!Records : r > loop}
           \/ stack = <<loop + 1>> /\ copied = {r \in C!Records : r > loop + 1}
        /\ rows = {<<r, r>> : r \in copied}
    BY <1>0 DEF C!ForwardInv, C!Forward
  <1>2. /\ loop \in Nat /\ loop =< N /\ N \in Nat /\ limit \in Nat
        /\ stack = << >> => Len(stack) = 0
        /\ stack = <<loop + 1>> => Len(stack) = 1 /\ stack[1] = loop + 1
        /\ ref \in [C!Records -> 0..N] /\ stack \in Seq(C!Records)
    BY DEF C!CloneInv, C!TypeOK, C!ConstantsAssumption
  <1>3. ASSUME stack # << >>
        PROVE  /\ stack = <<loop + 1>> /\ copied = {r \in C!Records : r > loop + 1}
               /\ Len(stack) = 1 /\ C!Top = loop + 1 /\ C!Top \in C!Records
               /\ ~C!Missing(ref[C!Top]) /\ ~\E p \in rows : p[1] = C!Top
    <2>1. stack = <<loop + 1>> /\ copied = {r \in C!Records : r > loop + 1} /\ Len(stack) = 1 /\ C!Top = loop + 1
      BY <1>1, <1>2, <1>3 DEF C!Top
    <2>2. C!Top \in C!Records
      BY <1>2, <2>1, ElementOfSeq DEF C!Top
    <2>3. ref[C!Top] \in 0..N /\ (ref[C!Top] = 0 \/ ref[C!Top] > C!Top)
      BY <1>1, <1>2, <2>2 DEF C!Forward
    <2>4. ~C!Missing(ref[C!Top])
      BY <1>2, <2>1, <2>3 DEF C!Missing, C!Records
    <2>5. C!Top \notin copied
      BY <1>2, <2>1
    <2>6. QED
      BY <1>1, <2>1, <2>2, <2>4, <2>5
  <1>4. CASE C!Take
    <2>1. stack = << >> /\ loop \in C!Listed /\ ~refused' /\ loop' = loop - 1 /\ UNCHANGED <<copied, rows>>
      BY <1>1, <1>4 DEF C!Take, C!Done, C!After
    <2>2. loop \in C!Records /\ loop > N - limit
      BY <2>1 DEF C!Listed
    <2>3. copied = {r \in C!Records : r > loop} /\ loop \notin copied
      <3>1. stack # <<loop + 1>>
        BY <1>2, <2>1
      <3>2. QED
        BY <1>1, <1>2, <3>1
    <2>4. stack' = <<loop>>
      BY <1>4, <2>1, <2>3 DEF C!Take, C!Enter
    <2>5. loop' >= N - limit /\ loop' + 1 = loop
      BY <1>2, <2>1, <2>2
    <2>6. QED
      BY <1>0, <1>1, <2>1, <2>3, <2>4, <2>5
  <1>5. CASE C!Descend
    BY <1>3, <1>5 DEF C!Descend
  <1>6. CASE C!Create
    <2>1. stack # << >> /\ Len(stack) > 1
      BY <1>2, <1>6 DEF C!Create
    <2>2. Len(stack) = 1
      BY <1>3, <2>1
    <2>3. QED
      BY <2>1, <2>2
  <1>7. CASE C!Import
    <2>1. stack # << >>
      <3>1. Len(stack) = 1
        BY <1>7 DEF C!Import
      <3>2. QED
        BY <1>2, <3>1
    <2>2. /\ rows' = rows \cup {<<C!Top, C!Top>>} /\ copied' = copied \cup {C!Top}
          /\ ~refused' /\ loop' = loop
      BY <1>1, <1>3, <1>7, <2>1 DEF C!Import, C!Tracked
    <2>3. stack' = << >>
      <3>1. Len(stack) = 1 /\ Len(stack) >= 1
        BY <1>3, <2>1
      <3>2. stack' \in Seq(C!Records) /\ Len(stack') = 0
        BY <1>2, <1>7, <3>1, StackShrinks DEF C!Import, C!Pop
      <3>3. QED
        BY <3>2, EmptySeq
    <2>4. copied' = {r \in C!Records : r > loop}
      BY <1>2, <1>3, <2>1, <2>2 DEF C!Records
    <2>5. rows' = {<<r, r>> : r \in copied'}
      BY <1>1, <2>2
    <2>6. QED
      BY <1>0, <1>1, <2>2, <2>3, <2>4, <2>5
  <1>8. CASE UNCHANGED C!vars
    BY <1>0, <1>1, <1>8 DEF C!vars
  <1>9. QED
    BY <1>4, <1>5, <1>6, <1>7, <1>8 DEF C!Next

\* The start, and what the two invariants say.
LEMMA CloneInit ==
    ASSUME C!ConstantsAssumption, C!Init
    PROVE  C!CloneInv /\ C!ForwardInv
  <1>1. /\ stack = << >> /\ Len(stack) = 0 /\ stack \in Seq(C!Records) /\ copied = {} /\ rows = {}
        /\ lastId = 0 /\ users = {} /\ loop = N /\ ~refused /\ ref \in Refs /\ limit \in Limits
        /\ N \in Nat /\ limit \in Nat /\ MaxDepth \in Nat /\ Cardinality(copied) = 0
    BY EmptySeq, FS_EmptySet DEF C!Init, C!ConstantsAssumption
  <1>2. C!TypeOK
    BY <1>1 DEF C!TypeOK
  <1>3. C!CloneInv
    BY <1>1, <1>2, CloneSize DEF C!CloneInv, C!OwnersCopied, C!CopiedOnce
  <1>4. {r \in C!Records : r > N} = {} /\ N >= N - limit
    BY <1>1 DEF C!Records
  <1>5. C!ForwardInv
    BY <1>1, <1>4 DEF C!ForwardInv
  <1>6. QED
    BY <1>3, <1>5

LEMMA CloneStep ==
    ASSUME C!ConstantsAssumption, C!CloneInv, C!ForwardInv, C!Next \/ UNCHANGED C!vars
    PROVE  (C!CloneInv /\ C!ForwardInv)'
  BY CloneSteps, ForwardSteps

LEMMA CloneTold ==
    ASSUME C!ConstantsAssumption, C!CloneInv, C!ForwardInv
    PROVE  C!TypeOK /\ C!OwnersCopied /\ C!CopiedOnce /\ C!ForwardExact
  <1>1. C!TypeOK /\ C!OwnersCopied /\ C!CopiedOnce
    BY DEF C!CloneInv
  <1>2. ASSUME C!Forward, C!Done PROVE rows = {<<r, r>> : r \in C!Listed}
    <2>1. /\ ~refused /\ loop >= N - limit /\ rows = {<<r, r>> : r \in copied}
          /\ \/ stack = << >> /\ copied = {r \in C!Records : r > loop}
             \/ stack = <<loop + 1>> /\ copied = {r \in C!Records : r > loop + 1}
      BY <1>2 DEF C!ForwardInv
    <2>2. stack = << >> /\ loop \notin C!Listed
      BY <1>2, <2>1 DEF C!Done
    <2>3. copied = {r \in C!Records : r > loop}
      BY <2>1, <2>2
    <2>4. loop \in 0..N /\ N \in Nat /\ limit \in Nat
      BY DEF C!CloneInv, C!TypeOK, C!ConstantsAssumption
    <2>5. loop = N - limit
      BY <2>1, <2>2, <2>4 DEF C!Listed, C!Records, C!ConstantsAssumption, C!CloneInv, C!TypeOK
    <2>6. QED
      BY <2>1, <2>3, <2>5 DEF C!Listed
  <1>3. C!ForwardExact
    BY <1>2 DEF C!ForwardExact, C!Forward, C!ForwardInv
  <1>4. QED
    BY <1>1, <1>3

\* For any number of records, any relations among them (cycles included), any
\* owners and any limit: a record of the sandbox has its owner there and is
\* copied once, and where relations point to newer records only, the task does
\* not fail and the sandbox ends with exactly the listed records.
THEOREM CloneIsExact ==
    ASSUME C!ConstantsAssumption
    PROVE  C!Spec => [](C!TypeOK /\ C!OwnersCopied /\ C!CopiedOnce /\ C!ForwardExact)
  <1>1. C!Init => C!CloneInv /\ C!ForwardInv
    BY CloneInit
  <1>2. C!CloneInv /\ C!ForwardInv /\ [C!Next]_(C!vars) => (C!CloneInv /\ C!ForwardInv)'
    BY CloneStep
  <1>3. C!CloneInv /\ C!ForwardInv => C!TypeOK /\ C!OwnersCopied /\ C!CopiedOnce /\ C!ForwardExact
    BY CloneTold
  <1>4. QED
    BY <1>1, <1>2, <1>3, PTL DEF C!Spec

\* CloneHolds: the run's own property of the clones.
THEOREM CloneHolds == MCSpec => []CloneSafe
  <1> DEFINE Inv == part = "clone" => C!CloneInv /\ C!ForwardInv
  <1>1. MCInit => Inv
    BY PartsAssumption, CloneInit DEF MCInit
  <1>2. Inv /\ [MCNext]_mcVars => Inv'
    <2> SUFFICES ASSUME Inv, [MCNext]_mcVars, part' = "clone" PROVE (C!CloneInv /\ C!ForwardInv)'
      OBVIOUS
    <2>1. part = "clone" /\ (C!Next \/ UNCHANGED clone)
      BY DEF MCNext, mcVars, OfGraphQL, OfClone, OfForwarding, OfScripts, OfFeeds
    <2>2. C!Next \/ UNCHANGED C!vars
      BY <2>1 DEF clone, C!vars
    <2>3. QED
      BY <2>1, <2>2, PartsAssumption, CloneStep
  <1>3. Inv => CloneSafe
    BY PartsAssumption, CloneTold DEF CloneSafe
  <1>4. QED
    BY <1>1, <1>2, <1>3, PTL DEF MCSpec

-----------------------------------------------------------------------------
(* The runs of scripts.                                                    *)

\* The number of elements, in the instance and outside.
LEMMA RunSize ==
    ASSUME NEW X PROVE E!Cardinality(X) = Cardinality(X)
  BY DEF E!Cardinality, Cardinality

Holding == {r \in E!Started : E!Holds(r)}
RunInv == E!TypeOK /\ E!PermitsKept /\ E!NoOrphans /\ E!FilesExplained
Steps == {"waiting", "ready", "running", "busy", "over", "ended", "dropped"}
RunRecords == [kind : E!Kinds, callers : SUBSET E!Runs, step : Steps]

\* The numbers of the runs, and those that hold a permit.
LEMMA RunFacts ==
    ASSUME E!ConstantsAssumption, E!TypeOK
    PROVE  /\ run \in Seq(RunRecords) /\ Len(run) \in Nat /\ Len(run) =< MaxRuns
           /\ E!Started = 1..Len(run) /\ E!Started \subseteq E!Runs
           /\ \A r \in E!Started : /\ run[r] \in RunRecords
                                   /\ run[r].callers \subseteq E!Started /\ r \notin run[r].callers
           /\ IsFiniteSet(E!Started) /\ IsFiniteSet(Holding) /\ Cardinality(Holding) \in Nat
           /\ Permits \in Nat /\ free \in Nat
  <1>1. run \in Seq(RunRecords) /\ Len(run) =< MaxRuns /\ Permits \in Nat /\ free \in Nat /\ MaxRuns \in Nat
    BY DEF E!TypeOK, E!ConstantsAssumption, RunRecords, Steps
  <1>2. Len(run) \in Nat /\ E!Started = 1..Len(run)
    BY <1>1, LenProperties DEF E!Started
  <1>3. E!Started \subseteq E!Runs
    BY <1>1, <1>2 DEF E!Runs
  <1>4. ASSUME NEW r \in E!Started
        PROVE  run[r] \in RunRecords /\ run[r].callers \subseteq E!Started /\ r \notin run[r].callers
    <2>1. run[r] \in RunRecords
      BY <1>1, <1>2, <1>4, ElementOfSeq
    <2>2. run[r].callers \subseteq E!Runs
      BY <2>1 DEF RunRecords
    <2>3. \A c \in run[r].callers : c < r
      BY <1>4 DEF E!TypeOK
    <2>4. ASSUME NEW c \in run[r].callers PROVE c \in E!Started /\ c # r
      <3>1. c \in 1..MaxRuns /\ c < r /\ r \in 1..Len(run)
        BY <1>2, <1>4, <2>2, <2>3 DEF E!Runs
      <3>2. QED
        BY <1>1, <1>2, <3>1
    <2>5. QED
      BY <2>1, <2>4
  <1>5. IsFiniteSet(E!Started)
    BY <1>2, FS_Interval
  <1>6. Holding \subseteq E!Started
    BY DEF Holding
  <1>7. IsFiniteSet(Holding) /\ Cardinality(Holding) \in Nat
    BY <1>5, <1>6, FS_Subset, FS_CardinalityType
  <1>8. QED
    BY <1>1, <1>2, <1>3, <1>4, <1>5, <1>7

\* Permits are kept when what is free changes by what holders there are less.
LEMMA PermitsMove ==
    ASSUME E!ConstantsAssumption, RunInv, NEW gone \in SUBSET Holding, NEW new,
           new \cap Holding = {}, IsFiniteSet(new),
           free' + Cardinality(new) = free + Cardinality(gone), free' \in Nat,
           Holding' = (Holding \ gone) \cup new
    PROVE  E!PermitsKept' /\ free' \in 0..Permits
  <1>1. /\ IsFiniteSet(Holding) /\ Cardinality(Holding) \in Nat /\ free \in Nat /\ Permits \in Nat
        /\ free + Cardinality(Holding) = Permits
    BY RunFacts, RunSize DEF RunInv, E!PermitsKept, Holding
  <1>2. /\ IsFiniteSet(gone) /\ Cardinality(gone) \in Nat /\ Cardinality(new) \in Nat
        /\ IsFiniteSet(Holding \ gone) /\ Cardinality(Holding \ gone) \in Nat
    BY <1>1, FS_Subset, FS_CardinalityType
  <1>3. Cardinality(Holding \ gone) = Cardinality(Holding) - Cardinality(gone)
    <2>1. Holding \cap gone = gone
      OBVIOUS
    <2>2. Cardinality(Holding \ gone) = Cardinality(Holding) - Cardinality(Holding \cap gone)
      BY <1>1, FS_Difference
    <2>3. QED
      BY <2>1, <2>2
  <1>4. Cardinality((Holding \ gone) \cup new) = Cardinality(Holding \ gone) + Cardinality(new)
    <2>1. (Holding \ gone) \cap new = {} /\ Cardinality({}) = 0
      BY FS_EmptySet
    <2>2. Cardinality((Holding \ gone) \cup new) = Cardinality(Holding \ gone) + Cardinality(new)
            - Cardinality((Holding \ gone) \cap new)
      BY <1>2, FS_Union
    <2>3. QED
      BY <1>2, <2>1, <2>2
  <1>5. Cardinality(Holding') = Cardinality(Holding) - Cardinality(gone) + Cardinality(new)
    BY <1>3, <1>4
  <1>6. Cardinality(Holding') \in Nat
    BY <1>2, <1>4, <1>3, <1>5
  <1>7. free' + Cardinality(Holding') = Permits
    BY <1>1, <1>2, <1>5
  <1>8. E!PermitsKept'
    <2>1. E!Cardinality(Holding') = Cardinality(Holding')
      BY RunSize
    <2>2. QED
      BY <1>7, <2>1 DEF E!PermitsKept, Holding
  <1>9. QED
    BY <1>1, <1>6, <1>7, <1>8

\* A step that adds no run keeps who called whom.
LEMMA SameRuns ==
    ASSUME E!ConstantsAssumption, E!TypeOK, run' \in [E!Started -> RunRecords],
           \A s \in E!Started : run'[s].callers = run[s].callers
    PROVE  /\ run' \in Seq(RunRecords) /\ Len(run') = Len(run) /\ E!Started' = E!Started
           /\ \A r \in E!Started : \A c \in run'[r].callers :
                 c < r /\ run'[c].callers \subseteq run'[r].callers
  <1>1. Len(run) \in Nat /\ E!Started = 1..Len(run) /\ \A r \in E!Started : run[r].callers \subseteq E!Started
    BY RunFacts
  <1>2. run' \in [1..Len(run) -> RunRecords]
    BY <1>1
  <1>3. run' \in Seq(RunRecords) /\ Len(run') = Len(run)
    <2>1. run' \in Seq(RunRecords)
      BY <1>1, <1>2, SeqDef
    <2>2. DOMAIN run' = 1..Len(run)
      BY <1>2
    <2>3. QED
      BY <1>1, <2>1, <2>2, LenProperties
  <1>4. E!Started' = E!Started
    BY <1>1, <1>2 DEF E!Started
  <1>5. ASSUME NEW r \in E!Started, NEW c \in run'[r].callers
        PROVE  c < r /\ run'[c].callers \subseteq run'[r].callers
    <2>1. c \in run[r].callers /\ c \in E!Started
      BY <1>1, <1>5
    <2>2. c < r /\ run[c].callers \subseteq run[r].callers
      BY <2>1 DEF E!TypeOK
    <2>3. QED
      BY <2>1, <2>2
  <1>6. QED
    BY <1>3, <1>4, <1>5

\* The same for a step of one run.
LEMMA OneRun ==
    ASSUME E!ConstantsAssumption, E!TypeOK, NEW r \in E!Started, NEW step \in Steps,
           run' = [run EXCEPT ![r].step = step]
    PROVE  /\ run' \in [E!Started -> RunRecords]
           /\ run'[r].step = step /\ \A s \in E!Started \ {r} : run'[s].step = run[s].step
           /\ \A s \in E!Started : run'[s].callers = run[s].callers
  <1>1. \A s \in E!Started : run[s] \in RunRecords
    BY RunFacts
  <1>2. DOMAIN run = E!Started /\ run \in [E!Started -> RunRecords]
    <2>1. run \in Seq(RunRecords) /\ E!Started = 1..Len(run)
      BY RunFacts
    <2>2. QED
      BY <2>1, LenProperties
  <1>3. run' = [run EXCEPT ![r] = [run[r] EXCEPT !.step = step]]
    OBVIOUS
  <1>4. [run[r] EXCEPT !.step = step] \in RunRecords
    BY <1>1 DEF RunRecords
  <1>5. /\ run'[r] = [run[r] EXCEPT !.step = step]
        /\ \A s \in E!Started \ {r} : run'[s] = run[s]
        /\ run' \in [E!Started -> RunRecords]
    BY <1>2, <1>3, <1>4
  <1>6. run'[r].step = step /\ run'[r].callers = run[r].callers
    BY <1>1, <1>5 DEF RunRecords
  <1>7. QED
    BY <1>5, <1>6

\* Runs that end take with them those that await them.
LEMMA OrphansNone ==
    ASSUME E!ConstantsAssumption, E!TypeOK, E!NoOrphans, NEW ended,
           E!Started' = E!Started,
           \A s \in E!Started : run'[s].callers = run[s].callers,
           \A s \in E!Started : E!Live(s)' => E!Live(s) /\ s \notin ended,
           \A s \in E!Started \ ended : E!Live(s) => E!Live(s)',
           \A s \in E!Started \ ended : E!Live(s) => run[s].callers \cap ended = {}
    PROVE  E!NoOrphans'
  <1> SUFFICES ASSUME NEW r \in E!Started, E!Live(r)', NEW c \in run[r].callers PROVE E!Live(c)'
    BY DEF E!NoOrphans
  <1>1. E!Live(r) /\ r \notin ended
    OBVIOUS
  <1>2. c \in E!Started \ ended /\ E!Live(c)
    BY <1>1, RunFacts DEF E!NoOrphans
  <1>3. QED
    BY <1>2

\* A call: its callers wait, and all that wait for them are callers too.
LEMMA EnterRuns ==
    ASSUME E!ConstantsAssumption, RunInv, NEW kind \in E!Kinds, NEW callers \in SUBSET E!Started,
           \A c \in callers : E!Live(c) /\ run[c].callers \subseteq callers,
           E!Enter(kind, callers)
    PROVE  RunInv'
  <1> DEFINE new == [kind |-> kind, callers |-> callers, step |-> "waiting"]
             k == Len(run) + 1
  <1>1. /\ run \in Seq(RunRecords) /\ Len(run) \in Nat /\ E!Started = 1..Len(run) /\ MaxRuns \in Nat
        /\ \A r \in E!Started : run[r].callers \subseteq E!Started
    BY RunFacts DEF RunInv, E!ConstantsAssumption
  <1>2. /\ Len(run) < MaxRuns /\ run' = Append(run, new) /\ UNCHANGED <<free, files>>
    BY DEF E!Enter
  <1>3. new \in RunRecords
    <2>1. callers \in SUBSET E!Runs
      BY RunFacts DEF RunInv
    <2>2. QED
      BY <2>1 DEF RunRecords, Steps
  <1>4. /\ run' \in Seq(RunRecords) /\ Len(run') = k /\ run'[k] = new
        /\ \A r \in E!Started : run'[r] = run[r]
    BY <1>1, <1>2, <1>3, AppendProperties
  <1>5. E!Started' = 1..k
    BY <1>4, LenProperties DEF E!Started
  <1>6. /\ E!Started' = E!Started \cup {k} /\ k \notin E!Started /\ k =< MaxRuns
        /\ \A c \in E!Started : c < k
    BY <1>1, <1>2, <1>5
  <1>7. /\ run'[k].callers = callers /\ run'[k].step = "waiting"
    BY <1>4
  <1> HIDE DEF k, new
  <1>8. ASSUME NEW r \in E!Started', NEW c \in run'[r].callers
        PROVE  c < r /\ run'[c].callers \subseteq run'[r].callers
    <2>1. CASE r = k
      <3>1. c \in callers /\ c \in E!Started /\ run'[c] = run[c]
        BY <1>4, <1>7, <1>8, <2>1
      <3>2. QED
        BY <1>6, <1>7, <2>1, <3>1
    <2>2. CASE r # k
      <3>1. r \in E!Started /\ run'[r] = run[r]
        BY <1>4, <1>6, <1>8, <2>2
      <3>2. c \in run[r].callers /\ c \in E!Started
        BY <1>1, <1>8, <3>1
      <3>3. c < r /\ run[c].callers \subseteq run[r].callers
        BY <3>1, <3>2 DEF RunInv, E!TypeOK
      <3>4. QED
        BY <1>4, <3>1, <3>2, <3>3
    <2>3. QED
      BY <2>1, <2>2
  <1>9. E!TypeOK'
    <2>1. files' \subseteq E!Started' /\ free' \in 0..Permits
      BY <1>2, <1>6 DEF RunInv, E!TypeOK
    <2>2. run' \in Seq(RunRecords) /\ Len(run') =< MaxRuns
      BY <1>4, <1>6
    <2>3. QED
      BY <1>8, <2>1, <2>2 DEF E!TypeOK, RunRecords, Steps
  <1>10. /\ \A s \in {k} : ~E!Holds(s)'
         /\ \A s \in E!Started : E!Holds(s)' <=> E!Holds(s)
         /\ \A s \in E!Started : E!Live(s)' <=> E!Live(s)
    <2>1. \A s \in {k} : ~E!Holds(s)'
      BY <1>7 DEF E!Holds
    <2>2. ASSUME NEW s \in E!Started PROVE (E!Holds(s)' <=> E!Holds(s)) /\ (E!Live(s)' <=> E!Live(s))
      <3>1. run'[s] = run[s] /\ s \in E!Started'
        BY <1>4, <1>6, <2>2
      <3>2. E!Holds(s)' <=> E!Holds(s)
        BY <3>1 DEF E!Holds
      <3>3. E!At(s, "waiting")' <=> E!At(s, "waiting")
        BY <2>2, <3>1 DEF E!At
      <3>4. QED
        BY <3>2, <3>3 DEF E!Live
    <2>3. QED
      BY <2>1, <2>2
  <1>11. E!PermitsKept'
    <2>1. Holding' = Holding
      <3>1. Holding' = {s \in E!Started' : E!Holds(s)'}
        BY DEF Holding
      <3>2. QED
        BY <1>6, <1>10, <3>1 DEF Holding
    <2>2. E!Cardinality(Holding') = E!Cardinality(Holding)
      BY <2>1
    <2>3. QED
      BY <1>2, <2>2 DEF RunInv, E!PermitsKept, Holding
  <1>12. E!NoOrphans'
    <2> SUFFICES ASSUME NEW r \in E!Started', E!Live(r)', NEW c \in run'[r].callers PROVE E!Live(c)'
      BY DEF E!NoOrphans
    <2>1. CASE r = k
      BY <1>7, <1>10, <2>1
    <2>2. CASE r # k
      <3>1. r \in E!Started /\ c \in run[r].callers /\ c \in E!Started /\ E!Live(r)
        BY <1>1, <1>4, <1>6, <1>10, <2>2
      <3>2. QED
        BY <1>10, <3>1 DEF RunInv, E!NoOrphans
    <2>3. QED
      BY <2>1, <2>2
  <1>13. E!FilesExplained'
    <2> SUFFICES ASSUME NEW r \in E!Started'
                 PROVE  /\ run'[r].step \in {"running", "busy", "over"} => r \in files
                        /\ r \in files => ~(run'[r].step \in {"waiting", "ready", "ended"})
      BY <1>2 DEF E!FilesExplained
    <2>1. CASE r = k
      BY <1>6, <1>7, <2>1 DEF RunInv, E!TypeOK
    <2>2. CASE r # k
      <3>1. r \in E!Started /\ run'[r] = run[r]
        BY <1>4, <1>6, <2>2
      <3>2. QED
        BY <3>1 DEF RunInv, E!FilesExplained
    <2>3. QED
      BY <2>1, <2>2
  <1>14. QED
    BY <1>9, <1>11, <1>12, <1>13 DEF RunInv

\* The frame of a step of one run: what is left to show of the invariant.
LEMMA RunFrame ==
    ASSUME E!ConstantsAssumption, RunInv, NEW r \in E!Started, NEW step \in Steps,
           run' = [run EXCEPT ![r].step = step], files' \subseteq E!Started, free' \in 0..Permits
    PROVE  /\ E!TypeOK' /\ E!Started' = E!Started /\ run'[r].step = step
           /\ \A s \in E!Started \ {r} : run'[s].step = run[s].step
           /\ \A s \in E!Started : run'[s].callers = run[s].callers
           /\ \A s \in E!Started \ {r} : /\ E!Holds(s)' <=> E!Holds(s)
                                         /\ E!Live(s)' <=> E!Live(s)
           /\ E!Holds(r)' <=> step \in {"ready", "running", "busy", "over"}
           /\ E!Live(r)' <=> step \in {"waiting", "ready", "running", "busy", "over"}
  <1>1. /\ run' \in [E!Started -> RunRecords] /\ run'[r].step = step
        /\ \A s \in E!Started \ {r} : run'[s].step = run[s].step
        /\ \A s \in E!Started : run'[s].callers = run[s].callers
    BY OneRun DEF RunInv
  <1>2. /\ run' \in Seq(RunRecords) /\ Len(run') = Len(run) /\ E!Started' = E!Started
        /\ \A q \in E!Started : \A c \in run'[q].callers :
                 c < q /\ run'[c].callers \subseteq run'[q].callers
    BY <1>1, SameRuns DEF RunInv
  <1>3. E!TypeOK'
    BY <1>2 DEF RunInv, E!TypeOK, RunRecords, Steps
  <1>4. QED
    BY <1>1, <1>2, <1>3 DEF E!Holds, E!Live, E!At

\* A run moves on, and lives before and after: nobody's callers are gone.
LEMMA RunMoves ==
    ASSUME E!ConstantsAssumption, RunInv, NEW r \in E!Started, NEW step \in Steps,
           run' = [run EXCEPT ![r].step = step], files' \subseteq E!Started, free' \in 0..Permits,
           E!Live(r), step \in {"waiting", "ready", "running", "busy", "over"}
    PROVE  E!NoOrphans'
  <1>1. /\ E!Started' = E!Started /\ \A s \in E!Started : run'[s].callers = run[s].callers
        /\ \A s \in E!Started \ {r} : E!Live(s)' <=> E!Live(s)
        /\ E!Live(r)'
    BY RunFrame
  <1>2. /\ \A s \in E!Started : E!Live(s)' => E!Live(s) /\ s \notin {}
        /\ \A s \in E!Started \ {} : E!Live(s) => E!Live(s)'
        /\ \A s \in E!Started \ {} : E!Live(s) => run[s].callers \cap {} = {}
    BY <1>1
  <1>3. QED
    BY <1>1, <1>2, OrphansNone DEF RunInv

\* The files after a step of one run.
LEMMA RunFiles ==
    ASSUME E!ConstantsAssumption, RunInv, NEW r \in E!Started, E!Started' = E!Started,
           \A s \in E!Started \ {r} : run'[s].step = run[s].step /\ (s \in files' <=> s \in files),
           run'[r].step \in {"running", "busy", "over"} => r \in files',
           r \in files' => ~(run'[r].step \in {"waiting", "ready", "ended"})
    PROVE  E!FilesExplained'
  BY DEF RunInv, E!FilesExplained

\* The holders after a step of one run that holds its permit before and after.
LEMMA RunHolds ==
    ASSUME E!ConstantsAssumption, RunInv, NEW r \in E!Started, E!Started' = E!Started,
           \A s \in E!Started \ {r} : E!Holds(s)' <=> E!Holds(s),
           E!Holds(r)' <=> E!Holds(r), free' = free
    PROVE  E!PermitsKept'
  <1>1. {s \in E!Started' : E!Holds(s)'} = {s \in E!Started : E!Holds(s)}
    OBVIOUS
  <1>2. QED
    BY <1>1 DEF RunInv, E!PermitsKept

LEMMA AcquireKeeps ==
    ASSUME E!ConstantsAssumption, RunInv, E!Acquire
    PROVE  RunInv'
  <1>1. PICK r \in E!Started : /\ run[r].step = "waiting" /\ free > 0 /\ free' = free - 1
                               /\ run' = [run EXCEPT ![r].step = "ready"] /\ files' = files
    BY DEF E!Acquire, E!At
  <1>2. free' \in 0..Permits /\ free \in Nat /\ free' \in Nat /\ files' \subseteq E!Started
    <2>1. free \in 0..Permits /\ Permits \in Nat /\ files \subseteq E!Started
      BY DEF RunInv, E!TypeOK, E!ConstantsAssumption
    <2>2. QED
      BY <1>1, <2>1
  <1>3. "ready" \in Steps /\ E!Live(r) /\ ~E!Holds(r)
    BY <1>1 DEF Steps, E!Live, E!At, E!Holds
  <1>4. /\ E!TypeOK' /\ E!Started' = E!Started /\ run'[r].step = "ready"
        /\ \A s \in E!Started \ {r} : run'[s].step = run[s].step
        /\ \A s \in E!Started \ {r} : E!Holds(s)' <=> E!Holds(s)
        /\ E!Holds(r)'
    BY <1>1, <1>2, <1>3, RunFrame
  <1>5. E!NoOrphans'
    BY <1>1, <1>2, <1>3, RunMoves
  <1>6. E!FilesExplained'
    <2>1. r \notin files
      BY <1>1 DEF RunInv, E!FilesExplained
    <2>2. QED
      BY <1>1, <1>4, <2>1, RunFiles
  <1>7. E!PermitsKept'
    <2>1. Holding' = (Holding \ {}) \cup {r}
      <3>1. Holding' = {s \in E!Started : E!Holds(s)'}
        BY <1>4 DEF Holding
      <3>2. QED
        BY <1>4, <3>1 DEF Holding
    <2>2. {r} \cap Holding = {} /\ {} \in SUBSET Holding
      BY <1>3 DEF Holding
    <2>3. IsFiniteSet({r}) /\ Cardinality({r}) = 1 /\ Cardinality({}) = 0
      BY FS_Singleton, FS_EmptySet
    <2>4. free' + Cardinality({r}) = free + Cardinality({})
      BY <1>1, <1>2, <2>3
    <2>5. QED
      BY <1>2, <2>1, <2>2, <2>3, <2>4, PermitsMove
  <1>8. QED
    BY <1>4, <1>5, <1>6, <1>7 DEF RunInv

LEMMA InstallKeeps ==
    ASSUME E!ConstantsAssumption, RunInv, NEW r \in E!Started, E!Install(r)
    PROVE  RunInv'
  <1>1. /\ run[r].step = "ready" /\ run' = [run EXCEPT ![r].step = "running"]
        /\ files' = files \cup {r} /\ free' = free
    BY DEF E!Install, E!At
  <1>2. /\ free' \in 0..Permits /\ files' \subseteq E!Started
        /\ "running" \in Steps /\ E!Live(r) /\ E!Holds(r)
    BY <1>1 DEF RunInv, E!TypeOK, Steps, E!Live, E!Holds
  <1>3. /\ E!TypeOK' /\ E!Started' = E!Started /\ run'[r].step = "running"
        /\ \A s \in E!Started \ {r} : run'[s].step = run[s].step
        /\ \A s \in E!Started \ {r} : E!Holds(s)' <=> E!Holds(s)
        /\ E!Holds(r)'
    BY <1>1, <1>2, RunFrame
  <1>4. E!NoOrphans'
    BY <1>1, <1>2, RunMoves
  <1>5. E!FilesExplained'
    BY <1>1, <1>3, RunFiles
  <1>6. E!PermitsKept'
    BY <1>1, <1>2, <1>3, RunHolds
  <1>7. QED
    BY <1>3, <1>4, <1>5, <1>6 DEF RunInv

\* The code of a script that computes, and its interruption.
LEMMA BusyKeeps ==
    ASSUME E!ConstantsAssumption, RunInv, NEW r \in E!Started, E!Loop(r) \/ E!Interrupt(r)
    PROVE  RunInv'
  <1>1. PICK step \in {"busy", "over"} : run' = [run EXCEPT ![r].step = step]
    BY DEF E!Loop, E!Interrupt
  <1>2. /\ run[r].step \in {"running", "busy"} /\ UNCHANGED <<files, free>>
    BY DEF E!Loop, E!Interrupt, E!At
  <1>3. /\ free' \in 0..Permits /\ files' \subseteq E!Started
        /\ step \in Steps /\ E!Live(r) /\ E!Holds(r)
    BY <1>1, <1>2 DEF RunInv, E!TypeOK, Steps, E!Live, E!Holds
  <1>4. /\ E!TypeOK' /\ E!Started' = E!Started /\ run'[r].step = step
        /\ \A s \in E!Started \ {r} : run'[s].step = run[s].step
        /\ \A s \in E!Started \ {r} : E!Holds(s)' <=> E!Holds(s)
        /\ E!Holds(r)'
    BY <1>1, <1>3, RunFrame
  <1>5. E!NoOrphans'
    BY <1>1, <1>3, RunMoves
  <1>6. E!FilesExplained'
    <2>1. r \in files
      BY <1>2 DEF RunInv, E!FilesExplained
    <2>2. QED
      BY <1>1, <1>2, <1>4, <2>1, RunFiles
  <1>7. E!PermitsKept'
    BY <1>2, <1>3, <1>4, RunHolds
  <1>8. QED
    BY <1>4, <1>5, <1>6, <1>7 DEF RunInv

\* A run has returned: all that it has called is done.
LEMMA ReturnKeeps ==
    ASSUME E!ConstantsAssumption, RunInv, NEW r \in E!Started, E!ReturnScript(r) \/ E!ReturnHook(r)
    PROVE  RunInv'
  <1>1. /\ run[r].step \in {"running", "over"} /\ E!Idle(r) /\ E!Release(r, {r})
        /\ run' = [run EXCEPT ![r].step = "ended"] /\ files' = files \ {r}
    BY DEF E!ReturnScript, E!ReturnHook, E!Return, E!At
  <1>2. E!Live(r) /\ E!Holds(r) /\ "ended" \in Steps /\ files' \subseteq E!Started
    BY <1>1 DEF RunInv, E!TypeOK, Steps, E!Live, E!Holds
  <1>3. /\ IsFiniteSet(Holding) /\ Cardinality(Holding) \in Nat /\ free \in Nat /\ Permits \in Nat
        /\ free + Cardinality(Holding) = Permits
    BY RunFacts, RunSize DEF RunInv, E!PermitsKept, Holding
  <1>4. free' = free + 1 /\ free' \in 0..Permits
    <2>1. {s \in {r} : E!Holds(s)} = {r}
      BY <1>2
    <2>2. free' = free + E!Cardinality({r})
      BY <1>1, <2>1 DEF E!Release
    <2>3. E!Cardinality({r}) = 1
      BY RunSize, FS_Singleton
    <2>4. r \in Holding /\ {r} \subseteq Holding
      BY <1>2 DEF Holding
    <2>5. Cardinality({r}) =< Cardinality(Holding) /\ Cardinality({r}) = 1
      BY <1>3, <2>4, FS_Subset, FS_Singleton
    <2>6. QED
      BY <1>3, <2>2, <2>3, <2>5
  <1>5. /\ E!TypeOK' /\ E!Started' = E!Started /\ run'[r].step = "ended"
        /\ \A s \in E!Started \ {r} : run'[s].step = run[s].step
        /\ \A s \in E!Started : run'[s].callers = run[s].callers
        /\ \A s \in E!Started \ {r} : E!Holds(s)' <=> E!Holds(s)
        /\ \A s \in E!Started \ {r} : E!Live(s)' <=> E!Live(s)
        /\ ~E!Holds(r)' /\ ~E!Live(r)'
    BY <1>1, <1>2, <1>4, RunFrame
  <1>6. E!NoOrphans'
    <2>1. \A s \in E!Started \ {r} : E!Live(s) => run[s].callers \cap {r} = {}
      BY <1>1 DEF E!Idle, E!Children
    <2>2. /\ \A s \in E!Started : E!Live(s)' => E!Live(s) /\ s \notin {r}
          /\ \A s \in E!Started \ {r} : E!Live(s) => E!Live(s)'
      BY <1>5
    <2>3. QED
      BY <1>5, <2>1, <2>2, OrphansNone DEF RunInv
  <1>7. E!FilesExplained'
    BY <1>1, <1>5, RunFiles
  <1>8. E!PermitsKept'
    <2>1. Holding' = (Holding \ {r}) \cup {}
      <3>1. Holding' = {s \in E!Started : E!Holds(s)'}
        BY <1>5 DEF Holding
      <3>2. QED
        BY <1>5, <3>1 DEF Holding
    <2>2. {r} \in SUBSET Holding /\ {} \cap Holding = {}
      BY <1>2 DEF Holding
    <2>3. IsFiniteSet({}) /\ Cardinality({r}) = 1 /\ Cardinality({}) = 0
      BY FS_Singleton, FS_EmptySet
    <2>4. free' + Cardinality({}) = free + Cardinality({r}) /\ free' \in Nat
      BY <1>3, <1>4, <2>3
    <2>5. QED
      BY <2>1, <2>2, <2>3, <2>4, PermitsMove
  <1>9. QED
    BY <1>5, <1>6, <1>7, <1>8 DEF RunInv

\* A run is dropped with all that it has called; `kept' are the files left.
LEMMA TreeKeeps ==
    ASSUME E!ConstantsAssumption, RunInv, NEW r \in E!Started, NEW step \in {"ended", "dropped"},
           E!Live(r), E!DropTree(r, step), files' \subseteq E!Started,
           \A s \in E!Started \ {r} : s \in files' <=> s \in files,
           step = "ended" => r \notin files'
    PROVE  RunInv'
  <1> DEFINE gone == {s \in E!Tree(r) : E!Live(s)}
             held == {s \in gone : E!Holds(s)}
  <1>1. /\ E!Started = 1..Len(run) /\ \A s \in E!Started : run[s] \in RunRecords
        /\ IsFiniteSet(Holding) /\ Cardinality(Holding) \in Nat /\ free \in Nat /\ Permits \in Nat
        /\ free + Cardinality(Holding) = Permits
    BY RunFacts, RunSize DEF RunInv, E!PermitsKept, Holding
  <1>2. /\ run' = [s \in E!Started |->
                     IF s \notin gone THEN run[s]
                     ELSE [run[s] EXCEPT !.step = IF s = r THEN step ELSE "dropped"]]
        /\ free' = free + E!Cardinality(held)
    BY DEF E!DropTree, E!Release
  <1>3. r \in gone /\ gone \subseteq E!Started
    BY DEF E!Tree
  <1>4. /\ held \subseteq Holding /\ IsFiniteSet(held) /\ Cardinality(held) \in Nat
        /\ Cardinality(held) =< Cardinality(Holding)
    <2>1. held \subseteq Holding
      BY <1>3 DEF Holding
    <2>2. QED
      BY <1>1, <2>1, FS_Subset, FS_CardinalityType
  <1>5. free' = free + Cardinality(held) /\ free' \in 0..Permits /\ free' \in Nat
    <2>1. E!Cardinality(held) = Cardinality(held)
      BY RunSize
    <2>2. free' = free + Cardinality(held)
      BY <1>2, <2>1
    <2>3. QED
      BY <1>1, <1>4, <2>2
  <1>6. \A s \in E!Started : s \in gone => E!Live(s) /\ (s = r \/ r \in run[s].callers)
    BY DEF E!Tree
  <1>7. \A s \in E!Started : E!Live(s) /\ r \in run[s].callers => s \in gone
    BY DEF E!Tree
  <1> HIDE DEF gone
  <1>8. ASSUME NEW s \in E!Started
        PROVE  /\ run'[s] \in RunRecords /\ run'[s].callers = run[s].callers
               /\ s \notin gone => run'[s] = run[s]
               /\ s \in gone => run'[s].step = IF s = r THEN step ELSE "dropped"
    <2>1. CASE s \notin gone
      BY <1>1, <1>2, <2>1
    <2>2. CASE s \in gone
      <3>1. run'[s] = [run[s] EXCEPT !.step = IF s = r THEN step ELSE "dropped"]
        BY <1>2, <2>2
      <3>2. (IF s = r THEN step ELSE "dropped") \in Steps
        BY DEF Steps
      <3>3. QED
        BY <1>1, <2>2, <3>1, <3>2 DEF RunRecords
    <2>3. QED
      BY <2>1, <2>2
  <1>9. run' \in [E!Started -> RunRecords]
    <2>1. DOMAIN run' = E!Started /\ run' = [s \in E!Started |-> run'[s]]
      BY <1>2
    <2>2. QED
      BY <1>8, <2>1
  <1>10. /\ run' \in Seq(RunRecords) /\ Len(run') = Len(run) /\ E!Started' = E!Started
         /\ \A q \in E!Started : \A c \in run'[q].callers :
                 c < q /\ run'[c].callers \subseteq run'[q].callers
    BY <1>8, <1>9, SameRuns DEF RunInv
  <1>11. E!TypeOK'
    BY <1>5, <1>10 DEF RunInv, E!TypeOK, RunRecords, Steps
  <1>12. ASSUME NEW s \in E!Started
         PROVE  /\ E!Live(s)' <=> E!Live(s) /\ s \notin gone
                /\ E!Holds(s)' <=> E!Holds(s) /\ s \notin gone
    <2>1. CASE s \notin gone
      <3>1. run'[s] = run[s] /\ s \in E!Started'
        BY <1>8, <1>10, <2>1
      <3>2. E!Holds(s)' <=> E!Holds(s)
        BY <3>1 DEF E!Holds
      <3>3. E!At(s, "waiting")' <=> E!At(s, "waiting")
        BY <3>1 DEF E!At
      <3>4. QED
        BY <2>1, <3>2, <3>3 DEF E!Live
    <2>2. CASE s \in gone
      <3>1. run'[s].step \in {"ended", "dropped"}
        BY <1>8, <2>2
      <3>2. ~E!Holds(s)' /\ ~E!At(s, "waiting")'
        BY <3>1 DEF E!Holds, E!At
      <3>3. QED
        BY <2>2, <3>2 DEF E!Live
    <2>3. QED
      BY <2>1, <2>2
  <1>13. E!NoOrphans'
    <2>1. ASSUME NEW s \in E!Started \ gone, E!Live(s), NEW c \in run[s].callers, c \in gone PROVE FALSE
      <3>1. c = r \/ r \in run[c].callers
        BY <1>3, <1>6, <2>1
      <3>2. run[c].callers \subseteq run[s].callers
        BY <2>1 DEF RunInv, E!TypeOK
      <3>3. r \in run[s].callers
        BY <2>1, <3>1, <3>2
      <3>4. QED
        BY <1>7, <2>1, <3>3
    <2>2. \A s \in E!Started \ gone : E!Live(s) => run[s].callers \cap gone = {}
      BY <2>1
    <2>3. /\ \A s \in E!Started : E!Live(s)' => E!Live(s) /\ s \notin gone
          /\ \A s \in E!Started \ gone : E!Live(s) => E!Live(s)'
      BY <1>12
    <2>4. QED
      BY <1>8, <1>10, <2>2, <2>3, OrphansNone DEF RunInv
  <1>14. E!FilesExplained'
    <2> SUFFICES ASSUME NEW s \in E!Started
                 PROVE  /\ run'[s].step \in {"running", "busy", "over"} => s \in files'
                        /\ s \in files' => ~(run'[s].step \in {"waiting", "ready", "ended"})
      BY <1>10 DEF E!FilesExplained
    <2>1. CASE s \notin gone
      <3>1. run'[s] = run[s] /\ (s \in files' <=> s \in files)
        BY <1>3, <1>8, <2>1
      <3>2. QED
        BY <3>1 DEF RunInv, E!FilesExplained
    <2>2. CASE s \in gone /\ s # r
      BY <1>8, <2>2
    <2>3. CASE s = r
      <3>1. run'[s].step = step
        BY <1>3, <1>8, <2>3
      <3>2. QED
        BY <2>3, <3>1
    <2>4. QED
      BY <2>1, <2>2, <2>3
  <1>15. E!PermitsKept'
    <2>1. Holding' = (Holding \ held) \cup {}
      <3>1. Holding' = {s \in E!Started : E!Holds(s)'}
        BY <1>10 DEF Holding
      <3>2. QED
        BY <1>12, <3>1 DEF Holding
    <2>2. held \in SUBSET Holding /\ {} \cap Holding = {}
      BY <1>4
    <2>3. IsFiniteSet({}) /\ Cardinality({}) = 0
      BY FS_EmptySet
    <2>4. free' + Cardinality({}) = free + Cardinality(held)
      BY <1>1, <1>4, <1>5, <2>3
    <2>5. QED
      BY <1>5, <2>1, <2>2, <2>3, <2>4, PermitsMove
  <1>16. QED
    BY <1>11, <1>13, <1>14, <1>15 DEF RunInv

LEMMA RunInit ==
    ASSUME E!ConstantsAssumption, E!Init
    PROVE  RunInv
  <1>1. /\ run = << >> /\ Len(run) = 0 /\ run \in Seq(RunRecords) /\ files = {} /\ free = Permits
        /\ Permits \in Nat /\ MaxRuns \in Nat /\ E!Started = {}
    BY EmptySeq DEF E!Init, E!ConstantsAssumption, E!Started
  <1>2. E!TypeOK
    BY <1>1 DEF E!TypeOK, RunRecords, Steps
  <1>3. E!PermitsKept
    <2>1. {r \in E!Started : E!Holds(r)} = {} /\ E!Cardinality({}) = 0
      BY <1>1, RunSize, FS_EmptySet
    <2>2. QED
      BY <1>1, <2>1 DEF E!PermitsKept
  <1>4. QED
    BY <1>1, <1>2, <1>3 DEF RunInv, E!NoOrphans, E!FilesExplained

LEMMA RunStep ==
    ASSUME E!ConstantsAssumption, RunInv, E!Next \/ UNCHANGED E!vars
    PROVE  RunInv'
  <1>1. ASSUME NEW kind \in E!Kinds, E!Request(kind) PROVE RunInv'
    <2>1. {} \in SUBSET E!Started /\ E!Enter(kind, {})
      BY <1>1 DEF E!Request
    <2>2. QED
      BY <2>1, EnterRuns
  <1>2. ASSUME NEW r \in E!Started, E!Call(r) PROVE RunInv'
    <2>1. "script" \in E!Kinds /\ E!Enter("script", run[r].callers \cup {r}) /\ E!Live(r)
      BY <1>2 DEF E!Call, E!Kinds, E!Live, E!Holds, E!At
    <2>2. run[r].callers \subseteq E!Started
      BY RunFacts DEF RunInv
    <2>3. \A c \in run[r].callers \cup {r} :
             E!Live(c) /\ run[c].callers \subseteq run[r].callers \cup {r}
      BY <2>1 DEF RunInv, E!NoOrphans, E!TypeOK
    <2>4. QED
      BY <2>1, <2>2, <2>3, EnterRuns
  <1>3. ASSUME NEW r \in E!Started, E!Timeout(r) PROVE RunInv'
    <2>1. E!DropTree(r, "ended") /\ files' = files \ {r} /\ E!Live(r)
      BY <1>3 DEF E!Timeout, E!Forget, E!Live, E!Holds, E!At
    <2>2. files' \subseteq E!Started
      BY <2>1 DEF RunInv, E!TypeOK
    <2>3. QED
      BY <2>1, <2>2, TreeKeeps
  <1>4. ASSUME NEW r \in E!Started, E!Drop(r) PROVE RunInv'
    <2>1. E!DropTree(r, "dropped") /\ files' = files /\ E!Live(r)
      BY <1>4 DEF E!Drop
    <2>2. files' \subseteq E!Started
      BY <2>1 DEF RunInv, E!TypeOK
    <2>3. QED
      BY <2>1, <2>2, TreeKeeps
  <1>5. CASE UNCHANGED E!vars
    BY <1>5 DEF E!vars, RunInv, E!TypeOK, E!PermitsKept, E!NoOrphans, E!FilesExplained, E!Started,
       E!Live, E!Holds, E!At
  <1>6. QED
    BY <1>1, <1>2, <1>3, <1>4, <1>5, AcquireKeeps, InstallKeeps, BusyKeeps, ReturnKeeps DEF E!Next

\* RunsAreKept: for any number of permits and runs, whatever calls whom and
\* however runs end: no permit is lost, no run outlives its callers, and a
\* module stays in the table only for a run that was dropped from outside.
THEOREM RunsAreKept ==
    ASSUME E!ConstantsAssumption
    PROVE  E!Spec => [](E!TypeOK /\ E!PermitsKept /\ E!NoOrphans /\ E!FilesExplained)
  <1>1. E!Init => RunInv
    BY RunInit
  <1>2. RunInv /\ [E!Next]_(E!vars) => RunInv'
    BY RunStep
  <1>3. RunInv => E!TypeOK /\ E!PermitsKept /\ E!NoOrphans /\ E!FilesExplained
    BY DEF RunInv
  <1>4. QED
    BY <1>1, <1>2, <1>3, PTL DEF E!Spec

\* What the writes of a replica's callers keep, in a run that is theirs.
LEMMA ForwardingHolds ==
    MCSpec => [](part = "forwarding" => /\ W!TypeOK /\ W!AckedIsStored /\ W!OneDouble
                                        /\ W!AckedInOrder /\ W!PendingMatches)
  <1> DEFINE P == part = "forwarding"
  <1>1. MCInit /\ P => W!Init
    BY DEF MCInit
  <1>2. [MCNext]_mcVars => (P' <=> P)
    BY DEF MCNext, mcVars, OfGraphQL, OfClone, OfForwarding, OfScripts, OfFeeds
  <1>3. P /\ [MCNext]_mcVars => [W!Next]_(W!vars)
    <2> SUFFICES ASSUME P, [MCNext]_mcVars PROVE W!Next \/ UNCHANGED W!vars
      OBVIOUS
    <2>1. W!Next \/ UNCHANGED forwarding
      BY DEF MCNext, mcVars, OfGraphQL, OfClone, OfForwarding, OfScripts, OfFeeds
    <2>2. QED
      BY <2>1 DEF forwarding, W!vars, W!replica, W!grpc, W!socket
  <1>4. /\ W!Spec => [](W!TypeOK /\ W!PendingMatches)
        /\ W!Spec => []W!AckedIsStored
        /\ W!Spec => []W!AckedInOrder
        /\ W!Spec => []W!OneDouble
    BY PartsAssumption, W!PendingHolds, W!Durable, W!OrderKept, W!DoublesBounded
  <1>5. QED
    BY <1>1, <1>2, <1>3, <1>4, PTL DEF MCSpec, W!Spec

\* CallsHold: the run's own property of the calls.
THEOREM CallsHold == MCSpec => []CallsSafe
  <1> DEFINE Inv == part = "scripts" => RunInv
             Told == part = "forwarding" => /\ W!TypeOK /\ W!AckedIsStored /\ W!OneDouble
                                            /\ W!AckedInOrder /\ W!PendingMatches
  <1>1. MCInit => Inv
    BY PartsAssumption, RunInit DEF MCInit
  <1>2. Inv /\ [MCNext]_mcVars => Inv'
    <2> SUFFICES ASSUME Inv, [MCNext]_mcVars, part' = "scripts" PROVE RunInv'
      OBVIOUS
    <2>1. part = "scripts" /\ (E!Next \/ UNCHANGED scripts)
      BY DEF MCNext, mcVars, OfGraphQL, OfClone, OfForwarding, OfScripts, OfFeeds
    <2>2. E!Next \/ UNCHANGED E!vars
      BY <2>1 DEF scripts, E!vars
    <2>3. QED
      BY <2>1, <2>2, PartsAssumption, RunStep
  <1>3. Inv /\ Told => CallsSafe
    BY DEF CallsSafe, RunInv
  <1>4. MCSpec => []Told
    BY ForwardingHolds
  <1>5. QED
    BY <1>1, <1>2, <1>3, <1>4, PTL DEF MCSpec

-----------------------------------------------------------------------------
(* The schema of GraphQL.                                                  *)

\* What the invariant says of the reloads, and of what they read.
LEMMA StageFacts ==
    ASSUME SchemaInv
    PROVE  /\ db \in Inputs /\ changes \in Nat /\ changes =< MaxChanges /\ MaxChanges \in Nat
           /\ schema \in Schemas /\ schema.seen =< changes
           /\ reload \in [Reloads -> Stages]
           /\ \A r \in Reloads : reload[r] = Idle => reload[r].at = "idle"
  BY InputsAssumption DEF SchemaInv, TypeOK, Schemas, Idle

\* Each stage by its name.
LEMMA StageKinds ==
    ASSUME NEW stage \in Stages
    PROVE  /\ stage.at \in {"idle", "collections", "policy", "scripts", "write"}
           /\ stage.at = "policy" => stage \in [at : {"policy"}, cols : Catalogues, seen : Nat]
           /\ stage.at = "scripts" =>
                 stage \in [at : {"scripts"}, cols : Catalogues, users : Policies, seen : Nat]
           /\ stage.at = "write" => stage \in [at : {"write"}, built : Schemas]
  BY DEF Stages, Idle

\* The state that a change of the inputs leaves: one more reload, from its start.
LEMMA SpawnKeeps ==
    ASSUME SchemaInv, Spawned, db' \in Inputs, UNCHANGED <<schema, executing, up, overtaken, failed>>,
           \/ changes' = changes + 1 /\ changes < MaxChanges
           \/ UNCHANGED <<db, changes>>
    PROVE  SchemaInv'
  <1>1. /\ changes \in Nat /\ changes =< MaxChanges /\ MaxChanges \in Nat
        /\ schema \in Schemas /\ schema.seen =< changes /\ schema.seen \in Nat
        /\ reload \in [Reloads -> Stages]
    BY StageFacts DEF Schemas
  <1>2. PICK r \in Reloads : reload' = [reload EXCEPT ![r] = [at |-> "collections"]]
    BY DEF Spawned
  <1>3. /\ reload'[r] = [at |-> "collections"] /\ [at |-> "collections"] \in Stages
        /\ \A q \in Reloads \ {r} : reload'[q] = reload[q]
        /\ reload' \in [Reloads -> Stages]
    BY <1>1, <1>2 DEF Stages
  <1>4. /\ changes' \in Nat /\ changes' =< MaxChanges /\ schema.seen =< changes'
        /\ (changes' = changes /\ db' = db) \/ changes' > changes
    BY <1>1
  <1>5. TypeOK'
    <2>1. \A q \in Reloads : reload'[q].at \in {"idle", "collections", "policy", "scripts", "write"}
      BY <1>3, StageKinds
    <2>2. changes' \in 0..MaxChanges /\ schema'.seen \in 0..changes'
      BY <1>1, <1>4
    <2>3. QED
      BY <2>1, <2>2 DEF SchemaInv, TypeOK, Builds, Buildable
  <1>6. schema'.seen = changes' => schema'.cols = db'.cols /\ schema'.users = db'.users
    <2>1. CASE changes' = changes /\ db' = db
      BY <2>1 DEF SchemaInv
    <2>2. CASE changes' > changes
      BY <1>1, <1>4, <2>2
    <2>3. QED
      BY <1>4, <2>1, <2>2
  <1>7. ASSUME NEW q \in Reloads PROVE Fresh(reload[q])'
    <2>1. CASE q = r
      BY <1>3, <2>1 DEF Fresh
    <2>2. CASE q # r
      <3>1. reload'[q] = reload[q] /\ Fresh(reload[q]) /\ reload[q] \in Stages
        BY <1>1, <1>3, <2>2 DEF SchemaInv
      <3>2. CASE changes' = changes /\ db' = db
        BY <3>1, <3>2 DEF Fresh
      <3>3. CASE changes' > changes
        <4>1. /\ reload[q].at \in {"policy", "scripts"} => reload[q].seen \in Nat
              /\ reload[q].at = "write" => reload[q].built.seen \in Nat
          BY <3>1, StageKinds DEF Schemas
        <4>2. /\ reload[q].at \in {"policy", "scripts"} => reload[q].seen =< changes' /\ reload[q].seen # changes'
              /\ reload[q].at = "write" => reload[q].built.seen =< changes' /\ reload[q].built.seen # changes'
          BY <1>1, <1>4, <3>1, <3>3, <4>1 DEF Fresh
        <4>3. QED
          BY <3>1, <4>2 DEF Fresh
      <3>4. QED
        BY <1>4, <3>2, <3>3
    <2>3. QED
      BY <2>1, <2>2
  <1>8. \E q \in Reloads : Newest(reload[q])'
    BY <1>3 DEF Newest
  <1>9. QED
    BY <1>1, <1>3, <1>5, <1>6, <1>7, <1>8 DEF SchemaInv

\* A reload goes on to a stage that is as new as the one it leaves.
LEMMA StageKeeps ==
    ASSUME SchemaInv, NEW r \in Reloads, NEW stage \in Stages,
           reload' = [reload EXCEPT ![r] = stage], Fresh(stage),
           Newest(reload[r]) => Newest(stage),
           UNCHANGED <<db, changes, schema, executing, up, overtaken, failed>>
    PROVE  SchemaInv'
  <1>1. reload \in [Reloads -> Stages]
    BY StageFacts
  <1>2. /\ reload'[r] = stage /\ \A q \in Reloads \ {r} : reload'[q] = reload[q]
        /\ reload' \in [Reloads -> Stages]
    BY <1>1
  <1>3. TypeOK'
    <2>1. \A q \in Reloads : reload'[q].at \in {"idle", "collections", "policy", "scripts", "write"}
      BY <1>2, StageKinds
    <2>2. QED
      BY <2>1 DEF SchemaInv, TypeOK, Builds, Buildable
  <1>4. \A q \in Reloads : Fresh(reload[q])'
    BY <1>2 DEF SchemaInv, Fresh
  <1>5. \A q \in Reloads : Newest(reload[q]) => Newest(reload[q])'
    <2>1. Newest(stage) => Newest(reload[r])'
      BY <1>2 DEF Newest
    <2>2. \A q \in Reloads \ {r} : Newest(reload[q]) => Newest(reload[q])'
      BY <1>2 DEF Newest
    <2>3. QED
      BY <2>1, <2>2
  <1>6. QED
    BY <1>2, <1>3, <1>4, <1>5 DEF SchemaInv

\* The three reads of a reload, the last of which may be the end of it.
LEMMA ReloadKeeps ==
    ASSUME SchemaInv, NEW r \in Reloads, Reload(r)
    PROVE  SchemaInv'
  <1>1. /\ db \in Inputs /\ changes \in Nat /\ reload[r] \in Stages /\ Fresh(reload[r])
        /\ reload \in [Reloads -> Stages]
    BY StageFacts DEF SchemaInv
  <1>2. CASE ReadCollections(r)
    <2> DEFINE stage == [at |-> "policy", cols |-> db.cols, seen |-> changes]
    <2>1. stage \in Stages /\ stage.seen = changes /\ stage.at = "policy" /\ stage.cols = db.cols
      BY <1>1 DEF Stages, Inputs
    <2>2. reload' = [reload EXCEPT ![r] = stage]
          /\ UNCHANGED <<db, changes, schema, executing, up, overtaken, failed>>
      BY <1>2 DEF ReadCollections
    <2> HIDE DEF stage
    <2>3. Fresh(stage) /\ Newest(stage)
      BY <1>1, <2>1 DEF Fresh, Newest
    <2>4. QED
      BY <2>1, <2>2, <2>3, StageKeeps
  <1>3. CASE ReadPolicy(r)
    <2> DEFINE stage == [at |-> "scripts", cols |-> reload[r].cols, users |-> db.users,
                         seen |-> reload[r].seen]
    <2>1. /\ reload[r].at = "policy"
          /\ reload[r].cols \in Catalogues /\ reload[r].seen \in Nat
      BY <1>1, <1>3, StageKinds DEF ReadPolicy
    <2>2. stage \in Stages /\ stage.at = "scripts" /\ stage.seen = reload[r].seen
          /\ stage.cols = reload[r].cols /\ stage.users = db.users
      BY <1>1, <2>1 DEF Stages, Inputs
    <2>3. reload' = [reload EXCEPT ![r] = stage]
          /\ UNCHANGED <<db, changes, schema, executing, up, overtaken, failed>>
      BY <1>1, <1>3 DEF ReadPolicy
    <2> HIDE DEF stage
    <2>4. Fresh(stage) /\ (Newest(reload[r]) => Newest(stage))
      BY <1>1, <2>1, <2>2 DEF Fresh, Newest
    <2>5. QED
      BY <2>2, <2>3, <2>4, StageKeeps
  <1>4. CASE ReadScripts(r)
    <2> DEFINE built == [cols |-> reload[r].cols, users |-> reload[r].users,
                         scripts |-> db.scripts, seen |-> reload[r].seen]
               stage == [at |-> "write", built |-> built]
    <2>1. /\ reload[r].at = "scripts" /\ reload[r].seen \in Nat
          /\ reload[r].cols \in Catalogues /\ reload[r].users \in Policies
      BY <1>1, <1>4, StageKinds DEF ReadScripts
    <2>2. /\ built \in Schemas /\ built.seen = reload[r].seen
          /\ built.cols = reload[r].cols /\ built.users = reload[r].users
      BY <1>1, <2>1 DEF Schemas, Inputs
    <2>3. UNCHANGED <<db, changes, schema, executing, up, overtaken>>
      BY <1>4 DEF ReadScripts
    <2>4. \/ Builds(built) /\ reload' = [reload EXCEPT ![r] = stage] /\ failed' = failed
          \/ ~Builds(built) /\ reload' = [reload EXCEPT ![r] = Idle] /\ failed' = {built}
      BY <1>4 DEF ReadScripts
    <2> HIDE DEF built
    <2>5. stage \in Stages /\ stage.at = "write" /\ stage.built = built
      BY <2>2 DEF Stages
    <2> HIDE DEF stage
    <2>6. CASE Builds(built) /\ reload' = [reload EXCEPT ![r] = stage] /\ failed' = failed
      <3>1. Fresh(stage) /\ (Newest(reload[r]) => Newest(stage))
        BY <1>1, <2>1, <2>2, <2>5 DEF Fresh, Newest
      <3>2. QED
        BY <2>3, <2>5, <2>6, <3>1, StageKeeps
    <2>7. CASE ~Builds(built) /\ reload' = [reload EXCEPT ![r] = Idle] /\ failed' = {built}
      <3>1. /\ reload'[r] = Idle /\ \A q \in Reloads \ {r} : reload'[q] = reload[q]
            /\ reload' \in [Reloads -> Stages] /\ Idle.at = "idle"
        BY <1>1, <2>7 DEF Stages, Idle
      <3>2. TypeOK'
        <4>1. \A q \in Reloads : reload'[q].at \in {"idle", "collections", "policy", "scripts", "write"}
          BY <3>1, StageKinds
        <4>2. \A input \in failed' : input.cols \in Catalogues /\ ~Builds(input)'
          BY <2>1, <2>2, <2>7 DEF Builds, Buildable
        <4>3. QED
          BY <2>3, <4>1, <4>2 DEF SchemaInv, TypeOK
      <3>3. \A q \in Reloads : Fresh(reload[q])'
        BY <2>3, <3>1 DEF SchemaInv, Fresh
      <3>4. failed' # {}
        BY <2>7
      <3>5. QED
        BY <2>3, <3>1, <3>2, <3>3, <3>4 DEF SchemaInv
    <2>8. QED
      BY <2>4, <2>6, <2>7
  <1>5. QED
    BY <1>2, <1>3, <1>4 DEF Reload

\* The swap: the schema is the newest, or the reload that is goes on.
LEMMA SwapKeeps ==
    ASSUME SchemaInv, NEW r \in Reloads, Swap(r)
    PROVE  SchemaInv'
  <1> DEFINE built == reload[r].built
  <1>1. /\ db \in Inputs /\ changes \in Nat /\ changes =< MaxChanges
        /\ reload \in [Reloads -> Stages] /\ reload[r] \in Stages /\ Fresh(reload[r])
        /\ schema \in Schemas /\ schema.seen \in Nat /\ schema.seen =< changes
    BY StageFacts DEF SchemaInv, Schemas
  <1>2. /\ reload[r].at = "write" /\ schema' = built
        /\ overtaken' = (built.seen # changes /\ (overtaken \/ built.seen < schema.seen))
        /\ reload' = [reload EXCEPT ![r] = Idle]
        /\ failed' = IF built.seen = changes THEN {} ELSE failed
        /\ UNCHANGED <<db, changes, executing, up>>
    BY DEF Swap
  <1>3. /\ built \in Schemas /\ built.seen \in Nat /\ built.seen =< changes
        /\ built.seen = changes => built.cols = db.cols /\ built.users = db.users
    BY <1>1, <1>2, StageKinds DEF Schemas, Fresh
  <1>4. /\ reload'[r] = Idle /\ \A q \in Reloads \ {r} : reload'[q] = reload[q]
        /\ reload' \in [Reloads -> Stages] /\ Idle.at = "idle"
    BY <1>1, <1>2 DEF Stages, Idle
  <1>5. Newest(reload[r]) => built.seen = changes
    BY <1>2 DEF Newest
  <1> HIDE DEF built
  <1>6. TypeOK'
    <2>1. \A q \in Reloads : reload'[q].at \in {"idle", "collections", "policy", "scripts", "write"}
      BY <1>4, StageKinds
    <2>2. [cols |-> built.cols, users |-> built.users, scripts |-> built.scripts] \in Inputs
          /\ built.seen \in 0..changes
      BY <1>1, <1>3 DEF Inputs, Schemas
    <2>3. \A input \in failed' : input.cols \in Catalogues /\ ~Builds(input)'
      BY <1>2 DEF SchemaInv, TypeOK, Builds, Buildable
    <2>4. overtaken' \in BOOLEAN /\ up' \in BOOLEAN /\ executing' \subseteq Clients
      BY <1>2 DEF SchemaInv, TypeOK
    <2>5. QED
      BY <1>2, <2>1, <2>2, <2>3, <2>4 DEF SchemaInv, TypeOK
  <1>7. schema'.seen = changes' => schema'.cols = db'.cols /\ schema'.users = db'.users
    BY <1>2, <1>3
  <1>8. \A q \in Reloads : Fresh(reload[q])'
    BY <1>2, <1>4 DEF SchemaInv, Fresh
  <1>9. ASSUME up', ~overtaken', failed' = {}
        PROVE  schema'.seen = changes' \/ \E q \in Reloads : Newest(reload[q])'
    <2>1. CASE built.seen = changes
      BY <1>2, <2>1
    <2>2. CASE built.seen # changes
      <3>1. up /\ ~overtaken /\ failed = {} /\ ~(built.seen < schema.seen)
        BY <1>2, <1>9, <2>2
      <3>2. schema.seen # changes
        BY <1>1, <1>3, <2>2, <3>1
      <3>3. PICK q \in Reloads : Newest(reload[q])
        BY <3>1, <3>2 DEF SchemaInv
      <3>4. q # r
        BY <1>5, <2>2, <3>3
      <3>5. Newest(reload[q])'
        BY <1>2, <1>4, <3>3, <3>4 DEF Newest
      <3>6. QED
        BY <3>5
    <2>3. QED
      BY <2>1, <2>2
  <1>10. QED
    BY <1>2, <1>3, <1>4, <1>6, <1>7, <1>8, <1>9 DEF SchemaInv

\* A start: nothing is read before it.
LEMMA RestartKeeps ==
    ASSUME SchemaInv, Restart
    PROVE  SchemaInv'
  <1>1. /\ db \in Inputs /\ changes \in Nat /\ changes =< MaxChanges
        /\ schema \in Schemas /\ schema.seen \in Nat /\ schema.seen =< changes
    BY StageFacts DEF Schemas
  <1>2. /\ reload' = [r \in Reloads |-> Idle] /\ executing' = {} /\ up' = Builds(db)
        /\ schema' = (IF Builds(db) THEN From(db, changes) ELSE schema)
        /\ overtaken' = FALSE /\ failed' = (IF Builds(db) THEN {} ELSE {db})
        /\ db' = db /\ changes' = changes
    BY DEF Restart
  <1>3. /\ From(db, changes) \in Schemas /\ From(db, changes).seen = changes
        /\ From(db, changes).cols = db.cols /\ From(db, changes).users = db.users
    BY <1>1 DEF From, Inputs, Schemas
  <1>4. /\ schema' \in Schemas /\ schema'.seen =< changes /\ schema'.seen \in Nat
        /\ schema'.seen = changes => schema'.cols = db.cols /\ schema'.users = db.users
    BY <1>1, <1>2, <1>3 DEF SchemaInv
  <1>5. /\ reload' \in [Reloads -> Stages] /\ \A q \in Reloads : reload'[q].at = "idle"
    BY <1>2 DEF Stages, Idle
  <1>6. TypeOK'
    <2>1. [cols |-> schema'.cols, users |-> schema'.users, scripts |-> schema'.scripts] \in Inputs
      BY <1>4 DEF Inputs, Schemas
    <2>2. \A input \in failed' : input.cols \in Catalogues /\ ~Builds(input)'
      BY <1>1, <1>2 DEF Inputs, Builds, Buildable
    <2>3. {up', overtaken'} \subseteq BOOLEAN
      <3>1. up' \in BOOLEAN /\ overtaken' \in BOOLEAN
        <4>1. Builds(db) \in BOOLEAN
          <5>1. ASSUME Builds(db) PROVE Builds(db) = TRUE
            BY <5>1
          <5>2. ASSUME ~Builds(db) PROVE Builds(db) = FALSE
            BY <5>2
          <5>3. QED
            BY <5>1, <5>2
        <4>2. up' = Builds(db) /\ overtaken' = FALSE
          BY <1>2
        <4>3. QED
          BY <4>1, <4>2, Zenon
      <3>2. QED
        BY <3>1, Zenon
    <2>4. changes' \in 0..MaxChanges /\ schema'.seen \in 0..changes' /\ db' \in Inputs /\ executing' \subseteq Clients
      BY <1>1, <1>2, <1>4
    <2>5. \A q \in Reloads : reload'[q].at \in {"idle", "collections", "policy", "scripts", "write"}
      BY <1>5
    <2>6. QED
      BY <2>1, <2>2, <2>3, <2>4, <2>5, Zenon DEF TypeOK
  <1>7. \A q \in Reloads : Fresh(reload[q])'
    BY <1>5 DEF Fresh
  <1>8. up' => schema'.seen = changes'
    BY <1>2, <1>3
  <1>9. QED
    BY <1>2, <1>4, <1>5, <1>6, <1>7, <1>8 DEF SchemaInv

\* The scripts are no part of what the schema is compared with, and requests
\* touch no reload.
LEMMA BesideKeeps ==
    ASSUME SchemaInv, db' \in Inputs, db'.cols = db.cols, db'.users = db.users, executing' \subseteq Clients,
           UNCHANGED <<changes, schema, reload, up, overtaken, failed>>
    PROVE  SchemaInv'
  <1>1. TypeOK'
    BY DEF SchemaInv, TypeOK, Builds, Buildable
  <1>2. \A q \in Reloads : Fresh(reload[q])' /\ (Newest(reload[q])' <=> Newest(reload[q]))
    BY DEF SchemaInv, Fresh, Newest
  <1>3. QED
    BY <1>1, <1>2 DEF SchemaInv

LEMMA SchemaInit ==
    ASSUME Init
    PROVE  SchemaInv
  <1>1. /\ db \in Inputs /\ changes = 0 /\ schema = From(db, 0) /\ reload = [r \in Reloads |-> Idle]
        /\ executing = {} /\ up = TRUE /\ overtaken = FALSE /\ failed = {} /\ MaxChanges \in Nat
    BY InputsAssumption DEF Init, Inputs
  <1>2. /\ schema \in Schemas /\ schema.seen = 0 /\ schema.cols = db.cols /\ schema.users = db.users
        /\ schema.scripts = db.scripts
    BY <1>1 DEF From, Inputs, Schemas
  <1>3. /\ reload \in [Reloads -> Stages] /\ \A q \in Reloads : reload[q].at = "idle"
    BY <1>1 DEF Stages, Idle
  <1>4. TypeOK
    <2>1. [cols |-> schema.cols, users |-> schema.users, scripts |-> schema.scripts] \in Inputs
      BY <1>2 DEF Inputs, Schemas
    <2>2. {up, overtaken} \subseteq BOOLEAN
      BY <1>1, Zenon
    <2>3. changes \in 0..MaxChanges /\ schema.seen \in 0..changes
      BY <1>1, <1>2
    <2>4. executing \subseteq Clients /\ \A input \in failed : input.cols \in Catalogues /\ ~Builds(input)
      BY <1>1
    <2>5. \A q \in Reloads : reload[q].at \in {"idle", "collections", "policy", "scripts", "write"}
      BY <1>3
    <2>6. db \in Inputs
      BY <1>1
    <2>7. QED
      BY <2>1, <2>2, <2>3, <2>4, <2>5, <2>6, Zenon DEF TypeOK
  <1>5. QED
    BY <1>1, <1>2, <1>3, <1>4 DEF SchemaInv, Fresh

LEMMA SchemaStep ==
    ASSUME SchemaInv, Next \/ UNCHANGED vars
    PROVE  SchemaInv'
  <1>1. db \in Inputs /\ executing \subseteq Clients
    BY DEF SchemaInv, TypeOK
  <1>2. ASSUME NEW new, Changed(new), Spawned, new \in Inputs PROVE SchemaInv'
    BY <1>2, SpawnKeeps DEF Changed
  <1>3. CASE ChangeCollections
    <2>1. PICK cols \in Catalogues : Changed([db EXCEPT !.cols = cols]) /\ Spawned
      BY <1>3 DEF ChangeCollections
    <2>2. [db EXCEPT !.cols = cols] \in Inputs
      BY <1>1 DEF Inputs
    <2>3. QED
      BY <1>2, <2>1, <2>2
  <1>4. CASE SetPolicy
    <2>1. PICK p \in Policies : Changed([db EXCEPT !.users = p]) /\ Spawned
      BY <1>4 DEF SetPolicy, Reloading
    <2>2. [db EXCEPT !.users = p] \in Inputs
      BY <1>1 DEF Inputs
    <2>3. QED
      BY <1>2, <2>1, <2>2
  <1>5. CASE SetScripts
    <2>1. PICK s \in ScriptSets : db' = [db EXCEPT !.scripts = s]
      BY <1>5 DEF SetScripts
    <2>2. db' \in Inputs /\ db'.cols = db.cols /\ db'.users = db.users
      BY <1>1, <2>1 DEF Inputs
    <2>3. QED
      BY <1>1, <1>5, <2>2, BesideKeeps DEF SetScripts
  <1>6. CASE ReloadSystem
    <2>1. Spawned /\ UNCHANGED <<db, changes, schema, executing, up, overtaken, failed>>
      BY <1>6 DEF ReloadSystem
    <2>2. QED
      BY <1>1, <2>1, SpawnKeeps
  <1>7. ASSUME NEW c \in Clients, BeginRequest(c) \/ EndRequest(c) PROVE SchemaInv'
    <2>1. executing' \subseteq Clients /\ UNCHANGED <<db, changes, schema, reload, up, overtaken, failed>>
      BY <1>1, <1>7 DEF BeginRequest, EndRequest
    <2>2. QED
      BY <1>1, <2>1, BesideKeeps
  <1>8. CASE UNCHANGED vars
    BY <1>1, <1>8, BesideKeeps DEF vars
  <1>9. QED
    BY <1>3, <1>4, <1>5, <1>6, <1>7, <1>8, ReloadKeeps, SwapKeeps, RestartKeeps DEF Next

\* What the invariant is for.
LEMMA SchemaTold ==
    ASSUME SchemaInv
    PROVE  TypeOK /\ SchemaCurrent
  <1>1. ASSUME up, ~overtaken, failed = {}, \A r \in Reloads : reload[r] = Idle
        PROVE  schema.cols = db.cols /\ schema.users = db.users
    <2>1. \A r \in Reloads : ~Newest(reload[r])
      BY <1>1 DEF Newest, Idle
    <2>2. QED
      BY <1>1, <2>1 DEF SchemaInv
  <1>2. QED
    BY <1>1 DEF SchemaInv, SchemaCurrent

\* SchemaIsCurrent: for any number of changes, reloads and requests, whatever
\* overtakes what: once the reloads are done the schema has the collections and
\* the policy of the database, unless one was overtaken or has failed.
THEOREM SchemaIsCurrent == Spec => [](TypeOK /\ SchemaCurrent)
  <1>1. Init => SchemaInv
    BY SchemaInit
  <1>2. SchemaInv /\ [Next]_vars => SchemaInv'
    BY SchemaStep
  <1>3. SchemaInv => TypeOK /\ SchemaCurrent
    BY SchemaTold
  <1>4. QED
    BY <1>1, <1>2, <1>3, PTL DEF Spec

\* SchemaHolds: the run's own property of the schema.
THEOREM SchemaHolds == MCSpec => []GraphQLSafe
  <1> DEFINE Inv == part = "graphql" => SchemaInv
  <1>1. MCInit => Inv
    BY SchemaInit DEF MCInit
  <1>2. Inv /\ [MCNext]_mcVars => Inv'
    <2> SUFFICES ASSUME Inv, [MCNext]_mcVars, part' = "graphql" PROVE SchemaInv'
      OBVIOUS
    <2>1. part = "graphql" /\ (Next \/ UNCHANGED vars)
      BY DEF MCNext, mcVars, OfGraphQL, OfClone, OfForwarding, OfScripts, OfFeeds
    <2>2. QED
      BY <2>1, SchemaStep
  <1>3. Inv => GraphQLSafe
    BY SchemaTold DEF GraphQLSafe
  <1>4. QED
    BY <1>1, <1>2, <1>3, PTL DEF MCSpec
=============================================================================
