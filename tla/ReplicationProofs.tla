-------------------------- MODULE ReplicationProofs --------------------------
(***************************************************************************)
(* What holds of Replication for every content of the file, every capacity *)
(* of the channels and any number of connections.                          *)
(***************************************************************************)
EXTENDS Replication, SequenceTheorems, TLAPS

-----------------------------------------------------------------------------
(* The inductive invariants.                                               *)

\* The events of commits, and all that a connection carries.
Changes == (1..(Len(hist) - 1)) \X (0..(Len(hist) - 1))
Messages == Changes \cup {FullSync}

\* StreamType: the types of what an event passes on its way.
StreamType ==
    /\ hist \in Seq(Rows) /\ hist # <<>>
    /\ unsent \in [Writers -> {NoEvent} \cup Changes]
    /\ bcast \in Seq(Changes) /\ buffer \in Seq(Changes)
    /\ chan \in Seq(Messages) /\ wire \in Seq(Messages) /\ sync \in Seq(Changes)
    /\ last \in 0..(Len(hist) - 1)

\* The numbers of the commits in a queue, and that they rise.
Nums(q) == {q[i][1] : i \in {k \in 1..Len(q) : q[k] # FullSync}}
Rising(q) ==
    \A i, j \in 1..Len(q) : i < j /\ q[i] # FullSync /\ q[j] # FullSync => q[i][1] < q[j][1]

\* Every number of the one set is below every number of the other.
Below(S, T) == \A x \in S, y \in T : x < y

\* What is still to come out of each stage.
Unsent == {unsent[w][1] : w \in {v \in Writers : unsent[v] # NoEvent}}
FromBcast == Nums(bcast) \cup Unsent
FromBuffer == Nums(buffer) \cup FromBcast
FromChan == Nums(chan) \cup FromBuffer
FromWire == Nums(wire) \cup FromChan
FromSync == Nums(sync) \cup FromWire

\* RisingInv: the numbers rise in every queue.
RisingInv == Rising(bcast) /\ Rising(buffer) /\ Rising(chan) /\ Rising(wire) /\ Rising(sync)

\* StagesInv: what is in a queue comes before all that is behind it.
StagesInv ==
    /\ Below(Nums(bcast), Unsent)
    /\ Below(Nums(buffer), FromBcast)
    /\ Below(Nums(chan), FromBuffer)
    /\ Below(Nums(wire), FromChan)
    /\ Below(Nums(sync), FromWire)
    /\ Below({last}, FromSync)

StreamInv == StreamType /\ NoBypass /\ RisingInv /\ StagesInv

\* One connection commits to the file, and no tenant is loaded on the replica
\* while its connection is open.
OneWriter == \A v, w \in Writers : v = w
Undisturbed == OneWriter /\ "resubscribe" \notin Faults

-----------------------------------------------------------------------------
(* Queues.                                                                 *)

\* A queue of members of a set is one of members of a larger set.
LEMMA WiderQueue ==
    ASSUME NEW S, NEW T, S \subseteq T, NEW q \in Seq(S)
    PROVE  q \in Seq(T)
  OBVIOUS

\* A queue that is empty.
LEMMA EmptyQueue == Nums(<<>>) = {} /\ Rising(<<>>) /\ Len(<<>>) = 0
  BY EmptySeq DEF Nums, Rising

\* An event is put at the end of a queue.
LEMMA AppendQueue ==
    ASSUME NEW S, NEW q \in Seq(S), NEW e \in S
    PROVE  /\ Append(q, e) \in Seq(S)
           /\ Nums(Append(q, e)) \subseteq Nums(q) \cup (IF e = FullSync THEN {} ELSE {e[1]})
           /\ Rising(q) /\ (e = FullSync \/ \A x \in Nums(q) : x < e[1]) => Rising(Append(q, e))
  <1>1. /\ Append(q, e) \in Seq(S) /\ Len(q) \in Nat /\ Len(Append(q, e)) = Len(q) + 1
        /\ \A i \in 1..Len(q) : Append(q, e)[i] = q[i]
        /\ Append(q, e)[Len(q) + 1] = e
    BY AppendProperties, LenProperties
  <1>2. \A i \in 1..Len(Append(q, e)) : i \in 1..Len(q) \/ i = Len(q) + 1
    BY <1>1
  <1>3. Nums(Append(q, e)) \subseteq Nums(q) \cup (IF e = FullSync THEN {} ELSE {e[1]})
    BY <1>1, <1>2 DEF Nums
  <1>4. ASSUME Rising(q), e = FullSync \/ \A x \in Nums(q) : x < e[1],
               NEW i \in 1..Len(Append(q, e)), NEW j \in 1..Len(Append(q, e)), i < j,
               Append(q, e)[i] # FullSync, Append(q, e)[j] # FullSync
        PROVE  Append(q, e)[i][1] < Append(q, e)[j][1]
    <2>1. i \in 1..Len(q)
      BY <1>1, <1>2, <1>4
    <2>2. CASE j \in 1..Len(q)
      <3>1. Append(q, e)[i] = q[i] /\ Append(q, e)[j] = q[j]
        BY <1>1, <2>1, <2>2
      <3>2. QED
        BY <1>4, <2>1, <2>2, <3>1 DEF Rising
    <2>3. CASE j = Len(q) + 1
      <3>1. Append(q, e)[i] = q[i] /\ Append(q, e)[j] = e
        BY <1>1, <2>1, <2>3
      <3>2. q[i][1] \in Nums(q)
        BY <1>4, <2>1, <3>1 DEF Nums
      <3>3. QED
        BY <1>4, <3>1, <3>2
    <2>4. QED
      BY <1>2, <2>2, <2>3
  <1>5. QED
    BY <1>1, <1>3, <1>4 DEF Rising

\* The event at the front leaves a queue.
LEMMA TailQueue ==
    ASSUME NEW S, NEW q \in Seq(S), q # <<>>
    PROVE  /\ Tail(q) \in Seq(S) /\ Head(q) \in S
           /\ Nums(Tail(q)) \subseteq Nums(q)
           /\ Head(q) # FullSync => Head(q)[1] \in Nums(q)
           /\ Rising(q) => Rising(Tail(q))
           /\ Rising(q) /\ Head(q) # FullSync => \A x \in Nums(Tail(q)) : Head(q)[1] < x
  <1>1. /\ Head(q) = q[1] /\ Head(q) \in S /\ 1 \in 1..Len(q) /\ Tail(q) \in Seq(S)
        /\ Len(Tail(q)) \in Nat
        /\ \A k \in 1..Len(Tail(q)) :
              k + 1 \in 1..Len(q) /\ 1 < k + 1 /\ Tail(q)[k] = q[k + 1]
    OBVIOUS
  <1>2. Nums(Tail(q)) \subseteq Nums(q)
    BY <1>1 DEF Nums
  <1>3. Head(q) # FullSync => Head(q)[1] \in Nums(q)
    BY <1>1 DEF Nums
  <1>4. ASSUME Rising(q), NEW i \in 1..Len(Tail(q)), NEW j \in 1..Len(Tail(q)), i < j,
               Tail(q)[i] # FullSync, Tail(q)[j] # FullSync
        PROVE  Tail(q)[i][1] < Tail(q)[j][1]
    <2>1. /\ i + 1 \in 1..Len(q) /\ j + 1 \in 1..Len(q) /\ i + 1 < j + 1
          /\ Tail(q)[i] = q[i + 1] /\ Tail(q)[j] = q[j + 1]
      BY <1>1, <1>4
    <2>2. QED
      BY <1>4, <2>1 DEF Rising
  <1>5. ASSUME Rising(q), Head(q) # FullSync, NEW k \in 1..Len(Tail(q)), Tail(q)[k] # FullSync
        PROVE  Head(q)[1] < Tail(q)[k][1]
    <2>1. k + 1 \in 1..Len(q) /\ 1 < k + 1 /\ Tail(q)[k] = q[k + 1]
      BY <1>1
    <2>2. QED
      BY <1>1, <1>5, <2>1 DEF Rising
  <1>6. Rising(q) /\ Head(q) # FullSync => \A x \in Nums(Tail(q)) : Head(q)[1] < x
    BY <1>5 DEF Nums
  <1>7. QED
    BY <1>1, <1>2, <1>3, <1>4, <1>6 DEF Rising

\* The first events of a queue.
LEMMA PrefixQueue ==
    ASSUME NEW S, NEW q \in Seq(S), NEW n \in 0..Len(q)
    PROVE  /\ SubSeq(q, 1, n) \in Seq(S)
           /\ Nums(SubSeq(q, 1, n)) \subseteq Nums(q)
           /\ Rising(q) => Rising(SubSeq(q, 1, n))
  <1>1. /\ SubSeq(q, 1, n) \in Seq(S) /\ Len(SubSeq(q, 1, n)) = n /\ n \in Nat
        /\ \A k \in 1..n : SubSeq(q, 1, n)[k] = q[k] /\ k \in 1..Len(q)
    <2>1. Len(q) \in Nat /\ n \in Nat /\ n =< Len(q)
      BY LenProperties
    <2>2. \A k \in 1..n : k \in 1..Len(q)
      BY <2>1
    <2>3. /\ SubSeq(q, 1, n) \in Seq(S) /\ Len(SubSeq(q, 1, n)) = n
          /\ \A k \in 1..n : SubSeq(q, 1, n)[k] = q[k]
      <3>1. \A i \in 1..n : q[i] \in S
        BY <2>2, ElementOfSeq
      <3>2. QED
        BY <2>1, <3>1, SubSeqProperties
    <2>4. QED
      BY <2>1, <2>2, <2>3
  <1>2. QED
    BY <1>1 DEF Nums, Rising

\* A broadcast channel that is full forgets its oldest event.
LEMMA BroadcastQueue ==
    ASSUME NEW S, NEW q \in Seq(S), NEW e \in S, e # FullSync, NEW cap \in Nat \ {0},
           Rising(q), \A x \in Nums(q) : x < e[1]
    PROVE  /\ Broadcast(q, cap, e) \in Seq(S)
           /\ Nums(Broadcast(q, cap, e)) \subseteq Nums(q) \cup {e[1]}
           /\ Rising(Broadcast(q, cap, e))
  <1>1. CASE Len(q) < cap
    BY <1>1, AppendQueue DEF Broadcast
  <1>2. CASE ~(Len(q) < cap)
    <2>1. q # <<>>
      BY <1>2, EmptySeq
    <2>2. /\ Tail(q) \in Seq(S) /\ Nums(Tail(q)) \subseteq Nums(q) /\ Rising(Tail(q))
      BY <2>1, TailQueue
    <2>3. QED
      BY <1>2, <2>2, AppendQueue DEF Broadcast
  <1>3. QED
    BY <1>1, <1>2

\* Two queues, one behind the other.
LEMMA ConcatQueue ==
    ASSUME NEW S, NEW p \in Seq(S), NEW q \in Seq(S),
           Rising(p), Rising(q), Below(Nums(p), Nums(q))
    PROVE  /\ p \o q \in Seq(S)
           /\ Nums(p \o q) \subseteq Nums(p) \cup Nums(q)
           /\ Rising(p \o q)
  <1>1. /\ p \o q \in Seq(S) /\ Len(p) \in Nat /\ Len(q) \in Nat
        /\ Len(p \o q) = Len(p) + Len(q)
        /\ \A i \in 1..Len(p) : (p \o q)[i] = p[i]
        /\ \A i \in 1..Len(p \o q) : i > Len(p) => (p \o q)[i] = q[i - Len(p)]
    BY ConcatProperties, LenProperties
  <1>2. \A i \in 1..Len(p \o q) : i \in 1..Len(p) \/ (i > Len(p) /\ i - Len(p) \in 1..Len(q))
    BY <1>1
  <1>3. ASSUME NEW i \in 1..Len(p \o q), (p \o q)[i] # FullSync
        PROVE  (p \o q)[i][1] \in Nums(p) \cup Nums(q)
    <2>1. CASE i \in 1..Len(p)
      BY <1>1, <1>3, <2>1 DEF Nums
    <2>2. CASE i > Len(p) /\ i - Len(p) \in 1..Len(q)
      <3>1. (p \o q)[i] = q[i - Len(p)]
        BY <1>1, <2>2
      <3>2. QED
        BY <1>3, <2>2, <3>1 DEF Nums
    <2>3. QED
      BY <1>2, <2>1, <2>2
  <1>4. ASSUME NEW i \in 1..Len(p \o q), NEW j \in 1..Len(p \o q), i < j,
               (p \o q)[i] # FullSync, (p \o q)[j] # FullSync
        PROVE  (p \o q)[i][1] < (p \o q)[j][1]
    <2>1. CASE j \in 1..Len(p)
      <3>1. i \in 1..Len(p)
        BY <1>1, <1>4, <2>1
      <3>2. (p \o q)[i] = p[i] /\ (p \o q)[j] = p[j]
        BY <1>1, <2>1, <3>1
      <3>3. QED
        BY <1>4, <2>1, <3>1, <3>2 DEF Rising
    <2>2. CASE i \in 1..Len(p) /\ j > Len(p)
      <3>1. (p \o q)[i] = p[i] /\ (p \o q)[j] = q[j - Len(p)] /\ j - Len(p) \in 1..Len(q)
        BY <1>1, <1>2, <2>2
      <3>2. p[i][1] \in Nums(p) /\ q[j - Len(p)][1] \in Nums(q)
        BY <1>4, <2>2, <3>1 DEF Nums
      <3>3. QED
        BY <3>1, <3>2 DEF Below
    <2>3. CASE i > Len(p) /\ j > Len(p)
      <3>1. /\ (p \o q)[i] = q[i - Len(p)] /\ i - Len(p) \in 1..Len(q)
            /\ (p \o q)[j] = q[j - Len(p)] /\ j - Len(p) \in 1..Len(q)
        BY <1>1, <1>2, <2>3
      <3>2. i - Len(p) < j - Len(p)
        BY <1>1, <1>4
      <3>3. QED
        BY <1>4, <3>1, <3>2 DEF Rising
    <2>4. QED
      BY <1>2, <1>4, <2>1, <2>2, <2>3
  <1>5. Nums(p \o q) \subseteq Nums(p) \cup Nums(q)
    BY <1>3 DEF Nums
  <1>6. QED
    BY <1>1, <1>4, <1>5 DEF Rising

\* The front of a queue moves to the end of the queue before it: the order
\* between the two, and to the numbers R behind both, stays.
LEMMA MoveQueue ==
    ASSUME NEW S, NEW p \in Seq(S), NEW q \in Seq(S), q # <<>>, NEW R,
           Rising(p), Rising(q), Below(Nums(p), Nums(q) \cup R), Below(Nums(q), R)
    PROVE  /\ Append(p, Head(q)) \in Seq(S) /\ Tail(q) \in Seq(S)
           /\ Rising(Append(p, Head(q))) /\ Rising(Tail(q))
           /\ Below(Nums(Append(p, Head(q))), Nums(Tail(q)) \cup R)
           /\ Below(Nums(Tail(q)), R)
           /\ Nums(Tail(q)) \subseteq Nums(q)
           /\ Nums(Append(p, Head(q))) \subseteq Nums(p) \cup Nums(q)
  <1>1. /\ Tail(q) \in Seq(S) /\ Head(q) \in S
        /\ Nums(Tail(q)) \subseteq Nums(q)
        /\ Head(q) # FullSync => Head(q)[1] \in Nums(q)
        /\ Rising(Tail(q))
        /\ Head(q) # FullSync => \A x \in Nums(Tail(q)) : Head(q)[1] < x
    BY TailQueue
  <1>2. Head(q) # FullSync => \A x \in Nums(p) : x < Head(q)[1]
    BY <1>1 DEF Below
  <1>3. /\ Append(p, Head(q)) \in Seq(S)
        /\ Nums(Append(p, Head(q))) \subseteq
              Nums(p) \cup (IF Head(q) = FullSync THEN {} ELSE {Head(q)[1]})
        /\ Rising(Append(p, Head(q)))
    BY <1>1, <1>2, AppendQueue
  <1>4. ASSUME NEW x \in Nums(Append(p, Head(q))), NEW y \in Nums(Tail(q)) \cup R
        PROVE  x < y
    <2>1. CASE x \in Nums(p)
      BY <1>1, <1>4, <2>1 DEF Below
    <2>2. CASE Head(q) # FullSync /\ x = Head(q)[1]
      BY <1>1, <1>4, <2>2 DEF Below
    <2>3. QED
      BY <1>3, <2>1, <2>2
  <1>5. QED
    BY <1>1, <1>3, <1>4 DEF Below

\* The same, into a broadcast channel.
LEMMA MoveBroadcast ==
    ASSUME NEW S, NEW T, NEW p \in Seq(S), NEW q \in Seq(T), q # <<>>,
           Head(q) \in S, Head(q) # FullSync, NEW R, NEW cap \in Nat \ {0},
           Rising(p), Rising(q), Below(Nums(p), Nums(q) \cup R), Below(Nums(q), R)
    PROVE  /\ Broadcast(p, cap, Head(q)) \in Seq(S) /\ Tail(q) \in Seq(T)
           /\ Rising(Broadcast(p, cap, Head(q))) /\ Rising(Tail(q))
           /\ Below(Nums(Broadcast(p, cap, Head(q))), Nums(Tail(q)) \cup R)
           /\ Below(Nums(Tail(q)), R)
           /\ Nums(Tail(q)) \subseteq Nums(q)
           /\ Nums(Broadcast(p, cap, Head(q))) \subseteq Nums(p) \cup Nums(q)
  <1>1. /\ Tail(q) \in Seq(T)
        /\ Nums(Tail(q)) \subseteq Nums(q)
        /\ Head(q)[1] \in Nums(q)
        /\ Rising(Tail(q))
        /\ \A x \in Nums(Tail(q)) : Head(q)[1] < x
    BY TailQueue
  <1>2. \A x \in Nums(p) : x < Head(q)[1]
    BY <1>1 DEF Below
  <1>3. /\ Broadcast(p, cap, Head(q)) \in Seq(S)
        /\ Nums(Broadcast(p, cap, Head(q))) \subseteq Nums(p) \cup {Head(q)[1]}
        /\ Rising(Broadcast(p, cap, Head(q)))
    BY <1>2, BroadcastQueue
  <1>4. ASSUME NEW x \in Nums(Broadcast(p, cap, Head(q))), NEW y \in Nums(Tail(q)) \cup R
        PROVE  x < y
    <2>1. CASE x \in Nums(p)
      BY <1>1, <1>4, <2>1 DEF Below
    <2>2. CASE x = Head(q)[1]
      BY <1>1, <1>4, <2>2 DEF Below
    <2>3. QED
      BY <1>3, <2>1, <2>2
  <1>5. QED
    BY <1>1, <1>3, <1>4 DEF Below

\* Smaller sets of numbers keep their order.
LEMMA BelowLess ==
    ASSUME NEW S, NEW T, NEW S1, NEW T1, S1 \subseteq S, T1 \subseteq T, Below(S, T)
    PROVE  Below(S1, T1)
  BY DEF Below

\* The commits that a queue speaks of have happened.
LEMMA NumsPast ==
    ASSUME NEW n \in Nat, NEW q \in Seq(((1..n) \X (0..n)) \cup {FullSync})
    PROVE  Nums(q) \subseteq 1..n
  BY ElementOfSeq DEF Nums

-----------------------------------------------------------------------------
(* The steps.                                                              *)

\* The only writer commits after all that is on its way.
LEMMA CommitStep ==
    ASSUME ConstantsAssumption, OneWriter, StreamInv, NEW w \in Writers, Commit(w)
    PROVE  StreamInv'
  <1> DEFINE n == Len(hist)
  <1>1. unsent[w] = NoEvent /\ n \in Nat \ {0} /\ n - 1 \in Nat
    BY EmptySeq, LenProperties DEF Commit, StreamInv, StreamType
  <1>2. PICK u \in Updates :
            /\ hist' = Append(hist, [k \in Keys |-> IF k \in DOMAIN u THEN u[k] ELSE db[k]])
            /\ unsent' = [unsent EXCEPT ![w] = <<n, 0>>]
    BY DEF Commit
  <1>3. UNCHANGED <<bcast, buffer, chan, wire, sync, last, tx>>
    BY DEF Commit, entry, link, replica
  <1>4. db \in Rows
    <2>1. n \in 1..n
      BY <1>1
    <2>2. QED
      BY <2>1, ElementOfSeq DEF StreamInv, StreamType, db, Last
  <1>5. [k \in Keys |-> IF k \in DOMAIN u THEN u[k] ELSE db[k]] \in Rows
    BY <1>4 DEF Rows, ConstantsAssumption
  <1>6. hist' \in Seq(Rows) /\ Len(hist') = n + 1 /\ hist' # <<>>
    BY <1>1, <1>2, <1>5, AppendProperties DEF StreamInv, StreamType
  <1>7. /\ Changes = (1..(n - 1)) \X (0..(n - 1)) /\ Changes' = (1..n) \X (0..n)
        /\ Changes \subseteq Changes' /\ Messages \subseteq Messages'
        /\ <<n, 0>> \in Changes'
    BY <1>1, <1>6 DEF Changes, Messages
  <1>8. StreamType'
    <2>1. unsent' \in [Writers -> {NoEvent} \cup Changes']
      BY <1>2, <1>7 DEF StreamInv, StreamType
    <2>2. /\ bcast \in Seq(Changes') /\ buffer \in Seq(Changes') /\ sync \in Seq(Changes')
          /\ chan \in Seq(Messages') /\ wire \in Seq(Messages')
      BY <1>7, WiderQueue DEF StreamInv, StreamType
    <2>3. last \in 0..n
      BY <1>1 DEF StreamInv, StreamType
    <2>4. QED
      BY <1>1, <1>3, <1>6, <2>1, <2>2, <2>3 DEF StreamType
  <1>9. /\ Nums(bcast) \subseteq 1..(n - 1) /\ Nums(buffer) \subseteq 1..(n - 1)
        /\ Nums(chan) \subseteq 1..(n - 1) /\ Nums(wire) \subseteq 1..(n - 1)
        /\ Nums(sync) \subseteq 1..(n - 1) /\ last \in 0..(n - 1)
    <2>1. /\ bcast \in Seq(Messages) /\ buffer \in Seq(Messages) /\ sync \in Seq(Messages)
          /\ chan \in Seq(Messages) /\ wire \in Seq(Messages) /\ last \in 0..(n - 1)
      BY WiderQueue DEF StreamInv, StreamType, Messages
    <2>2. QED
      BY <1>1, <1>7, <2>1, NumsPast DEF Messages
  <1>10. Unsent' = {n}
    <2>1. \A v \in Writers : v = w
      BY DEF OneWriter
    <2>2. unsent'[w] = <<n, 0>> /\ <<n, 0>> # NoEvent /\ <<n, 0>>[1] = n
      BY <1>2 DEF StreamInv, StreamType, NoEvent
    <2>3. unsent'[w][1] = n /\ unsent'[w] # NoEvent
      BY <2>2
    <2> HIDE DEF n
    <2>4. QED
      BY <2>1, <2>3, Zenon DEF Unsent
  <1>11. /\ FromBcast' \subseteq FromBcast \cup {n} /\ FromBuffer' \subseteq FromBuffer \cup {n}
         /\ FromChan' \subseteq FromChan \cup {n} /\ FromWire' \subseteq FromWire \cup {n}
         /\ FromSync' \subseteq FromSync \cup {n}
    BY <1>3, <1>10 DEF FromBcast, FromBuffer, FromChan, FromWire, FromSync
  <1>12. /\ Below(Nums(bcast), {n}) /\ Below(Nums(buffer), {n}) /\ Below(Nums(chan), {n})
         /\ Below(Nums(wire), {n}) /\ Below(Nums(sync), {n}) /\ Below({last}, {n})
    BY <1>1, <1>9 DEF Below
  <1>13. StagesInv'
    BY <1>3, <1>10, <1>11, <1>12 DEF StreamInv, StagesInv, Below
  <1>14. NoBypass' /\ RisingInv'
    BY <1>3 DEF StreamInv, NoBypass, RisingInv
  <1>15. QED
    BY <1>8, <1>13, <1>14 DEF StreamInv

\* Reading the changeset gives its event a second number.
LEMMA CollectStep ==
    ASSUME StreamInv, NEW w \in Writers, Collect(w)
    PROVE  StreamInv'
  <1>1. /\ unsent[w] # NoEvent /\ unsent[w] \in Changes
        /\ unsent' = [unsent EXCEPT ![w] = <<unsent[w][1], Len(hist) - 1>>]
        /\ Len(hist) - 1 \in 0..(Len(hist) - 1)
    BY EmptySeq, LenProperties DEF Collect, StreamInv, StreamType
  <1>2. UNCHANGED <<hist, bcast, buffer, chan, wire, sync, last, tx>>
    BY DEF Collect, entry, link, replica
  <1>3. PICK i \in 1..(Len(hist) - 1), j \in 0..(Len(hist) - 1) : unsent[w] = <<i, j>>
    BY <1>1 DEF Changes
  <1>4. unsent' = [unsent EXCEPT ![w] = <<i, Len(hist) - 1>>]
    BY <1>1, <1>3 DEF StreamInv, StreamType
  <1>5. <<i, Len(hist) - 1>> \in Changes /\ <<i, Len(hist) - 1>> # NoEvent
    BY <1>1, <1>3 DEF Changes, NoEvent
  <1>6. unsent' \in [Writers -> {NoEvent} \cup Changes]
    BY <1>4, <1>5 DEF StreamInv, StreamType
  <1>7. \A v \in Writers :
            /\ unsent'[v] # NoEvent <=> unsent[v] # NoEvent
            /\ unsent[v] # NoEvent => unsent'[v][1] = unsent[v][1]
    <2>1. unsent'[w] = <<i, Len(hist) - 1>> /\ <<i, Len(hist) - 1>>[1] = i /\ <<i, j>>[1] = i
      BY <1>4 DEF StreamInv, StreamType
    <2>2. unsent'[w] # NoEvent /\ unsent[w] # NoEvent /\ unsent'[w][1] = unsent[w][1]
      BY <1>1, <1>3, <1>5, <2>1
    <2>3. \A v \in Writers : v # w => unsent'[v] = unsent[v]
      BY <1>1 DEF StreamInv, StreamType
    <2>4. QED
      BY <2>2, <2>3
  <1>8. Unsent' = Unsent
    BY <1>7 DEF Unsent
  <1>9. /\ FromBcast' = FromBcast /\ FromBuffer' = FromBuffer /\ FromChan' = FromChan
        /\ FromWire' = FromWire /\ FromSync' = FromSync
    BY <1>2, <1>8 DEF FromBcast, FromBuffer, FromChan, FromWire, FromSync
  <1>10. StreamType'
    BY <1>2, <1>6 DEF StreamInv, StreamType, Changes, Messages
  <1>11. NoBypass' /\ RisingInv' /\ StagesInv'
    BY <1>2, <1>8, <1>9 DEF StreamInv, NoBypass, RisingInv, StagesInv
  <1>12. QED
    BY <1>10, <1>11 DEF StreamInv

\* The event joins the broadcast channel; nothing is left behind it.
LEMMA SendStep ==
    ASSUME ConstantsAssumption, OneWriter, StreamInv, NEW w \in Writers, Send(w)
    PROVE  StreamInv'
  <1> DEFINE e == unsent[w]
  <1>1. /\ e # NoEvent /\ e \in Changes /\ e # FullSync
        /\ bcast' = Broadcast(bcast, BcastCap, e)
        /\ unsent' = [unsent EXCEPT ![w] = NoEvent]
    <2>1. e # NoEvent /\ e \in Changes
      BY DEF Send, StreamInv, StreamType
    <2>2. e # FullSync
      BY <2>1 DEF Changes, FullSync
    <2>3. QED
      BY <2>1, <2>2 DEF Send
  <1>2. UNCHANGED <<hist, buffer, chan, wire, sync, last, tx>>
    BY DEF Send, entry, link, replica
  <1>3. e[1] \in Unsent /\ Unsent' = {}
    <2>1. \A v \in Writers : unsent'[v] = NoEvent
      BY <1>1 DEF OneWriter, StreamInv, StreamType
    <2>2. QED
      BY <1>1, <2>1 DEF Unsent
  <1>4. /\ bcast' \in Seq(Changes) /\ Rising(bcast')
        /\ Nums(bcast') \subseteq Nums(bcast) \cup {e[1]}
    <2>1. \A x \in Nums(bcast) : x < e[1]
      BY <1>3 DEF StreamInv, StagesInv, Below
    <2>2. bcast \in Seq(Changes) /\ Rising(bcast) /\ BcastCap \in Nat \ {0}
      BY DEF StreamInv, StreamType, RisingInv, ConstantsAssumption
    <2>3. QED
      BY <1>1, <2>1, <2>2, BroadcastQueue
  <1>5. /\ FromBcast' \subseteq FromBcast /\ FromBuffer' \subseteq FromBuffer
        /\ FromChan' \subseteq FromChan /\ FromWire' \subseteq FromWire
        /\ FromSync' \subseteq FromSync
    BY <1>2, <1>3, <1>4 DEF FromBcast, FromBuffer, FromChan, FromWire, FromSync
  <1>6. StreamType'
    <2>1. unsent' \in [Writers -> {NoEvent} \cup Changes]
      BY <1>1 DEF StreamInv, StreamType
    <2>2. QED
      BY <1>2, <1>4, <2>1 DEF StreamInv, StreamType, Changes, Messages
  <1>7. StagesInv'
    BY <1>2, <1>3, <1>5 DEF StreamInv, StagesInv, Below
  <1>8. NoBypass' /\ RisingInv'
    BY <1>2, <1>4 DEF StreamInv, NoBypass, RisingInv
  <1>9. QED
    BY <1>6, <1>7, <1>8 DEF StreamInv

\* A step after which less is on its way keeps the order.
LEMMA LessOnTheWay ==
    ASSUME StreamInv, StreamType', NoBypass', RisingInv', last' = last,
           Unsent' \subseteq Unsent, Nums(bcast') \subseteq Nums(bcast),
           Nums(buffer') \subseteq Nums(buffer), Nums(chan') \subseteq Nums(chan),
           Nums(wire') \subseteq Nums(wire), Nums(sync') \subseteq Nums(sync)
    PROVE  StreamInv'
  <1>1. /\ FromBcast' \subseteq FromBcast /\ FromBuffer' \subseteq FromBuffer
        /\ FromChan' \subseteq FromChan /\ FromWire' \subseteq FromWire
        /\ FromSync' \subseteq FromSync
    BY DEF FromBcast, FromBuffer, FromChan, FromWire, FromSync
  <1>2. StagesInv'
    BY <1>1 DEF StreamInv, StagesInv, Below
  <1>3. QED
    BY <1>2 DEF StreamInv

\* The tracker drops an event: nobody takes it, or its connection is broken.
LEMMA DroppedStep ==
    ASSUME StreamInv, RouteNowhere \/ RouteToOld
    PROVE  StreamInv'
  <1>1. /\ bcast # <<>> /\ bcast' = Tail(bcast)
        /\ UNCHANGED <<hist, unsent, buffer, chan, wire, sync, last, tx>>
    BY DEF RouteNowhere, RouteToOld, Routed, entry, link, replica
  <1>2. bcast' \in Seq(Changes) /\ Nums(bcast') \subseteq Nums(bcast) /\ Rising(bcast')
    BY <1>1, TailQueue DEF StreamInv, StreamType, RisingInv
  <1>3. StreamType'
    BY <1>1, <1>2 DEF StreamInv, StreamType, Changes, Messages
  <1>4. NoBypass' /\ RisingInv'
    BY <1>1, <1>2 DEF StreamInv, NoBypass, RisingInv
  <1>5. Unsent' = Unsent
    BY <1>1 DEF Unsent
  <1>6. QED
    BY <1>1, <1>2, <1>3, <1>4, <1>5, LessOnTheWay

\* While the entry has a sender its buffer is empty, so the event that goes
\* into the channel overtakes none.
LEMMA RouteToChannelStep ==
    ASSUME StreamInv, RouteToChannel
    PROVE  StreamInv'
  <1>1. /\ bcast # <<>> /\ bcast' = Tail(bcast) /\ chan' = Append(chan, Head(bcast))
        /\ tx = "cur"
        /\ UNCHANGED <<hist, unsent, buffer, wire, sync, last, tx>>
    BY DEF RouteToChannel, Routed, entry, replica
  <1>2. buffer = <<>> /\ Nums(buffer) = {}
    BY <1>1, EmptyQueue DEF StreamInv, NoBypass
  <1>3. Unsent' = Unsent
    BY <1>1 DEF Unsent
  <1>4. FromBuffer = Nums(bcast) \cup Unsent /\ FromBuffer' = Nums(bcast') \cup Unsent
    BY <1>1, <1>2, <1>3 DEF FromBuffer, FromBcast
  <1>5. /\ chan' \in Seq(Messages) /\ Rising(chan') /\ Rising(bcast')
        /\ Below(Nums(chan'), Nums(bcast') \cup Unsent) /\ Below(Nums(bcast'), Unsent)
        /\ Nums(bcast') \subseteq Nums(bcast)
        /\ Nums(chan') \subseteq Nums(chan) \cup Nums(bcast)
    <2>1. /\ chan \in Seq(Messages) /\ bcast \in Seq(Messages)
          /\ Rising(chan) /\ Rising(bcast)
      BY WiderQueue DEF StreamInv, StreamType, RisingInv, Messages
    <2>2. Below(Nums(chan), Nums(bcast) \cup Unsent) /\ Below(Nums(bcast), Unsent)
      BY <1>4 DEF StreamInv, StagesInv
    <2>3. QED
      BY <1>1, <2>1, <2>2, MoveQueue
  <1>6. bcast' \in Seq(Changes)
    BY <1>1, TailQueue DEF StreamInv, StreamType
  <1>7. /\ FromBcast' \subseteq FromBcast /\ FromBuffer' \subseteq FromBuffer
        /\ FromChan' \subseteq FromChan /\ FromWire' \subseteq FromWire
        /\ FromSync' \subseteq FromSync
    BY <1>1, <1>2, <1>3, <1>4, <1>5 DEF FromBcast, FromBuffer, FromChan, FromWire, FromSync
  <1>8. StagesInv'
    <2>1. Below(Nums(bcast'), Unsent') /\ Below(Nums(chan'), FromBuffer')
      BY <1>3, <1>4, <1>5
    <2>2. Below(Nums(buffer'), FromBcast')
      BY <1>1, <1>2 DEF Below
    <2>3. /\ Below(Nums(wire'), FromChan') /\ Below(Nums(sync'), FromWire')
          /\ Below({last'}, FromSync')
      BY <1>1, <1>7 DEF StreamInv, StagesInv, Below
    <2>4. QED
      BY <2>1, <2>2, <2>3 DEF StagesInv
  <1>9. StreamType'
    BY <1>1, <1>5, <1>6 DEF StreamInv, StreamType, Changes, Messages
  <1>10. NoBypass' /\ RisingInv'
    BY <1>1, <1>5 DEF StreamInv, NoBypass, RisingInv
  <1>11. QED
    BY <1>8, <1>9, <1>10 DEF StreamInv

\* The event that finds no channel goes to the end of the buffer.
LEMMA RouteFailsStep ==
    ASSUME StreamInv, RouteFails
    PROVE  StreamInv'
  <1>1. /\ bcast # <<>> /\ bcast' = Tail(bcast) /\ buffer' = Append(buffer, Head(bcast))
        /\ tx' = "none"
        /\ UNCHANGED <<hist, unsent, chan, wire, sync, last>>
    BY DEF RouteFails, Routed, GivenUp, Buffered, link, replica
  <1>2. Unsent' = Unsent
    BY <1>1 DEF Unsent
  <1>3. /\ buffer' \in Seq(Changes) /\ bcast' \in Seq(Changes)
        /\ Rising(buffer') /\ Rising(bcast')
        /\ Below(Nums(buffer'), Nums(bcast') \cup Unsent) /\ Below(Nums(bcast'), Unsent)
        /\ Nums(bcast') \subseteq Nums(bcast)
        /\ Nums(buffer') \subseteq Nums(buffer) \cup Nums(bcast)
    <2>1. /\ buffer \in Seq(Changes) /\ bcast \in Seq(Changes)
          /\ Rising(buffer) /\ Rising(bcast)
      BY DEF StreamInv, StreamType, RisingInv
    <2>2. Below(Nums(buffer), Nums(bcast) \cup Unsent) /\ Below(Nums(bcast), Unsent)
      BY DEF StreamInv, StagesInv, FromBcast
    <2>3. QED
      BY <1>1, <2>1, <2>2, MoveQueue
  <1>4. /\ FromBcast' = Nums(bcast') \cup Unsent
        /\ FromBuffer' \subseteq FromBuffer
        /\ FromChan' \subseteq FromChan /\ FromWire' \subseteq FromWire
        /\ FromSync' \subseteq FromSync
    BY <1>1, <1>2, <1>3 DEF FromBcast, FromBuffer, FromChan, FromWire, FromSync
  <1>5. StagesInv'
    <2>1. Below(Nums(bcast'), Unsent') /\ Below(Nums(buffer'), FromBcast')
      BY <1>2, <1>3, <1>4
    <2>2. /\ Below(Nums(chan'), FromBuffer') /\ Below(Nums(wire'), FromChan')
          /\ Below(Nums(sync'), FromWire') /\ Below({last'}, FromSync')
      BY <1>1, <1>4 DEF StreamInv, StagesInv, Below
    <2>3. QED
      BY <2>1, <2>2 DEF StagesInv
  <1>6. StreamType'
    BY <1>1, <1>3 DEF StreamInv, StreamType, Changes, Messages
  <1>7. NoBypass' /\ RisingInv'
    BY <1>1, <1>3 DEF StreamInv, NoBypass, RisingInv
  <1>8. QED
    BY <1>5, <1>6, <1>7 DEF StreamInv

\* The handler moves an event from its channel to the connection.
LEMMA PumpStep ==
    ASSUME StreamInv, Pump
    PROVE  StreamInv'
  <1>1. /\ chan # <<>> /\ chan' = Tail(chan) /\ wire' = Append(wire, Head(chan))
        /\ UNCHANGED <<hist, unsent, bcast, buffer, sync, last, tx>>
    BY DEF Pump, master, entry, replica
  <1>2. Unsent' = Unsent /\ FromBcast' = FromBcast /\ FromBuffer' = FromBuffer
    BY <1>1 DEF Unsent, FromBcast, FromBuffer
  <1>3. /\ wire' \in Seq(Messages) /\ chan' \in Seq(Messages)
        /\ Rising(wire') /\ Rising(chan')
        /\ Below(Nums(wire'), Nums(chan') \cup FromBuffer) /\ Below(Nums(chan'), FromBuffer)
        /\ Nums(chan') \subseteq Nums(chan)
        /\ Nums(wire') \subseteq Nums(wire) \cup Nums(chan)
    <2>1. /\ wire \in Seq(Messages) /\ chan \in Seq(Messages)
          /\ Rising(wire) /\ Rising(chan)
      BY DEF StreamInv, StreamType, RisingInv
    <2>2. Below(Nums(wire), Nums(chan) \cup FromBuffer) /\ Below(Nums(chan), FromBuffer)
      BY DEF StreamInv, StagesInv, FromChan
    <2>3. QED
      BY <1>1, <2>1, <2>2, MoveQueue
  <1>4. /\ FromChan' = Nums(chan') \cup FromBuffer
        /\ FromWire' \subseteq FromWire /\ FromSync' \subseteq FromSync
    BY <1>1, <1>2, <1>3 DEF FromChan, FromWire, FromSync
  <1>5. StagesInv'
    <2>1. Below(Nums(chan'), FromBuffer') /\ Below(Nums(wire'), FromChan')
      BY <1>2, <1>3, <1>4
    <2>2. /\ Below(Nums(bcast'), Unsent') /\ Below(Nums(buffer'), FromBcast')
          /\ Below(Nums(sync'), FromWire') /\ Below({last'}, FromSync')
      BY <1>1, <1>2, <1>4 DEF StreamInv, StagesInv, Below
    <2>3. QED
      BY <2>1, <2>2 DEF StagesInv
  <1>6. StreamType'
    BY <1>1, <1>3 DEF StreamInv, StreamType, Changes, Messages
  <1>7. NoBypass' /\ RisingInv'
    BY <1>1, <1>3 DEF StreamInv, NoBypass, RisingInv
  <1>8. QED
    BY <1>5, <1>6, <1>7 DEF StreamInv

\* The replica's streamer hands an event to the local broadcast.
LEMMA ReceiveStep ==
    ASSUME ConstantsAssumption, StreamInv, Receive
    PROVE  StreamInv'
  <1>1. /\ wire # <<>> /\ Head(wire) # FullSync
        /\ wire' = Tail(wire) /\ sync' = Broadcast(sync, SyncCap, Head(wire))
        /\ UNCHANGED <<hist, unsent, bcast, buffer, chan, last, tx>>
    BY DEF Receive, master, entry
  <1>2. /\ Unsent' = Unsent /\ FromBcast' = FromBcast /\ FromBuffer' = FromBuffer
        /\ FromChan' = FromChan
    BY <1>1 DEF Unsent, FromBcast, FromBuffer, FromChan
  <1>3. /\ sync' \in Seq(Changes) /\ wire' \in Seq(Messages)
        /\ Rising(sync') /\ Rising(wire')
        /\ Below(Nums(sync'), Nums(wire') \cup FromChan) /\ Below(Nums(wire'), FromChan)
        /\ Nums(wire') \subseteq Nums(wire)
        /\ Nums(sync') \subseteq Nums(sync) \cup Nums(wire)
    <2>1. /\ sync \in Seq(Changes) /\ wire \in Seq(Messages)
          /\ Rising(sync) /\ Rising(wire) /\ SyncCap \in Nat \ {0}
      BY DEF StreamInv, StreamType, RisingInv, ConstantsAssumption
    <2>2. Below(Nums(sync), Nums(wire) \cup FromChan) /\ Below(Nums(wire), FromChan)
      BY DEF StreamInv, StagesInv, FromWire
    <2>3. Head(wire) \in Changes
      BY <1>1, <2>1, TailQueue DEF Messages
    <2>4. QED
      BY <1>1, <2>1, <2>2, <2>3, MoveBroadcast
  <1>4. FromWire' = Nums(wire') \cup FromChan /\ FromSync' \subseteq FromSync
    BY <1>1, <1>2, <1>3 DEF FromWire, FromSync
  <1>5. StagesInv'
    <2>1. Below(Nums(wire'), FromChan') /\ Below(Nums(sync'), FromWire')
      BY <1>2, <1>3, <1>4
    <2>2. /\ Below(Nums(bcast'), Unsent') /\ Below(Nums(buffer'), FromBcast')
          /\ Below(Nums(chan'), FromBuffer') /\ Below({last'}, FromSync')
      BY <1>1, <1>2, <1>4 DEF StreamInv, StagesInv, Below
    <2>3. QED
      BY <2>1, <2>2 DEF StagesInv
  <1>6. StreamType'
    BY <1>1, <1>3 DEF StreamInv, StreamType, Changes, Messages
  <1>7. NoBypass' /\ RisingInv'
    BY <1>1, <1>3 DEF StreamInv, NoBypass, RisingInv
  <1>8. QED
    BY <1>5, <1>6, <1>7 DEF StreamInv

\* A connection starts with an empty channel and nothing on the wire; what was
\* buffered goes to one of them, and the buffer is empty.
LEMMA SubscribeStep ==
    ASSUME ConstantsAssumption, StreamInv, Subscribe
    PROVE  StreamInv'
  <1>1. /\ buffer' = <<>> /\ chan' \in {<<>>, Drained}
        /\ \/ chan' = <<>> /\ wire' = buffer
           \/ chan' = <<>> /\ wire' = <<>>
           \/ chan' = Drained /\ wire' = <<>>
        /\ UNCHANGED <<hist, unsent, bcast, sync, last>>
    BY DEF Subscribe, master, replica
  <1>2. /\ buffer \in Seq(Messages) /\ Rising(buffer)
        /\ <<>> \in Seq(Messages) /\ <<>> \in Seq(Changes)
    <2>1. buffer \in Seq(Changes) /\ Changes \subseteq Messages
      BY DEF StreamInv, StreamType, Messages
    <2>2. buffer \in Seq(Messages)
      BY <2>1, WiderQueue
    <2>3. QED
      BY <2>2, EmptySeq DEF StreamInv, RisingInv
  <1>3. /\ Drained \in Seq(Messages) /\ Nums(Drained) \subseteq Nums(buffer)
        /\ Rising(Drained)
    <2>1. Len(buffer) \in Nat /\ ChanCap \in Nat
      BY <1>2, LenProperties DEF ConstantsAssumption
    <2>2. (IF Len(buffer) < ChanCap THEN Len(buffer) ELSE ChanCap) \in 0..Len(buffer)
      BY <2>1
    <2>3. QED
      BY <1>2, <2>2, PrefixQueue DEF Drained
  <1>4. /\ chan' \in Seq(Messages) /\ Rising(chan') /\ wire' \in Seq(Messages) /\ Rising(wire')
        /\ Nums(chan') \subseteq Nums(buffer) /\ Nums(wire') \subseteq Nums(buffer)
        /\ Nums(chan') = {} \/ Nums(wire') = {}
        /\ Nums(buffer') = {} /\ Rising(buffer')
    BY <1>1, <1>2, <1>3, EmptyQueue
  <1>5. Unsent' = Unsent /\ FromBcast' = FromBcast /\ FromBuffer' = FromBcast
    BY <1>1, <1>4 DEF Unsent, FromBcast, FromBuffer
  <1>6. /\ FromChan' = Nums(chan') \cup FromBcast
        /\ FromWire' \subseteq FromWire /\ FromSync' \subseteq FromSync
    BY <1>1, <1>4, <1>5 DEF FromChan, FromWire, FromSync, FromBuffer
  <1>7. StagesInv'
    <2>1. Below(Nums(bcast'), Unsent') /\ Below(Nums(buffer'), FromBcast')
      BY <1>1, <1>4, <1>5 DEF StreamInv, StagesInv, Below
    <2>2. Below(Nums(chan'), FromBuffer')
      BY <1>4, <1>5 DEF StreamInv, StagesInv, Below
    <2>3. Below(Nums(wire'), FromChan')
      BY <1>4, <1>6 DEF StreamInv, StagesInv, Below
    <2>4. Below(Nums(sync'), FromWire') /\ Below({last'}, FromSync')
      BY <1>1, <1>6 DEF StreamInv, StagesInv, Below
    <2>5. QED
      BY <2>1, <2>2, <2>3, <2>4 DEF StagesInv
  <1>8. StreamType'
    BY <1>1, <1>2, <1>4 DEF StreamInv, StreamType, Changes, Messages
  <1>9. NoBypass' /\ RisingInv'
    BY <1>1, <1>4 DEF StreamInv, NoBypass, RisingInv
  <1>10. QED
    BY <1>7, <1>8, <1>9 DEF StreamInv

\* FULL_SYNC_REQUIRED carries no commit.
LEMMA SendFullSyncStep ==
    ASSUME StreamInv, SendFullSync
    PROVE  StreamInv'
  <1>1. /\ UNCHANGED <<hist, unsent, bcast, buffer, sync, last, tx>>
        /\ chan' = chan \/ chan' = Append(chan, FullSync)
        /\ wire' = wire \/ wire' = Append(wire, FullSync)
    BY DEF SendFullSync, master, replica
  <1>2. FullSync \in Messages
    BY DEF Messages
  <1>3. ASSUME NEW q \in Seq(Messages), Rising(q)
        PROVE  /\ Append(q, FullSync) \in Seq(Messages)
               /\ Nums(Append(q, FullSync)) \subseteq Nums(q) /\ Rising(Append(q, FullSync))
    BY <1>2, <1>3, AppendQueue
  <1>4. /\ chan' \in Seq(Messages) /\ Nums(chan') \subseteq Nums(chan) /\ Rising(chan')
        /\ wire' \in Seq(Messages) /\ Nums(wire') \subseteq Nums(wire) /\ Rising(wire')
    BY <1>1, <1>3 DEF StreamInv, StreamType, RisingInv
  <1>5. StreamType'
    BY <1>1, <1>4 DEF StreamInv, StreamType, Changes, Messages
  <1>6. NoBypass' /\ RisingInv'
    BY <1>1, <1>4 DEF StreamInv, NoBypass, RisingInv
  <1>7. Unsent' = Unsent
    BY <1>1 DEF Unsent
  <1>8. QED
    BY <1>1, <1>4, <1>5, <1>6, <1>7, LessOnTheWay

\* The snapshot takes FULL_SYNC_REQUIRED off the wire, and nothing else moves.
LEMMA SnapshotStep ==
    ASSUME StreamInv, SnapshotRead \/ SnapshotInstall \/ SnapshotFails
    PROVE  StreamInv'
  <1>1. /\ UNCHANGED <<hist, unsent, bcast, buffer, chan, sync, last, tx>>
        /\ wire' = wire \/ (wire # <<>> /\ wire' = Tail(wire))
    BY DEF SnapshotRead, SnapshotInstall, SnapshotFails, master, entry, link
  <1>2. wire' \in Seq(Messages) /\ Nums(wire') \subseteq Nums(wire) /\ Rising(wire')
    <2>1. wire \in Seq(Messages) /\ Rising(wire)
      BY DEF StreamInv, StreamType, RisingInv
    <2>2. wire # <<>> =>
             /\ Tail(wire) \in Seq(Messages) /\ Nums(Tail(wire)) \subseteq Nums(wire)
             /\ Rising(Tail(wire))
      BY <2>1, TailQueue
    <2>3. QED
      BY <1>1, <2>1, <2>2
  <1>3. StreamType'
    BY <1>1, <1>2 DEF StreamInv, StreamType, Changes, Messages
  <1>4. NoBypass' /\ RisingInv'
    BY <1>1, <1>2 DEF StreamInv, NoBypass, RisingInv
  <1>5. Unsent' = Unsent
    BY <1>1 DEF Unsent
  <1>6. QED
    BY <1>1, <1>2, <1>3, <1>4, <1>5, LessOnTheWay

\* The replica applies the first of the events; all others are later.
LEMMA ApplyStep ==
    ASSUME StreamInv, Apply
    PROVE  StreamInv'
  <1>1. /\ sync # <<>> /\ sync' = Tail(sync) /\ last' = Head(sync)[1]
        /\ UNCHANGED <<hist, unsent, bcast, buffer, chan, wire, tx>>
    BY DEF Apply, master, entry, link
  <1>2. /\ Head(sync) \in Changes /\ Head(sync) # FullSync
        /\ sync' \in Seq(Changes) /\ Rising(sync') /\ Nums(sync') \subseteq Nums(sync)
        /\ Head(sync)[1] \in Nums(sync)
        /\ \A x \in Nums(sync') : Head(sync)[1] < x
    <2>1. sync \in Seq(Changes) /\ Rising(sync)
      BY DEF StreamInv, StreamType, RisingInv
    <2>2. Head(sync) \in Changes
      BY <1>1, <2>1, TailQueue
    <2>3. Head(sync) # FullSync
      BY <2>2 DEF Changes, FullSync
    <2>4. QED
      BY <1>1, <2>1, <2>2, <2>3, TailQueue
  <1>3. last' \in 0..(Len(hist) - 1)
    BY <1>1, <1>2 DEF Changes
  <1>4. /\ Unsent' = Unsent /\ FromBcast' = FromBcast /\ FromBuffer' = FromBuffer
        /\ FromChan' = FromChan /\ FromWire' = FromWire
    BY <1>1 DEF Unsent, FromBcast, FromBuffer, FromChan, FromWire
  <1>5. StagesInv'
    <2>1. Below({last'}, FromSync')
      BY <1>1, <1>2, <1>4 DEF StreamInv, StagesInv, FromSync, Below
    <2>2. /\ Below(Nums(bcast'), Unsent') /\ Below(Nums(buffer'), FromBcast')
          /\ Below(Nums(chan'), FromBuffer') /\ Below(Nums(wire'), FromChan')
          /\ Below(Nums(sync'), FromWire')
      BY <1>1, <1>2, <1>4 DEF StreamInv, StagesInv, Below
    <2>3. QED
      BY <2>1, <2>2 DEF StagesInv
  <1>6. StreamType'
    BY <1>1, <1>2, <1>3 DEF StreamInv, StreamType, Changes, Messages
  <1>7. NoBypass' /\ RisingInv'
    BY <1>1, <1>2 DEF StreamInv, NoBypass, RisingInv
  <1>8. QED
    BY <1>5, <1>6, <1>7 DEF StreamInv

\* A connection that breaks, a process that dies and an entry that is dropped
\* lose events and bring none.
LEMMA LossStep ==
    ASSUME StreamInv, Expire \/ Disconnect \/ OldEnds \/ Restart \/ Reboot
    PROVE  StreamInv'
  <1>1. /\ UNCHANGED <<hist, last>>
        /\ unsent' = unsent \/ unsent' = [w \in Writers |-> NoEvent]
        /\ bcast' \in {bcast, <<>>} /\ buffer' \in {buffer, <<>>}
        /\ chan' \in {chan, <<>>} /\ wire' \in {wire, <<>>} /\ sync' \in {sync, <<>>}
        /\ tx = "none" => tx' = "none"
    BY DEF Expire, Disconnect, OldEnds, Restart, Reboot, master, entry, link, replica
  <1>2. <<>> \in Seq(Changes) /\ <<>> \in Seq(Messages)
    BY EmptySeq
  <1>3. /\ Nums(bcast') \subseteq Nums(bcast) /\ Nums(buffer') \subseteq Nums(buffer)
        /\ Nums(chan') \subseteq Nums(chan) /\ Nums(wire') \subseteq Nums(wire)
        /\ Nums(sync') \subseteq Nums(sync)
    BY <1>1, EmptyQueue
  <1>4. Unsent' \subseteq Unsent
    <2>1. CASE unsent' = unsent
      BY <2>1 DEF Unsent
    <2>2. CASE unsent' = [w \in Writers |-> NoEvent]
      BY <2>2 DEF Unsent
    <2>3. QED
      BY <1>1, <2>1, <2>2
  <1>5. StreamType'
    <2>1. unsent' \in [Writers -> {NoEvent} \cup Changes]
      BY <1>1 DEF StreamInv, StreamType
    <2>2. QED
      BY <1>1, <1>2, <2>1 DEF StreamInv, StreamType, Changes, Messages
  <1>6. RisingInv'
    BY <1>1, EmptyQueue DEF StreamInv, RisingInv
  <1>7. NoBypass'
    BY <1>1 DEF StreamInv, NoBypass
  <1>8. QED
    BY <1>1, <1>3, <1>4, <1>5, <1>6, <1>7, LessOnTheWay

\* The queues of the start are empty.
LEMMA StreamStart ==
    ASSUME ConstantsAssumption, Init
    PROVE  StreamInv
  <1>1. /\ hist = <<Start>> /\ Start \in Rows /\ unsent = [w \in Writers |-> NoEvent]
        /\ bcast = <<>> /\ buffer = <<>> /\ chan = <<>> /\ wire = <<>> /\ sync = <<>>
        /\ last = 0
    BY DEF Init, ConstantsAssumption
  <1>2. hist \in Seq(Rows) /\ hist # <<>> /\ Len(hist) = 1
    BY <1>1
  <1>3. StreamType
    BY <1>1, <1>2, EmptySeq DEF StreamType
  <1>4. Unsent = {} /\ Nums(<<>>) = {} /\ Rising(<<>>)
    BY <1>1, EmptyQueue DEF Unsent
  <1>5. FromSync = {}
    BY <1>1, <1>4 DEF FromSync, FromWire, FromChan, FromBuffer, FromBcast
  <1>6. StagesInv /\ RisingInv /\ NoBypass
    BY <1>1, <1>4, <1>5 DEF StagesInv, RisingInv, NoBypass, Below
  <1>7. QED
    BY <1>3, <1>6 DEF StreamInv

\* Steps that touch no queue.
LEMMA StreamStays ==
    ASSUME StreamInv,
           UNCHANGED <<hist, unsent, bcast, buffer, chan, wire, sync, last, tx>>
    PROVE  StreamInv'
  <1>1. StreamType' /\ NoBypass' /\ RisingInv'
    BY DEF StreamInv, StreamType, Changes, Messages, NoBypass, RisingInv
  <1>2. Unsent' = Unsent
    BY DEF Unsent
  <1>3. QED
    BY <1>1, <1>2, LessOnTheWay

\* A subscription on a live WebSocket is sent what the entry holds back, which
\* is nothing.
LEMMA ResubscribeStep ==
    ASSUME StreamInv, Resubscribe, buffer = <<>>, tx = "cur"
    PROVE  StreamInv'
  <1>1. wire \in Seq(Messages) /\ wire \o <<>> = wire
    BY ConcatEmptySeq DEF StreamInv, StreamType
  <1>2. UNCHANGED <<hist, unsent, bcast, buffer, chan, wire, sync, last, tx>>
    BY <1>1 DEF Resubscribe, master, replica
  <1>3. QED
    BY <1>2, StreamStays

\* Every step keeps the order of what is on its way.
LEMMA StreamStep ==
    ASSUME ConstantsAssumption, OneWriter, Resubscribe => buffer = <<>> /\ tx = "cur",
           StreamInv, [Next]_vars
    PROVE  StreamInv'
  <1>1. ASSUME NEW w \in Writers, Commit(w) \/ Collect(w) \/ Send(w)
        PROVE  StreamInv'
    BY <1>1, CommitStep, CollectStep, SendStep
  <1>2. CASE Tracker
    BY <1>2, DroppedStep, RouteToChannelStep, RouteFailsStep DEF Tracker
  <1>3. CASE Handler
    BY <1>3, SendFullSyncStep, PumpStep DEF Handler
  <1>4. CASE Streamer
    BY <1>4, SubscribeStep, ReceiveStep, SnapshotStep DEF Streamer
  <1>5. CASE Apply
    BY <1>5, ApplyStep
  <1>6. CASE Environment
    BY <1>6, LossStep, SnapshotStep, ResubscribeStep DEF Environment
  <1>7. CASE UNCHANGED vars
    BY <1>7, StreamStays DEF vars, master, entry, link, replica
  <1>8. QED
    BY <1>1, <1>2, <1>3, <1>4, <1>5, <1>6, <1>7 DEF Next

\* The order within each queue and between the queues is that of all together.
LEMMA AllInOrder ==
    ASSUME StreamInv
    PROVE  InOrder
  <1>1. /\ sync \in Seq(Messages) /\ wire \in Seq(Messages) /\ chan \in Seq(Messages)
        /\ buffer \in Seq(Messages) /\ bcast \in Seq(Messages)
    BY WiderQueue DEF StreamInv, StreamType, Messages
  <1>2. /\ Rising(sync) /\ Rising(wire) /\ Rising(chan) /\ Rising(buffer) /\ Rising(bcast)
    BY DEF StreamInv, RisingInv
  <1>3. /\ Below(Nums(sync), Nums(wire)) /\ Below(Nums(sync), Nums(chan))
        /\ Below(Nums(sync), Nums(buffer)) /\ Below(Nums(sync), Nums(bcast))
        /\ Below(Nums(wire), Nums(chan)) /\ Below(Nums(wire), Nums(buffer))
        /\ Below(Nums(wire), Nums(bcast)) /\ Below(Nums(chan), Nums(buffer))
        /\ Below(Nums(chan), Nums(bcast)) /\ Below(Nums(buffer), Nums(bcast))
    BY DEF StreamInv, StagesInv, Below, FromWire, FromChan, FromBuffer, FromBcast
  <1>4. /\ \A x \in Nums(sync) \cup Nums(wire) \cup Nums(chan) \cup Nums(buffer) \cup Nums(bcast) :
              last < x
    BY DEF StreamInv, StagesInv, Below, FromSync, FromWire, FromChan, FromBuffer, FromBcast
  <1> DEFINE two == sync \o wire
             three == two \o chan
             four == three \o buffer
             five == four \o bcast
  <1>5. two \in Seq(Messages) /\ Rising(two) /\ Nums(two) \subseteq Nums(sync) \cup Nums(wire)
    BY <1>1, <1>2, <1>3, ConcatQueue
  <1>6. InFlight = five
    BY DEF InFlight
  <1> HIDE DEF two
  <1>7. /\ three \in Seq(Messages) /\ Rising(three)
        /\ Nums(three) \subseteq Nums(sync) \cup Nums(wire) \cup Nums(chan)
    <2>1. Below(Nums(two), Nums(chan))
      BY <1>3, <1>5 DEF Below
    <2>2. QED
      BY <1>1, <1>2, <1>5, <2>1, ConcatQueue
  <1> HIDE DEF three
  <1>8. /\ four \in Seq(Messages) /\ Rising(four)
        /\ Nums(four) \subseteq Nums(sync) \cup Nums(wire) \cup Nums(chan) \cup Nums(buffer)
    <2>1. Below(Nums(three), Nums(buffer))
      BY <1>3, <1>7 DEF Below
    <2>2. QED
      BY <1>1, <1>2, <1>7, <2>1, ConcatQueue
  <1> HIDE DEF four
  <1>9. /\ five \in Seq(Messages) /\ Rising(five)
        /\ Nums(five) \subseteq
              Nums(sync) \cup Nums(wire) \cup Nums(chan) \cup Nums(buffer) \cup Nums(bcast)
    <2>1. Below(Nums(four), Nums(bcast))
      BY <1>3, <1>8 DEF Below
    <2>2. QED
      BY <1>1, <1>2, <1>8, <2>1, ConcatQueue
  <1> HIDE DEF five
  <1>10. DOMAIN five = 1..Len(five)
    BY <1>9, LenProperties
  <1>11. \A i \in DOMAIN five : five[i] # FullSync => last < five[i][1]
    BY <1>4, <1>9, <1>10 DEF Nums
  <1>12. \A i, j \in DOMAIN five :
            i < j /\ five[i] # FullSync /\ five[j] # FullSync => five[i][1] < five[j][1]
    BY <1>9, <1>10 DEF Rising
  <1>13. QED
    BY <1>6, <1>11, <1>12 DEF InOrder

\* AppliedInOrder: whatever connections break, channels overflow and processes
\* start again, the replica applies the commits of the write manager in their
\* order and none twice (tracker.rs:72-118, grpc_server.rs:160-230,
\* ws_streamer.rs:90-173, lib.rs:460-500).
THEOREM AppliedInOrder ==
    ASSUME Undisturbed
    PROVE  Spec => []OrderKept
  <1>1. Init => StreamInv
    BY ConstantsAssumption, StreamStart
  <1>2. StreamInv /\ [Next]_vars => StreamInv'
    BY ConstantsAssumption, StreamStep DEF Undisturbed, Resubscribe
  <1>3. StreamInv => OrderKept
    BY AllInOrder DEF OrderKept, StreamInv
  <1>4. QED
    BY <1>1, <1>2, <1>3, PTL DEF Spec

-----------------------------------------------------------------------------
(* The types, whatever breaks and whoever writes.                           *)

\* LimitsInv: no channel holds more than its capacity.
LimitsInv ==
    /\ Len(hist) =< MaxCommits + 1
    /\ Len(bcast) =< BcastCap /\ Len(chan) =< ChanCap /\ Len(sync) =< SyncCap

\* EntryInv: every handler that has not noticed its end had a connection of its
\* own, and the connection that is alive is not one of theirs.
EntryInv ==
    /\ known \in BOOLEAN /\ scoped \in BOOLEAN /\ owed \in BOOLEAN
    /\ up \in BOOLEAN /\ ws \in BOOLEAN
    /\ row \in {"none", "other", "scoped"} /\ tx \in {"none", "old", "cur"}
    /\ conns \in 0..MaxConns /\ stale \in Nat
    /\ stale + (IF up THEN 1 ELSE 0) =< conns

\* FileInv: the replica has rows of its own or those of a snapshot.
FileInv == rdb \in Rows /\ copy \in Rows \cup {Nowhere} /\ snap \in 0..(Len(hist) - 1)

TypeInv == StreamType /\ LimitsInv /\ EntryInv /\ FileInv

\* The number of the last commit, and the rows it led to.
LEMMA LastCommit ==
    ASSUME StreamType
    PROVE  Len(hist) \in Nat \ {0} /\ Len(hist) - 1 \in Nat /\ db \in Rows
  <1>1. hist \in Seq(Rows) /\ hist # <<>>
    BY DEF StreamType
  <1>2. Len(hist) \in Nat \ {0}
    BY <1>1, EmptySeq, LenProperties
  <1>3. Len(hist) \in 1..Len(hist)
    BY <1>2
  <1>4. hist[Len(hist)] \in Rows
    BY <1>1, <1>3, ElementOfSeq
  <1>5. QED
    BY <1>2, <1>4 DEF db, Last

\* A queue with one event more, with one less, and a part of one.
LEMMA QueueTypes ==
    ASSUME NEW S, NEW q \in Seq(S)
    PROVE  /\ Len(q) \in Nat
           /\ \A e \in S : Append(q, e) \in Seq(S) /\ Len(Append(q, e)) = Len(q) + 1
           /\ q # <<>> => /\ Head(q) \in S /\ Tail(q) \in Seq(S)
                          /\ Len(q) # 0 /\ Len(Tail(q)) = Len(q) - 1
           /\ \A e \in S : \A cap \in Nat \ {0} : Len(q) =< cap =>
                 Broadcast(q, cap, e) \in Seq(S) /\ Len(Broadcast(q, cap, e)) =< cap
  <1>1. Len(q) \in Nat /\ (Len(q) = 0 => q = <<>>)
    BY EmptySeq, LenProperties
  <1>2. ASSUME NEW r \in Seq(S), NEW e \in S
        PROVE  Append(r, e) \in Seq(S) /\ Len(Append(r, e)) = Len(r) + 1
    BY <1>2, AppendProperties
  <1>3. ASSUME q # <<>>
        PROVE  /\ Head(q) \in S /\ Tail(q) \in Seq(S)
               /\ Len(q) # 0 /\ Len(Tail(q)) = Len(q) - 1
    BY <1>1, <1>3, HeadTailProperties
  <1>4. ASSUME NEW e \in S, NEW cap \in Nat \ {0}, Len(q) =< cap
        PROVE  Broadcast(q, cap, e) \in Seq(S) /\ Len(Broadcast(q, cap, e)) =< cap
    <2>1. CASE Len(q) < cap
      BY <1>1, <1>2, <1>4, <2>1 DEF Broadcast
    <2>2. CASE ~(Len(q) < cap)
      <3>1. q # <<>> /\ Len(q) = cap
        BY <1>1, <1>4, <2>2, EmptySeq
      <3>2. Tail(q) \in Seq(S) /\ Len(Tail(q)) = Len(q) - 1
        BY <1>3, <3>1
      <3>3. Append(Tail(q), e) \in Seq(S) /\ Len(Append(Tail(q), e)) = Len(Tail(q)) + 1
        BY <1>2, <3>2
      <3>4. QED
        BY <1>1, <2>2, <3>1, <3>2, <3>3 DEF Broadcast
    <2>3. QED
      BY <2>1, <2>2
  <1>5. QED
    BY <1>1, <1>2, <1>3, <1>4

\* Steps that commit nothing keep the types of the events.
LEMMA SameEvents ==
    ASSUME UNCHANGED hist
    PROVE  Changes' = Changes /\ Messages' = Messages /\ Len(hist') = Len(hist)
  BY DEF Changes, Messages

\* The entry of the tracker and the connection, at every step.
LEMMA EntryTypes ==
    ASSUME ConstantsAssumption, EntryInv, [Next]_vars
    PROVE  EntryInv'
  <1>1. /\ conns \in Nat /\ MaxConns \in Nat /\ conns =< MaxConns /\ stale \in Nat
        /\ up \in BOOLEAN /\ (up => stale + 1 =< conns) /\ (~up => stale =< conns)
    BY DEF EntryInv, ConstantsAssumption
  <1>2. ASSUME UNCHANGED <<conns, up, stale>>
        PROVE  /\ conns' \in 0..MaxConns /\ stale' \in Nat /\ up' \in BOOLEAN
               /\ stale' + (IF up' THEN 1 ELSE 0) =< conns'
    BY <1>2 DEF EntryInv
  <1>3. ASSUME NEW w \in Writers, Commit(w) \/ Collect(w) \/ Send(w)
        PROVE  EntryInv'
    BY <1>3 DEF Commit, Collect, Send, entry, link, EntryInv
  <1>4. CASE Tracker
    <2>1. UNCHANGED <<conns, up, ws, stale, owed, row, known, scoped>> /\ tx' \in {tx, "none"}
      BY <1>4 DEF Tracker, RouteNowhere, RouteToChannel, RouteToOld, RouteFails, GivenUp,
                  entry, link
    <2>2. QED
      BY <1>2, <2>1 DEF EntryInv
  <1>5. CASE Handler \/ Receive \/ SnapshotRead \/ SnapshotInstall \/ SnapshotFails \/ Apply
    <2>1. /\ UNCHANGED <<conns, up, ws, stale, row, known, scoped, tx>>
          /\ owed' \in {owed, FALSE}
      BY <1>5 DEF Handler, SendFullSync, Pump, Receive, SnapshotRead, SnapshotInstall,
                  SnapshotFails, Apply, entry, link
    <2>2. QED
      BY <1>2, <2>1 DEF EntryInv
  <1>6. CASE Subscribe
    <2>1. /\ ~up /\ conns < MaxConns /\ conns' = conns + 1 /\ up' = TRUE /\ stale' = stale
          /\ ws' \in {ws, TRUE} /\ row' = "scoped" /\ known' = TRUE /\ scoped' = TRUE
          /\ owed' \in BOOLEAN /\ tx' = "cur"
      BY <1>6 DEF Subscribe, NewTx
    <2>2. conns' \in 0..MaxConns /\ stale' + 1 =< conns'
      BY <1>1, <2>1
    <2>3. QED
      BY <2>1, <2>2 DEF EntryInv
  <1>7. CASE Disconnect \/ Reboot
    <2>1. /\ up' = FALSE /\ conns' = conns /\ stale' = IF up THEN stale + 1 ELSE stale
          /\ ws' \in BOOLEAN /\ tx' \in {"none", "old", "cur"} /\ owed' = FALSE
          /\ UNCHANGED <<known, row, scoped>>
      BY <1>7 DEF Disconnect, Reboot, EntryInv
    <2>2. /\ stale' \in Nat /\ stale' + (IF up' THEN 1 ELSE 0) =< conns'
          /\ conns' \in 0..MaxConns
      BY <1>1, <2>1
    <2>3. QED
      BY <2>1, <2>2 DEF EntryInv
  <1>8. CASE OldEnds
    <2>1. /\ stale > 0 /\ stale' = stale - 1 /\ tx' \in {"none", tx}
          /\ UNCHANGED <<conns, up, ws, known, row, scoped, owed>>
      BY <1>8 DEF OldEnds, link
    <2>2. stale' \in Nat /\ stale' + (IF up' THEN 1 ELSE 0) =< conns'
      BY <1>1, <2>1
    <2>3. QED
      BY <2>1, <2>2 DEF EntryInv
  <1>9. CASE Restart
    <2>1. /\ up' = FALSE /\ stale' = 0 /\ conns' = conns /\ tx' = "none" /\ owed' = FALSE
          /\ ws' \in BOOLEAN /\ known' \in BOOLEAN /\ scoped' \in BOOLEAN /\ row' = row
      BY <1>9 DEF Restart, EntryInv
    <2>2. /\ stale' \in Nat /\ stale' + (IF up' THEN 1 ELSE 0) =< conns'
          /\ conns' \in 0..MaxConns
      BY <1>1, <2>1
    <2>3. QED
      BY <2>1, <2>2 DEF EntryInv
  <1>10. CASE Expire \/ Resubscribe
    <2>1. /\ UNCHANGED <<conns, up, ws, stale, owed>>
          /\ known' \in {known, FALSE} /\ scoped' \in {scoped, FALSE}
          /\ row' \in {row, "other"} /\ tx' \in {tx, "cur"}
      BY <1>10 DEF Expire, Resubscribe, link
    <2>2. QED
      BY <1>2, <2>1 DEF EntryInv
  <1>11. CASE UNCHANGED vars
    BY <1>11 DEF vars, entry, link, EntryInv
  <1>12. QED
    BY <1>3, <1>4, <1>5, <1>6, <1>7, <1>8, <1>9, <1>10, <1>11
       DEF Next, Handler, Streamer, Environment

\* The replica's file, at every step.
LEMMA FileTypes ==
    ASSUME ConstantsAssumption, StreamType, FileInv, [Next]_vars
    PROVE  FileInv'
  <1>1. Len(hist) \in Nat \ {0} /\ db \in Rows /\ hist \in Seq(Rows)
    BY LastCommit DEF StreamType
  <1>2. ASSUME NEW w \in Writers, Commit(w)
        PROVE  FileInv'
    <2>1. \E new : hist' = Append(hist, new)
      BY <1>2 DEF Commit
    <2>2. Len(hist') = Len(hist) + 1
      BY <1>1, <2>1, AppendProperties
    <2>3. UNCHANGED <<rdb, copy, snap>>
      BY <1>2 DEF Commit, replica
    <2>4. snap \in 0..(Len(hist') - 1)
      BY <1>1, <2>2 DEF FileInv
    <2>5. QED
      BY <2>3, <2>4 DEF FileInv
  <1>3. ASSUME NEW w \in Writers, Collect(w) \/ Send(w)
        PROVE  FileInv'
    BY <1>3 DEF Collect, Send, replica, FileInv
  <1>4. CASE Tracker \/ Handler
    BY <1>4 DEF Tracker, RouteNowhere, RouteToChannel, RouteToOld, RouteFails,
                Handler, SendFullSync, Pump, master, replica, FileInv
  <1>5. CASE Subscribe \/ Receive
    BY <1>5 DEF Subscribe, Receive, master, replica, FileInv
  <1>6. CASE SnapshotRead
    <2>1. /\ copy' \in {db, Nowhere} /\ snap' = Len(hist) - 1 /\ UNCHANGED <<hist, rdb>>
      BY <1>6 DEF SnapshotRead, master
    <2>2. Len(hist) - 1 \in 0..(Len(hist) - 1)
      BY <1>1
    <2>3. QED
      BY <1>1, <2>1, <2>2 DEF FileInv
  <1>7. CASE SnapshotInstall \/ SnapshotFails
    BY <1>7 DEF SnapshotInstall, SnapshotFails, master, FileInv
  <1>8. CASE Apply
    <2>1. /\ sync # <<>> /\ rdb' = ApplyStrm(rdb, ChangesetOf(Head(sync)))
          /\ UNCHANGED <<hist, copy, snap>>
      BY <1>8 DEF Apply, master
    <2>2. Head(sync) \in Changes
      BY <2>1, QueueTypes DEF StreamType
    <2>3. PICK i \in 1..(Len(hist) - 1), j \in 0..(Len(hist) - 1) : Head(sync) = <<i, j>>
      BY <2>2 DEF Changes
    <2>4. i \in 1..Len(hist) /\ i + 1 \in 1..Len(hist) /\ j + 1 \in 1..Len(hist)
      BY <1>1, <2>3
    <2>5. hist[i] \in Rows /\ hist[i + 1] \in Rows /\ hist[j + 1] \in Rows
      BY <1>1, <2>4, ElementOfSeq
    <2>6. ApplyStrm(rdb, ChangesetOf(Head(sync))) \in Rows
      <3> DEFINE new == [k \in Keys |-> IF hist[i + 1][k] # hist[i][k] THEN hist[j + 1][k]
                                                                       ELSE hist[i][k]]
                 cs == Diff(hist[i], new)
      <3>1. new \in Rows
        BY <2>5 DEF Rows
      <3>2. \A k \in DOMAIN cs : k \in Keys /\ cs[k].new = new[k]
        BY DEF Diff
      <3>3. ChangesetOf(Head(sync)) = cs
        BY <2>3 DEF ChangesetOf
      <3>4. rdb \in Rows
        BY DEF FileInv
      <3> HIDE DEF new, cs
      <3>5. [k \in Keys |-> IF k \in DOMAIN cs THEN cs[k].new ELSE rdb[k]] \in Rows
        BY <3>1, <3>2, <3>4 DEF Rows
      <3>6. QED
        BY <3>3, <3>4, <3>5 DEF ApplyStrm
    <2>7. QED
      BY <2>1, <2>6 DEF FileInv
  <1>9. CASE Environment \/ UNCHANGED vars
    BY <1>7, <1>9 DEF Environment, Expire, Resubscribe, Disconnect, OldEnds, Restart, Reboot,
                      vars, master, replica, FileInv
  <1>10. QED
    BY <1>2, <1>3, <1>4, <1>5, <1>6, <1>7, <1>8, <1>9 DEF Next, Streamer

\* QueueInv: what is said of the queues, in terms of one set of events.
QueueInv == StreamType /\ LimitsInv

\* The writers: a commit makes more events possible, the others pass one on.
LEMMA WriterTypes ==
    ASSUME ConstantsAssumption, QueueInv, NEW w \in Writers, Commit(w) \/ Collect(w) \/ Send(w)
    PROVE  QueueInv'
  <1> DEFINE n == Len(hist)
  <1>1. n \in Nat \ {0} /\ db \in Rows /\ hist \in Seq(Rows) /\ MaxCommits \in Nat
    BY LastCommit DEF QueueInv, StreamType, ConstantsAssumption
  <1>2. /\ unsent \in [Writers -> {NoEvent} \cup Changes]
        /\ bcast \in Seq(Changes) /\ buffer \in Seq(Changes) /\ sync \in Seq(Changes)
        /\ chan \in Seq(Messages) /\ wire \in Seq(Messages) /\ last \in 0..(n - 1)
    BY DEF QueueInv, StreamType
  <1>3. CASE Commit(w)
    <2>1. PICK u \in Updates :
              /\ hist' = Append(hist, [k \in Keys |-> IF k \in DOMAIN u THEN u[k] ELSE db[k]])
              /\ unsent' = [unsent EXCEPT ![w] = <<n, 0>>]
      BY <1>3 DEF Commit
    <2>2. UNCHANGED <<bcast, buffer, chan, wire, sync, last>> /\ n =< MaxCommits
      BY <1>3 DEF Commit, entry, link, replica
    <2>3. [k \in Keys |-> IF k \in DOMAIN u THEN u[k] ELSE db[k]] \in Rows
      BY <1>1 DEF Rows, ConstantsAssumption
    <2>4. hist' \in Seq(Rows) /\ Len(hist') = n + 1 /\ hist' # <<>>
      BY <1>1, <2>1, <2>3, AppendProperties
    <2>5. /\ Changes \subseteq Changes' /\ Messages \subseteq Messages' /\ <<n, 0>> \in Changes'
      BY <1>1, <2>4 DEF Changes, Messages
    <2>6. unsent' \in [Writers -> {NoEvent} \cup Changes']
      BY <1>2, <2>1, <2>5
    <2>7. /\ bcast \in Seq(Changes') /\ buffer \in Seq(Changes') /\ sync \in Seq(Changes')
          /\ chan \in Seq(Messages') /\ wire \in Seq(Messages')
      BY <1>2, <2>5, WiderQueue
    <2>8. last \in 0..(Len(hist') - 1) /\ Len(hist') =< MaxCommits + 1
      BY <1>1, <1>2, <2>2, <2>4
    <2>9. QED
      BY <2>2, <2>4, <2>6, <2>7, <2>8 DEF QueueInv, StreamType, LimitsInv
  <1>4. CASE Collect(w)
    <2>1. /\ unsent[w] \in Changes /\ UNCHANGED <<hist, bcast, buffer, chan, wire, sync, last>>
          /\ unsent' = [unsent EXCEPT ![w] = <<unsent[w][1], n - 1>>]
      BY <1>2, <1>4 DEF Collect, entry, link, replica
    <2>2. <<unsent[w][1], n - 1>> \in Changes
      BY <1>1, <2>1 DEF Changes
    <2>3. unsent' \in [Writers -> {NoEvent} \cup Changes]
      BY <1>2, <2>1, <2>2
    <2>4. QED
      BY <2>1, <2>3, SameEvents DEF QueueInv, StreamType, LimitsInv
  <1>5. CASE Send(w)
    <2>1. /\ unsent[w] \in Changes /\ bcast' = Broadcast(bcast, BcastCap, unsent[w])
          /\ unsent' = [unsent EXCEPT ![w] = NoEvent]
          /\ UNCHANGED <<hist, buffer, chan, wire, sync, last>>
      BY <1>2, <1>5 DEF Send, entry, link, replica
    <2>2. bcast' \in Seq(Changes) /\ Len(bcast') =< BcastCap
      BY <1>2, <2>1, QueueTypes DEF QueueInv, LimitsInv, ConstantsAssumption
    <2>3. unsent' \in [Writers -> {NoEvent} \cup Changes]
      BY <1>2, <2>1
    <2>4. QED
      BY <2>1, <2>2, <2>3, SameEvents DEF QueueInv, StreamType, LimitsInv
  <1>6. QED
    BY <1>3, <1>4, <1>5

\* The tracker and the handler move an event from one queue to the next.
LEMMA TrackerTypes ==
    ASSUME ConstantsAssumption, QueueInv, Tracker \/ Handler
    PROVE  QueueInv'
  <1>1. /\ bcast \in Seq(Changes) /\ buffer \in Seq(Changes)
        /\ chan \in Seq(Messages) /\ wire \in Seq(Messages)
        /\ Changes \subseteq Messages /\ FullSync \in Messages
        /\ BcastCap \in Nat /\ ChanCap \in Nat
        /\ Len(bcast) =< BcastCap /\ Len(chan) =< ChanCap
    BY DEF QueueInv, StreamType, LimitsInv, Messages, ConstantsAssumption
  <1>2. UNCHANGED <<hist, unsent, sync, last>>
    BY DEF Tracker, RouteNowhere, RouteToChannel, RouteToOld, RouteFails,
           Handler, SendFullSync, Pump, master, replica
  <1>3. bcast' = bcast \/ (bcast # <<>> /\ bcast' = Tail(bcast))
    BY DEF Tracker, RouteNowhere, RouteToChannel, RouteToOld, RouteFails, Routed,
           Handler, SendFullSync, Pump, master
  <1>4. bcast' \in Seq(Changes) /\ Len(bcast') =< BcastCap
    <2>1. CASE bcast' = bcast
      BY <1>1, <2>1
    <2>2. CASE bcast # <<>> /\ bcast' = Tail(bcast)
      <3>1. Len(bcast) \in Nat /\ Tail(bcast) \in Seq(Changes) /\ Len(Tail(bcast)) = Len(bcast) - 1
        BY <1>1, <2>2, QueueTypes
      <3>2. QED
        BY <1>1, <2>2, <3>1
    <2>3. QED
      BY <1>3, <2>1, <2>2
  <1>5. buffer' = buffer \/ (bcast # <<>> /\ buffer' = Append(buffer, Head(bcast)))
    BY DEF Tracker, RouteNowhere, RouteToChannel, RouteToOld, RouteFails, Routed, Buffered,
           Handler, SendFullSync, Pump, entry
  <1>6. buffer' \in Seq(Changes)
    <2>1. ASSUME bcast # <<>> PROVE Append(buffer, Head(bcast)) \in Seq(Changes)
      <3>1. Head(bcast) \in Changes
        BY <1>1, <2>1, QueueTypes
      <3>2. QED
        BY <1>1, <3>1, QueueTypes
    <2>2. QED
      BY <1>1, <1>5, <2>1
  <1>7. \/ chan' = chan
        \/ bcast # <<>> /\ Len(chan) < ChanCap /\ chan' = Append(chan, Head(bcast))
        \/ Len(chan) < ChanCap /\ chan' = Append(chan, FullSync)
        \/ chan # <<>> /\ chan' = Tail(chan)
    BY DEF Tracker, RouteNowhere, RouteToChannel, RouteToOld, RouteFails, Routed,
           Handler, SendFullSync, Pump, link
  <1>8. chan' \in Seq(Messages) /\ Len(chan') =< ChanCap
    <2>1. Len(chan) \in Nat
      BY <1>1, QueueTypes
    <2>2. bcast # <<>> => Head(bcast) \in Messages
      BY <1>1, QueueTypes
    <2>3. ASSUME NEW e \in Messages, Len(chan) < ChanCap, chan' = Append(chan, e)
          PROVE  chan' \in Seq(Messages) /\ Len(chan') =< ChanCap
      <3>1. chan' \in Seq(Messages) /\ Len(chan') = Len(chan) + 1
        BY <1>1, <2>3, QueueTypes
      <3>2. QED
        BY <1>1, <2>1, <2>3, <3>1
    <2>4. ASSUME chan # <<>>, chan' = Tail(chan)
          PROVE  chan' \in Seq(Messages) /\ Len(chan') =< ChanCap
      <3>1. chan' \in Seq(Messages) /\ Len(chan') = Len(chan) - 1
        BY <1>1, <2>4, QueueTypes
      <3>2. QED
        BY <1>1, <2>1, <3>1
    <2>5. QED
      BY <1>1, <1>7, <2>2, <2>3, <2>4
  <1>9. \/ wire' = wire
        \/ wire' = Append(wire, FullSync)
        \/ chan # <<>> /\ wire' = Append(wire, Head(chan))
    BY DEF Tracker, RouteNowhere, RouteToChannel, RouteToOld, RouteFails,
           Handler, SendFullSync, Pump, link
  <1>10. wire' \in Seq(Messages)
    <2>1. \A e \in Messages : Append(wire, e) \in Seq(Messages)
      BY <1>1, QueueTypes
    <2>2. chan # <<>> => Head(chan) \in Messages
      BY <1>1, QueueTypes
    <2>3. QED
      BY <1>1, <1>9, <2>1, <2>2
  <1>11. QED
    BY <1>2, <1>4, <1>6, <1>8, <1>10, SameEvents DEF QueueInv, StreamType, LimitsInv

\* A connection is made, or used for another subscription.
LEMMA SubscribeTypes ==
    ASSUME ConstantsAssumption, QueueInv, Subscribe \/ Resubscribe
    PROVE  QueueInv'
  <1>1. /\ buffer \in Seq(Changes) /\ buffer \in Seq(Messages)
        /\ chan \in Seq(Messages) /\ wire \in Seq(Messages)
        /\ ChanCap \in Nat /\ Len(chan) =< ChanCap
    BY WiderQueue DEF QueueInv, StreamType, LimitsInv, Messages, ConstantsAssumption
  <1>2. UNCHANGED <<hist, unsent, bcast, sync, last>> /\ buffer' = <<>>
    BY DEF Subscribe, Resubscribe, master, replica
  <1>3. <<>> \in Seq(Changes) /\ <<>> \in Seq(Messages) /\ Len(<<>>) = 0
    BY EmptySeq
  <1>4. Drained \in Seq(Messages) /\ Len(Drained) =< ChanCap
    <2> DEFINE n == IF Len(buffer) < ChanCap THEN Len(buffer) ELSE ChanCap
    <2>1. Len(buffer) \in Nat
      BY <1>1, LenProperties
    <2>2. n \in 0..Len(buffer) /\ n \in Nat /\ n =< ChanCap
      BY <1>1, <2>1
    <2>3. \A i \in 1..n : i \in 1..Len(buffer)
      BY <2>1, <2>2
    <2>4. \A i \in 1..n : buffer[i] \in Messages
      BY <1>1, <2>3, ElementOfSeq
    <2> HIDE DEF n
    <2>5. SubSeq(buffer, 1, n) \in Seq(Messages) /\ Len(SubSeq(buffer, 1, n)) = n
      BY <2>2, <2>4, SubSeqProperties
    <2>6. Drained = SubSeq(buffer, 1, n)
      BY DEF Drained, n
    <2>7. QED
      BY <2>2, <2>5, <2>6
  <1>5. chan' \in {chan, <<>>, Drained}
    BY DEF Subscribe, Resubscribe
  <1>6. chan' \in Seq(Messages) /\ Len(chan') =< ChanCap
    <2>1. CASE chan' = <<>>
      <3>1. Len(chan') = 0
        BY <2>1
      <3>2. QED
        BY <1>1, <1>3, <2>1, <3>1
    <2>2. CASE chan' # <<>>
      <3>1. chan' = chan \/ chan' = Drained
        BY <1>5, <2>2
      <3>2. QED
        BY <1>1, <1>4, <3>1
    <2>3. QED
      BY <2>1, <2>2
  <1>7. wire' \in {<<>>, buffer, wire \o buffer}
    BY DEF Subscribe, Resubscribe
  <1>8. wire' \in Seq(Messages)
    <2>1. wire \o buffer \in Seq(Messages)
      BY <1>1, ConcatProperties
    <2>2. QED
      BY <1>1, <1>3, <1>7, <2>1
  <1>9. QED
    BY <1>2, <1>3, <1>6, <1>8, SameEvents DEF QueueInv, StreamType, LimitsInv

\* The two tasks of the replica.
LEMMA ReplicaTypes ==
    ASSUME ConstantsAssumption, QueueInv, Receive \/ SnapshotRead \/ SnapshotInstall \/ Apply
    PROVE  QueueInv'
  <1>1. /\ wire \in Seq(Messages) /\ sync \in Seq(Changes) /\ last \in 0..(Len(hist) - 1)
        /\ SyncCap \in Nat \ {0} /\ Len(sync) =< SyncCap
    BY DEF QueueInv, StreamType, LimitsInv, ConstantsAssumption
  <1>2. UNCHANGED <<hist, unsent, bcast, buffer, chan>>
    BY DEF Receive, SnapshotRead, SnapshotInstall, Apply, master, entry, link
  <1>3. wire' = wire \/ (wire # <<>> /\ wire' = Tail(wire))
    BY DEF Receive, SnapshotRead, SnapshotInstall, Apply, link
  <1>4. wire' \in Seq(Messages)
    <2>1. wire # <<>> => Tail(wire) \in Seq(Messages)
      BY <1>1, QueueTypes
    <2>2. QED
      BY <1>1, <1>3, <2>1
  <1>5. \/ sync' = sync
        \/ /\ wire # <<>> /\ Head(wire) # FullSync
           /\ sync' = Broadcast(sync, SyncCap, Head(wire))
        \/ sync # <<>> /\ sync' = Tail(sync)
    BY DEF Receive, SnapshotRead, SnapshotInstall, Apply
  <1>6. sync' \in Seq(Changes) /\ Len(sync') =< SyncCap
    <2>1. CASE sync' = sync
      BY <1>1, <2>1
    <2>2. CASE wire # <<>> /\ Head(wire) # FullSync /\ sync' = Broadcast(sync, SyncCap, Head(wire))
      <3>1. Head(wire) \in Changes
        BY <1>1, <2>2, QueueTypes DEF Messages
      <3>2. QED
        BY <1>1, <2>2, <3>1, QueueTypes
    <2>3. CASE sync # <<>> /\ sync' = Tail(sync)
      <3>1. Len(sync) \in Nat /\ Tail(sync) \in Seq(Changes) /\ Len(Tail(sync)) = Len(sync) - 1
        BY <1>1, <2>3, QueueTypes
      <3>2. QED
        BY <1>1, <2>3, <3>1
    <2>4. QED
      BY <1>5, <2>1, <2>2, <2>3
  <1>7. last' = last \/ (sync # <<>> /\ last' = Head(sync)[1])
    BY DEF Receive, SnapshotRead, SnapshotInstall, Apply
  <1>8. last' \in 0..(Len(hist) - 1)
    <2>1. CASE sync # <<>> /\ last' = Head(sync)[1]
      <3>1. Head(sync) \in Changes
        BY <1>1, <2>1, QueueTypes
      <3>2. QED
        BY <2>1, <3>1 DEF Changes
    <2>2. QED
      BY <1>1, <1>7, <2>1
  <1>9. QED
    BY <1>2, <1>4, <1>6, <1>8, SameEvents DEF QueueInv, StreamType, LimitsInv

\* What breaks empties queues.
LEMMA LossTypes ==
    ASSUME ConstantsAssumption, QueueInv,
           Expire \/ Disconnect \/ OldEnds \/ Restart \/ SnapshotFails \/ Reboot \/ UNCHANGED vars
    PROVE  QueueInv'
  <1>1. /\ UNCHANGED <<hist, last>>
        /\ unsent' = unsent \/ unsent' = [w \in Writers |-> NoEvent]
        /\ bcast' \in {bcast, <<>>} /\ buffer' \in {buffer, <<>>}
        /\ chan' \in {chan, <<>>} /\ wire' \in {wire, <<>>} /\ sync' \in {sync, <<>>}
    BY DEF Expire, Disconnect, OldEnds, Restart, SnapshotFails, Reboot, vars,
           master, entry, link, replica
  <1>2. <<>> \in Seq(Changes) /\ <<>> \in Seq(Messages) /\ Len(<<>>) = 0
    BY EmptySeq
  <1>3. BcastCap \in Nat /\ ChanCap \in Nat /\ SyncCap \in Nat
    BY DEF ConstantsAssumption
  <1>4. unsent' \in [Writers -> {NoEvent} \cup Changes]
    BY <1>1 DEF QueueInv, StreamType
  <1>5. /\ bcast' \in Seq(Changes) /\ buffer' \in Seq(Changes) /\ sync' \in Seq(Changes)
        /\ chan' \in Seq(Messages) /\ wire' \in Seq(Messages)
    BY <1>1, <1>2 DEF QueueInv, StreamType
  <1>6. Len(bcast') =< BcastCap /\ Len(chan') =< ChanCap /\ Len(sync') =< SyncCap
    BY <1>1, <1>2, <1>3 DEF QueueInv, LimitsInv
  <1>7. QED
    BY <1>1, <1>4, <1>5, <1>6, SameEvents DEF QueueInv, StreamType, LimitsInv

LEMMA TypeStart ==
    ASSUME ConstantsAssumption, Init
    PROVE  TypeInv
  <1>1. /\ hist = <<Start>> /\ Start \in Rows /\ unsent = [w \in Writers |-> NoEvent]
        /\ bcast = <<>> /\ buffer = <<>> /\ chan = <<>> /\ wire = <<>> /\ sync = <<>>
        /\ last = 0 /\ snap = 0 /\ rdb = Start /\ copy = Nowhere
        /\ known \in BOOLEAN /\ owed = FALSE /\ stale = 0 /\ ws = FALSE
        /\ row = IF known THEN "scoped" ELSE "none"
        /\ scoped = known /\ up = known /\ tx = IF known THEN "cur" ELSE "none"
        /\ conns = IF known THEN 1 ELSE 0
    BY DEF Init, ConstantsAssumption
  <1>2. hist \in Seq(Rows) /\ hist # <<>> /\ Len(hist) = 1
    BY <1>1
  <1>3. <<>> \in Seq(Changes) /\ <<>> \in Seq(Messages) /\ Len(<<>>) = 0
    BY EmptySeq
  <1>4. StreamType
    BY <1>1, <1>2, <1>3 DEF StreamType
  <1>5. LimitsInv
    BY <1>1, <1>2, <1>3 DEF LimitsInv, ConstantsAssumption
  <1>6. EntryInv
    <2>1. MaxConns \in Nat \ {0}
      BY DEF ConstantsAssumption
    <2>2. conns \in 0..MaxConns /\ stale + (IF up THEN 1 ELSE 0) =< conns
      BY <1>1, <2>1
    <2>3. QED
      BY <1>1, <2>2 DEF EntryInv
  <1>7. FileInv
    BY <1>1, <1>2 DEF FileInv
  <1>8. QED
    BY <1>4, <1>5, <1>6, <1>7 DEF TypeInv

\* Every step keeps the types.
LEMMA TypeStep ==
    ASSUME ConstantsAssumption, TypeInv, [Next]_vars
    PROVE  TypeInv'
  <1>1. StreamType /\ QueueInv /\ EntryInv /\ FileInv
    BY DEF TypeInv, QueueInv
  <1>2. EntryInv' /\ FileInv'
    BY <1>1, EntryTypes, FileTypes
  <1>3. QueueInv'
    BY <1>1, WriterTypes, TrackerTypes, SubscribeTypes, ReplicaTypes, LossTypes
       DEF Next, Streamer, Environment
  <1>4. QED
    BY <1>2, <1>3 DEF TypeInv, QueueInv

\* TypeCorrect: every queue holds events of commits that have happened, no
\* channel more than its capacity, and every handler of a broken connection had
\* a connection of its own, whatever breaks, whoever commits and whatever is
\* loaded on the replica (tracker.rs:72-118, grpc_server.rs:94-230,
\* ws_streamer.rs:90-173, lib.rs:460-500).
THEOREM TypeCorrect == Spec => []TypeOK
  <1>1. Init => TypeInv
    BY ConstantsAssumption, TypeStart
  <1>2. TypeInv /\ [Next]_vars => TypeInv'
    BY ConstantsAssumption, TypeStep
  <1>3. ASSUME TypeInv PROVE TypeOK
    <2>1. Len(hist) - 1 \in Nat
      BY <1>3, LastCommit DEF TypeInv
    <2>2. Changes \subseteq Events /\ Messages \subseteq Events
      BY <2>1 DEF Changes, Messages, Events, FullSync
    <2>3. /\ bcast \in Seq(Events) /\ buffer \in Seq(Events) /\ chan \in Seq(Events)
          /\ wire \in Seq(Events) /\ sync \in Seq(Events)
      BY <1>3, <2>2, WiderQueue DEF TypeInv, StreamType
    <2>4. unsent \in [Writers -> {NoEvent} \cup Events]
      BY <1>3, <2>2 DEF TypeInv, StreamType
    <2>5. stale \in 0..conns
      BY <1>3 DEF TypeInv, EntryInv
    <2>6. QED
      BY <1>3, <2>3, <2>4, <2>5 DEF TypeInv, StreamType, LimitsInv, EntryInv, FileInv, TypeOK
  <1>4. QED
    BY <1>1, <1>2, <1>3, PTL DEF Spec

-----------------------------------------------------------------------------
(* The unbroken stream: one writer, one connection, and no more commits    *)
(* than any channel can hold.                                              *)

Unbroken ==
    /\ OneWriter /\ Joins \subseteq {TRUE}
    /\ Faults \cap {"disconnect", "restart", "reboot"} = {}
    /\ MaxCommits =< BcastCap /\ MaxCommits =< ChanCap /\ MaxCommits =< SyncCap

\* The events of the commits after commit a, each read before the next commit.
Run(q, a) == \A i \in 1..Len(q) : q[i] = <<a + i, a + i>>

\* 1 while the last commit has not been broadcast.
Owing == IF \E w \in Writers : unsent[w] # NoEvent THEN 1 ELSE 0

Pairs == Nat \X Nat

\* JoinedInv: the replica stays connected over its first connection.
JoinedInv ==
    /\ known /\ scoped /\ up /\ ~ws /\ ~owed
    /\ tx = "cur" /\ stale = 0 /\ buffer = <<>> /\ copy = Nowhere

\* RunsInv: the queues hold the events of all commits after the one applied
\* last, and the replica's file is what that commit left.
RunsInv ==
    /\ hist \in Seq(Rows) /\ Len(hist) \in 1..(MaxCommits + 1)
    /\ sync \in Seq(Pairs) /\ wire \in Seq(Pairs) /\ chan \in Seq(Pairs) /\ bcast \in Seq(Pairs)
    /\ unsent \in [Writers -> {NoEvent, <<Len(hist) - 1, 0>>, <<Len(hist) - 1, Len(hist) - 1>>}]
    /\ last \in Nat
    /\ Run(sync, last)
    /\ Run(wire, last + Len(sync))
    /\ Run(chan, last + Len(sync) + Len(wire))
    /\ Run(bcast, last + Len(sync) + Len(wire) + Len(chan))
    /\ last + Len(sync) + Len(wire) + Len(chan) + Len(bcast) + Owing = Len(hist) - 1
    /\ rdb = hist[last + 1]

UnbrokenInv == JoinedInv /\ RunsInv

\* The replica that applies the changeset of a commit to the rows before it
\* has the rows after it.
LEMMA ApplyDiff ==
    ASSUME NEW old \in Rows, NEW new \in Rows
    PROVE  ApplyStrm(old, Diff(old, new)) = new
  <1>1. DOMAIN Diff(old, new) = {k \in Keys : old[k] # new[k]}
    BY DEF Diff
  <1>2. \A k \in DOMAIN Diff(old, new) :
            Diff(old, new)[k].old = old[k] /\ Diff(old, new)[k].new = new[k]
    BY DEF Diff
  <1>3. ~NotFound(old, Diff(old, new))
    BY <1>2 DEF NotFound
  <1>4. \A k \in Keys :
            (IF k \in DOMAIN Diff(old, new) THEN Diff(old, new)[k].new ELSE old[k]) = new[k]
    BY <1>1, <1>2
  <1>5. new = [k \in Keys |-> new[k]]
    BY DEF Rows
  <1>6. QED
    BY <1>3, <1>4, <1>5 DEF ApplyStrm

\* The first event of a queue, and what is left.
LEMMA FirstOfRun ==
    ASSUME NEW q \in Seq(Pairs), q # <<>>, NEW a \in Nat, Run(q, a)
    PROVE  /\ Tail(q) \in Seq(Pairs) /\ Head(q) \in Pairs
           /\ Len(q) \in Nat \ {0} /\ Len(Tail(q)) = Len(q) - 1
           /\ Head(q) = <<a + 1, a + 1>>
           /\ Run(Tail(q), a + 1)
  <1>1. /\ Len(q) \in Nat \ {0} /\ 1 \in 1..Len(q)
        /\ Head(q) = q[1] /\ Head(q) \in Pairs
        /\ Tail(q) \in Seq(Pairs) /\ Len(Tail(q)) = Len(q) - 1
        /\ \A i \in 1..Len(Tail(q)) : Tail(q)[i] = q[i + 1] /\ i + 1 \in 1..Len(q)
    OBVIOUS
  <1>2. Head(q) = <<a + 1, a + 1>>
    BY <1>1 DEF Run
  <1>3. ASSUME NEW i \in 1..Len(Tail(q)) PROVE Tail(q)[i] = <<a + 1 + i, a + 1 + i>>
    <2>1. q[i + 1] = <<a + (i + 1), a + (i + 1)>>
      BY <1>1 DEF Run
    <2>2. a + (i + 1) = a + 1 + i
      BY <1>1
    <2>3. QED
      BY <1>1, <2>1, <2>2
  <1>4. QED
    BY <1>1, <1>2, <1>3 DEF Run

\* The first event of one queue moves to the end of the queue before it.
LEMMA MoveRun ==
    ASSUME NEW p \in Seq(Pairs), NEW q \in Seq(Pairs), q # <<>>, NEW a \in Nat,
           Run(p, a), Run(q, a + Len(p))
    PROVE  /\ Append(p, Head(q)) \in Seq(Pairs) /\ Tail(q) \in Seq(Pairs)
           /\ Len(Append(p, Head(q))) = Len(p) + 1 /\ Len(Tail(q)) = Len(q) - 1
           /\ Run(Append(p, Head(q)), a)
           /\ Run(Tail(q), a + Len(p) + 1)
  <1>1. Len(p) \in Nat /\ a + Len(p) \in Nat
    BY LenProperties
  <1>2. /\ Tail(q) \in Seq(Pairs) /\ Head(q) \in Pairs /\ Len(Tail(q)) = Len(q) - 1
        /\ Head(q) = <<a + Len(p) + 1, a + Len(p) + 1>>
        /\ Run(Tail(q), a + Len(p) + 1)
    BY <1>1, FirstOfRun
  <1>3. /\ Append(p, Head(q)) \in Seq(Pairs) /\ Len(Append(p, Head(q))) = Len(p) + 1
        /\ \A i \in 1..Len(p) : Append(p, Head(q))[i] = p[i]
        /\ Append(p, Head(q))[Len(p) + 1] = Head(q)
    BY <1>2, AppendProperties
  <1>4. ASSUME NEW i \in 1..(Len(p) + 1) PROVE Append(p, Head(q))[i] = <<a + i, a + i>>
    <2>1. CASE i \in 1..Len(p)
      BY <1>3, <2>1 DEF Run
    <2>2. CASE i = Len(p) + 1
      BY <1>1, <1>2, <1>3, <2>2
    <2>3. QED
      BY <1>1, <2>1, <2>2
  <1>5. QED
    BY <1>2, <1>3, <1>4 DEF Run

\* The lengths of the queues are numbers, and together they are bounded.
LEMMA RunsBounded ==
    ASSUME ConstantsAssumption, RunsInv
    PROVE  /\ Len(sync) \in Nat /\ Len(wire) \in Nat /\ Len(chan) \in Nat /\ Len(bcast) \in Nat
           /\ Owing \in {0, 1} /\ last \in Nat /\ Len(hist) \in Nat \ {0} /\ MaxCommits \in Nat
           /\ last + Len(sync) + Len(wire) + Len(chan) + Len(bcast) + Owing =< MaxCommits
  <1>1. /\ Len(sync) \in Nat /\ Len(wire) \in Nat /\ Len(chan) \in Nat /\ Len(bcast) \in Nat
        /\ MaxCommits \in Nat
    BY LenProperties DEF RunsInv, ConstantsAssumption
  <1>2. Owing \in {0, 1}
    BY DEF Owing
  <1>3. QED
    BY <1>1, <1>2 DEF RunsInv

\* A commit adds the state that its event leads to.
LEMMA CommitRun ==
    ASSUME ConstantsAssumption, OneWriter, UnbrokenInv, NEW w \in Writers, Commit(w)
    PROVE  UnbrokenInv'
  <1> DEFINE n == Len(hist)
  <1>1. /\ unsent[w] = NoEvent /\ n \in Nat \ {0} /\ n =< MaxCommits /\ MaxCommits \in Nat
        /\ last \in Nat /\ last + 1 \in 1..n /\ Owing = 0
    <2>1. Owing = 0
      BY DEF Owing, OneWriter, Commit
    <2>2. last + 1 =< n
      BY <2>1, RunsBounded DEF UnbrokenInv, RunsInv
    <2>3. QED
      BY <2>1, <2>2, RunsBounded DEF Commit, UnbrokenInv
  <1>2. PICK u \in Updates :
            /\ hist' = Append(hist, [k \in Keys |-> IF k \in DOMAIN u THEN u[k] ELSE db[k]])
            /\ unsent' = [unsent EXCEPT ![w] = <<n, 0>>]
    BY DEF Commit
  <1>3. UNCHANGED <<bcast, entry, link, replica>>
    BY DEF Commit
  <1>4. db \in Rows
    BY <1>1, ElementOfSeq DEF UnbrokenInv, RunsInv, db, Last
  <1>5. [k \in Keys |-> IF k \in DOMAIN u THEN u[k] ELSE db[k]] \in Rows
    BY <1>4 DEF Rows, ConstantsAssumption
  <1>6. /\ hist' \in Seq(Rows) /\ Len(hist') = n + 1
        /\ \A i \in 1..n : hist'[i] = hist[i]
    BY <1>1, <1>2, <1>5, AppendProperties DEF UnbrokenInv, RunsInv
  <1>7. /\ unsent' \in [Writers -> {<<n, 0>>}] /\ Owing' = 1
    <2>1. \A v \in Writers : v = w
      BY DEF OneWriter
    <2>2. unsent' \in [Writers -> {<<n, 0>>}]
      BY <1>2, <2>1 DEF UnbrokenInv, RunsInv
    <2>3. unsent'[w] = <<n, 0>> /\ <<n, 0>> # NoEvent
      BY <2>2 DEF NoEvent
    <2>4. unsent'[w] # NoEvent
      BY <2>3
    <2>5. QED
      BY <2>2, <2>4 DEF Owing
  <1>8. rdb' = hist'[last' + 1]
    BY <1>1, <1>3, <1>6 DEF replica, UnbrokenInv, RunsInv
  <1>9. Len(hist') \in 1..(MaxCommits + 1) /\ Len(hist') - 1 = n
    BY <1>1, <1>6
  <1>10. last' + Len(sync') + Len(wire') + Len(chan') + Len(bcast') + Owing' = Len(hist') - 1
    <2>1. UNCHANGED <<bcast, chan, wire, sync, last>>
      BY <1>3 DEF link, replica
    <2>2. last + Len(sync) + Len(wire) + Len(chan) + Len(bcast) + Owing = n - 1 /\ Owing = 0
      BY <1>1 DEF UnbrokenInv, RunsInv
    <2>3. /\ last \in Nat /\ Len(sync) \in Nat /\ Len(wire) \in Nat /\ Len(chan) \in Nat
          /\ Len(bcast) \in Nat /\ n \in Nat
      BY <1>1, RunsBounded
    <2>4. QED
      BY <1>7, <1>9, <2>1, <2>2, <2>3
  <1>11. unsent' \in [Writers ->
            {NoEvent, <<Len(hist') - 1, 0>>, <<Len(hist') - 1, Len(hist') - 1>>}]
    BY <1>7, <1>9
  <1>12. UNCHANGED <<bcast, chan, wire, sync, last>>
    BY <1>3 DEF link, replica
  <1> HIDE DEF n
  <1>13. RunsInv'
    BY <1>6, <1>8, <1>9, <1>10, <1>11, <1>12 DEF UnbrokenInv, RunsInv
  <1>14. JoinedInv'
    BY <1>3 DEF entry, link, replica, UnbrokenInv, JoinedInv
  <1>15. QED
    BY <1>13, <1>14 DEF UnbrokenInv

\* The changeset is read before the next commit: the writer is the only one.
LEMMA CollectRun ==
    ASSUME ConstantsAssumption, OneWriter, UnbrokenInv, NEW w \in Writers, Collect(w)
    PROVE  UnbrokenInv'
  <1> DEFINE n == Len(hist)
  <1>1. /\ unsent[w] # NoEvent /\ unsent[w][2] = 0
        /\ unsent' = [unsent EXCEPT ![w] = <<unsent[w][1], n - 1>>]
        /\ UNCHANGED <<hist, bcast, entry, link, replica>>
    BY DEF Collect
  <1>2. unsent[w] \in {<<n - 1, 0>>, <<n - 1, n - 1>>}
    BY <1>1 DEF UnbrokenInv, RunsInv
  <1>3. unsent[w][1] = n - 1
    BY <1>2
  <1>4. unsent' = [unsent EXCEPT ![w] = <<n - 1, n - 1>>]
    BY <1>1, <1>3
  <1>5. unsent' \in [Writers -> {NoEvent, <<n - 1, 0>>, <<n - 1, n - 1>>}]
    BY <1>4 DEF UnbrokenInv, RunsInv
  <1>6. Owing' = Owing
    <2>1. \A v \in Writers : v = w
      BY DEF OneWriter
    <2>2. unsent'[w] = <<n - 1, n - 1>> /\ <<n - 1, n - 1>> # NoEvent
      BY <1>4 DEF UnbrokenInv, RunsInv, NoEvent
    <2>3. unsent'[w] # NoEvent
      BY <2>2
    <2>4. QED
      BY <1>1, <2>3 DEF Owing
  <1>7. UNCHANGED <<hist, bcast, chan, wire, sync, last, rdb>>
    BY <1>1 DEF link, replica
  <1>8. RunsInv'
    BY <1>5, <1>6, <1>7 DEF UnbrokenInv, RunsInv
  <1>9. JoinedInv'
    BY <1>1 DEF entry, link, replica, UnbrokenInv, JoinedInv
  <1>10. QED
    BY <1>8, <1>9 DEF UnbrokenInv

\* The broadcast channel has room for the event of the last commit.
LEMMA SendRun ==
    ASSUME ConstantsAssumption, Unbroken, UnbrokenInv, NEW w \in Writers, Send(w)
    PROVE  UnbrokenInv'
  <1> DEFINE n == Len(hist)
             e == <<n - 1, n - 1>>
             a == last + Len(sync) + Len(wire) + Len(chan)
  <1>1. /\ unsent[w] # NoEvent /\ unsent[w][2] # 0
        /\ bcast' = Broadcast(bcast, BcastCap, unsent[w])
        /\ unsent' = [unsent EXCEPT ![w] = NoEvent]
        /\ UNCHANGED <<hist, entry, link, replica>>
    BY DEF Send
  <1>2. unsent[w] = e
    <2>1. unsent[w] \in {<<n - 1, 0>>, e}
      BY <1>1 DEF UnbrokenInv, RunsInv
    <2>2. QED
      BY <1>1, <2>1
  <1>3. /\ Owing = 1 /\ Owing' = 0 /\ n \in Nat \ {0} /\ a \in Nat /\ Len(bcast) \in Nat
        /\ n - 1 = a + Len(bcast) + 1 /\ Len(bcast) < BcastCap
    <2>1. Owing = 1
      BY <1>1 DEF Owing
    <2>2. \A v \in Writers : unsent'[v] = NoEvent
      BY <1>1 DEF UnbrokenInv, RunsInv, Unbroken, OneWriter
    <2>3. Owing' = 0
      BY <2>2 DEF Owing
    <2>4. /\ n \in Nat \ {0} /\ Len(bcast) \in Nat /\ Len(sync) \in Nat /\ Len(wire) \in Nat
          /\ Len(chan) \in Nat /\ last \in Nat /\ MaxCommits \in Nat
          /\ last + Len(sync) + Len(wire) + Len(chan) + Len(bcast) + Owing =< MaxCommits
      BY RunsBounded DEF UnbrokenInv
    <2>5. n - 1 = a + Len(bcast) + 1
      BY <2>1, <2>4 DEF UnbrokenInv, RunsInv
    <2>6. BcastCap \in Nat /\ MaxCommits =< BcastCap
      BY DEF Unbroken, ConstantsAssumption
    <2>7. Len(bcast) < BcastCap
      BY <2>1, <2>4, <2>6
    <2>8. QED
      BY <2>1, <2>3, <2>4, <2>5, <2>7
  <1>4. bcast' = Append(bcast, e)
    BY <1>1, <1>2, <1>3 DEF Broadcast
  <1>5. e \in Pairs /\ bcast \in Seq(Pairs)
    <2>1. n - 1 \in Nat
      BY <1>3
    <2>2. e \in Pairs
      BY <2>1 DEF Pairs
    <2>3. QED
      BY <2>2 DEF UnbrokenInv, RunsInv
  <1>6. /\ bcast' \in Seq(Pairs) /\ Len(bcast') = Len(bcast) + 1
        /\ \A i \in 1..Len(bcast) : bcast'[i] = bcast[i]
        /\ bcast'[Len(bcast) + 1] = e
    BY <1>4, <1>5, AppendProperties
  <1>7. Run(bcast', a)
    <2>1. ASSUME NEW i \in 1..(Len(bcast) + 1) PROVE bcast'[i] = <<a + i, a + i>>
      <3>1. CASE i \in 1..Len(bcast)
        BY <1>6, <3>1 DEF Run, UnbrokenInv, RunsInv
      <3>2. CASE i = Len(bcast) + 1
        BY <1>3, <1>6, <3>2
      <3>3. QED
        BY <1>3, <3>1, <3>2
    <2>2. QED
      BY <1>6, <2>1 DEF Run
  <1>8. UNCHANGED <<hist, chan, wire, sync, last, rdb>>
    BY <1>1 DEF link, replica
  <1>9. unsent' \in [Writers -> {NoEvent, <<n - 1, 0>>, e}]
    BY <1>1 DEF UnbrokenInv, RunsInv
  <1>10. last + Len(sync) + Len(wire) + Len(chan) + Len(bcast') + Owing' = n - 1
    BY <1>3, <1>6
  <1>11. RunsInv'
    BY <1>6, <1>7, <1>8, <1>9, <1>10 DEF UnbrokenInv, RunsInv
  <1>12. JoinedInv'
    BY <1>1 DEF entry, link, replica, UnbrokenInv, JoinedInv
  <1>13. QED
    BY <1>11, <1>12 DEF UnbrokenInv

\* The tracker finds the sender of the connection and room in its channel.
LEMMA RouteRun ==
    ASSUME ConstantsAssumption, Unbroken, UnbrokenInv, Tracker
    PROVE  UnbrokenInv'
  <1> DEFINE a == last + Len(sync) + Len(wire)
  <1>1. /\ Len(sync) \in Nat /\ Len(wire) \in Nat /\ Len(chan) \in Nat /\ Len(bcast) \in Nat
        /\ Owing \in {0, 1} /\ last \in Nat /\ MaxCommits \in Nat /\ a \in Nat
        /\ last + Len(sync) + Len(wire) + Len(chan) + Len(bcast) + Owing =< MaxCommits
    BY RunsBounded DEF UnbrokenInv
  <1>2. bcast # <<>> /\ known /\ scoped /\ tx = "cur"
    BY DEF Tracker, RouteNowhere, RouteToChannel, RouteToOld, RouteFails, Routed,
           UnbrokenInv, JoinedInv
  <1>3. Len(bcast) # 0
    BY <1>2, EmptySeq DEF UnbrokenInv, RunsInv
  <1>4. Len(chan) < ChanCap
    BY <1>1, <1>3 DEF Unbroken, ConstantsAssumption
  <1>5. RouteToChannel
    <2>1. ~RouteNowhere /\ ~RouteToOld
      BY <1>2 DEF RouteNowhere, RouteToOld
    <2>2. ChanCap \in Nat
      BY DEF ConstantsAssumption
    <2>3. RouteFails => Len(chan) >= ChanCap
      BY <1>2 DEF RouteFails
    <2>4. ~(Len(chan) >= ChanCap)
      BY <1>1, <1>4, <2>2
    <2>5. QED
      BY <2>1, <2>3, <2>4 DEF Tracker
  <1>6. /\ chan' = Append(chan, Head(bcast)) /\ bcast' = Tail(bcast)
        /\ UNCHANGED <<hist, unsent, entry, conns, up, ws, wire, replica>>
    BY <1>5 DEF RouteToChannel
  <1>7. /\ chan' \in Seq(Pairs) /\ bcast' \in Seq(Pairs)
        /\ Len(chan') = Len(chan) + 1 /\ Len(bcast') = Len(bcast) - 1
        /\ Run(chan', a) /\ Run(bcast', a + Len(chan) + 1)
    BY <1>1, <1>2, <1>6, MoveRun DEF UnbrokenInv, RunsInv
  <1>8. Run(bcast', a + Len(chan'))
    <2>1. a + Len(chan') = a + Len(chan) + 1
      BY <1>1, <1>7
    <2>2. QED
      BY <1>7, <2>1
  <1>9. UNCHANGED <<hist, unsent, wire, sync, last, rdb, Owing>>
    BY <1>6 DEF replica, Owing
  <1>10. last + Len(sync) + Len(wire) + Len(chan') + Len(bcast') + Owing = Len(hist) - 1
    BY <1>1, <1>7 DEF UnbrokenInv, RunsInv
  <1>11. RunsInv'
    BY <1>7, <1>8, <1>9, <1>10 DEF UnbrokenInv, RunsInv
  <1>12. JoinedInv'
    BY <1>6 DEF entry, replica, UnbrokenInv, JoinedInv
  <1>13. QED
    BY <1>11, <1>12 DEF UnbrokenInv

\* The event moves to the connection.
LEMMA PumpRun ==
    ASSUME ConstantsAssumption, UnbrokenInv, Pump
    PROVE  UnbrokenInv'
  <1> DEFINE a == last + Len(sync)
  <1>1. /\ Len(sync) \in Nat /\ Len(wire) \in Nat /\ Len(chan) \in Nat /\ Len(bcast) \in Nat
        /\ Owing \in {0, 1} /\ last \in Nat /\ a \in Nat
    BY RunsBounded DEF UnbrokenInv
  <1>2. /\ chan # <<>> /\ wire' = Append(wire, Head(chan)) /\ chan' = Tail(chan)
        /\ UNCHANGED <<master, entry, conns, up, ws, replica>>
    BY DEF Pump
  <1>3. /\ wire' \in Seq(Pairs) /\ chan' \in Seq(Pairs)
        /\ Len(wire') = Len(wire) + 1 /\ Len(chan') = Len(chan) - 1
        /\ Run(wire', a) /\ Run(chan', a + Len(wire) + 1)
    BY <1>1, <1>2, MoveRun DEF UnbrokenInv, RunsInv
  <1>4. /\ a + Len(wire') = a + Len(wire) + 1
        /\ a + Len(wire') + Len(chan') = a + Len(wire) + Len(chan)
    BY <1>1, <1>3
  <1>5. UNCHANGED <<hist, unsent, bcast, sync, last, rdb, Owing>>
    BY <1>2 DEF master, replica, Owing
  <1>6. a + Len(wire') + Len(chan') + Len(bcast) + Owing = Len(hist) - 1
    BY <1>4 DEF UnbrokenInv, RunsInv
  <1>7. Run(chan', a + Len(wire')) /\ Run(bcast, a + Len(wire') + Len(chan'))
    BY <1>3, <1>4 DEF UnbrokenInv, RunsInv
  <1>8. RunsInv'
    BY <1>3, <1>5, <1>6, <1>7 DEF UnbrokenInv, RunsInv
  <1>9. JoinedInv'
    BY <1>2 DEF entry, replica, UnbrokenInv, JoinedInv
  <1>10. QED
    BY <1>8, <1>9 DEF UnbrokenInv

\* The local broadcast has room for the event.
LEMMA ReceiveRun ==
    ASSUME ConstantsAssumption, Unbroken, UnbrokenInv, Receive
    PROVE  UnbrokenInv'
  <1>1. /\ Len(sync) \in Nat /\ Len(wire) \in Nat /\ Len(chan) \in Nat /\ Len(bcast) \in Nat
        /\ Owing \in {0, 1} /\ last \in Nat /\ MaxCommits \in Nat
        /\ last + Len(sync) + Len(wire) + Len(chan) + Len(bcast) + Owing =< MaxCommits
    BY RunsBounded DEF UnbrokenInv
  <1>2. /\ wire # <<>> /\ sync' = Broadcast(sync, SyncCap, Head(wire)) /\ wire' = Tail(wire)
        /\ UNCHANGED <<master, entry, conns, up, ws, chan, rdb, copy, last, snap>>
    BY DEF Receive
  <1>3. Len(wire) # 0
    BY <1>2, EmptySeq DEF UnbrokenInv, RunsInv
  <1>4. Len(sync) < SyncCap
    BY <1>1, <1>3 DEF Unbroken, ConstantsAssumption
  <1>5. sync' = Append(sync, Head(wire))
    BY <1>2, <1>4 DEF Broadcast
  <1>6. /\ sync' \in Seq(Pairs) /\ wire' \in Seq(Pairs)
        /\ Len(sync') = Len(sync) + 1 /\ Len(wire') = Len(wire) - 1
        /\ Run(sync', last) /\ Run(wire', last + Len(sync) + 1)
    <2>1. /\ sync \in Seq(Pairs) /\ wire \in Seq(Pairs) /\ last \in Nat
          /\ Run(sync, last) /\ Run(wire, last + Len(sync))
      BY DEF UnbrokenInv, RunsInv
    <2>2. /\ Append(sync, Head(wire)) \in Seq(Pairs) /\ Tail(wire) \in Seq(Pairs)
          /\ Len(Append(sync, Head(wire))) = Len(sync) + 1 /\ Len(Tail(wire)) = Len(wire) - 1
          /\ Run(Append(sync, Head(wire)), last) /\ Run(Tail(wire), last + Len(sync) + 1)
      BY <1>2, <2>1, MoveRun
    <2>3. QED
      BY <1>2, <1>5, <2>2
  <1>7. /\ last + Len(sync') = last + Len(sync) + 1
        /\ last + Len(sync') + Len(wire') = last + Len(sync) + Len(wire)
    BY <1>1, <1>6
  <1>8. UNCHANGED <<hist, unsent, bcast, chan, last, rdb, Owing>>
    BY <1>2 DEF master, Owing
  <1>9. last + Len(sync') + Len(wire') + Len(chan) + Len(bcast) + Owing = Len(hist) - 1
    BY <1>7 DEF UnbrokenInv, RunsInv
  <1>10. /\ Run(wire', last + Len(sync')) /\ Run(chan, last + Len(sync') + Len(wire'))
         /\ Run(bcast, last + Len(sync') + Len(wire') + Len(chan))
    BY <1>6, <1>7 DEF UnbrokenInv, RunsInv
  <1>11. RunsInv'
    BY <1>6, <1>8, <1>9, <1>10 DEF UnbrokenInv, RunsInv
  <1>12. JoinedInv'
    BY <1>2 DEF entry, UnbrokenInv, JoinedInv
  <1>13. QED
    BY <1>11, <1>12 DEF UnbrokenInv

\* The replica applies the next commit to the rows it left off with.
LEMMA ApplyRun ==
    ASSUME ConstantsAssumption, UnbrokenInv, Apply
    PROVE  UnbrokenInv'
  <1>1. /\ Len(sync) \in Nat /\ Len(wire) \in Nat /\ Len(chan) \in Nat /\ Len(bcast) \in Nat
        /\ Owing \in {0, 1} /\ last \in Nat /\ Len(hist) \in Nat \ {0}
        /\ last + Len(sync) + Len(wire) + Len(chan) + Len(bcast) + Owing = Len(hist) - 1
    BY RunsBounded DEF UnbrokenInv, RunsInv
  <1>2. /\ sync # <<>> /\ sync' = Tail(sync) /\ last' = Head(sync)[1]
        /\ rdb' = ApplyStrm(rdb, ChangesetOf(Head(sync)))
        /\ UNCHANGED <<master, entry, link, copy, snap>>
    BY DEF Apply
  <1>3. /\ sync' \in Seq(Pairs) /\ Len(sync') = Len(sync) - 1 /\ Len(sync) # 0
        /\ Head(sync) = <<last + 1, last + 1>> /\ Run(sync', last + 1)
    <2>1. sync \in Seq(Pairs) /\ Run(sync, last)
      BY DEF UnbrokenInv, RunsInv
    <2>2. /\ Tail(sync) \in Seq(Pairs) /\ Len(Tail(sync)) = Len(sync) - 1 /\ Len(sync) # 0
          /\ Head(sync) = <<last + 1, last + 1>> /\ Run(Tail(sync), last + 1)
      BY <1>1, <1>2, <2>1, FirstOfRun
    <2>3. QED
      BY <1>2, <2>2
  <1>4. last' = last + 1
    BY <1>2, <1>3
  <1>5. last + 1 \in 1..Len(hist) /\ last + 2 \in 1..Len(hist) /\ last + 1 + 1 = last + 2
    BY <1>1, <1>3
  <1>6. hist[last + 1] \in Rows /\ hist[last + 2] \in Rows
    BY <1>5, ElementOfSeq DEF UnbrokenInv, RunsInv
  <1>7. ChangesetOf(Head(sync)) = Diff(hist[last + 1], hist[last + 2])
    <2>1. [k \in Keys |-> IF hist[last + 2][k] # hist[last + 1][k]
                            THEN hist[last + 2][k] ELSE hist[last + 1][k]] = hist[last + 2]
      BY <1>6 DEF Rows
    <2>2. Head(sync)[1] = last + 1 /\ Head(sync)[2] = last + 1
      BY <1>3
    <2>3. ChangesetOf(Head(sync)) =
              Diff(hist[last + 1],
                   [k \in Keys |-> IF hist[last + 2][k] # hist[last + 1][k]
                                     THEN hist[last + 2][k] ELSE hist[last + 1][k]])
      BY <1>5, <2>2 DEF ChangesetOf
    <2>4. QED
      BY <2>1, <2>3
  <1>8. rdb' = hist[last' + 1]
    <2>1. rdb = hist[last + 1]
      BY DEF UnbrokenInv, RunsInv
    <2>2. rdb' = hist[last + 2]
      BY <1>2, <1>6, <1>7, <2>1, ApplyDiff
    <2>3. QED
      BY <1>4, <1>5, <2>2
  <1>9. UNCHANGED <<hist, unsent, bcast, chan, wire, Owing>>
    BY <1>2 DEF master, link, Owing
  <1>10. last' + Len(sync') = last + Len(sync) /\ last' \in Nat
    BY <1>1, <1>3, <1>4
  <1>11. last' + Len(sync') + Len(wire) + Len(chan) + Len(bcast) + Owing = Len(hist) - 1
    BY <1>1, <1>10
  <1>12. /\ Run(sync', last') /\ Run(wire, last' + Len(sync'))
         /\ Run(chan, last' + Len(sync') + Len(wire))
         /\ Run(bcast, last' + Len(sync') + Len(wire) + Len(chan))
    BY <1>3, <1>4, <1>10 DEF UnbrokenInv, RunsInv
  <1>13. RunsInv'
    BY <1>3, <1>8, <1>9, <1>10, <1>11, <1>12 DEF UnbrokenInv, RunsInv
  <1>14. JoinedInv'
    BY <1>2 DEF entry, link, UnbrokenInv, JoinedInv
  <1>15. QED
    BY <1>13, <1>14 DEF UnbrokenInv

\* No other step is possible: nothing breaks, nobody asks for a snapshot.
LEMMA NothingElse ==
    ASSUME ConstantsAssumption, Unbroken, UnbrokenInv
    PROVE  ~SendFullSync /\ ~Subscribe /\ ~SnapshotRead /\ ~SnapshotInstall /\ ~Environment
  <1>1. ~SendFullSync /\ ~Subscribe /\ ~SnapshotInstall /\ ~SnapshotFails
    BY DEF SendFullSync, Subscribe, SnapshotInstall, SnapshotFails, UnbrokenInv, JoinedInv
  <1>2. ~SnapshotRead
    <2>1. SUFFICES ASSUME wire # <<>> PROVE Head(wire) # FullSync
      BY DEF SnapshotRead
    <2>2. Head(wire) = wire[1] /\ 1 \in 1..Len(wire) /\ last + Len(sync) \in Nat
      <3>1. wire \in Seq(Pairs) /\ last \in Nat /\ Len(sync) \in Nat
        BY RunsBounded DEF UnbrokenInv, RunsInv
      <3>2. QED
        BY <2>1, <3>1
    <2>3. Head(wire) = <<last + Len(sync) + 1, last + Len(sync) + 1>>
      BY <2>2 DEF Run, UnbrokenInv, RunsInv
    <2>4. last + Len(sync) + 1 # 0
      BY <2>2
    <2>5. QED
      BY <2>3, <2>4 DEF FullSync
  <1>3. ~Expire /\ ~Resubscribe
    BY DEF Expire, Resubscribe, UnbrokenInv, JoinedInv
  <1>4. ~OldEnds
    BY DEF OldEnds, UnbrokenInv, JoinedInv
  <1>5. ~Disconnect /\ ~Restart /\ ~Reboot
    BY DEF Disconnect, Restart, Reboot, Unbroken
  <1>6. QED
    BY <1>1, <1>2, <1>3, <1>4, <1>5 DEF Environment

\* The replica starts with the rows of the master.
LEMMA UnbrokenStart ==
    ASSUME ConstantsAssumption, Unbroken, Init
    PROVE  UnbrokenInv
  <1>1. known = TRUE
    BY DEF Init, Unbroken
  <1>2. JoinedInv
    BY <1>1 DEF Init, JoinedInv
  <1>3. /\ hist = <<Start>> /\ Start \in Rows /\ Len(hist) = 1 /\ hist[1] = Start
        /\ hist \in Seq(Rows) /\ MaxCommits \in Nat
    BY DEF Init, ConstantsAssumption
  <1>4. /\ sync = <<>> /\ wire = <<>> /\ chan = <<>> /\ bcast = <<>> /\ last = 0
        /\ rdb = Start /\ unsent = [w \in Writers |-> NoEvent]
    BY DEF Init
  <1>5. Owing = 0
    BY <1>4 DEF Owing
  <1>6. <<>> \in Seq(Pairs) /\ Len(<<>>) = 0 /\ \A a : Run(<<>>, a)
    BY EmptySeq DEF Run
  <1>7. RunsInv
    BY <1>3, <1>4, <1>5, <1>6 DEF RunsInv
  <1>8. QED
    BY <1>2, <1>7 DEF UnbrokenInv

\* Every step keeps the stream complete.
LEMMA UnbrokenStep ==
    ASSUME ConstantsAssumption, Unbroken, UnbrokenInv, [Next]_vars
    PROVE  UnbrokenInv'
  <1>1. ASSUME NEW w \in Writers, Commit(w) \/ Collect(w) \/ Send(w)
        PROVE  UnbrokenInv'
    BY <1>1, CommitRun, CollectRun, SendRun DEF Unbroken
  <1>2. CASE Tracker
    BY <1>2, RouteRun
  <1>3. CASE Handler
    BY <1>3, PumpRun, NothingElse DEF Handler
  <1>4. CASE Streamer
    BY <1>4, ReceiveRun, NothingElse DEF Streamer
  <1>5. CASE Apply
    BY <1>5, ApplyRun
  <1>6. CASE Environment
    BY <1>6, NothingElse
  <1>7. CASE UNCHANGED vars
    <2>1. UNCHANGED <<hist, unsent, bcast, chan, wire, sync, last, rdb, Owing>>
      BY <1>7 DEF vars, master, entry, link, replica, Owing
    <2>2. RunsInv'
      BY <2>1 DEF UnbrokenInv, RunsInv
    <2>3. JoinedInv'
      BY <1>7 DEF vars, master, entry, link, replica, UnbrokenInv, JoinedInv
    <2>4. QED
      BY <2>2, <2>3 DEF UnbrokenInv
  <1>8. QED
    BY <1>1, <1>2, <1>3, <1>4, <1>5, <1>6, <1>7 DEF Next

\* ReplicaIsAPastMaster: on an unbroken stream the replica's file is at every
\* moment the master's file as it was after the commit applied last, and the
\* present one once everything has arrived (batching.rs:174-270, lib.rs:478-486).
THEOREM ReplicaIsAPastMaster ==
    ASSUME Unbroken
    PROVE  Spec => [](PrefixConsistent /\ Identical)
  <1>1. Init => UnbrokenInv
    BY ConstantsAssumption, UnbrokenStart
  <1>2. UnbrokenInv /\ [Next]_vars => UnbrokenInv'
    BY ConstantsAssumption, UnbrokenStep
  <1>3. ASSUME UnbrokenInv PROVE PrefixConsistent /\ Identical
    <2>1. PrefixConsistent
      BY <1>3 DEF PrefixConsistent, UnbrokenInv, RunsInv
    <2>2. ASSUME Quiet PROVE rdb = db
      <3>1. /\ sync \in Seq(Pairs) /\ wire \in Seq(Pairs) /\ chan \in Seq(Pairs)
            /\ bcast \in Seq(Pairs) /\ buffer = <<>> /\ buffer \in Seq(Pairs)
        BY <1>3, EmptySeq DEF UnbrokenInv, RunsInv, JoinedInv
      <3>2. Len(sync \o wire \o chan \o buffer \o bcast) = 0
        BY <2>2, EmptySeq DEF Quiet, InFlight
      <3>3. Len(sync) = 0 /\ Len(wire) = 0 /\ Len(chan) = 0 /\ Len(bcast) = 0
        <4> DEFINE two == sync \o wire
                   three == two \o chan
                   four == three \o buffer
        <4>1. two \in Seq(Pairs) /\ Len(two) = Len(sync) + Len(wire)
          BY <3>1, ConcatProperties
        <4>2. three \in Seq(Pairs) /\ Len(three) = Len(two) + Len(chan)
          BY <3>1, <4>1, ConcatProperties
        <4>3. four \in Seq(Pairs) /\ Len(four) = Len(three) + Len(buffer)
          BY <3>1, <4>2, ConcatProperties
        <4>4. Len(four \o bcast) = Len(four) + Len(bcast)
          BY <3>1, <4>3, ConcatProperties
        <4>5. /\ Len(sync) \in Nat /\ Len(wire) \in Nat /\ Len(chan) \in Nat
              /\ Len(buffer) \in Nat /\ Len(bcast) \in Nat
          BY <3>1, LenProperties
        <4>6. Len(four \o bcast) = 0
          BY <3>2
        <4> HIDE DEF two, three, four
        <4>7. QED
          BY <4>1, <4>2, <4>3, <4>4, <4>5, <4>6
      <3>4. Owing = 0
        BY <2>2 DEF Quiet, Owing
      <3>5. last + 1 = Len(hist)
        BY <1>3, <3>3, <3>4, RunsBounded, ConstantsAssumption DEF UnbrokenInv, RunsInv
      <3>6. QED
        BY <1>3, <3>5 DEF UnbrokenInv, RunsInv, db, Last
    <2>3. QED
      BY <2>1, <2>2 DEF Identical
  <1>4. QED
    BY <1>1, <1>2, <1>3, PTL DEF Spec

-----------------------------------------------------------------------------
(* A replica that joins: it fetches a snapshot and then applies events of  *)
(* commits that the snapshot already contains.                             *)

\* One writer, a file that snapshots contain, no broken connection, no restart
\* and no failed download; channels that hold all events and the request for a
\* snapshot; transactions of one row.
Joining ==
    /\ OneWriter /\ Root
    /\ Faults \cap {"disconnect", "restart", "reboot", "snapshot"} = {}
    /\ MaxCommits < BcastCap /\ MaxCommits < ChanCap /\ MaxCommits < SyncCap
    /\ \A u \in Updates : \A i, j \in DOMAIN u : i = j

\* OneRowInv: a commit has changed one row.
OneRowInv ==
    \A n \in 1..(Len(hist) - 1) : \A k, l \in Keys :
        hist[n][k] # hist[n + 1][k] /\ hist[n][l] # hist[n + 1][l] => k = l

\* TimelyInv: the changeset of a commit is read before the next commit.
Timely(q) == \A i \in 1..Len(q) : q[i][1] = q[i][2]
TimelyInv ==
    /\ Timely(bcast) /\ Timely(chan) /\ Timely(wire) /\ Timely(sync)
    /\ unsent \in [Writers -> {NoEvent, <<Len(hist) - 1, 0>>, <<Len(hist) - 1, Len(hist) - 1>>}]

\* LinkInv: once the replica is known it stays connected; before, nothing is on
\* its way.
LinkInv ==
    /\ buffer = <<>> /\ stale = 0
    /\ known => scoped /\ up /\ tx = "cur"
    /\ ~known =>
          /\ ~up /\ tx = "none" /\ ~owed /\ copy = Nowhere /\ last = 0 /\ snap = 0
          /\ chan = <<>> /\ wire = <<>> /\ sync = <<>>

\* RoomInv: there are no more events than commits, and one request.
Due == IF known /\ ~owed THEN 0 ELSE 1
RoomInv == Len(bcast) + Len(chan) + Len(wire) + Len(sync) + Owing + Due =< Len(hist)

PathInv == TypeInv /\ StreamInv /\ OneRowInv /\ TimelyInv /\ LinkInv /\ RoomInv

\* The commits after commit lo are on their way, and no others.
Gapless(lo) == lo \in last..(Len(hist) - 1) /\ FromSync = (lo + 1)..(Len(hist) - 1)

\* Row by row the file is as commit lo or the snapshot left it.
Replayed(lo) ==
    /\ last = lo \/ lo =< snap
    /\ lo >= snap => rdb = hist[lo + 1]
    /\ lo < snap => \A k \in Keys : rdb[k] = hist[lo + 1][k] \/ rdb[k] = hist[snap + 1][k]

\* What the replica has: the rows it started with; a snapshot that contains all
\* it has received; or the snapshot and the events up to commit lo.
FileAt(lo) ==
    /\ ~known => rdb = hist[1]
    /\ copy # Nowhere =>
          copy = hist[snap + 1] /\ lo =< snap /\ \A x \in Nums(sync) : x =< snap
    /\ known /\ ~AwaitsSnapshot => Replayed(lo)

JoiningInv == PathInv /\ \E lo \in Nat : Gapless(lo) /\ FileAt(lo)

-----------------------------------------------------------------------------

\* A request for a snapshot is in the queue.
Asked(q) == \E i \in 1..Len(q) : q[i] = FullSync

\* A queue after one more event or request.
LEMMA AppendOne ==
    ASSUME NEW S, NEW q \in Seq(S), NEW e \in S
    PROVE  /\ Nums(Append(q, e)) = Nums(q) \cup (IF e = FullSync THEN {} ELSE {e[1]})
           /\ Len(Append(q, e)) = Len(q) + 1 /\ Len(q) \in Nat
           /\ Timely(q) /\ e[1] = e[2] => Timely(Append(q, e))
           /\ Asked(Append(q, e)) <=> Asked(q) \/ e = FullSync
  <1>1. /\ Len(q) \in Nat /\ Len(Append(q, e)) = Len(q) + 1
        /\ \A i \in 1..Len(q) : Append(q, e)[i] = q[i]
        /\ Append(q, e)[Len(q) + 1] = e
    BY AppendProperties, LenProperties
  <1>2. \A i \in 1..Len(Append(q, e)) : i \in 1..Len(q) \/ i = Len(q) + 1
    BY <1>1
  <1>3. /\ \A i \in 1..Len(q) : i \in 1..Len(Append(q, e))
        /\ Len(q) + 1 \in 1..Len(Append(q, e))
    BY <1>1
  <1>4. Nums(Append(q, e)) \subseteq Nums(q) \cup (IF e = FullSync THEN {} ELSE {e[1]})
    BY <1>1, <1>2 DEF Nums
  <1>5. Nums(q) \subseteq Nums(Append(q, e))
    BY <1>1, <1>3 DEF Nums
  <1>6. e # FullSync => e[1] \in Nums(Append(q, e))
    BY <1>1, <1>3 DEF Nums
  <1>7. Timely(q) /\ e[1] = e[2] => Timely(Append(q, e))
    BY <1>1, <1>2 DEF Timely
  <1>8. Asked(Append(q, e)) <=> Asked(q) \/ e = FullSync
    BY <1>1, <1>2, <1>3 DEF Asked
  <1>9. QED
    BY <1>1, <1>4, <1>5, <1>6, <1>7, <1>8

\* A queue without its first event or request.
LEMMA TailOne ==
    ASSUME NEW S, NEW q \in Seq(S), q # <<>>
    PROVE  /\ Nums(q) = Nums(Tail(q)) \cup (IF Head(q) = FullSync THEN {} ELSE {Head(q)[1]})
           /\ Len(Tail(q)) = Len(q) - 1 /\ Len(q) \in Nat \ {0}
           /\ Head(q) \in S /\ Tail(q) \in Seq(S)
           /\ Timely(q) => Timely(Tail(q)) /\ Head(q)[1] = Head(q)[2]
           /\ Asked(q) <=> Asked(Tail(q)) \/ Head(q) = FullSync
  <1>1. /\ Head(q) = q[1] /\ Head(q) \in S /\ 1 \in 1..Len(q) /\ Tail(q) \in Seq(S)
        /\ Len(q) \in Nat \ {0} /\ Len(Tail(q)) = Len(q) - 1
        /\ \A k \in 1..Len(Tail(q)) : k + 1 \in 1..Len(q) /\ Tail(q)[k] = q[k + 1]
    OBVIOUS
  <1>2. \A i \in 1..Len(q) : i = 1 \/ (i - 1 \in 1..Len(Tail(q)) /\ Tail(q)[i - 1] = q[i])
    <2>1. ASSUME NEW i \in 1..Len(q), i # 1
          PROVE  i - 1 \in 1..Len(Tail(q)) /\ Tail(q)[i - 1] = q[i]
      <3>1. i - 1 \in 1..Len(Tail(q)) /\ (i - 1) + 1 = i
        BY <1>1, <2>1
      <3>2. QED
        BY <1>1, <3>1
    <2>2. QED
      BY <2>1
  <1>3. Nums(q) \subseteq Nums(Tail(q)) \cup (IF Head(q) = FullSync THEN {} ELSE {Head(q)[1]})
    BY <1>1, <1>2 DEF Nums
  <1>4. Nums(Tail(q)) \subseteq Nums(q)
    BY <1>1 DEF Nums
  <1>5. Head(q) # FullSync => Head(q)[1] \in Nums(q)
    BY <1>1 DEF Nums
  <1>6. Timely(q) => Timely(Tail(q)) /\ Head(q)[1] = Head(q)[2]
    BY <1>1 DEF Timely
  <1>7. Asked(q) <=> Asked(Tail(q)) \/ Head(q) = FullSync
    BY <1>1, <1>2 DEF Asked
  <1>8. QED
    BY <1>1, <1>3, <1>4, <1>5, <1>6, <1>7

\* A request in one of two queues is one in both together.
LEMMA AskedTwo ==
    ASSUME NEW S, NEW p \in Seq(S), NEW q \in Seq(S)
    PROVE  FullSync \in ToSet(p \o q) <=> Asked(p) \/ Asked(q)
  <1>1. /\ p \o q \in Seq(S) /\ Len(p) \in Nat /\ Len(q) \in Nat
        /\ Len(p \o q) = Len(p) + Len(q)
        /\ \A i \in 1..Len(p) : (p \o q)[i] = p[i]
        /\ \A i \in 1..Len(p \o q) : i > Len(p) => (p \o q)[i] = q[i - Len(p)]
    BY ConcatProperties, LenProperties
  <1>2. FullSync \in ToSet(p \o q) <=> Asked(p \o q)
    <2>1. DOMAIN (p \o q) = 1..Len(p \o q)
      BY <1>1, LenProperties
    <2>2. QED
      BY <2>1 DEF ToSet, Asked
  <1>3. Asked(p \o q) => Asked(p) \/ Asked(q)
    <2>1. ASSUME NEW i \in 1..Len(p \o q), (p \o q)[i] = FullSync
          PROVE  Asked(p) \/ Asked(q)
      <3>1. CASE i \in 1..Len(p)
        BY <1>1, <2>1, <3>1 DEF Asked
      <3>2. CASE i > Len(p)
        <4>1. i - Len(p) \in 1..Len(q) /\ q[i - Len(p)] = FullSync
          BY <1>1, <2>1, <3>2
        <4>2. QED
          BY <4>1 DEF Asked
      <3>3. QED
        BY <1>1, <3>1, <3>2
    <2>2. QED
      BY <2>1 DEF Asked
  <1>4. Asked(p) => Asked(p \o q)
    <2>1. \A i \in 1..Len(p) : i \in 1..Len(p \o q)
      BY <1>1
    <2>2. QED
      BY <1>1, <2>1 DEF Asked
  <1>5. Asked(q) => Asked(p \o q)
    <2>1. ASSUME NEW i \in 1..Len(q), q[i] = FullSync
          PROVE  Asked(p \o q)
      <3>1. /\ Len(p) + i \in 1..Len(p \o q) /\ Len(p) + i > Len(p)
            /\ (Len(p) + i) - Len(p) = i
        BY <1>1
      <3>2. (p \o q)[Len(p) + i] = q[(Len(p) + i) - Len(p)]
        BY <1>1, <3>1
      <3>3. (p \o q)[Len(p) + i] = FullSync
        BY <2>1, <3>1, <3>2
      <3>4. QED
        BY <3>1, <3>3 DEF Asked
    <2>2. QED
      BY <2>1 DEF Asked
  <1>6. QED
    BY <1>2, <1>3, <1>4, <1>5

-----------------------------------------------------------------------------

\* The types that the lemmas below use.
LEMMA PathFacts ==
    ASSUME ConstantsAssumption, PathInv
    PROVE  /\ bcast \in Seq(Changes) /\ sync \in Seq(Changes)
           /\ chan \in Seq(Messages) /\ wire \in Seq(Messages)
           /\ Len(bcast) \in Nat /\ Len(sync) \in Nat /\ Len(chan) \in Nat /\ Len(wire) \in Nat
           /\ hist \in Seq(Rows) /\ Len(hist) \in Nat \ {0} /\ Len(hist) - 1 \in Nat
           /\ MaxCommits \in Nat /\ Len(hist) =< MaxCommits + 1
           /\ Owing \in {0, 1} /\ Due \in {0, 1} /\ db \in Rows /\ rdb \in Rows
           /\ last \in 0..(Len(hist) - 1) /\ snap \in 0..(Len(hist) - 1)
  <1>1. StreamType /\ LimitsInv /\ FileInv
    BY DEF PathInv, TypeInv
  <1>2. /\ bcast \in Seq(Changes) /\ sync \in Seq(Changes) /\ hist \in Seq(Rows)
        /\ chan \in Seq(Messages) /\ wire \in Seq(Messages) /\ last \in 0..(Len(hist) - 1)
    BY <1>1 DEF StreamType
  <1>3. /\ Len(bcast) \in Nat /\ Len(sync) \in Nat /\ Len(chan) \in Nat /\ Len(wire) \in Nat
    BY <1>2, LenProperties
  <1>4. Owing \in {0, 1} /\ Due \in {0, 1}
    BY DEF Owing, Due
  <1>5. QED
    BY <1>1, <1>2, <1>3, <1>4, LastCommit DEF LimitsInv, FileInv, ConstantsAssumption

\* The numbers that FromSync has.
LEMMA NumbersTogether ==
    /\ FromSync = Nums(sync) \cup Nums(wire) \cup Nums(chan) \cup Nums(buffer)
                      \cup Nums(bcast) \cup Unsent
    /\ FromSync' = Nums(sync') \cup Nums(wire') \cup Nums(chan') \cup Nums(buffer')
                      \cup Nums(bcast') \cup Unsent'
  BY DEF FromSync, FromWire, FromChan, FromBuffer, FromBcast

\* What the replica has does not change while the commits on their way are the
\* same and no request is lost.
LEMMA LevelStays ==
    ASSUME NEW lo, Gapless(lo), FileAt(lo), UNCHANGED <<hist, rdb, copy, snap, last, known>>,
           FromSync' = FromSync, copy = Nowhere \/ sync' = sync,
           AwaitsSnapshot => AwaitsSnapshot'
    PROVE  Gapless(lo)' /\ FileAt(lo)'
  <1>1. Gapless(lo)'
    BY DEF Gapless
  <1>2. Replayed(lo) => Replayed(lo)'
    BY DEF Replayed
  <1>3. copy # Nowhere => Nums(sync') = Nums(sync)
    OBVIOUS
  <1>4. QED
    BY <1>1, <1>2, <1>3 DEF FileAt

\* The two ends of the path: the broadcast comes before what is unsent, the
\* replica's own queue before all the rest.
LEMMA StagesOrder ==
    ASSUME StreamInv
    PROVE  /\ \A x \in Nums(bcast) : \A y \in Unsent : x < y
           /\ \A x \in Nums(sync) : \A y \in FromSync \ Nums(sync) : x < y
  BY DEF StreamInv, StagesInv, Below, FromSync, FromWire

-----------------------------------------------------------------------------

\* A commit of one row adds its number at the end of what is on its way.
LEMMA CommitJoin ==
    ASSUME ConstantsAssumption, Joining, PathInv, NEW lo \in Nat, Gapless(lo), FileAt(lo),
           NEW w \in Writers, Commit(w)
    PROVE  /\ OneRowInv' /\ TimelyInv' /\ LinkInv' /\ RoomInv'
           /\ Gapless(lo)' /\ FileAt(lo)'
  <1> DEFINE n == Len(hist)
  <1>1. /\ unsent[w] = NoEvent /\ n \in Nat \ {0}
        /\ hist \in Seq(Rows) /\ db \in Rows
        /\ last \in 0..(n - 1) /\ snap \in 0..(n - 1)
    BY PathFacts DEF Commit
  <1>2. PICK u \in Updates :
            /\ hist' = Append(hist, [k \in Keys |-> IF k \in DOMAIN u THEN u[k] ELSE db[k]])
            /\ unsent' = [unsent EXCEPT ![w] = <<n, 0>>]
    BY DEF Commit
  <1>3. UNCHANGED <<bcast, entry, link, replica>>
    BY DEF Commit
  <1> DEFINE new == [k \in Keys |-> IF k \in DOMAIN u THEN u[k] ELSE db[k]]
  <1>4. new \in Rows
    BY <1>1 DEF Rows, ConstantsAssumption
  <1>5. /\ Len(hist') = n + 1
        /\ \A i \in 1..n : hist'[i] = hist[i]
        /\ hist'[n + 1] = new
    BY <1>1, <1>2, <1>4, AppendProperties
  <1>6. \A v \in Writers : v = w
    BY DEF Joining, OneWriter
  <1>7. Owing = 0 /\ Unsent = {}
    BY <1>1, <1>6 DEF Owing, Unsent
  <1>8. unsent'[w] = <<n, 0>> /\ unsent' \in [Writers -> {<<n, 0>>}]
    <2>1. unsent \in [Writers -> {NoEvent, <<n - 1, 0>>, <<n - 1, n - 1>>}]
      BY DEF PathInv, TimelyInv
    <2>2. QED
      BY <1>2, <1>6, <2>1
  <1>9. unsent'[w] # NoEvent /\ unsent'[w][1] = n
    BY <1>8 DEF NoEvent
  <1>10. Owing' = 1
    BY <1>9 DEF Owing
  <1>11. Unsent' = {n}
    <2> HIDE DEF n
    <2> QED
      BY <1>6, <1>9, Zenon DEF Unsent
  <1>12. TimelyInv'
    <2>1. Len(hist') - 1 = n
      BY <1>1, <1>5
    <2>2. unsent' \in [Writers ->
              {NoEvent, <<Len(hist') - 1, 0>>, <<Len(hist') - 1, Len(hist') - 1>>}]
      BY <1>8, <2>1
    <2>3. QED
      BY <1>3, <2>2 DEF PathInv, TimelyInv, link, replica
  <1>13. LinkInv'
    BY <1>3 DEF PathInv, LinkInv, entry, link, replica
  <1>14. RoomInv'
    <2>1. UNCHANGED <<bcast, chan, wire, sync, Due>>
      BY <1>3 DEF entry, link, replica, Due
    <2>2. QED
      BY <1>1, <1>5, <1>7, <1>10, <2>1, PathFacts DEF PathInv, RoomInv
  <1>15. OneRowInv'
    <2>1. SUFFICES ASSUME NEW i \in 1..(Len(hist') - 1), NEW k \in Keys, NEW l \in Keys,
                          hist'[i][k] # hist'[i + 1][k], hist'[i][l] # hist'[i + 1][l]
                   PROVE  k = l
      BY DEF OneRowInv
    <2>2. CASE i \in 1..(n - 1)
      <3>1. hist'[i] = hist[i] /\ hist'[i + 1] = hist[i + 1]
        BY <1>1, <1>5, <2>2
      <3>2. QED
        BY <2>1, <2>2, <3>1 DEF PathInv, OneRowInv
    <2>3. CASE i = n
      <3>1. hist'[i] = db /\ hist'[i + 1] = new
        BY <1>1, <1>5, <2>3 DEF db, Last
      <3>2. k \in DOMAIN u /\ l \in DOMAIN u
        BY <2>1, <3>1
      <3>3. QED
        BY <3>2 DEF Joining
    <2>4. QED
      BY <1>1, <1>5, <2>2, <2>3
  <1>16. Gapless(lo)'
    <2>1. UNCHANGED <<bcast, buffer, chan, wire, sync, last>>
      BY <1>3 DEF entry, link, replica
    <2>2. FromSync' = FromSync \cup {n}
      BY <1>7, <1>11, <2>1, NumbersTogether
    <2>3. lo \in last..(n - 1) /\ FromSync = (lo + 1)..(n - 1)
      BY DEF Gapless
    <2>4. lo \in last..n /\ FromSync' = (lo + 1)..n
      <3> HIDE DEF n
      <3> QED
        BY <1>1, <2>2, <2>3
    <2>5. QED
      BY <1>1, <1>5, <2>1, <2>4 DEF Gapless
  <1>17. FileAt(lo)'
    <2>1. UNCHANGED <<rdb, copy, snap, last, known, sync, AwaitsSnapshot>>
      BY <1>3 DEF entry, link, replica, AwaitsSnapshot
    <2>2. lo + 1 \in 1..n /\ snap + 1 \in 1..n /\ 1 \in 1..n
      BY <1>1 DEF Gapless
    <2>3. Replayed(lo) => Replayed(lo)'
      BY <1>5, <2>1, <2>2 DEF Replayed
    <2>4. QED
      BY <1>5, <2>1, <2>2, <2>3 DEF FileAt
  <1>18. QED
    BY <1>12, <1>13, <1>14, <1>15, <1>16, <1>17

\* The changeset is read before the next commit.
LEMMA CollectJoin ==
    ASSUME ConstantsAssumption, Joining, PathInv, NEW lo \in Nat, Gapless(lo), FileAt(lo),
           NEW w \in Writers, Collect(w)
    PROVE  /\ OneRowInv' /\ TimelyInv' /\ LinkInv' /\ RoomInv'
           /\ Gapless(lo)' /\ FileAt(lo)'
  <1> DEFINE n == Len(hist)
  <1>1. /\ unsent[w] # NoEvent
        /\ unsent' = [unsent EXCEPT ![w] = <<unsent[w][1], n - 1>>]
        /\ UNCHANGED <<hist, bcast, entry, link, replica>>
    BY DEF Collect
  <1>2. unsent \in [Writers -> {NoEvent, <<n - 1, 0>>, <<n - 1, n - 1>>}]
    BY DEF PathInv, TimelyInv
  <1>3. unsent[w][1] = n - 1
    BY <1>1, <1>2
  <1>4. unsent' = [unsent EXCEPT ![w] = <<n - 1, n - 1>>]
    BY <1>1, <1>3
  <1>5. \A v \in Writers : v = w
    BY DEF Joining, OneWriter
  <1>6. unsent'[w] # NoEvent /\ unsent'[w][1] = n - 1
    BY <1>2, <1>4 DEF NoEvent
  <1>7. Owing' = Owing
    BY <1>1, <1>6 DEF Owing
  <1>8. Unsent' = Unsent
    <2> HIDE DEF n
    <2>1. Unsent = {unsent[w][1]} /\ Unsent' = {unsent'[w][1]}
      BY <1>1, <1>5, <1>6, Zenon DEF Unsent
    <2>2. QED
      BY <1>3, <1>6, <2>1
  <1>9. UNCHANGED <<hist, bcast, buffer, chan, wire, sync, last, rdb, copy, snap, known, Due,
                    AwaitsSnapshot>>
    BY <1>1 DEF entry, link, replica, Due, AwaitsSnapshot
  <1>10. TimelyInv'
    <2>1. unsent' \in [Writers -> {NoEvent, <<n - 1, 0>>, <<n - 1, n - 1>>}]
      BY <1>2, <1>4
    <2>2. QED
      BY <1>9, <2>1 DEF PathInv, TimelyInv
  <1>11. LinkInv'
    BY <1>1 DEF PathInv, LinkInv, entry, link, replica
  <1>12. RoomInv' /\ OneRowInv'
    BY <1>7, <1>9 DEF PathInv, RoomInv, OneRowInv
  <1>13. FromSync' = FromSync
    BY <1>8, <1>9, NumbersTogether
  <1>14. QED
    BY <1>9, <1>10, <1>11, <1>12, <1>13, LevelStays

\* An event that was read is broadcast; there is room for it.
LEMMA SendJoin ==
    ASSUME ConstantsAssumption, Joining, PathInv, NEW lo \in Nat, Gapless(lo), FileAt(lo),
           NEW w \in Writers, Send(w)
    PROVE  /\ OneRowInv' /\ TimelyInv' /\ LinkInv' /\ RoomInv'
           /\ Gapless(lo)' /\ FileAt(lo)'
  <1> DEFINE n == Len(hist)
             e == <<n - 1, n - 1>>
  <1>1. /\ unsent[w] # NoEvent /\ unsent[w][2] # 0
        /\ bcast' = Broadcast(bcast, BcastCap, unsent[w])
        /\ unsent' = [unsent EXCEPT ![w] = NoEvent]
        /\ UNCHANGED <<hist, entry, link, replica>>
    BY DEF Send
  <1>2. /\ unsent \in [Writers -> {NoEvent, <<n - 1, 0>>, e}]
        /\ unsent[w] \in {NoEvent} \cup Changes
    BY DEF PathInv, TimelyInv, StreamInv, StreamType
  <1>3. unsent[w] = e /\ e \in Changes
    BY <1>1, <1>2
  <1>4. \A v \in Writers : v = w
    BY DEF Joining, OneWriter
  <1>5. /\ Owing = 1 /\ Unsent = {n - 1}
    <2>1. unsent[w][1] = n - 1
      BY <1>3
    <2> HIDE DEF n, e
    <2>2. Unsent = {n - 1}
      BY <1>1, <1>4, <2>1, Zenon DEF Unsent
    <2>3. QED
      BY <1>1, <2>2 DEF Owing
  <1>6. unsent' \in [Writers -> {NoEvent}]
    BY <1>1, <1>2, <1>4
  <1>7. Owing' = 0 /\ Unsent' = {}
    BY <1>6 DEF Owing, Unsent
  <1>8. Len(bcast) < BcastCap
    <2>1. BcastCap \in Nat /\ MaxCommits < BcastCap
      BY DEF Joining, ConstantsAssumption
    <2>2. QED
      BY <1>5, <2>1, PathFacts DEF PathInv, RoomInv
  <1>9. bcast' = Append(bcast, e)
    BY <1>1, <1>3, <1>8 DEF Broadcast
  <1>10. e # FullSync
    <2>1. n - 1 \in 1..(Len(hist) - 1)
      BY <1>3 DEF Changes
    <2>2. ASSUME NEW i \in 1..(Len(hist) - 1) PROVE <<i, i>> # <<0, 0>>
      <3>1. i # 0
        BY <2>2
      <3>2. QED
        BY <3>1
    <2>3. QED
      BY <2>1, <2>2 DEF FullSync
  <1>11. /\ Nums(bcast') = Nums(bcast) \cup {n - 1} /\ Len(bcast') = Len(bcast) + 1
         /\ Timely(bcast')
    <2>1. bcast \in Seq(Changes) /\ Timely(bcast)
      BY PathFacts DEF PathInv, TimelyInv
    <2>2. QED
      BY <1>3, <1>9, <1>10, <2>1, AppendOne
  <1>12. UNCHANGED <<hist, buffer, chan, wire, sync, last, rdb, copy, snap, known, Due,
                     AwaitsSnapshot>>
    BY <1>1 DEF entry, link, replica, Due, AwaitsSnapshot
  <1>13. TimelyInv'
    <2>1. unsent' \in [Writers -> {NoEvent, <<n - 1, 0>>, e}]
      BY <1>6
    <2>2. QED
      BY <1>11, <1>12, <2>1 DEF PathInv, TimelyInv
  <1>14. LinkInv' /\ OneRowInv'
    BY <1>1 DEF PathInv, LinkInv, OneRowInv, entry, link, replica
  <1>15. RoomInv'
    BY <1>5, <1>7, <1>11, <1>12, PathFacts DEF PathInv, RoomInv
  <1>16. FromSync' = FromSync
    BY <1>5, <1>7, <1>11, <1>12, NumbersTogether
  <1>17. QED
    BY <1>12, <1>13, <1>14, <1>15, <1>16, LevelStays

\* The least of an interval of numbers is its first.
LEMMA NextOne ==
    ASSUME NEW lo \in Nat, NEW n \in Nat, NEW h \in Nat, NEW T,
           {h} \cup T = (lo + 1)..n, \A y \in T : h < y
    PROVE  h = lo + 1 /\ lo + 1 =< n /\ T = (lo + 1 + 1)..n
  <1>1. h \in (lo + 1)..n /\ T \subseteq (lo + 1)..n
    OBVIOUS
  <1>2. lo + 1 \in {h} \cup T
    BY <1>1
  <1>3. h = lo + 1
    BY <1>1, <1>2
  <1>4. \A y \in T : y \in (lo + 1 + 1)..n
    BY <1>1, <1>3
  <1>5. \A y \in (lo + 1 + 1)..n : y \in T
    <2>1. \A y \in (lo + 1 + 1)..n : y \in (lo + 1)..n /\ y # lo + 1
      OBVIOUS
    <2>2. QED
      BY <1>3, <2>1
  <1>6. T = (lo + 1 + 1)..n
    BY <1>4, <1>5
  <1>7. QED
    BY <1>1, <1>3, <1>6

\* The tracker hands an event to the channel, or drops it while the replica is
\* unknown: then nothing of the past is on its way, and lo moves on.
LEMMA RouteJoin ==
    ASSUME ConstantsAssumption, Joining, PathInv, NEW lo \in Nat, Gapless(lo), FileAt(lo),
           Tracker
    PROVE  /\ OneRowInv' /\ TimelyInv' /\ LinkInv' /\ RoomInv'
           /\ \E m \in Nat : Gapless(m)' /\ FileAt(m)'
  <1> DEFINE h == Head(bcast)
  <1>1. /\ bcast # <<>> /\ bcast' = Tail(bcast)
        /\ UNCHANGED <<hist, unsent, wire, sync, known, owed, replica>>
    <2>1. CASE RouteNowhere
      BY <2>1 DEF RouteNowhere, entry, link, replica
    <2>2. CASE RouteToChannel \/ RouteToOld \/ RouteFails
      BY <2>2 DEF RouteToChannel, RouteToOld, RouteFails, Routed, entry, link, replica
    <2>3. QED
      BY <2>1, <2>2 DEF Tracker
  <1>2. bcast \in Seq(Changes) /\ chan \in Seq(Messages) /\ Timely(bcast) /\ Timely(chan)
    BY PathFacts DEF PathInv, TimelyInv
  <1>3. /\ Nums(bcast) = Nums(bcast') \cup (IF h = FullSync THEN {} ELSE {h[1]})
        /\ Len(bcast') = Len(bcast) - 1 /\ h \in Changes /\ Len(bcast) \in Nat \ {0}
        /\ Timely(bcast') /\ h[1] = h[2]
    BY <1>1, <1>2, TailOne
  <1>4. h # FullSync /\ h[1] \in Nat /\ h \in Messages
    BY <1>3, PathFacts DEF Changes, FullSync, Messages
  <1>5. Unsent' = Unsent /\ Owing' = Owing /\ Due' = Due
    BY <1>1 DEF Unsent, Owing, Due
  <1>6. OneRowInv'
    BY <1>1 DEF PathInv, OneRowInv
  <1>7. CASE ~known
    <2>1. RouteNowhere /\ UNCHANGED <<entry, link>>
      BY <1>7 DEF Tracker, RouteNowhere, RouteToChannel, RouteToOld, RouteFails, Routed
    <2>2. UNCHANGED <<hist, unsent, wire, chan, sync, buffer, last, snap, rdb, copy, known, owed>>
      BY <1>1, <2>1 DEF entry, link, replica
    <2>3. /\ chan = <<>> /\ wire = <<>> /\ sync = <<>> /\ buffer = <<>> /\ copy = Nowhere
          /\ last = 0
      BY <1>7 DEF PathInv, LinkInv
    <2>4. FromSync = {h[1]} \cup FromSync'
      BY <1>3, <1>4, <1>5, <2>2, <2>3, EmptyQueue, NumbersTogether
    <2>5. \A y \in FromSync' : h[1] < y
      <3>1. \A y \in Nums(bcast') : h[1] < y
        BY <1>1, <1>2, <1>4, TailQueue DEF PathInv, StreamInv, RisingInv
      <3>2. \A y \in Unsent : h[1] < y
        BY <1>3, <1>4, StagesOrder DEF PathInv
      <3>3. FromSync' = Nums(bcast') \cup Unsent
        BY <1>5, <2>2, <2>3, EmptyQueue, NumbersTogether
      <3>4. QED
        BY <3>1, <3>2, <3>3
    <2>6. lo + 1 =< Len(hist) - 1 /\ FromSync' = (lo + 1 + 1)..(Len(hist) - 1)
      BY <1>4, <2>4, <2>5, NextOne, PathFacts DEF Gapless
    <2>7. Gapless(lo + 1)'
      BY <2>2, <2>3, <2>6, PathFacts DEF Gapless
    <2>8. FileAt(lo + 1)'
      BY <1>7, <2>2, <2>3 DEF FileAt
    <2>9. TimelyInv' /\ LinkInv'
      BY <1>1, <1>3, <2>1, <2>2 DEF PathInv, TimelyInv, LinkInv, entry, link, replica
    <2>10. RoomInv'
      BY <1>1, <1>3, <1>5, <2>2, PathFacts DEF PathInv, RoomInv
    <2>11. QED
      BY <1>6, <2>7, <2>8, <2>9, <2>10
  <1>8. CASE known
    <2>1. scoped /\ up /\ tx = "cur" /\ Due = (IF owed THEN 1 ELSE 0)
      BY <1>8 DEF PathInv, LinkInv, Due
    <2>2. Len(chan) < ChanCap
      <3>1. ChanCap \in Nat /\ MaxCommits < ChanCap
        BY DEF Joining, ConstantsAssumption
      <3>2. QED
        BY <1>3, <3>1, PathFacts DEF PathInv, RoomInv
    <2>3. RouteToChannel
      <3>1. ~RouteNowhere /\ ~RouteToOld
        BY <1>8, <2>1 DEF RouteNowhere, RouteToOld
      <3>2. ~RouteFails
        <4>1. ChanCap \in Nat /\ Len(chan) \in Nat
          BY PathFacts DEF ConstantsAssumption
        <4>2. ~(Len(chan) >= ChanCap)
          BY <2>2, <4>1
        <4>3. QED
          BY <2>1, <4>2 DEF RouteFails
      <3>3. QED
        BY <3>1, <3>2 DEF Tracker
    <2>4. /\ chan' = Append(chan, h)
          /\ UNCHANGED <<entry, conns, up, ws, wire, replica>>
      BY <2>3 DEF RouteToChannel
    <2>5. /\ Nums(chan') = Nums(chan) \cup {h[1]} /\ Len(chan') = Len(chan) + 1
          /\ Timely(chan') /\ (Asked(chan') <=> Asked(chan))
      BY <1>2, <1>3, <1>4, <2>4, AppendOne
    <2>6. UNCHANGED <<hist, unsent, wire, sync, buffer, last, snap, rdb, copy, known, owed>>
      BY <1>1, <2>4 DEF entry, replica
    <2>7. FromSync' = FromSync
      BY <1>3, <1>4, <1>5, <2>5, <2>6, NumbersTogether
    <2>8. AwaitsSnapshot => AwaitsSnapshot'
      <3>1. wire \in Seq(Messages) /\ Append(chan, h) \in Seq(Messages)
        BY <1>2, <1>4, AppendProperties, PathFacts
      <3>2. FullSync \in ToSet(chan \o wire) => FullSync \in ToSet(chan' \o wire)
        BY <1>2, <2>4, <2>5, <3>1, AskedTwo
      <3>3. QED
        BY <2>6, <3>2 DEF AwaitsSnapshot
    <2>9. TimelyInv' /\ LinkInv'
      <3>1. TimelyInv'
        BY <1>3, <2>5, <2>6 DEF PathInv, TimelyInv
      <3>2. LinkInv'
        BY <1>8, <2>1, <2>4 DEF PathInv, LinkInv, entry
      <3>3. QED
        BY <3>1, <3>2
    <2>10. RoomInv'
      BY <1>3, <1>5, <2>5, <2>6, PathFacts DEF PathInv, RoomInv
    <2>11. Gapless(lo)' /\ FileAt(lo)'
      BY <2>6, <2>7, <2>8, LevelStays
    <2>12. QED
      BY <1>6, <2>9, <2>10, <2>11
  <1>9. QED
    BY <1>7, <1>8

\* The handler puts its request for a snapshot into the channel.
LEMMA RequestJoin ==
    ASSUME ConstantsAssumption, Joining, PathInv, NEW lo \in Nat, Gapless(lo), FileAt(lo),
           SendFullSync
    PROVE  /\ OneRowInv' /\ TimelyInv' /\ LinkInv' /\ RoomInv'
           /\ Gapless(lo)' /\ FileAt(lo)'
  <1>1. /\ owed /\ ~owed' /\ up
        /\ UNCHANGED <<master, known, row, scoped, tx, buffer, stale, conns, up, ws, replica>>
        /\ \/ wire' = Append(wire, FullSync) /\ chan' = chan
           \/ chan' = Append(chan, FullSync) /\ wire' = wire
    BY DEF SendFullSync
  <1>2. chan \in Seq(Messages) /\ wire \in Seq(Messages) /\ FullSync \in Messages
    BY PathFacts DEF Messages
  <1>3. FullSync[1] = FullSync[2]
    BY DEF FullSync
  <1>4. ASSUME NEW q \in Seq(Messages), Timely(q)
        PROVE  /\ Nums(Append(q, FullSync)) = Nums(q) /\ Len(Append(q, FullSync)) = Len(q) + 1
               /\ Timely(Append(q, FullSync)) /\ Asked(Append(q, FullSync))
               /\ Append(q, FullSync) \in Seq(Messages)
    BY <1>2, <1>3, <1>4, AppendOne, AppendProperties
  <1>5. /\ Nums(chan') = Nums(chan) /\ Nums(wire') = Nums(wire)
        /\ Timely(chan') /\ Timely(wire') /\ (Asked(chan') \/ Asked(wire'))
        /\ chan' \in Seq(Messages) /\ wire' \in Seq(Messages)
        /\ Len(chan') + Len(wire') = Len(chan) + Len(wire) + 1
    <2>1. Timely(chan) /\ Timely(wire) /\ Len(chan) \in Nat /\ Len(wire) \in Nat
      BY PathFacts DEF PathInv, TimelyInv
    <2>2. /\ Nums(Append(chan, FullSync)) = Nums(chan)
          /\ Len(Append(chan, FullSync)) = Len(chan) + 1
          /\ Timely(Append(chan, FullSync)) /\ Asked(Append(chan, FullSync))
          /\ Append(chan, FullSync) \in Seq(Messages)
      BY <1>2, <1>4, <2>1
    <2>3. /\ Nums(Append(wire, FullSync)) = Nums(wire)
          /\ Len(Append(wire, FullSync)) = Len(wire) + 1
          /\ Timely(Append(wire, FullSync)) /\ Asked(Append(wire, FullSync))
          /\ Append(wire, FullSync) \in Seq(Messages)
      BY <1>2, <1>4, <2>1
    <2>4. CASE wire' = Append(wire, FullSync) /\ chan' = chan
      BY <1>2, <2>1, <2>3, <2>4
    <2>5. CASE chan' = Append(chan, FullSync) /\ wire' = wire
      BY <1>2, <2>1, <2>2, <2>5
    <2>6. QED
      BY <1>1, <2>4, <2>5
  <1>6. UNCHANGED <<hist, unsent, bcast, sync, buffer, last, snap, rdb, copy, known, Unsent, Owing>>
    BY <1>1 DEF master, replica, Unsent, Owing
  <1>7. FromSync' = FromSync
    BY <1>5, <1>6, NumbersTogether
  <1>8. AwaitsSnapshot'
    <2>1. FullSync \in ToSet(chan' \o wire')
      BY <1>5, AskedTwo
    <2>2. QED
      BY <2>1 DEF AwaitsSnapshot
  <1>9. known
    BY <1>1 DEF PathInv, LinkInv
  <1>10. RoomInv'
    <2>1. Due = 1 /\ Due' = 0
      BY <1>1, <1>6, <1>9 DEF Due
    <2>2. /\ Len(bcast) \in Nat /\ Len(sync) \in Nat /\ Len(chan) \in Nat /\ Len(wire) \in Nat
          /\ Len(hist) \in Nat /\ Owing \in {0, 1}
      BY PathFacts
    <2>3. Len(bcast) + Len(chan) + Len(wire) + Len(sync) + Owing + Due =< Len(hist)
      BY DEF PathInv, RoomInv
    <2>4. /\ Len(bcast') = Len(bcast) /\ Len(sync') = Len(sync)
          /\ Len(hist') = Len(hist) /\ Owing' = Owing
          /\ Len(chan') \in Nat /\ Len(wire') \in Nat
      BY <1>5, <1>6, LenProperties
    <2>5. Len(chan') + Len(wire') = Len(chan) + Len(wire) + 1
      BY <1>5
    <2>6. Len(bcast') + Len(chan') + Len(wire') + Len(sync') + Owing' + Due' =< Len(hist')
      BY <2>1, <2>2, <2>3, <2>4, <2>5
    <2>7. QED
      BY <2>6 DEF RoomInv
  <1>11. TimelyInv' /\ LinkInv' /\ OneRowInv'
    BY <1>1, <1>5, <1>6, <1>9 DEF PathInv, TimelyInv, LinkInv, OneRowInv
  <1>12. QED
    BY <1>6, <1>7, <1>8, <1>10, <1>11, LevelStays

\* The connection sends on.
LEMMA PumpJoin ==
    ASSUME ConstantsAssumption, Joining, PathInv, NEW lo \in Nat, Gapless(lo), FileAt(lo),
           Pump
    PROVE  /\ OneRowInv' /\ TimelyInv' /\ LinkInv' /\ RoomInv'
           /\ Gapless(lo)' /\ FileAt(lo)'
  <1> DEFINE h == Head(chan)
  <1>1. /\ up /\ chan # <<>> /\ wire' = Append(wire, h) /\ chan' = Tail(chan)
        /\ UNCHANGED <<master, entry, conns, up, ws, replica>>
    BY DEF Pump
  <1>2. chan \in Seq(Messages) /\ wire \in Seq(Messages) /\ Timely(chan) /\ Timely(wire)
    BY PathFacts DEF PathInv, TimelyInv
  <1>3. /\ Nums(chan) = Nums(chan') \cup (IF h = FullSync THEN {} ELSE {h[1]})
        /\ Len(chan') = Len(chan) - 1 /\ h \in Messages /\ Len(chan) \in Nat \ {0}
        /\ chan' \in Seq(Messages) /\ Timely(chan') /\ h[1] = h[2]
        /\ (Asked(chan) <=> Asked(chan') \/ h = FullSync)
    BY <1>1, <1>2, TailOne
  <1>4. /\ Nums(wire') = Nums(wire) \cup (IF h = FullSync THEN {} ELSE {h[1]})
        /\ Len(wire') = Len(wire) + 1 /\ wire' \in Seq(Messages) /\ Timely(wire')
        /\ (Asked(wire') <=> Asked(wire) \/ h = FullSync)
    BY <1>1, <1>2, <1>3, AppendOne, AppendProperties
  <1>5. UNCHANGED <<hist, unsent, bcast, sync, buffer, last, snap, rdb, copy, known, owed,
                    Unsent, Owing, Due>>
    BY <1>1 DEF master, entry, replica, Unsent, Owing, Due
  <1>6. FromSync' = FromSync
    BY <1>3, <1>4, <1>5, NumbersTogether
  <1>7. AwaitsSnapshot => AwaitsSnapshot'
    <2>1. FullSync \in ToSet(chan \o wire) => FullSync \in ToSet(chan' \o wire')
      BY <1>2, <1>3, <1>4, AskedTwo
    <2>2. QED
      BY <1>5, <2>1 DEF AwaitsSnapshot
  <1>8. known
    BY <1>1 DEF PathInv, LinkInv
  <1>9. TimelyInv' /\ LinkInv' /\ OneRowInv'
    BY <1>1, <1>3, <1>4, <1>5, <1>8 DEF PathInv, TimelyInv, LinkInv, OneRowInv, entry
  <1>10. RoomInv'
    BY <1>3, <1>4, <1>5, PathFacts DEF PathInv, RoomInv
  <1>11. QED
    BY <1>5, <1>6, <1>7, <1>9, <1>10, LevelStays

\* A new replica starts with an empty channel.
LEMMA SubscribeJoin ==
    ASSUME ConstantsAssumption, Joining, PathInv, NEW lo \in Nat, Gapless(lo), FileAt(lo),
           Subscribe
    PROVE  /\ OneRowInv' /\ TimelyInv' /\ LinkInv' /\ RoomInv'
           /\ Gapless(lo)' /\ FileAt(lo)'
  <1>1. ~known /\ buffer = <<>> /\ chan = <<>> /\ wire = <<>> /\ copy = Nowhere /\ stale = 0
    BY DEF Subscribe, PathInv, LinkInv
  <1>2. /\ up' = TRUE /\ known' = TRUE /\ scoped' = TRUE /\ buffer' = <<>> /\ tx' = "cur"
        /\ owed' = TRUE /\ chan' = <<>> /\ wire' = <<>>
        /\ UNCHANGED <<master, stale, replica>>
    BY <1>1 DEF Subscribe, NewTx
  <1>3. UNCHANGED <<hist, unsent, bcast, sync, chan, wire, buffer, last, snap, rdb, copy,
                    Unsent, Owing>>
    BY <1>1, <1>2 DEF master, replica, Unsent, Owing
  <1>4. TimelyInv' /\ LinkInv' /\ OneRowInv'
    BY <1>1, <1>2, <1>3 DEF PathInv, TimelyInv, LinkInv, OneRowInv
  <1>5. RoomInv'
    <2>1. Due = 1 /\ Due' = 1
      BY <1>1, <1>2 DEF Due
    <2>2. QED
      BY <1>3, <2>1 DEF PathInv, RoomInv
  <1>6. FromSync' = FromSync
    BY <1>3, NumbersTogether
  <1>7. Gapless(lo)'
    BY <1>3, <1>6 DEF Gapless
  <1>8. FileAt(lo)'
    BY <1>1, <1>2, <1>3 DEF FileAt, AwaitsSnapshot
  <1>9. QED
    BY <1>4, <1>5, <1>7, <1>8

\* The replica reads an event, or a request and begins to download.
LEMMA ReceiveJoin ==
    ASSUME ConstantsAssumption, Joining, PathInv, NEW lo \in Nat, Gapless(lo), FileAt(lo),
           Receive
    PROVE  /\ OneRowInv' /\ TimelyInv' /\ LinkInv' /\ RoomInv'
           /\ Gapless(lo)' /\ FileAt(lo)'
  <1> DEFINE h == Head(wire)
  <1>1. /\ up /\ copy = Nowhere /\ wire # <<>> /\ h # FullSync
        /\ sync' = Broadcast(sync, SyncCap, h) /\ wire' = Tail(wire)
        /\ UNCHANGED <<master, entry, conns, up, ws, chan, rdb, copy, last, snap>>
    BY DEF Receive
  <1>2. /\ wire \in Seq(Messages) /\ sync \in Seq(Messages) /\ chan \in Seq(Messages)
        /\ Timely(wire) /\ Timely(sync)
    BY PathFacts, WiderQueue DEF PathInv, TimelyInv, Messages
  <1>3. /\ Nums(wire) = Nums(wire') \cup {h[1]}
        /\ Len(wire') = Len(wire) - 1 /\ h \in Messages /\ Len(wire) \in Nat \ {0}
        /\ wire' \in Seq(Messages) /\ Timely(wire') /\ h[1] = h[2]
        /\ (Asked(wire) <=> Asked(wire'))
    BY <1>1, <1>2, TailOne
  <1>4. Len(sync) < SyncCap
    <2>1. SyncCap \in Nat /\ MaxCommits < SyncCap
      BY DEF Joining, ConstantsAssumption
    <2>2. QED
      BY <1>3, <2>1, PathFacts DEF PathInv, RoomInv
  <1>5. sync' = Append(sync, h)
    BY <1>1, <1>4 DEF Broadcast
  <1>6. /\ Nums(sync') = Nums(sync) \cup {h[1]}
        /\ Len(sync') = Len(sync) + 1 /\ Timely(sync')
    <2>1. /\ sync \in Seq(Messages) /\ h \in Messages /\ h # FullSync
          /\ Timely(sync) /\ h[1] = h[2]
      BY <1>1, <1>2, <1>3
    <2> HIDE DEF h
    <2>2. /\ Nums(Append(sync, h)) = Nums(sync) \cup {h[1]}
          /\ Len(Append(sync, h)) = Len(sync) + 1 /\ Timely(Append(sync, h))
      BY <2>1, AppendOne
    <2>3. QED
      BY <1>5, <2>2
  <1>7. UNCHANGED <<hist, unsent, bcast, chan, buffer, last, snap, rdb, copy, known, owed,
                    Unsent, Owing, Due>>
    BY <1>1 DEF master, entry, Unsent, Owing, Due
  <1>8. FromSync' = FromSync
    BY <1>3, <1>6, <1>7, NumbersTogether
  <1>9. AwaitsSnapshot => AwaitsSnapshot'
    <2>1. FullSync \in ToSet(chan \o wire) => FullSync \in ToSet(chan \o wire')
      BY <1>2, <1>3, AskedTwo
    <2>2. QED
      BY <1>7, <2>1 DEF AwaitsSnapshot
  <1>10. known
    BY <1>1 DEF PathInv, LinkInv
  <1>11. TimelyInv' /\ OneRowInv'
    <2>1. TimelyInv /\ OneRowInv
      BY DEF PathInv
    <2>2. OneRowInv'
      BY <1>7, <2>1 DEF OneRowInv
    <2>3. /\ Timely(wire') /\ Timely(sync')
          /\ UNCHANGED <<bcast, chan, unsent, hist>>
      BY <1>3, <1>6, <1>7
    <2>4. TimelyInv'
      BY <2>1, <2>3 DEF TimelyInv
    <2>5. QED
      BY <2>2, <2>4
  <1>12. LinkInv'
    BY <1>1, <1>10 DEF PathInv, LinkInv, entry
  <1>13. RoomInv'
    BY <1>3, <1>6, <1>7, PathFacts DEF PathInv, RoomInv
  <1>14. QED
    BY <1>1, <1>7, <1>8, <1>9, <1>11, <1>12, <1>13, LevelStays

\* The snapshot contains all that the replica has received.
LEMMA SnapshotJoin ==
    ASSUME ConstantsAssumption, Joining, PathInv, NEW lo \in Nat, Gapless(lo), FileAt(lo),
           SnapshotRead
    PROVE  /\ OneRowInv' /\ TimelyInv' /\ LinkInv' /\ RoomInv'
           /\ Gapless(lo)' /\ FileAt(lo)'
  <1> DEFINE h == Head(wire)
             n == Len(hist)
  <1>1. /\ up /\ wire # <<>> /\ h = FullSync /\ wire' = Tail(wire)
        /\ copy' = db /\ snap' = n - 1
        /\ UNCHANGED <<master, entry, conns, up, ws, chan, rdb, sync, last>>
    BY DEF SnapshotRead, Joining
  <1>2. wire \in Seq(Messages) /\ Timely(wire)
    BY PathFacts DEF PathInv, TimelyInv
  <1>3. /\ Nums(wire) = Nums(wire') /\ Len(wire') = Len(wire) - 1 /\ Timely(wire')
        /\ Len(wire) \in Nat \ {0}
    BY <1>1, <1>2, TailOne
  <1>4. UNCHANGED <<hist, unsent, bcast, chan, sync, buffer, last, rdb, known, owed,
                    Unsent, Owing, Due>>
    BY <1>1 DEF master, entry, Unsent, Owing, Due
  <1>5. FromSync' = FromSync
    BY <1>3, <1>4, NumbersTogether
  <1>6. Gapless(lo)'
    BY <1>4, <1>5 DEF Gapless
  <1>7. known
    BY <1>1 DEF PathInv, LinkInv
  <1>8. TimelyInv' /\ OneRowInv'
    BY <1>3, <1>4 DEF PathInv, TimelyInv, OneRowInv
  <1>9. LinkInv'
    BY <1>1, <1>7 DEF PathInv, LinkInv, entry
  <1>10. RoomInv'
    BY <1>3, <1>4, PathFacts DEF PathInv, RoomInv
  <1>11. n \in Nat \ {0} /\ lo \in 0..(n - 1) /\ db = hist[n] /\ db \in Rows /\ rdb \in Rows
         /\ hist \in Seq(Rows)
    BY PathFacts DEF Gapless, db, Last
  <1>12. snap' + 1 = n /\ lo =< snap'
    BY <1>1, <1>11
  <1>13. copy' = hist'[snap' + 1]
    BY <1>1, <1>4, <1>11, <1>12
  <1>14. \A x \in Nums(sync') : x =< snap'
    <2>1. Nums(sync) \subseteq (lo + 1)..(n - 1)
      BY NumbersTogether DEF Gapless
    <2>2. QED
      BY <1>1, <1>4, <1>11, <2>1
  <1>15. ~AwaitsSnapshot' => Replayed(lo)'
    <2>1. SUFFICES ASSUME copy' = Nowhere PROVE Replayed(lo)'
      BY DEF AwaitsSnapshot
    <2>2. Keys = {}
      BY <1>1, <1>11, <2>1 DEF Nowhere, Rows
    <2>3. \A r \in Rows : r = rdb
      BY <1>11, <2>2 DEF Rows
    <2>4. rdb = hist[lo + 1]
      <3>1. lo + 1 \in 1..Len(hist)
        BY <1>11
      <3>2. hist[lo + 1] \in Rows
        BY <1>11, <3>1, ElementOfSeq
      <3>3. QED
        BY <2>3, <3>2
    <2>5. QED
      BY <1>4, <1>12, <2>2, <2>4 DEF Replayed
  <1>16. FileAt(lo)'
    BY <1>4, <1>7, <1>12, <1>13, <1>14, <1>15 DEF FileAt
  <1>17. QED
    BY <1>6, <1>8, <1>9, <1>10, <1>16

\* The file is the snapshot, which the events up to commit lo cannot change.
LEMMA InstallJoin ==
    ASSUME ConstantsAssumption, Joining, PathInv, NEW lo \in Nat, Gapless(lo), FileAt(lo),
           SnapshotInstall
    PROVE  /\ OneRowInv' /\ TimelyInv' /\ LinkInv' /\ RoomInv'
           /\ Gapless(lo)' /\ FileAt(lo)'
  <1>1. /\ copy # Nowhere /\ rdb' = copy /\ copy' = Nowhere
        /\ UNCHANGED <<master, entry, link, sync, last, snap>>
    BY DEF SnapshotInstall
  <1>2. UNCHANGED <<hist, unsent, bcast, chan, wire, sync, buffer, last, snap, known, owed,
                    Unsent, Owing, Due>>
    BY <1>1 DEF master, entry, link, Unsent, Owing, Due
  <1>3. FromSync' = FromSync
    BY <1>2, NumbersTogether
  <1>4. TimelyInv' /\ OneRowInv' /\ RoomInv' /\ Gapless(lo)'
    BY <1>2, <1>3 DEF PathInv, TimelyInv, OneRowInv, RoomInv, Gapless
  <1>5. LinkInv'
    BY <1>1, <1>2 DEF PathInv, LinkInv, entry, link
  <1>6. known /\ copy = hist[snap + 1] /\ lo =< snap
    BY <1>1 DEF PathInv, LinkInv, FileAt
  <1>7. Replayed(lo)'
    <2>1. lo \in Nat /\ snap \in Nat
      BY PathFacts
    <2>2. lo >= snap => lo = snap
      BY <1>6, <2>1
    <2>3. QED
      BY <1>1, <1>2, <1>6, <2>2 DEF Replayed
  <1>8. FileAt(lo)'
    BY <1>1, <1>2, <1>6, <1>7 DEF FileAt
  <1>9. QED
    BY <1>4, <1>5, <1>8

\* A changeset of one row, applied to rows that are as it found them or as a
\* later snapshot has them: afterwards they are as it left them or as the
\* snapshot has them, also when it meets no row and is rolled back.
LEMMA ReplayDiff ==
    ASSUME NEW old \in Rows, NEW new \in Rows, NEW later \in Rows, NEW rows \in Rows,
           \A k, l \in Keys : old[k] # new[k] /\ old[l] # new[l] => k = l,
           \A k \in Keys : rows[k] = old[k] \/ rows[k] = later[k]
    PROVE  /\ ApplyStrm(rows, Diff(old, new)) \in Rows
           /\ \A k \in Keys : \/ ApplyStrm(rows, Diff(old, new))[k] = new[k]
                              \/ ApplyStrm(rows, Diff(old, new))[k] = later[k]
  <1> DEFINE cs == Diff(old, new)
  <1>1. DOMAIN cs = {k \in Keys : old[k] # new[k]}
    BY DEF Diff
  <1>2. \A k \in DOMAIN cs : cs[k].old = old[k] /\ cs[k].new = new[k]
    BY DEF Diff
  <1> HIDE DEF cs
  <1>3. CASE NotFound(rows, cs)
    <2>1. PICK d \in DOMAIN cs : old[d] # Absent /\ rows[d] = Absent
      BY <1>2, <1>3 DEF NotFound
    <2>2. d \in Keys /\ old[d] # new[d] /\ rows[d] = later[d]
      BY <1>1, <2>1
    <2>3. \A k \in Keys : k # d => old[k] = new[k]
      BY <2>2
    <2>4. \A k \in Keys : rows[k] = new[k] \/ rows[k] = later[k]
      BY <2>2, <2>3
    <2>5. QED
      BY <1>3, <2>4 DEF ApplyStrm, cs
  <1>4. CASE ~NotFound(rows, cs)
    <2>1. ApplyStrm(rows, cs) = [k \in Keys |-> IF k \in DOMAIN cs THEN cs[k].new ELSE rows[k]]
      BY <1>4 DEF ApplyStrm
    <2>2. \A k \in Keys : ApplyStrm(rows, cs)[k] = IF k \in DOMAIN cs THEN new[k] ELSE rows[k]
      BY <1>2, <2>1
    <2>3. ApplyStrm(rows, cs) \in Rows
      BY <1>2, <2>1 DEF Rows
    <2>4. \A k \in Keys : k \notin DOMAIN cs => old[k] = new[k]
      BY <1>1
    <2>5. QED
      BY <2>2, <2>3, <2>4 DEF cs
  <1>5. QED
    BY <1>3, <1>4

\* The changeset of a commit that was read before the next one.
LEMMA ChangesetIsDiff ==
    ASSUME hist \in Seq(Rows), NEW n \in Nat, n + 1 \in 1..Len(hist), n + 2 \in 1..Len(hist)
    PROVE  /\ ChangesetOf(<<n + 1, n + 1>>) = Diff(hist[n + 1], hist[n + 2])
           /\ hist[n + 1] \in Rows /\ hist[n + 2] \in Rows
  <1>1. hist[n + 1] \in Rows /\ hist[n + 2] \in Rows
    BY ElementOfSeq
  <1>2. [k \in Keys |-> IF hist[n + 2][k] # hist[n + 1][k]
                          THEN hist[n + 2][k] ELSE hist[n + 1][k]] = hist[n + 2]
    BY <1>1 DEF Rows
  <1>3. n + 1 + 1 = n + 2
    OBVIOUS
  <1>4. ChangesetOf(<<n + 1, n + 1>>) =
            Diff(hist[n + 1], [k \in Keys |-> IF hist[n + 2][k] # hist[n + 1][k]
                                                THEN hist[n + 2][k] ELSE hist[n + 1][k]])
    BY <1>3 DEF ChangesetOf
  <1>5. QED
    BY <1>1, <1>2, <1>4

\* The replica applies the event of commit lo + 1: one that the snapshot has, or
\* the first that it has not.
LEMMA ApplyJoin ==
    ASSUME ConstantsAssumption, Joining, PathInv, NEW lo \in Nat, Gapless(lo), FileAt(lo),
           Apply
    PROVE  /\ OneRowInv' /\ TimelyInv' /\ LinkInv' /\ RoomInv'
           /\ Gapless(lo + 1)' /\ FileAt(lo + 1)'
  <1> DEFINE h == Head(sync)
             n == Len(hist)
  <1>1. /\ sync # <<>> /\ sync' = Tail(sync) /\ last' = h[1]
        /\ rdb' = ApplyStrm(rdb, ChangesetOf(h))
        /\ UNCHANGED <<master, entry, link, copy, snap>>
    BY DEF Apply
  <1>2. /\ sync \in Seq(Changes) /\ Timely(sync) /\ n \in Nat \ {0} /\ hist \in Seq(Rows)
        /\ snap \in 0..(n - 1) /\ rdb \in Rows
    BY PathFacts DEF PathInv, TimelyInv
  <1>3. /\ Nums(sync) = Nums(sync') \cup (IF h = FullSync THEN {} ELSE {h[1]})
        /\ Len(sync') = Len(sync) - 1 /\ h \in Changes /\ Len(sync) \in Nat \ {0}
        /\ Timely(sync') /\ h[1] = h[2]
    BY <1>1, <1>2, TailOne
  <1>4. h # FullSync /\ h[1] \in Nat /\ h = <<h[1], h[1]>>
    <2>1. PICK i \in 1..(n - 1), j \in 0..(n - 1) : h = <<i, j>>
      BY <1>3 DEF Changes
    <2>2. h[1] = i /\ h[2] = j /\ i # 0 /\ i \in Nat
      BY <2>1
    <2> HIDE DEF h, n
    <2>3. QED
      BY <1>3, <2>1, <2>2 DEF FullSync
  <1>5. UNCHANGED <<hist, unsent, bcast, chan, wire, buffer, copy, snap, known, owed,
                    Unsent, Owing, Due, AwaitsSnapshot>>
    BY <1>1 DEF master, entry, link, Unsent, Owing, Due, AwaitsSnapshot
  <1>6. Nums(sync) = Nums(sync') \cup {h[1]}
    BY <1>3, <1>4
  <1>7. FromSync = {h[1]} \cup FromSync'
    BY <1>5, <1>6, NumbersTogether
  <1>8. \A y \in FromSync' : h[1] < y
    <2>1. \A y \in Nums(sync') : h[1] < y
      BY <1>1, <1>2, <1>4, TailQueue DEF PathInv, StreamInv, RisingInv
    <2>2. \A y \in FromSync' \ Nums(sync') : h[1] < y
      <3>1. Below(Nums(sync), FromWire)
        BY DEF PathInv, StreamInv, StagesInv
      <3>2. FromWire' = FromWire
        BY <1>5 DEF FromWire, FromChan, FromBuffer, FromBcast
      <3>3. FromSync' = Nums(sync') \cup FromWire
        BY <3>2 DEF FromSync
      <3>4. QED
        BY <1>6, <3>1, <3>3 DEF Below
    <2>3. QED
      BY <2>1, <2>2
  <1>9. h[1] = lo + 1 /\ lo + 1 =< n - 1 /\ FromSync' = (lo + 1 + 1)..(n - 1)
    <2>1. n - 1 \in Nat /\ FromSync = (lo + 1)..(n - 1)
      BY <1>2 DEF Gapless
    <2> HIDE DEF h, n
    <2>2. QED
      BY <1>4, <1>7, <1>8, <2>1, NextOne
  <1>10. last' = lo + 1
    BY <1>1, <1>9
  <1>11. Gapless(lo + 1)'
    BY <1>2, <1>5, <1>9, <1>10 DEF Gapless
  <1>12. TimelyInv' /\ OneRowInv'
    <2>1. TimelyInv /\ OneRowInv
      BY DEF PathInv
    <2>2. OneRowInv'
      BY <1>5, <2>1 DEF OneRowInv
    <2>3. Timely(sync') /\ UNCHANGED <<bcast, chan, wire, unsent, hist>>
      BY <1>3, <1>5
    <2>4. TimelyInv'
      BY <2>1, <2>3 DEF TimelyInv
    <2>5. QED
      BY <2>2, <2>4
  <1>13. known
    BY <1>1 DEF PathInv, LinkInv
  <1>14. LinkInv'
    BY <1>1, <1>5, <1>13 DEF PathInv, LinkInv, entry, link
  <1>15. RoomInv'
    BY <1>3, <1>5, PathFacts DEF PathInv, RoomInv
  <1>16. copy # Nowhere => lo + 1 =< snap /\ \A x \in Nums(sync') : x =< snap
    BY <1>6, <1>9 DEF FileAt
  <1>17. /\ lo + 1 \in 1..n /\ lo + 2 \in 1..n /\ lo + 1 + 1 = lo + 2
         /\ snap + 1 \in 1..n /\ lo + 1 \in 1..(n - 1)
    BY <1>2, <1>9
  <1>18. /\ rdb' = ApplyStrm(rdb, Diff(hist[lo + 1], hist[lo + 2]))
         /\ hist[lo + 1] \in Rows /\ hist[lo + 2] \in Rows
    <2>1. h = <<lo + 1, lo + 1>>
      BY <1>4, <1>9
    <2>2. QED
      BY <1>1, <1>2, <1>17, <2>1, ChangesetIsDiff
  <1>19. ASSUME Replayed(lo) PROVE Replayed(lo + 1)'
    <2>1. CASE lo >= snap
      <3>1. rdb = hist[lo + 1]
        BY <1>19, <2>1 DEF Replayed
      <3>2. rdb' = hist[lo + 2]
        BY <1>18, <3>1, ApplyDiff
      <3>3. ~(lo + 1 < snap)
        BY <1>2, <2>1
      <3>4. QED
        BY <1>5, <1>10, <1>17, <3>2, <3>3 DEF Replayed
    <2>2. CASE lo < snap
      <3>1. \A k \in Keys : rdb[k] = hist[lo + 1][k] \/ rdb[k] = hist[snap + 1][k]
        BY <1>19, <2>2 DEF Replayed
      <3>2. hist[snap + 1] \in Rows
        BY <1>2, <1>17, ElementOfSeq
      <3>3. \A k, l \in Keys : (/\ hist[lo + 1][k] # hist[lo + 2][k]
                                /\ hist[lo + 1][l] # hist[lo + 2][l]) => k = l
        <4>1. lo + 1 \in 1..(Len(hist) - 1)
          BY <1>17
        <4> HIDE DEF h, n
        <4>2. \A k, l \in Keys : (/\ hist[lo + 1][k] # hist[(lo + 1) + 1][k]
                                  /\ hist[lo + 1][l] # hist[(lo + 1) + 1][l]) => k = l
          BY <4>1 DEF PathInv, OneRowInv
        <4>3. QED
          BY <1>17, <4>2
      <3>4. /\ rdb' \in Rows
            /\ \A k \in Keys : rdb'[k] = hist[lo + 2][k] \/ rdb'[k] = hist[snap + 1][k]
        BY <1>2, <1>18, <3>1, <3>2, <3>3, ReplayDiff
      <3>5. ASSUME lo + 1 >= snap PROVE rdb' = hist[lo + 2]
        <4>1. snap + 1 = lo + 2
          BY <1>2, <2>2, <3>5
        <4>2. \A k \in Keys : rdb'[k] = hist[lo + 2][k]
          BY <3>4, <4>1
        <4>3. QED
          BY <1>18, <3>4, <4>2 DEF Rows
      <3>6. QED
        BY <1>5, <1>10, <1>17, <3>4, <3>5 DEF Replayed
    <2>3. QED
      BY <1>2, <2>1, <2>2
  <1>20. FileAt(lo + 1)'
    BY <1>5, <1>13, <1>16, <1>19 DEF FileAt
  <1>21. QED
    BY <1>11, <1>12, <1>14, <1>15, <1>20

\* A new subscription on a live WebSocket, and steps that change nothing.
LEMMA QuietJoin ==
    ASSUME ConstantsAssumption, Joining, PathInv, NEW lo \in Nat, Gapless(lo), FileAt(lo),
           Environment \/ UNCHANGED vars
    PROVE  /\ OneRowInv' /\ TimelyInv' /\ LinkInv' /\ RoomInv'
           /\ Gapless(lo)' /\ FileAt(lo)'
  <1>1. Resubscribe \/ UNCHANGED vars
    <2>1. ~Disconnect /\ ~Restart /\ ~Reboot /\ ~SnapshotFails
      BY DEF Disconnect, Restart, Reboot, SnapshotFails, Joining
    <2>2. ~Expire /\ ~OldEnds
      BY DEF Expire, OldEnds, PathInv, LinkInv
    <2>3. QED
      BY <2>1, <2>2 DEF Environment
  <1>2. UNCHANGED <<hist, unsent, bcast, chan, wire, sync, buffer, last, rdb, copy, snap,
                    known, scoped, owed, stale, up, tx>>
    <2>1. CASE Resubscribe
      <3>1. buffer = <<>> /\ tx = "cur" /\ wire \in Seq(Messages)
        BY <2>1, PathFacts DEF PathInv, LinkInv, Resubscribe
      <3>2. wire \o <<>> = wire
        BY <3>1, ConcatEmptySeq
      <3>3. QED
        BY <2>1, <3>1, <3>2 DEF Resubscribe, master, replica
    <2>2. CASE UNCHANGED vars
      BY <2>2 DEF vars, master, entry, link, replica
    <2>3. QED
      BY <1>1, <2>1, <2>2
  <1>3. UNCHANGED <<Unsent, Owing, Due, AwaitsSnapshot>>
    BY <1>2 DEF Unsent, Owing, Due, AwaitsSnapshot
  <1>4. FromSync' = FromSync
    BY <1>2, <1>3, NumbersTogether
  <1>5. OneRowInv' /\ TimelyInv' /\ LinkInv' /\ RoomInv'
    BY <1>2, <1>3 DEF PathInv, OneRowInv, TimelyInv, LinkInv, RoomInv
  <1>6. QED
    BY <1>2, <1>3, <1>4, <1>5, LevelStays

\* JoiningInv holds at the start.
LEMMA JoiningStart ==
    ASSUME ConstantsAssumption, Joining, Init
    PROVE  JoiningInv
  <1>1. TypeInv /\ StreamInv
    BY TypeStart, StreamStart
  <1>2. /\ hist = <<Start>> /\ unsent = [w \in Writers |-> NoEvent]
        /\ bcast = <<>> /\ buffer = <<>> /\ chan = <<>> /\ wire = <<>> /\ sync = <<>>
        /\ last = 0 /\ snap = 0 /\ rdb = Start /\ copy = Nowhere
        /\ known \in BOOLEAN /\ owed = FALSE /\ stale = 0 /\ scoped = known /\ up = known
        /\ tx = IF known THEN "cur" ELSE "none"
    BY DEF Init, ConstantsAssumption
  <1>3. Len(hist) = 1 /\ hist[1] = Start /\ Len(<<>>) = 0
    BY <1>2
  <1>4. Owing = 0 /\ Unsent = {} /\ Due \in {0, 1}
    BY <1>2 DEF Owing, Unsent, Due
  <1>5. FromSync = {}
    BY <1>2, <1>4, EmptyQueue, NumbersTogether
  <1>6. OneRowInv /\ RoomInv
    BY <1>2, <1>3, <1>4 DEF OneRowInv, RoomInv
  <1>7. TimelyInv /\ LinkInv
    BY <1>2, <1>3 DEF TimelyInv, Timely, LinkInv
  <1>8. Gapless(0)
    BY <1>2, <1>3, <1>5 DEF Gapless
  <1>9. FileAt(0)
    BY <1>2, <1>3 DEF FileAt, Replayed
  <1>10. QED
    BY <1>1, <1>6, <1>7, <1>8, <1>9 DEF JoiningInv, PathInv

\* JoiningInv is inductive.
LEMMA JoiningStep ==
    ASSUME ConstantsAssumption, Joining, JoiningInv, [Next]_vars
    PROVE  JoiningInv'
  <1>1. PathInv /\ TypeInv /\ StreamInv
    BY DEF JoiningInv, PathInv
  <1>2. PICK lo \in Nat : Gapless(lo) /\ FileAt(lo)
    BY DEF JoiningInv
  <1>3. TypeInv' /\ StreamInv'
    <2>1. Resubscribe => buffer = <<>> /\ tx = "cur"
      BY <1>1 DEF Resubscribe, PathInv, LinkInv
    <2>2. QED
      BY <1>1, <2>1, TypeStep, StreamStep DEF Joining
  <1>4. /\ OneRowInv' /\ TimelyInv' /\ LinkInv' /\ RoomInv'
        /\ \E m \in Nat : Gapless(m)' /\ FileAt(m)'
    <2>1. ASSUME NEW w \in Writers, Commit(w) \/ Collect(w) \/ Send(w)
          PROVE  /\ OneRowInv' /\ TimelyInv' /\ LinkInv' /\ RoomInv'
                 /\ Gapless(lo)' /\ FileAt(lo)'
      BY <1>1, <1>2, <2>1, CommitJoin, CollectJoin, SendJoin
    <2>2. CASE Tracker
      BY <1>1, <1>2, <2>2, RouteJoin
    <2>3. CASE Handler
      BY <1>1, <1>2, <2>3, RequestJoin, PumpJoin DEF Handler
    <2>4. CASE Streamer
      BY <1>1, <1>2, <2>4, SubscribeJoin, ReceiveJoin, SnapshotJoin, InstallJoin DEF Streamer
    <2>5. CASE Apply
      <3>1. lo + 1 \in Nat
        BY <1>2
      <3>2. QED
        BY <1>1, <1>2, <2>5, <3>1, ApplyJoin
    <2>6. CASE Environment \/ UNCHANGED vars
      BY <1>1, <1>2, <2>6, QuietJoin
    <2>7. QED
      BY <1>2, <2>1, <2>2, <2>3, <2>4, <2>5, <2>6 DEF Next
  <1>5. QED
    BY <1>3, <1>4 DEF JoiningInv, PathInv

\* Queues that are empty together are empty.
LEMMA EmptyParts ==
    ASSUME NEW S, NEW p \in Seq(S), NEW q \in Seq(S), NEW r \in Seq(S), NEW s \in Seq(S),
           NEW t \in Seq(S), p \o q \o r \o s \o t = <<>>
    PROVE  p = <<>> /\ q = <<>> /\ r = <<>> /\ s = <<>> /\ t = <<>>
  <1>1. ASSUME NEW x \in Seq(S), NEW y \in Seq(S), x \o y = <<>>
        PROVE  x = <<>> /\ y = <<>>
    <2>1. Len(x \o y) = Len(x) + Len(y) /\ Len(x) \in Nat /\ Len(y) \in Nat
      BY ConcatProperties, LenProperties
    <2>2. Len(x) = 0 /\ Len(y) = 0
      BY <1>1, <2>1
    <2>3. QED
      BY <2>2, EmptySeq
  <1> DEFINE two == p \o q
             three == two \o r
             four == three \o s
  <1>2. two \in Seq(S)
    BY ConcatProperties
  <1>3. three \in Seq(S)
    BY <1>2, ConcatProperties
  <1>4. four \in Seq(S)
    BY <1>3, ConcatProperties
  <1>5. four \o t = <<>>
    OBVIOUS
  <1> HIDE DEF four
  <1>6. four = <<>> /\ t = <<>>
    BY <1>1, <1>4, <1>5
  <1> HIDE DEF three
  <1>7. three = <<>> /\ s = <<>>
    BY <1>1, <1>3, <1>6 DEF four
  <1> HIDE DEF two
  <1>8. two = <<>> /\ r = <<>>
    BY <1>1, <1>2, <1>7 DEF three
  <1>9. QED
    BY <1>1, <1>6, <1>7, <1>8 DEF two

\* JoinsAndCatchesUp: a replica that comes later fetches a snapshot and applies
\* again what the snapshot has already; still its file is a past state of the
\* master whenever it is past its snapshot, and the present one once everything
\* has arrived (grpc_server.rs:240-265, lib.rs:467-504).
THEOREM JoinsAndCatchesUp ==
    ASSUME Joining
    PROVE  Spec => [](PrefixConsistent /\ Identical)
  <1>1. Init => JoiningInv
    BY ConstantsAssumption, JoiningStart
  <1>2. JoiningInv /\ [Next]_vars => JoiningInv'
    BY ConstantsAssumption, JoiningStep
  <1>3. ASSUME JoiningInv PROVE PrefixConsistent /\ Identical
    <2>1. PathInv
      BY <1>3 DEF JoiningInv
    <2>2. PICK lo \in Nat : Gapless(lo) /\ FileAt(lo)
      BY <1>3 DEF JoiningInv
    <2>3. /\ last \in Nat /\ snap \in Nat /\ snap =< Len(hist) - 1 /\ Len(hist) \in Nat \ {0}
      BY <2>1, ConstantsAssumption, PathFacts
    <2>4. last =< lo /\ lo =< Len(hist) - 1
      BY <2>2, <2>3 DEF Gapless
    <2>5. ASSUME ~AwaitsSnapshot, last >= snap PROVE rdb = hist[last + 1]
      <3>1. CASE ~known
        BY <2>1, <2>2, <3>1 DEF FileAt, PathInv, LinkInv
      <3>2. CASE known
        <4>1. Replayed(lo)
          BY <2>2, <2>5, <3>2 DEF FileAt
        <4>2. lo = last /\ lo >= snap
          BY <2>3, <2>4, <2>5, <4>1 DEF Replayed
        <4>3. QED
          BY <4>1, <4>2 DEF Replayed
      <3>3. QED
        BY <3>1, <3>2
    <2>6. ASSUME Quiet PROVE rdb = db
      <3>1. /\ bcast = <<>> /\ sync = <<>> /\ chan = <<>> /\ wire = <<>> /\ buffer = <<>>
        <4>1. /\ bcast \in Seq(Messages) /\ sync \in Seq(Messages) /\ chan \in Seq(Messages)
              /\ wire \in Seq(Messages) /\ buffer \in Seq(Messages)
          BY <2>1, ConstantsAssumption, PathFacts, WiderQueue, EmptySeq
             DEF Messages, PathInv, LinkInv
        <4>2. sync \o wire \o chan \o buffer \o bcast = <<>>
          BY <2>6 DEF Quiet, InFlight
        <4>3. QED
          BY <4>1, <4>2, EmptyParts
      <3>2. Unsent = {}
        BY <2>6 DEF Quiet, Unsent
      <3>3. FromSync = {}
        BY <3>1, <3>2, EmptyQueue, NumbersTogether
      <3>4. lo = Len(hist) - 1
        <4>1. ~(lo + 1 =< Len(hist) - 1)
          BY <2>2, <2>3, <3>3 DEF Gapless
        <4>2. QED
          BY <2>3, <2>4, <4>1
      <3>5. known /\ ~AwaitsSnapshot
        <4>1. up /\ ~owed /\ copy = Nowhere
          BY <2>6 DEF Quiet
        <4>2. FullSync \notin ToSet(chan \o wire)
          BY <3>1 DEF ToSet
        <4>3. QED
          BY <2>1, <4>1, <4>2 DEF AwaitsSnapshot, PathInv, LinkInv
      <3>6. rdb = hist[lo + 1]
        BY <2>2, <2>3, <3>4, <3>5 DEF FileAt, Replayed
      <3>7. QED
        BY <2>3, <3>4, <3>6 DEF db, Last
    <2>7. QED
      BY <2>5, <2>6 DEF PrefixConsistent, Identical
  <1>4. QED
    BY <1>1, <1>2, <1>3, PTL DEF Spec
=============================================================================
