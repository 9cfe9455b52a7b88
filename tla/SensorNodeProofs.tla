-------------------------- MODULE SensorNodeProofs --------------------------
(***************************************************************************)
(* SensorNode's invariants for every cap, counter width, number of posts   *)
(* per period, heap size and set of readings.                              *)
(***************************************************************************)
EXTENDS SensorNode, DataFacts

(***************************************************************************)
(* Position finds the one place of an element.                             *)
(***************************************************************************)
LEMMA PositionFacts ==
  ASSUME NEW S, NEW s \in Seq(S), NEW e \in ToSet(s)
  PROVE  /\ Position(s, e) \in 1 .. Len(s)
         /\ s[Position(s, e)] = e
<1>1. \E k \in DOMAIN s : s[k] = e
  BY DEF ToSet
<1>2. Position(s, e) \in DOMAIN s /\ s[Position(s, e)] = e
  BY <1>1 DEF Position
<1> QED BY <1>2

(***************************************************************************)
(* reading_remove takes the node out, closes the gap and decrements the    *)
(* counter unless the node was the head.                                   *)
(***************************************************************************)
LEMMA ReadingRemoveFacts ==
  ASSUME NEW S, NEW lst \in ReadingLists(S), IsInjective(lst.nodes),
         NEW node \in ToSet(lst.nodes)
  PROVE  LET k == Position(lst.nodes, node)
             l == reading_remove(lst, node)
         IN  /\ l \in ReadingLists(S)
             /\ ClosesGap(l.nodes, lst.nodes, k)
             /\ l.length = IF k = 1 THEN lst.length ELSE Decrement(lst.length)
             /\ IsInjective(l.nodes)
             /\ ToSet(l.nodes) = ToSet(lst.nodes) \ {node}
<1> DEFINE s == lst.nodes
           k == Position(s, node)
           l == reading_remove(lst, node)
<1>1. s \in Seq(S) /\ lst.length \in Counter
  BY DEF ReadingLists
<1>2. k \in 1 .. Len(s) /\ s[k] = node
  BY <1>1, PositionFacts
<1>3. s # <<>> /\ Len(s) \in Nat \ {0} /\ Head(s) = s[1]
  BY <1>1, <1>2
<1>4. node = Head(s) <=> k = 1
  BY <1>1, <1>2, <1>3 DEF IsInjective
<1>5. Decrement(lst.length) \in Counter
  BY <1>1, CapAssumption DEF Decrement, Counter
<1>6. CASE k = 1
  <2>1. l = [nodes |-> Tail(s), length |-> lst.length]
    BY <1>4, <1>6 DEF reading_remove
  <2>2. /\ Tail(s) \in Seq(S) /\ Len(Tail(s)) = Len(s) - 1
        /\ \A j \in 1 .. Len(s) - 1 : Tail(s)[j] = s[j + 1]
    BY <1>1, <1>3
  <2>3. ClosesGap(Tail(s), s, k)
    BY <1>1, <1>6, <2>2 DEF ClosesGap
  <2>4. IsInjective(Tail(s)) /\ ToSet(Tail(s)) = ToSet(s) \ {node}
    <3> DEFINE t == Tail(s)
    <3>1. t \in Seq(S) /\ ClosesGap(t, s, k)
      BY <2>2, <2>3
    <3> HIDE DEF t, s, k
    <3>2. IsInjective(t) /\ ToSet(t) = ToSet(s) \ {s[k]}
      BY <1>1, <1>2, <3>1, GapInjective DEF s
    <3> QED BY <1>2, <3>2 DEF t
  <2> QED BY <1>1, <1>6, <2>1, <2>2, <2>3, <2>4 DEF ReadingLists
<1>7. CASE k # 1
  <2>1. l = [nodes |-> RemoveAt(s, k), length |-> Decrement(lst.length)]
    BY <1>4, <1>7 DEF reading_remove
  <2>2. RemoveAt(s, k) \in Seq(S) /\ ClosesGap(RemoveAt(s, k), s, k)
    BY <1>1, <1>2, RemoveAtFacts DEF ClosesGap
  <2>3. IsInjective(RemoveAt(s, k)) /\ ToSet(RemoveAt(s, k)) = ToSet(s) \ {node}
    BY <1>1, <1>2, <2>2, GapInjective
  <2> QED BY <1>5, <1>7, <2>1, <2>2, <2>3 DEF ReadingLists
<1> QED BY <1>6, <1>7

(***************************************************************************)
(* reading_add puts the new reading last; over the cap the old head goes.  *)
(***************************************************************************)
LEMMA ReadingAddFacts ==
  ASSUME NEW S, NEW lst \in ReadingLists(S), IsInjective(lst.nodes),
         NEW node \in S, node \notin ToSet(lst.nodes)
  PROVE  LET l == reading_add(lst, node)
         IN  /\ l \in ReadingLists(S)
             /\ l.nodes # <<>>
             /\ Len(l.nodes) = IF OverCap(lst) THEN Len(lst.nodes)
                               ELSE Len(lst.nodes) + 1
             /\ l.length = IF lst.nodes = <<>> THEN 1 ELSE Increment(lst.length)
             /\ IsInjective(l.nodes)
             /\ ToSet(l.nodes) = (ToSet(lst.nodes) \cup {node}) \
                    (IF OverCap(lst) THEN {Head(lst.nodes)} ELSE {})
<1> DEFINE s == lst.nodes
           full == Appended(lst, node)
           l == reading_add(lst, node)
<1>1. s \in Seq(S) /\ lst.length \in Counter /\ Len(s) \in Nat
  BY DEF ReadingLists
<1>2. Increment(lst.length) \in Counter /\ 1 \in Counter
  BY <1>1, CapAssumption DEF Increment, Counter
<1>3. full.length = IF s = <<>> THEN 1 ELSE Increment(lst.length)
  BY <1>1 DEF Appended
<1>4. full \in ReadingLists(S)
  BY <1>1, <1>2 DEF Appended, ReadingLists
<1>5. /\ Len(full.nodes) = Len(s) + 1
      /\ full.nodes[Len(s) + 1] = node
      /\ \A j \in 1 .. Len(s) : full.nodes[j] = s[j]
  <2>1. CASE s = <<>>
    BY <2>1 DEF Appended
  <2>2. CASE s # <<>>
    BY <1>1, <2>2 DEF Appended
  <2> QED BY <2>1, <2>2
<1>6. DOMAIN s = 1 .. Len(s) /\ DOMAIN full.nodes = 1 .. Len(s) + 1
  BY <1>1, <1>4, <1>5 DEF ReadingLists
<1> HIDE DEF full
<1>7. IsInjective(full.nodes)
  <2>1. \A j \in 1 .. Len(s) : s[j] # node
    BY <1>6 DEF ToSet
  <2>2. \A j, k \in 1 .. Len(s) : s[j] = s[k] => j = k
    BY <1>6 DEF IsInjective
  <2>3. ASSUME NEW j \in 1 .. Len(s) + 1, NEW k \in 1 .. Len(s) + 1,
               full.nodes[j] = full.nodes[k]
        PROVE  j = k
    <3>1. /\ j \in 1 .. Len(s) \/ j = Len(s) + 1
          /\ k \in 1 .. Len(s) \/ k = Len(s) + 1
      BY <1>1
    <3> QED BY <1>5, <2>1, <2>2, <2>3, <3>1
  <2> QED BY <1>6, <2>3 DEF IsInjective
<1>8. ToSet(full.nodes) = ToSet(s) \cup {node}
  <2>1. 1 .. Len(s) + 1 = (1 .. Len(s)) \cup {Len(s) + 1}
    BY <1>1
  <2> QED BY <1>5, <1>6, <2>1 DEF ToSet
<1>9. CASE ~OverCap(lst)
  <2>1. l = full
    BY <1>9 DEF reading_add, full
  <2>2. full.nodes # <<>>
    BY <1>1, <1>5
  <2> QED BY <1>3, <1>4, <1>5, <1>7, <1>8, <1>9, <2>1, <2>2
<1>10. CASE OverCap(lst)
  <2>1. l = reading_remove(full, Head(full.nodes))
    BY <1>10 DEF reading_add, full
  <2>2. s # <<>> /\ Len(s) >= 1
    BY <1>1, <1>10 DEF OverCap
  <2>3. Head(full.nodes) = s[1] /\ Head(s) = s[1] /\ full.nodes[1] = s[1]
    BY <1>1, <1>4, <1>5, <2>2 DEF ReadingLists
  <2>4. Head(full.nodes) \in ToSet(full.nodes)
    BY <1>5, <1>6, <2>2, <2>3 DEF ToSet
  <2>5. Position(full.nodes, Head(full.nodes)) = 1
    <3>1. full.nodes \in Seq(S)
      BY <1>4 DEF ReadingLists
    <3>2. /\ Position(full.nodes, Head(full.nodes)) \in 1 .. Len(full.nodes)
          /\ full.nodes[Position(full.nodes, Head(full.nodes))] = Head(full.nodes)
      BY <2>4, <3>1, PositionFacts
    <3> QED BY <1>5, <1>6, <1>7, <2>2, <2>3, <3>2 DEF IsInjective
  <2>6. /\ l \in ReadingLists(S)
        /\ ClosesGap(l.nodes, full.nodes, 1)
        /\ l.length = full.length
        /\ IsInjective(l.nodes)
        /\ ToSet(l.nodes) = ToSet(full.nodes) \ {Head(full.nodes)}
    BY <1>4, <1>7, <2>1, <2>4, <2>5, ReadingRemoveFacts
  <2>7. Len(l.nodes) = Len(s) /\ l.nodes # <<>>
    BY <1>1, <1>5, <2>2, <2>6 DEF ClosesGap, ReadingLists
  <2> QED BY <1>3, <1>8, <1>10, <2>2, <2>3, <2>6, <2>7
<1> QED BY <1>9, <1>10

(***************************************************************************)
(* What the two operations do to the readings, in the words of a queue.    *)
(***************************************************************************)
LEMMA ReadingRemoveNodes ==
  ASSUME NEW S, NEW lst \in ReadingLists(S), IsInjective(lst.nodes),
         NEW node \in ToSet(lst.nodes)
  PROVE  reading_remove(lst, node).nodes
           = RemoveAt(lst.nodes, Position(lst.nodes, node))
<1> DEFINE s == lst.nodes
           k == Position(s, node)
<1>1. s \in Seq(S) /\ k \in 1 .. Len(s) /\ s[k] = node
  BY PositionFacts DEF ReadingLists
<1>2. s # <<>> /\ Len(s) \in Nat \ {0} /\ Head(s) = s[1]
  BY <1>1
<1>3. node = Head(s) <=> k = 1
  BY <1>1, <1>2 DEF IsInjective
<1>4. CASE k = 1
  <2>1. reading_remove(lst, node).nodes = Tail(s)
    BY <1>3, <1>4 DEF reading_remove
  <2> QED BY <1>1, <1>2, <1>4, <2>1, TailIsRemoveFirst
<1>5. CASE k # 1
  BY <1>3, <1>5 DEF reading_remove
<1> QED BY <1>4, <1>5

LEMMA ReadingAddNodes ==
  ASSUME NEW S, NEW lst \in ReadingLists(S), NEW node \in S
  PROVE  reading_add(lst, node).nodes
           = IF OverCap(lst) THEN Append(Tail(lst.nodes), node)
             ELSE Append(lst.nodes, node)
<1> DEFINE s == lst.nodes
           full == Appended(lst, node)
<1>1. s \in Seq(S) /\ Len(s) \in Nat
  BY DEF ReadingLists
<1>2. full.nodes = Append(s, node)
  <2>1. CASE s = <<>>
    <3>1. Append(<<>>, node) = <<node>>
      OBVIOUS
    <3> QED BY <2>1, <3>1 DEF Appended
  <2>2. CASE s # <<>>
    BY <2>2 DEF Appended
  <2> QED BY <2>1, <2>2
<1>3. CASE ~OverCap(lst)
  BY <1>2, <1>3 DEF reading_add
<1>4. CASE OverCap(lst)
  <2>1. s # <<>>
    BY <1>4 DEF OverCap
  <2>2. /\ Head(full.nodes) \in ToSet(full.nodes)
        /\ Tail(full.nodes) = Append(Tail(s), node)
    BY <1>1, <1>2, <2>1 DEF ToSet
  <2>3. reading_add(lst, node) = reading_remove(full, Head(full.nodes))
    BY <1>4 DEF reading_add
  <2> HIDE DEF full
  <2>4. reading_remove(full, Head(full.nodes)).nodes = Tail(full.nodes)
    BY <2>2 DEF reading_remove
  <2> QED BY <1>4, <2>2, <2>3, <2>4
<1> QED BY <1>3, <1>4

-----------------------------------------------------------------------------
(***************************************************************************)
(* The counter never exceeds the insertions of the episode, unless there   *)
(* were more than the cap; a counter that has wrapped implies that many.   *)
(***************************************************************************)
EpisodeCounts ==
  /\ list.nodes # <<>> =>
       list.length <= episode \/ episode = MAX_READING_LIST_SIZE + 1
  /\ wrapped => episode = MAX_READING_LIST_SIZE + 1

(***************************************************************************)
(* The part of the batch not yet posted is the tail end of the backlog:    *)
(* what the loop removed lies before it.                                   *)
(***************************************************************************)
Removed == Len(batch) - Len(list.nodes)

RestOfBatchIsTail ==
  pc = "sending" =>
    /\ i <= Len(batch)
    /\ Removed \in 0 .. i
    /\ \A k \in i + 1 .. Len(batch) : list.nodes[k - Removed] = batch[k]
    /\ temp = IF i < Len(batch) THEN batch[i + 1] ELSE NULL
    /\ \A r \in ToSet(list.nodes) : r \in ToSet(batch)

IInv ==
  /\ TypeOK
  /\ Ledger
  /\ CapHolds
  /\ EpisodeCounts
  /\ RestOfBatchIsTail

LEMMA LedgerInjective == Ledger => IsInjective(list.nodes)
BY DEF Ledger, IsInjective

LEMMA InitEstablishes == Init => IInv
<1> SUFFICES ASSUME Init PROVE IInv
  OBVIOUS
<1> USE DEF Init, EmptyList
<1>1. list \in ReadingLists(Readings)
  BY CapAssumption DEF ReadingLists, Counter
<1>2. TypeOK
  <2>1. fate \in [Readings -> Fates]
    BY DEF Fates
  <2>2. 0 \in 0 .. MAX_SENDS_PER_PERIOD /\ 0 \in 0 .. MAX_READING_LIST_SIZE + 1
    BY NodeAssumption, CapAssumption
  <2>3. batch \in Seq(Readings)
    OBVIOUS
  <2>4. uplink \in BOOLEAN /\ wrapped \in BOOLEAN
    BY Zenon
  <2> QED BY <1>1, <2>1, <2>2, <2>3, <2>4 DEF TypeOK
<1>3. Ledger
  BY DEF Ledger, ToSet
<1>4. CapHolds
  BY CapAssumption DEF CapHolds
<1>5. EpisodeCounts /\ RestOfBatchIsTail
  BY DEF EpisodeCounts, RestOfBatchIsTail
<1> QED BY <1>2, <1>3, <1>4, <1>5 DEF IInv

LEMMA ResetPreserves == TypeOK /\ Reset => IInv'
<1> SUFFICES ASSUME TypeOK, Reset PROVE IInv'
  OBVIOUS
<1> USE DEF Reset, EmptyList
<1>1. list' \in ReadingLists(Readings)
  BY CapAssumption DEF ReadingLists, Counter
<1>2. TypeOK'
  <2>1. fate' \in [Readings -> Fates]
    BY DEF Fates, TypeOK
  <2>2. 0 \in 0 .. MAX_SENDS_PER_PERIOD /\ 0 \in 0 .. MAX_READING_LIST_SIZE + 1
    BY NodeAssumption, CapAssumption
  <2>3. batch' \in Seq(Readings)
    OBVIOUS
  <2>4. uplink' \in BOOLEAN /\ wrapped' \in BOOLEAN
    BY Zenon DEF TypeOK
  <2> QED BY <1>1, <2>1, <2>2, <2>3, <2>4 DEF TypeOK
<1>3. Ledger'
  BY DEF Ledger, ToSet, TypeOK, Fates
<1>4. CapHolds'
  BY CapAssumption DEF CapHolds
<1>5. EpisodeCounts' /\ RestOfBatchIsTail'
  BY DEF EpisodeCounts, RestOfBatchIsTail
<1> QED BY <1>2, <1>3, <1>4, <1>5 DEF IInv

(***************************************************************************)
(* get_reading: the reading enters at the tail, the head may be evicted,   *)
(* and the loop starts at the new head.                                    *)
(***************************************************************************)
LEMMA GetReadingPreserves ==
  ASSUME IInv, NEW r \in Readings, get_reading(r)
  PROVE  IInv'
<1>1. /\ list \in ReadingLists(Readings) /\ IsInjective(list.nodes)
      /\ list.nodes \in Seq(Readings) /\ list.length \in Counter
      /\ Len(list.nodes) \in Nat
      /\ fate \in [Readings -> Fates] /\ uplink \in BOOLEAN
      /\ wrapped \in BOOLEAN /\ episode \in 0 .. MAX_READING_LIST_SIZE + 1
  BY LedgerInjective DEF IInv, TypeOK, ReadingLists
<1>2. r \notin ToSet(list.nodes)
  BY DEF IInv, Ledger, get_reading
<1>3. /\ list' \in ReadingLists(Readings)
      /\ list'.nodes # <<>>
      /\ Len(list'.nodes) = IF OverCap(list) THEN Len(list.nodes)
                            ELSE Len(list.nodes) + 1
      /\ list'.length = IF list.nodes = <<>> THEN 1 ELSE Increment(list.length)
      /\ IsInjective(list'.nodes)
      /\ ToSet(list'.nodes) = (ToSet(list.nodes) \cup {r}) \
                 (IF OverCap(list) THEN {Head(list.nodes)} ELSE {})
  <2> DEFINE l == reading_add(list, r)
  <2>1. /\ l \in ReadingLists(Readings)
        /\ l.nodes # <<>>
        /\ Len(l.nodes) = IF OverCap(list) THEN Len(list.nodes)
                          ELSE Len(list.nodes) + 1
        /\ l.length = IF list.nodes = <<>> THEN 1 ELSE Increment(list.length)
        /\ IsInjective(l.nodes)
        /\ ToSet(l.nodes) = (ToSet(list.nodes) \cup {r}) \
                 (IF OverCap(list) THEN {Head(list.nodes)} ELSE {})
    BY <1>1, <1>2, ReadingAddFacts
  <2>2. list' = l
    BY DEF get_reading
  <2> QED BY <2>1, <2>2
<1>4. /\ list'.nodes \in Seq(Readings) /\ list'.length \in Counter
      /\ Len(list'.nodes) \in Nat \ {0}
  BY <1>3 DEF ReadingLists
<1>5. temp' = list'.nodes[1] /\ temp' \in Readings
  BY <1>3, <1>4 DEF get_reading, FirstOf
<1>6. TypeOK'
  <2>1. fate' \in [Readings -> Fates]
    BY <1>1 DEF get_reading, Fates
  <2>2. episode' \in 0 .. MAX_READING_LIST_SIZE + 1
    BY <1>1, CapAssumption DEF get_reading
  <2>3. wrapped' \in BOOLEAN
    BY <1>1 DEF get_reading
  <2>4. /\ pc' = "sending" /\ i' = 0 /\ batch' = list'.nodes /\ uplink' = uplink
    BY DEF get_reading
  <2> QED BY <1>1, <1>3, <1>4, <1>5, <2>1, <2>2, <2>3, <2>4, NodeAssumption
          DEF TypeOK
<1>7. Ledger'
  <2>1. \A x \in Readings : fate[x] = "queued" <=> x \in ToSet(list.nodes)
    BY DEF IInv, Ledger
  <2>2. \A x \in Readings :
          fate'[x] = CASE x = r -> "queued"
                       [] x # r /\ OverCap(list) /\ x = Head(list.nodes) -> "evicted"
                       [] OTHER -> fate[x]
    BY DEF get_reading
  <2>3. OverCap(list) => Head(list.nodes) \in ToSet(list.nodes)
    BY <1>1 DEF OverCap, ToSet
  <2>4. ASSUME NEW x \in Readings
        PROVE  fate'[x] = "queued" <=> x \in ToSet(list'.nodes)
    <3>1. CASE x = r
      BY <1>2, <1>3, <2>2, <2>3, <3>1
    <3>2. CASE x # r /\ OverCap(list) /\ x = Head(list.nodes)
      BY <1>3, <2>2, <3>2
    <3>3. CASE x # r /\ ~(OverCap(list) /\ x = Head(list.nodes))
      <4>1. fate'[x] = fate[x]
        BY <2>2, <3>3
      <4> QED BY <1>3, <2>1, <3>3, <4>1
    <3> QED BY <3>1, <3>2, <3>3
  <2> QED BY <1>3, <2>4 DEF Ledger, IsInjective
<1>8. CapHolds'
  <2> SUFFICES ASSUME ~wrapped'
               PROVE  /\ Len(list'.nodes) <= MAX_READING_LIST_SIZE
                      /\ Len(list'.nodes) <= list'.length
    BY DEF CapHolds
  <2>1. CASE list.nodes = <<>>
    BY <1>1, <1>3, <2>1, CapAssumption DEF OverCap
  <2>2. CASE list.nodes # <<>>
    <3>1. ~wrapped /\ Increment(list.length) # 0
      BY <1>1, <2>2 DEF get_reading
    <3>2. /\ Len(list.nodes) <= MAX_READING_LIST_SIZE
          /\ Len(list.nodes) <= list.length
      BY <2>2, <3>1 DEF IInv, CapHolds
    <3>3. Increment(list.length) = list.length + 1
      BY <3>1 DEF Increment
    <3> QED BY <1>1, <1>3, <2>2, <3>2, <3>3, CapAssumption DEF OverCap, Counter
  <2> QED BY <2>1, <2>2
<1>9. EpisodeCounts'
  <2>1. CASE list.nodes = <<>>
    BY <1>3, <2>1 DEF EpisodeCounts, get_reading
  <2>2. CASE list.nodes # <<>>
    <3>1. /\ list.length <= episode \/ episode = MAX_READING_LIST_SIZE + 1
          /\ wrapped => episode = MAX_READING_LIST_SIZE + 1
      BY <2>2 DEF IInv, EpisodeCounts
    <3>2. /\ episode' = IF episode > MAX_READING_LIST_SIZE THEN episode ELSE episode + 1
          /\ wrapped' = (wrapped \/ Increment(list.length) = 0)
      BY <1>1, <2>2 DEF get_reading
    <3>3. list'.length = Increment(list.length)
      BY <1>3, <2>2
    <3>4. CASE list.length + 1 = LEN_MOD
      BY <1>1, <3>1, <3>2, <3>3, <3>4, CapAssumption
         DEF EpisodeCounts, Increment, Counter
    <3>5. CASE list.length + 1 # LEN_MOD
      BY <1>1, <3>1, <3>2, <3>3, <3>5, CapAssumption
         DEF EpisodeCounts, Increment, Counter
    <3> QED BY <3>4, <3>5
  <2> QED BY <2>1, <2>2
<1>10. RestOfBatchIsTail'
  <2>1. batch' = list'.nodes /\ i' = 0
    BY DEF get_reading
  <2> QED BY <1>4, <1>5, <2>1 DEF RestOfBatchIsTail, Removed
<1> QED BY <1>6, <1>7, <1>8, <1>9, <1>10 DEF IInv

(***************************************************************************)
(* One turn of the loop.  The cursor's node sits right after the part of   *)
(* the batch that is gone or already tried, so the node its next field     *)
(* names is the next reading of the batch, freed or not.                   *)
(***************************************************************************)
LEMMA SendPreserves ==
  ASSUME IInv, NEW r \in Readings, NEW answer \in Answers, Send(r, answer)
  PROVE  IInv'
<1> DEFINE s == list.nodes
           p == i + 1 - Removed
<1>1. /\ list \in ReadingLists(Readings) /\ IsInjective(s)
      /\ s \in Seq(Readings) /\ list.length \in Counter
      /\ Len(s) \in Nat /\ Len(batch) \in Nat /\ DOMAIN s = 1 .. Len(s)
      /\ batch \in Seq(Readings) /\ i \in 0 .. MAX_SENDS_PER_PERIOD
      /\ fate \in [Readings -> Fates] /\ uplink \in BOOLEAN
      /\ wrapped \in BOOLEAN /\ episode \in 0 .. MAX_READING_LIST_SIZE + 1
  BY LedgerInjective DEF IInv, TypeOK, ReadingLists
<1>2. /\ pc = "sending" /\ temp = r /\ i < MAX_SENDS_PER_PERIOD
      /\ send_reading(answer) /\ temp' = NextAfterSend /\ i' = i + 1
      /\ UNCHANGED <<pc, uplink, batch, episode, wrapped>>
  BY DEF Send
<1>3. /\ Removed \in 0 .. i
      /\ \A k \in i + 1 .. Len(batch) : s[k - Removed] = batch[k]
      /\ temp = IF i < Len(batch) THEN batch[i + 1] ELSE NULL
      /\ \A x \in ToSet(s) : x \in ToSet(batch)
  BY <1>2 DEF IInv, RestOfBatchIsTail
<1>4. i < Len(batch) /\ batch[i + 1] = r
  BY <1>2, <1>3, NodeAssumption
<1>5. p \in 1 .. Len(s) /\ s[p] = r /\ r \in ToSet(s)
  <2>1. p \in 1 .. Len(s)
    BY <1>1, <1>3, <1>4 DEF Removed
  <2>2. PICK k \in i + 1 .. Len(batch) : k = i + 1
    BY <1>1, <1>4
  <2>3. s[k - Removed] = batch[k]
    BY <1>3
  <2>4. p = k - Removed /\ batch[k] = r
    BY <1>1, <1>3, <1>4, <2>2
  <2> QED BY <1>1, <2>1, <2>3, <2>4 DEF ToSet
<1>6. Position(s, r) = p
  BY <1>1, <1>5, PositionFacts DEF IsInjective
<1>7. temp' = IF i + 1 < Len(batch) THEN batch[i + 2] ELSE NULL
  <2>1. temp' = IF p < Len(s) THEN s[p + 1] ELSE NULL
    BY <1>2, <1>6 DEF NextAfterSend, Successor
  <2>2. p < Len(s) <=> i + 1 < Len(batch)
    BY <1>1, <1>3 DEF Removed
  <2>3. i + 1 < Len(batch) => s[p + 1] = batch[i + 2]
    <3> SUFFICES ASSUME i + 1 < Len(batch) PROVE s[p + 1] = batch[i + 2]
      OBVIOUS
    <3>1. PICK k \in i + 1 .. Len(batch) : k = i + 2
      BY <1>1
    <3>2. s[k - Removed] = batch[k]
      BY <1>3
    <3>3. p + 1 = k - Removed
      BY <1>1, <1>3, <3>1
    <3> QED BY <3>1, <3>2, <3>3
  <2> QED BY <2>1, <2>2, <2>3
<1>8. i' \in 0 .. MAX_SENDS_PER_PERIOD /\ temp' \in Readings \cup {NULL}
  BY <1>1, <1>2, <1>7, NodeAssumption
<1>9. CASE ~Settles(answer)
  <2>1. list' = list /\ fate' = fate
    BY <1>2, <1>9 DEF send_reading
  <2>2. TypeOK'
    BY <1>1, <1>2, <1>8, <2>1 DEF TypeOK
  <2>3. Ledger' /\ CapHolds' /\ EpisodeCounts'
    BY <1>2, <2>1 DEF IInv, Ledger, CapHolds, EpisodeCounts
  <2>4. RestOfBatchIsTail'
    <3> HIDE DEF s, p
    <3>1. Removed' = Removed /\ list'.nodes = s /\ batch' = batch /\ i' = i + 1
      BY <1>2, <2>1 DEF Removed, s
    <3>2. i + 1 <= Len(batch) /\ Removed \in 0 .. i + 1
      BY <1>1, <1>3, <1>4
    <3>3. \A k \in i + 2 .. Len(batch) : s[k - Removed] = batch[k]
      BY <1>1, <1>3
    <3>4. temp' = IF i + 1 < Len(batch) THEN batch[i + 2] ELSE NULL
      BY <1>7
    <3>5. i' + 1 = i + 2
      BY <1>1, <3>1
    <3> QED BY <1>3, <3>1, <3>2, <3>3, <3>4, <3>5 DEF RestOfBatchIsTail
  <2> QED BY <2>2, <2>3, <2>4 DEF IInv
<1>10. CASE Settles(answer)
  <2> DEFINE l == reading_remove(list, r)
             t == l.nodes
  <2>1. list' = l /\ fate' = [fate EXCEPT ![r] = answer]
    BY <1>2, <1>10 DEF send_reading
  <2>2. /\ l \in ReadingLists(Readings)
        /\ ClosesGap(t, s, p)
        /\ l.length = IF p = 1 THEN list.length ELSE Decrement(list.length)
        /\ IsInjective(t)
        /\ ToSet(t) = ToSet(s) \ {r}
    <3> HIDE DEF p
    <3>1. list \in ReadingLists(Readings) /\ IsInjective(list.nodes)
          /\ r \in ToSet(list.nodes) /\ Position(list.nodes, r) = p
      BY <1>1, <1>5, <1>6
    <3> QED BY <3>1, ReadingRemoveFacts
  <2>3. /\ t \in Seq(Readings) /\ l.length \in Counter /\ Len(t) = Len(s) - 1
        /\ \A j \in 1 .. Len(s) - 1 : t[j] = IF j < p THEN s[j] ELSE s[j + 1]
    BY <2>2 DEF ReadingLists, ClosesGap
  <2> HIDE DEF l
  <2>4. answer \in {"created", "duplicate"}
    BY <1>10 DEF Settles
  <2>5. TypeOK'
    <3>1. fate' \in [Readings -> Fates]
      BY <1>1, <2>1, <2>4 DEF Fates
    <3> QED BY <1>1, <1>2, <1>8, <2>1, <2>2, <3>1 DEF IInv, TypeOK
  <2>6. Ledger'
    <3>1. ASSUME NEW x \in Readings
          PROVE  fate'[x] = "queued" <=> x \in ToSet(t)
      <4>1. fate[x] = "queued" <=> x \in ToSet(s)
        BY DEF IInv, Ledger
      <4> QED BY <1>1, <2>1, <2>2, <2>4, <4>1
    <3> QED BY <2>1, <2>2, <3>1 DEF Ledger, IsInjective
  <2>7. CapHolds'
    <3> SUFFICES ASSUME ~wrapped, t # <<>>
                 PROVE  /\ Len(t) <= MAX_READING_LIST_SIZE
                        /\ Len(t) <= l.length
      BY <1>2, <2>1, <2>3, CapAssumption DEF CapHolds
    <3>1. Len(s) <= MAX_READING_LIST_SIZE /\ Len(s) <= list.length
      BY <1>1, <1>5 DEF IInv, CapHolds
    <3> HIDE DEF p, s, t
    <3>2. CASE p = 1
      BY <1>1, <2>2, <2>3, <3>1, <3>2, CapAssumption DEF Counter
    <3>3. CASE p # 1
      <4>1. Len(s) >= 2 /\ list.length # 0
        BY <1>1, <1>5, <3>1, <3>3 DEF Counter
      <4>2. l.length = list.length - 1
        BY <2>2, <3>3, <4>1 DEF Decrement
      <4> QED BY <1>1, <2>3, <3>1, <4>2, CapAssumption DEF Counter
    <3> QED BY <3>2, <3>3
  <2>8. EpisodeCounts'
    <3>1. /\ list.length <= episode \/ episode = MAX_READING_LIST_SIZE + 1
          /\ wrapped => episode = MAX_READING_LIST_SIZE + 1
      BY <1>1, <1>5 DEF IInv, EpisodeCounts
    <3>2. ~wrapped => Len(s) <= list.length
      BY <1>1, <1>5 DEF IInv, CapHolds
    <3>3. l.length <= episode \/ episode = MAX_READING_LIST_SIZE + 1
      <4>1. CASE wrapped
        BY <3>1, <4>1
      <4>2. CASE ~wrapped
        BY <1>1, <1>5, <2>2, <3>1, <3>2, <4>2 DEF Decrement, Counter
      <4> QED BY <4>1, <4>2
    <3> QED BY <1>2, <2>1, <3>1, <3>3 DEF EpisodeCounts
  <2>9. RestOfBatchIsTail'
    <3>1. Removed' = Removed + 1
      BY <1>1, <1>2, <2>1, <2>3 DEF Removed
    <3>2. ASSUME NEW k \in i + 2 .. Len(batch)
          PROVE  t[k - (Removed + 1)] = batch[k]
      <4> DEFINE m == k - (Removed + 1)
      <4>1. m \in p .. Len(s) - 1 /\ p \in Int /\ p >= 1
        <5>1. /\ Len(batch) - Len(s) = Removed /\ Removed \in Int
              /\ k <= Len(batch) /\ k >= i + 2 /\ k \in Int /\ i \in Int
          BY <1>1, <1>3 DEF Removed
        <5> HIDE DEF s
        <5> QED BY <1>1, <1>5, <5>1
      <4>2. t[m] = s[m + 1]
        <5> HIDE DEF m, p, s, t
        <5>1. m \in 1 .. Len(s) - 1 /\ ~(m < p)
          BY <1>1, <4>1
        <5> QED BY <2>3, <5>1
      <4>3. k - (Removed + 1) + 1 = k - Removed /\ k \in i + 1 .. Len(batch)
        BY <1>1, <1>3
      <4> QED BY <1>3, <4>2, <4>3
    <3>3. \A x \in ToSet(t) : x \in ToSet(batch)
      BY <1>3, <2>2
    <3>4. i' <= Len(batch) /\ Removed' \in 0 .. i' /\ i' + 1 = i + 2
      BY <1>1, <1>2, <1>3, <1>4, <3>1
    <3>5. temp' = IF i' < Len(batch) THEN batch[i' + 1] ELSE NULL
      BY <1>2, <1>7, <3>4
    <3> QED BY <1>2, <2>1, <3>1, <3>2, <3>3, <3>4, <3>5 DEF RestOfBatchIsTail
  <2> QED BY <2>5, <2>6, <2>7, <2>8, <2>9 DEF IInv
<1> QED BY <1>9, <1>10

LEMMA LoopEndPreserves == IInv /\ (EndOfPeriod \/ HeapExhausted) => IInv'
<1> SUFFICES ASSUME IInv, EndOfPeriod \/ HeapExhausted PROVE IInv'
  OBVIOUS
<1>1. UNCHANGED <<list, fate, uplink, episode, wrapped>> /\ pc' \in {"idle", "halted"}
  BY DEF EndOfPeriod, HeapExhausted
<1>2. temp' \in {temp, NULL} /\ i' \in {i, 0} /\ batch' \in {batch, <<>>}
  BY DEF EndOfPeriod, HeapExhausted
<1>3. TypeOK'
  <2>1. 0 \in 0 .. MAX_SENDS_PER_PERIOD /\ <<>> \in Seq(Readings)
    BY NodeAssumption
  <2> QED BY <1>1, <1>2, <2>1 DEF IInv, TypeOK
<1>4. Ledger' /\ CapHolds' /\ EpisodeCounts'
  BY <1>1 DEF IInv, Ledger, CapHolds, EpisodeCounts
<1>5. RestOfBatchIsTail'
  BY <1>1 DEF RestOfBatchIsTail
<1> QED BY <1>3, <1>4, <1>5 DEF IInv

LEMMA StutterPreserves == IInv /\ (UplinkChanges \/ UNCHANGED vars) => IInv'
<1> SUFFICES ASSUME IInv, UplinkChanges \/ UNCHANGED vars PROVE IInv'
  OBVIOUS
<1>1. UNCHANGED <<list, pc, temp, i, fate, batch, episode, wrapped>>
  BY DEF UplinkChanges, vars
<1>2. uplink' \in BOOLEAN
  BY Zenon DEF IInv, TypeOK, UplinkChanges, vars
<1> QED BY <1>1, <1>2
        DEF IInv, TypeOK, Ledger, CapHolds, EpisodeCounts, RestOfBatchIsTail, Removed

LEMMA NextPreserves == IInv /\ [Next]_vars => IInv'
<1> SUFFICES ASSUME IInv, [Next]_vars PROVE IInv'
  OBVIOUS
<1>1. ASSUME NEW r \in Readings, get_reading(r) PROVE IInv'
  BY <1>1, GetReadingPreserves
<1>2. ASSUME NEW r \in Readings, NEW answer \in Answers, Send(r, answer)
      PROVE  IInv'
  BY <1>2, SendPreserves
<1>3. CASE EndOfPeriod \/ HeapExhausted
  BY <1>3, LoopEndPreserves
<1>4. CASE Reset
  BY <1>4, ResetPreserves DEF IInv
<1>5. CASE UplinkChanges \/ UNCHANGED vars
  BY <1>5, StutterPreserves
<1> QED BY <1>1, <1>2, <1>3, <1>4, <1>5 DEF Next

(***************************************************************************)
(* The inductive invariant holds in every reachable state.                 *)
(***************************************************************************)
THEOREM Invariance == Spec => []IInv
BY InitEstablishes, NextPreserves, PTL DEF Spec

(***************************************************************************)
(* SensorNode's variables keep their types: the counter stays in its 16    *)
(* bits, the loop's cursor is a reading or null.                           *)
(***************************************************************************)
THEOREM TypeCorrect == Spec => []TypeOK
<1>1. IInv => TypeOK
  BY DEF IInv
<1> QED BY <1>1, Invariance, PTL

(***************************************************************************)
(* Every reading taken and not yet answered, evicted or lost to a reset is *)
(* in the backlog, exactly once (reading_add, reading_remove).             *)
(***************************************************************************)
THEOREM LedgerHolds == Spec => []Ledger
<1>1. IInv => Ledger
  BY DEF IInv
<1> QED BY <1>1, Invariance, PTL

(***************************************************************************)
(* The cap works until the 16-bit counter wraps, for every cap and width.  *)
(***************************************************************************)
THEOREM CapHoldsUntilWrap == Spec => []CapHolds
<1>1. IInv => CapHolds
  BY DEF IInv
<1> QED BY <1>1, Invariance, PTL

LEMMA CursorInBacklog ==
  ASSUME IInv, pc = "sending", temp # NULL
  PROVE  temp \in ToSet(list.nodes)
<1>1. /\ i < Len(batch) /\ Removed \in 0 .. i /\ temp = batch[i + 1]
      /\ \A k \in i + 1 .. Len(batch) : list.nodes[k - Removed] = batch[k]
  BY DEF IInv, RestOfBatchIsTail
<1>2. /\ Len(batch) \in Nat /\ i \in Nat /\ Len(list.nodes) \in Nat
      /\ DOMAIN list.nodes = 1 .. Len(list.nodes)
  BY DEF IInv, TypeOK, ReadingLists
<1>3. PICK k \in i + 1 .. Len(batch) : k = i + 1
  BY <1>1, <1>2
<1>4. k - Removed \in DOMAIN list.nodes
  <2>1. i + 1 - Removed \in 1 .. Len(list.nodes)
    BY <1>1, <1>2 DEF Removed
  <2>2. k - Removed = i + 1 - Removed
    BY <1>1, <1>2, <1>3
  <2> QED BY <1>2, <2>1, <2>2
<1>5. list.nodes[k - Removed] = temp
  BY <1>1, <1>3
<1> QED BY <1>4, <1>5 DEF ToSet

(***************************************************************************)
(* get_reading's loop posts the backlog it found, oldest first, although   *)
(* it frees nodes under its cursor.                                        *)
(***************************************************************************)
THEOREM CursorIsRight == Spec => []CursorFollowsBatch
<1>1. IInv => CursorFollowsBatch
  <2> SUFFICES ASSUME IInv, pc = "sending" PROVE CursorFollowsBatch
    BY DEF CursorFollowsBatch
  <2>1. /\ i <= Len(batch) /\ Removed \in 0 .. i
        /\ \A k \in i + 1 .. Len(batch) : list.nodes[k - Removed] = batch[k]
        /\ temp = IF i < Len(batch) THEN batch[i + 1] ELSE NULL
        /\ \A r \in ToSet(list.nodes) : r \in ToSet(batch)
    BY DEF IInv, RestOfBatchIsTail
  <2>2. /\ list.nodes \in Seq(Readings) /\ Len(batch) \in Nat /\ i \in Nat
        /\ DOMAIN list.nodes = 1 .. Len(list.nodes) /\ Len(list.nodes) \in Nat
    BY DEF IInv, TypeOK, ReadingLists
  <2>3. ASSUME NEW k \in i + 1 .. Len(batch)
        PROVE  batch[k] \in ToSet(list.nodes)
    <3>1. k - Removed \in 1 .. Len(list.nodes)
      BY <2>1, <2>2 DEF Removed
    <3>2. batch[k] = list.nodes[k - Removed]
      BY <2>1
    <3> QED BY <2>2, <3>1, <3>2 DEF ToSet
  <2> QED BY <2>1, <2>3 DEF CursorFollowsBatch
<1> QED BY <1>1, Invariance, PTL

(***************************************************************************)
(* No reading is given up for space before more readings than the cap have *)
(* been taken since the backlog was last empty.                            *)
(***************************************************************************)
THEOREM EvictionNeedsLongEpisode == Spec => EvictsOnlyInLongEpisode
<1> DEFINE A == \A r \in Readings : Evicts(r) => episode' > MAX_READING_LIST_SIZE
<1>1. IInv /\ IInv' /\ [Next]_vars => [A]_vars
  <2> SUFFICES ASSUME IInv, IInv', Next, NEW r \in Readings, Evicts(r)
               PROVE  episode' > MAX_READING_LIST_SIZE
    BY DEF A
  <2>1. fate[r] = "queued" /\ fate'[r] = "evicted" /\ fate \in [Readings -> Fates]
    BY DEF Evicts, IInv, TypeOK
  <2>2. ASSUME NEW x \in Readings, get_reading(x)
        PROVE  episode' > MAX_READING_LIST_SIZE
    <3>1. OverCap(list)
      BY <2>1, <2>2 DEF get_reading
    <3>2. /\ list \in ReadingLists(Readings) /\ IsInjective(list.nodes)
          /\ x \notin ToSet(list.nodes)
      BY <2>2, LedgerInjective DEF IInv, TypeOK, Ledger, get_reading
    <3>3. /\ reading_add(list, x).length = Increment(list.length)
          /\ reading_add(list, x).nodes # <<>>
      BY <3>1, <3>2, ReadingAddFacts DEF OverCap
    <3>4. list'.length = Increment(list.length) /\ list'.nodes # <<>>
      BY <2>2, <3>3 DEF get_reading
    <3>5. list'.length > MAX_READING_LIST_SIZE
      BY <3>1, <3>4 DEF OverCap
    <3>6. list'.length \in Int /\ episode' \in Int
      BY DEF IInv, TypeOK, ReadingLists, Counter
    <3> QED BY <3>4, <3>5, <3>6, CapAssumption DEF IInv, EpisodeCounts
  <2>3. ASSUME NEW x \in Readings, NEW answer \in Answers, Send(x, answer)
        PROVE  FALSE
    BY <2>1, <2>3 DEF Send, send_reading, Settles
  <2>4. CASE EndOfPeriod \/ HeapExhausted \/ UplinkChanges
    BY <2>1, <2>4 DEF EndOfPeriod, HeapExhausted, UplinkChanges
  <2>5. CASE Reset
    BY <2>1, <2>5 DEF Reset
  <2> QED BY <2>2, <2>3, <2>4, <2>5 DEF Next
<1>2. Spec => [][A]_vars
  BY <1>1, Invariance, PTL DEF Spec
<1> QED BY <1>2 DEF EvictsOnlyInLongEpisode

-----------------------------------------------------------------------------
(***************************************************************************)
(* The steps of the node, as steps of Outbox.                              *)
(***************************************************************************)
LEMMA InitIsOutboxInit == Init => O!Init
BY DEF Init, O!Init, EmptyList

LEMMA GetReadingTakes ==
  ASSUME IInv, NEW r \in Readings, get_reading(r)
  PROVE  O!Take(r) \/ O!TakeAndEvict(r)
<1> DEFINE s == list.nodes
<1>1. /\ list \in ReadingLists(Readings) /\ s \in Seq(Readings)
      /\ fate \in [Readings -> Fates]
  BY DEF IInv, TypeOK, ReadingLists
<1>2. fate[r] # "queued" /\ r \notin ToSet(s)
  BY DEF IInv, Ledger, get_reading
<1>3. list'.nodes = IF OverCap(list) THEN Append(Tail(s), r) ELSE Append(s, r)
  BY <1>1, ReadingAddNodes DEF get_reading
<1>4. fate' = [x \in Readings |->
                 CASE x = r -> "queued"
                   [] x # r /\ OverCap(list) /\ x = Head(s) -> "evicted"
                   [] OTHER -> fate[x]]
  BY DEF get_reading
<1>5. CASE ~OverCap(list)
  <2>1. fate' = [fate EXCEPT ![r] = "queued"]
    BY <1>1, <1>4, <1>5
  <2> QED BY <1>2, <1>3, <1>5, <2>1 DEF O!Take
<1>6. CASE OverCap(list)
  <2>1. s # <<>> /\ Head(s) \in Readings /\ Head(s) # r
    BY <1>1, <1>2, <1>6 DEF OverCap, ToSet
  <2>2. fate' = [fate EXCEPT ![r] = "queued", ![Head(s)] = "evicted"]
    <3> DEFINE h == Head(s)
    <3> HIDE DEF h
    <3>1. h \in Readings /\ h # r
      BY <2>1 DEF h
    <3>2. fate' = [x \in Readings |->
                     CASE x = r -> "queued"
                       [] x # r /\ x = h -> "evicted"
                       [] OTHER -> fate[x]]
      BY <1>4, <1>6 DEF h
    <3>3. fate' = [fate EXCEPT ![r] = "queued", ![h] = "evicted"]
      BY <1>1, <3>1, <3>2
    <3> QED BY <3>3 DEF h
  <2> QED BY <1>2, <1>3, <1>6, <2>1, <2>2 DEF O!TakeAndEvict
<1> QED BY <1>5, <1>6

LEMMA SendSettles ==
  ASSUME IInv, NEW r \in Readings, NEW answer \in Answers, Send(r, answer)
  PROVE  (\E k \in DOMAIN list.nodes : O!Settle(k)) \/ UNCHANGED <<list.nodes, fate>>
<1> DEFINE s == list.nodes
           k == Position(s, r)
<1>1. /\ list \in ReadingLists(Readings) /\ IsInjective(s) /\ s \in Seq(Readings)
      /\ pc = "sending" /\ temp = r /\ send_reading(answer)
  BY LedgerInjective DEF IInv, TypeOK, ReadingLists, Send
<1>2. r \in ToSet(s)
  BY CursorInBacklog, NodeAssumption DEF Send
<1>3. k \in DOMAIN s /\ s[k] = r
  BY <1>1, <1>2, PositionFacts
<1>4. CASE ~Settles(answer)
  BY <1>1, <1>4 DEF send_reading
<1>5. CASE Settles(answer)
  <2>1. answer \in {"created", "duplicate"}
    BY <1>5 DEF Settles
  <2>2. list'.nodes = RemoveAt(s, k)
    BY <1>1, <1>2, <1>5, ReadingRemoveNodes DEF send_reading
  <2>3. fate' = [fate EXCEPT ![s[k]] = answer]
    BY <1>1, <1>3, <1>5 DEF send_reading
  <2>4. \E x \in {"created", "duplicate"} : fate' = [fate EXCEPT ![s[k]] = x]
    BY <2>1, <2>3, Zenon
  <2> HIDE DEF k
  <2>5. O!Settle(k)
    BY <2>2, <2>4 DEF O!Settle, O!RemoveAt, RemoveAt
  <2> QED BY <1>3, <2>5
<1> QED BY <1>4, <1>5

LEMMA NextIsOutboxNext == IInv /\ [Next]_vars => [O!Next]_(O!ovars)
<1> SUFFICES ASSUME IInv, [Next]_vars PROVE O!Next \/ UNCHANGED O!ovars
  OBVIOUS
<1> USE DEF O!ovars
<1>1. ASSUME NEW r \in Readings, get_reading(r)
      PROVE  O!Next
  BY <1>1, GetReadingTakes DEF O!Next
<1>2. ASSUME NEW r \in Readings, NEW answer \in Answers, Send(r, answer)
      PROVE  O!Next \/ UNCHANGED <<list.nodes, fate>>
  BY <1>2, SendSettles DEF O!Next
<1>3. CASE Reset
  <2>1. O!LoseMemory
    BY <1>3 DEF Reset, EmptyList, O!LoseMemory
  <2> QED BY <2>1 DEF O!Next
<1>4. CASE EndOfPeriod \/ HeapExhausted \/ UplinkChanges \/ UNCHANGED vars
  BY <1>4 DEF EndOfPeriod, HeapExhausted, UplinkChanges, vars
<1> QED BY <1>1, <1>2, <1>3, <1>4 DEF Next

(***************************************************************************)
(* The list, the 16-bit counter and the loop that frees under its cursor   *)
(* are an outbox: readings leave it settled, as the oldest evicted by a    *)
(* newer one, or with the node's memory, and the rest keep their order.    *)
(***************************************************************************)
THEOREM NodeIsOutbox == Spec => ImplementsOutbox
BY InitIsOutboxInit, NextIsOutboxNext, Invariance, PTL
   DEF Spec, ImplementsOutbox, O!Spec

=============================================================================
