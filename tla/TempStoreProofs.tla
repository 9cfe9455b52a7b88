--------------------------- MODULE TempStoreProofs ---------------------------
(***************************************************************************)
(* TempStore's invariants for every number of workers, addresses and       *)
(* times: what holds however requests interleave, and what holds as long   *)
(* as they come one at a time.                                             *)
(***************************************************************************)
EXTENDS TempStore, DataFacts

(***************************************************************************)
(* What a worker has in hand fits the collection it is about to use.       *)
(***************************************************************************)
HasRegistered ==
  \A w \in Workers :
    pc[w] \in {"count_rows", "insert_row"} => Registered(req[w][1], num[w])

CountIsNotAhead ==
  \A w \in Workers : pc[w] = "insert_node" => num[w] <= Len(nodes)

Busy == \A w \in Workers : pc[w] # "idle" => req[w] \in Keys

IInv ==
  /\ TypeOK
  /\ Busy
  /\ HasRegistered
  /\ CountIsNotAhead
  /\ RowsBelongToRegisteredNodes
  /\ NumberBelowPosition

LEMMA InitEstablishes == Init => IInv
<1> SUFFICES ASSUME Init PROVE IInv
  OBVIOUS
<1> USE DEF Init
<1>1. TypeOK
  <2>1. IsABag(temp) /\ DOMAIN temp = {}
    BY DEF EmptyBag, SetToBag, IsABag
  <2>2. nodes \in Seq(NodeDocs) /\ told \subseteq Keys
    OBVIOUS
  <2> QED BY <2>1, <2>2 DEF TypeOK, Labels
<1>2. RowsBelongToRegisteredNodes
  BY DEF RowsBelongToRegisteredNodes, EmptyBag, SetToBag
<1> QED
  BY <1>1, <1>2 DEF IInv, Busy, HasRegistered, CountIsNotAhead, NumberBelowPosition

(***************************************************************************)
(* A registration is for ever, and an insertion registers.                 *)
(***************************************************************************)
LEMMA InsertNodeFacts ==
  ASSUME TypeOK, Busy, NEW w \in Workers, InsertNode(w)
  PROVE  /\ nodes' \in Seq(NodeDocs)
         /\ Len(nodes') = Len(nodes) + 1
         /\ \A d \in DOMAIN nodes : d \in DOMAIN nodes' /\ nodes'[d] = nodes[d]
         /\ DOMAIN nodes' = DOMAIN nodes \cup {Len(nodes) + 1}
         /\ nodes'[Len(nodes) + 1] = [hwaddr |-> req[w][1], node_num |-> num[w]]
         /\ \A h, n : Registered(h, n) => Registered(h, n)'
         /\ Registered(req[w][1], num[w])'
<1> DEFINE doc == [hwaddr |-> req[w][1], node_num |-> num[w]]
<1>1. doc \in NodeDocs /\ nodes \in Seq(NodeDocs)
  BY DEF TypeOK, Busy, InsertNode, NodeDocs, Keys
<1>2. nodes' = Append(nodes, doc)
  BY DEF InsertNode
<1> HIDE DEF doc
<1>3. /\ nodes' \in Seq(NodeDocs)
      /\ Len(nodes') = Len(nodes) + 1
      /\ \A d \in DOMAIN nodes : d \in DOMAIN nodes' /\ nodes'[d] = nodes[d]
      /\ DOMAIN nodes' = DOMAIN nodes \cup {Len(nodes) + 1}
      /\ nodes'[Len(nodes) + 1] = doc
  BY <1>1, <1>2
<1>4. req' = req /\ num' = num
  BY DEF InsertNode
<1> QED BY <1>3, <1>4 DEF Registered, doc

(***************************************************************************)
(* The invariant survives every step that leaves both collections alone    *)
(* and does what the worker taking it needs.                               *)
(***************************************************************************)
LEMMA LocalStep ==
  ASSUME IInv, NEW w \in Workers,
         UNCHANGED <<nodes, temp>>,
         \A v \in Workers \ {w} :
           pc'[v] = pc[v] /\ req'[v] = req[v] /\ num'[v] = num[v],
         TypeOK',
         pc'[w] # "idle" => req'[w] \in Keys,
         pc'[w] \in {"count_rows", "insert_row"} => Registered(req'[w][1], num'[w]),
         pc'[w] = "insert_node" => num'[w] <= Len(nodes)
  PROVE  IInv'
<1>1. Busy'
  BY DEF IInv, Busy
<1>2. HasRegistered'
  BY DEF IInv, HasRegistered, Registered
<1>3. CountIsNotAhead'
  BY DEF IInv, CountIsNotAhead
<1>4. RowsBelongToRegisteredNodes' /\ NumberBelowPosition'
  BY DEF IInv, RowsBelongToRegisteredNodes, NumberBelowPosition, Registered
<1> QED BY <1>1, <1>2, <1>3, <1>4 DEF IInv

LEMMA StepPreserves == IInv /\ [Next]_vars => IInv'
<1> SUFFICES ASSUME IInv, [Next]_vars PROVE IInv'
  OBVIOUS
<1>0. /\ pc \in [Workers -> Labels] /\ req \in [Workers -> Keys \cup {NoKey}]
      /\ num \in [Workers -> Nat] /\ nodes \in Seq(NodeDocs) /\ told \subseteq Keys
      /\ Busy
  BY DEF IInv, TypeOK
<1>1. ASSUME NEW w \in Workers, NEW k \in Keys, Post(w, k) PROVE IInv'
  <2>1. TypeOK'
    BY <1>0, <1>1 DEF IInv, TypeOK, Post, Goto, Labels
  <2> QED BY <1>0, <1>1, <2>1, LocalStep DEF Post, Goto
<1>2. ASSUME NEW w \in Workers, FindNode(w) PROVE IInv'
  <2>1. CASE pc' = [pc EXCEPT ![w] = "count_nodes"] /\ UNCHANGED num
    <3>1. TypeOK'
      BY <1>0, <1>2, <2>1 DEF IInv, TypeOK, FindNode, Labels
    <3> QED BY <1>0, <1>2, <2>1, <3>1, LocalStep DEF Busy, FindNode
  <2>2. CASE \E d \in Registrations(req[w][1]) :
               /\ num' = [num EXCEPT ![w] = nodes[d].node_num]
               /\ pc' = [pc EXCEPT ![w] = "count_rows"]
    <3>1. PICK d \in Registrations(req[w][1]) :
               /\ num' = [num EXCEPT ![w] = nodes[d].node_num]
               /\ pc' = [pc EXCEPT ![w] = "count_rows"]
      BY <2>2
    <3>2. /\ d \in DOMAIN nodes /\ nodes[d] \in NodeDocs
          /\ nodes[d].hwaddr = req[w][1] /\ nodes[d].node_num \in Nat
      <4>1. d \in DOMAIN nodes /\ nodes[d].hwaddr = req[w][1]
        BY DEF Registrations
      <4>2. nodes[d] \in NodeDocs
        BY <1>0, <4>1
      <4> QED BY <4>1, <4>2 DEF NodeDocs
    <3>3. TypeOK'
      BY <1>0, <1>2, <3>1, <3>2 DEF IInv, TypeOK, FindNode, Labels
    <3>4. Registered(req[w][1], nodes[d].node_num)
      BY <3>2 DEF Registered, NodeDocs
    <3> QED BY <1>0, <1>2, <3>1, <3>3, <3>4, LocalStep DEF Busy, FindNode
  <2> QED BY <1>2, <2>1, <2>2 DEF FindNode, Goto
<1>3. ASSUME NEW w \in Workers, CountNodes(w) PROVE IInv'
  <2>1. TypeOK' /\ Len(nodes) \in Nat
    BY <1>0, <1>3 DEF IInv, TypeOK, CountNodes, Goto, Labels
  <2> QED BY <1>0, <1>3, <2>1, LocalStep DEF Busy, CountNodes, Goto
<1>4. ASSUME NEW w \in Workers, InsertNode(w) PROVE IInv'
  <2>1. /\ nodes' \in Seq(NodeDocs)
        /\ Len(nodes') = Len(nodes) + 1
        /\ \A d \in DOMAIN nodes : d \in DOMAIN nodes' /\ nodes'[d] = nodes[d]
        /\ DOMAIN nodes' = DOMAIN nodes \cup {Len(nodes) + 1}
        /\ nodes'[Len(nodes) + 1] = [hwaddr |-> req[w][1], node_num |-> num[w]]
        /\ \A h, n : Registered(h, n) => Registered(h, n)'
        /\ Registered(req[w][1], num[w])'
    BY <1>4, InsertNodeFacts DEF IInv
  <2>2. /\ pc' = [pc EXCEPT ![w] = "count_rows"] /\ pc[w] = "insert_node"
        /\ UNCHANGED <<temp, req, num, told>>
    BY <1>4 DEF InsertNode, Goto
  <2>3. TypeOK'
    BY <1>0, <2>1, <2>2 DEF IInv, TypeOK, Labels
  <2>4. Busy'
    BY <1>0, <2>2 DEF Busy
  <2>5. HasRegistered'
    BY <1>0, <2>1, <2>2 DEF IInv, HasRegistered, Registered
  <2>6. CountIsNotAhead'
    BY <1>0, <2>1, <2>2 DEF IInv, CountIsNotAhead
  <2>7. RowsBelongToRegisteredNodes'
    BY <2>1, <2>2 DEF IInv, RowsBelongToRegisteredNodes, Registered
  <2>8. NumberBelowPosition'
    <3>1. num[w] <= Len(nodes) /\ Len(nodes) \in Nat /\ num[w] \in Nat
      BY <1>0, <2>2 DEF IInv, CountIsNotAhead
    <3> QED BY <2>1, <3>1 DEF IInv, NumberBelowPosition
  <2> QED BY <2>3, <2>4, <2>5, <2>6, <2>7, <2>8 DEF IInv
<1>5. ASSUME NEW w \in Workers, CountRows(w) PROVE IInv'
  <2>1. \E l \in {"exists", "insert_row"} : pc' = [pc EXCEPT ![w] = l]
    BY <1>5 DEF CountRows, Goto
  <2>2. TypeOK'
    BY <1>0, <1>5, <2>1 DEF IInv, TypeOK, CountRows, Labels
  <2>3. Registered(req[w][1], num[w])
    BY <1>5 DEF IInv, HasRegistered, CountRows
  <2> QED BY <1>0, <1>5, <2>1, <2>2, <2>3, LocalStep DEF Busy, CountRows
<1>6. ASSUME NEW w \in Workers, InsertRow(w) PROVE IInv'
  <2>1. /\ pc' = [pc EXCEPT ![w] = "created"] /\ pc[w] = "insert_row"
        /\ temp' = temp (+) SetToBag({Row(w)})
        /\ UNCHANGED <<nodes, req, num, told>>
    BY <1>6 DEF InsertRow, Goto
  <2>2. DOMAIN temp' = DOMAIN temp \cup {Row(w)}
    BY <2>1 DEF (+), SetToBag
  <2>3. Row(w) \in Rows
    BY <1>0, <2>1 DEF Busy, Row, Rows, Keys
  <2>4. IsABag(temp')
    <3>1. \A e \in DOMAIN temp : temp[e] \in {n \in Nat : n > 0}
      BY DEF IInv, TypeOK, IsABag
    <3> QED BY <2>1, <2>2, <3>1 DEF (+), SetToBag, IsABag
  <2>5. TypeOK'
    BY <1>0, <2>1, <2>2, <2>3, <2>4 DEF IInv, TypeOK, Labels
  <2>6. Registered(Row(w).addr, Row(w).node)
    BY <2>1 DEF IInv, HasRegistered, Row
  <2>7. RowsBelongToRegisteredNodes'
    BY <2>1, <2>2, <2>6 DEF IInv, RowsBelongToRegisteredNodes, Registered
  <2>8. Busy' /\ CountIsNotAhead' /\ NumberBelowPosition'
    BY <1>0, <2>1 DEF IInv, Busy, CountIsNotAhead, NumberBelowPosition
  <2>9. HasRegistered'
    BY <1>0, <2>1 DEF IInv, HasRegistered, Registered
  <2> QED BY <2>5, <2>7, <2>8, <2>9 DEF IInv
<1>7. ASSUME NEW w \in Workers, AnswerCoap(w) \/ AnswerFlask(w) \/ Abort(w)
      PROVE  IInv'
  <2>1. /\ Finish(w) /\ pc[w] # "idle"
        /\ told' = told \cup {req[w]} \/ told' = told
    BY <1>7 DEF AnswerCoap, AnswerFlask, Abort
  <2>2. TypeOK'
    BY <1>0, <2>1 DEF IInv, TypeOK, Finish, Goto, Labels, Busy
  <2> QED BY <1>0, <2>1, <2>2, LocalStep DEF Finish, Goto
<1>8. CASE UNCHANGED vars
  BY <1>8 DEF vars, IInv, TypeOK, Busy, HasRegistered, CountIsNotAhead,
              RowsBelongToRegisteredNodes, NumberBelowPosition, Registered
<1> QED
  BY <1>1, <1>2, <1>3, <1>4, <1>5, <1>6, <1>7, <1>8 DEF Next

THEOREM Invariance == Spec => []IInv
BY InitEstablishes, StepPreserves, PTL DEF Spec

\* Every handler of either server keeps to its types.
THEOREM TypeCorrect == Spec => []TypeOK
<1>1. IInv => TypeOK
  BY DEF IInv
<1> QED BY <1>1, Invariance, PTL

(***************************************************************************)
(* Whatever the interleaving and wherever requests die, a row carries a    *)
(* number its address was given.                                           *)
(***************************************************************************)
THEOREM RowsAreRegistered == Spec => []RowsBelongToRegisteredNodes
<1>1. IInv => RowsBelongToRegisteredNodes
  BY DEF IInv
<1> QED BY <1>1, Invariance, PTL

\* Counting and inserting in two calls never makes a number overshoot.
THEOREM NumbersNeverOvershoot == Spec => []NumberBelowPosition
<1>1. IInv => NumberBelowPosition
  BY DEF IInv
<1> QED BY <1>1, Invariance, PTL

-----------------------------------------------------------------------------
(***************************************************************************)
(* The race for a row.  A worker that found no row of a number and time is *)
(* about to insert one; once there is a row no other worker joins those,   *)
(* so that the rows and the workers still to insert are never more than    *)
(* the workers there are.                                                  *)
(***************************************************************************)
Inserting(n, t) ==
  {w \in Workers : pc[w] = "insert_row" /\ num[w] = n /\ req[w][2] = t}

RoomForAll ==
  \A n \in Nat, t \in Times :
    /\ IsFiniteSet(CopiesOf(n, t))
    /\ CopiesOf(n, t) # {} =>
         Cardinality(CopiesOf(n, t)) + Cardinality(Inserting(n, t))
           <= Cardinality(Workers)

LEMMA InsertingFinite ==
  ASSUME IsFiniteSet(Workers), NEW T, T \subseteq Workers
  PROVE  /\ IsFiniteSet(T) /\ Cardinality(T) \in Nat /\ Cardinality(Workers) \in Nat
         /\ Cardinality(T) <= Cardinality(Workers)
<1>1. IsFiniteSet(T) /\ Cardinality(T) <= Cardinality(Workers)
  BY FS_Subset
<1> QED BY <1>1, FS_CardinalityType

\* What a new row adds to the copies.
LEMMA InsertRowAddsCopy ==
  ASSUME TypeOK, NEW w \in Workers, InsertRow(w), NEW n, NEW t
  PROVE  CopiesOf(n, t)' =
           IF num[w] = n /\ req[w][2] = t
           THEN CopiesOf(n, t) \cup
                  {<<Row(w), IF Row(w) \in DOMAIN temp THEN temp[Row(w)] + 1 ELSE 1>>}
           ELSE CopiesOf(n, t)
<1> DEFINE r == Row(w)
           c == IF r \in DOMAIN temp THEN temp[r] + 1 ELSE 1
<1>1. temp' = temp (+) SetToBag({r})
  BY DEF InsertRow
<1>2. DOMAIN temp' = DOMAIN temp \cup {r}
  BY <1>1 DEF (+), SetToBag
<1>3. \A x \in DOMAIN temp : temp[x] \in Nat
  BY DEF TypeOK, IsABag
<1>4. temp'[r] = c /\ \A x \in DOMAIN temp : x # r => temp'[x] = temp[x]
  BY <1>1, <1>2, <1>3 DEF (+), SetToBag
<1>5. Matches(r, n, t) <=> num[w] = n /\ req[w][2] = t
  BY DEF Matches, Row
<1> HIDE DEF r
<1>6. c \in Nat /\ 1 .. c = (IF r \in DOMAIN temp THEN 1 .. temp[r] ELSE {}) \cup {c}
  BY <1>3
<1> HIDE DEF c
<1>7. ASSUME NEW e
      PROVE  e \in CopiesOf(n, t)' <=>
               \/ e \in CopiesOf(n, t)
               \/ Matches(r, n, t) /\ e = <<r, c>>
  <2>1. e \in CopiesOf(n, t) <=>
          \E x \in DOMAIN temp : Matches(x, n, t) /\ e \in {x} \X (1 .. temp[x])
    BY DEF CopiesOf
  <2>2. e \in CopiesOf(n, t)' <=>
          \E x \in DOMAIN temp \cup {r} : Matches(x, n, t) /\ e \in {x} \X (1 .. temp'[x])
    BY <1>2 DEF CopiesOf, Matches
  <2>3. e \in {r} \X (1 .. c) <=>
          (r \in DOMAIN temp /\ e \in {r} \X (1 .. temp[r])) \/ e = <<r, c>>
    BY <1>6
  <2> QED BY <1>4, <2>1, <2>2, <2>3
<1>8. CopiesOf(n, t)' = IF Matches(r, n, t) THEN CopiesOf(n, t) \cup {<<r, c>>}
                        ELSE CopiesOf(n, t)
  BY <1>7
<1> QED BY <1>5, <1>8 DEF r, c

LEMMA RoomStays ==
  ASSUME IsFiniteSet(Workers), RoomForAll, UNCHANGED temp,
         \A n \in Nat, t \in Times :
           CopiesOf(n, t) # {} => Inserting(n, t)' \subseteq Inserting(n, t)
  PROVE  RoomForAll'
<1> SUFFICES ASSUME NEW n \in Nat, NEW t \in Times
             PROVE  /\ IsFiniteSet(CopiesOf(n, t)')
                    /\ CopiesOf(n, t)' # {} =>
                         Cardinality(CopiesOf(n, t)') + Cardinality(Inserting(n, t)')
                           <= Cardinality(Workers)
  BY DEF RoomForAll
<1>1. CopiesOf(n, t)' = CopiesOf(n, t)
  BY DEF CopiesOf, Matches
<1>2. /\ IsFiniteSet(CopiesOf(n, t))
      /\ CopiesOf(n, t) # {} =>
           Cardinality(CopiesOf(n, t)) + Cardinality(Inserting(n, t))
             <= Cardinality(Workers)
  BY DEF RoomForAll
<1>3. CASE CopiesOf(n, t) = {}
  BY <1>1, <1>2, <1>3
<1>4. CASE CopiesOf(n, t) # {}
  <2>1. Inserting(n, t)' \subseteq Inserting(n, t) /\ Inserting(n, t) \subseteq Workers
    BY <1>4 DEF Inserting
  <2>2. IsFiniteSet(Inserting(n, t))
    BY <2>1, InsertingFinite
  <2>3. /\ Cardinality(Inserting(n, t)') <= Cardinality(Inserting(n, t))
        /\ Cardinality(Inserting(n, t)') \in Nat
    BY <2>1, <2>2, FS_Subset, FS_CardinalityType
  <2>4. /\ Cardinality(Inserting(n, t)) \in Nat /\ Cardinality(Workers) \in Nat
        /\ Cardinality(CopiesOf(n, t)) \in Nat
    BY <1>2, <2>1, InsertingFinite, FS_CardinalityType
  <2> QED BY <1>1, <1>2, <1>4, <2>3, <2>4
<1> QED BY <1>3, <1>4

LEMMA InsertRowKeepsRoom ==
  ASSUME IsFiniteSet(Workers), IInv, RoomForAll, NEW w \in Workers, InsertRow(w)
  PROVE  RoomForAll'
<1> SUFFICES ASSUME NEW n \in Nat, NEW t \in Times
             PROVE  /\ IsFiniteSet(CopiesOf(n, t)')
                    /\ CopiesOf(n, t)' # {} =>
                         Cardinality(CopiesOf(n, t)') + Cardinality(Inserting(n, t)')
                           <= Cardinality(Workers)
  BY DEF RoomForAll
<1> DEFINE C == CopiesOf(n, t)
           D == CopiesOf(n, t)'
           I == Inserting(n, t)
           J == Inserting(n, t)'
           e == <<Row(w), IF Row(w) \in DOMAIN temp THEN temp[Row(w)] + 1 ELSE 1>>
<1>1. IsFiniteSet(C) /\ (C # {} => Cardinality(C) + Cardinality(I) <= Cardinality(Workers))
  BY DEF RoomForAll
<1>2. D = IF num[w] = n /\ req[w][2] = t THEN C \cup {e} ELSE C
  BY InsertRowAddsCopy DEF IInv
<1>3. /\ I \subseteq Workers /\ J = I \ {w}
      /\ num[w] = n /\ req[w][2] = t => w \in I
  BY DEF IInv, TypeOK, InsertRow, Goto, Inserting
<1> HIDE DEF C, D, I, J, e
<1>4. /\ IsFiniteSet(I) /\ Cardinality(I) \in Nat /\ Cardinality(Workers) \in Nat
      /\ Cardinality(I) <= Cardinality(Workers)
  BY <1>3, InsertingFinite
<1>5. /\ IsFiniteSet(J) /\ Cardinality(J) \in Nat
      /\ Cardinality(J) = IF w \in I THEN Cardinality(I) - 1 ELSE Cardinality(I)
  BY <1>3, <1>4, FS_RemoveElement, FS_CardinalityType
<1>6. Cardinality(C) \in Nat /\ (C = {} => Cardinality(C) = 0)
  BY <1>1, FS_CardinalityType, FS_EmptySet
<1>7. CASE num[w] = n /\ req[w][2] = t
  <2>1. /\ IsFiniteSet(D) /\ Cardinality(D) \in Nat
        /\ Cardinality(D) <= Cardinality(C) + 1
    <3>1. D = C \cup {e}
      BY <1>2, <1>7
    <3>2. IsFiniteSet(D)
          /\ Cardinality(D) = IF e \in C THEN Cardinality(C) ELSE Cardinality(C) + 1
      BY <1>1, <3>1, FS_AddElement
    <3> QED BY <1>6, <3>2
  <2>2. Cardinality(J) = Cardinality(I) - 1
    BY <1>3, <1>5, <1>7
  <2>3. Cardinality(D) + Cardinality(J) <= Cardinality(Workers)
    <3>1. CASE C = {}
      BY <1>4, <1>5, <1>6, <2>1, <2>2, <3>1
    <3>2. CASE C # {}
      BY <1>1, <1>4, <1>5, <1>6, <2>1, <2>2, <3>2
    <3> QED BY <3>1, <3>2
  <2> QED BY <2>1, <2>3 DEF D, J
<1>8. CASE ~(num[w] = n /\ req[w][2] = t)
  <2>1. D = C
    BY <1>2, <1>8
  <2>2. C # {} => Cardinality(D) + Cardinality(J) <= Cardinality(Workers)
    BY <1>1, <1>4, <1>5, <1>6, <2>1
  <2> QED BY <1>1, <2>1, <2>2 DEF D, J
<1> QED BY <1>7, <1>8

LEMMA RoomStep ==
  ASSUME IsFiniteSet(Workers) PROVE IInv /\ RoomForAll /\ [Next]_vars => RoomForAll'
<1> SUFFICES ASSUME IInv, RoomForAll, [Next]_vars PROVE RoomForAll'
  OBVIOUS
<1>0. pc \in [Workers -> Labels]
  BY DEF IInv, TypeOK
<1>1. ASSUME NEW w \in Workers, InsertRow(w) PROVE RoomForAll'
  BY <1>1, InsertRowKeepsRoom
<1>2. ASSUME NEW w \in Workers, UNCHANGED temp, pc'[w] # "insert_row",
             \A v \in Workers \ {w} :
               pc'[v] = pc[v] /\ req'[v] = req[v] /\ num'[v] = num[v]
      PROVE  RoomForAll'
  <2>1. \A n \in Nat, t \in Times : Inserting(n, t)' \subseteq Inserting(n, t)
    BY <1>2 DEF Inserting
  <2> QED BY <1>2, <2>1, RoomStays
<1>3. ASSUME NEW w \in Workers, CountRows(w) PROVE RoomForAll'
  <2>1. /\ UNCHANGED <<temp, req, num>>
        /\ \A v \in Workers \ {w} : pc'[v] = pc[v]
        /\ pc'[w] = "insert_row" => ~HasRow(w)
    BY <1>0, <1>3 DEF CountRows, Goto
  <2>2. ASSUME NEW n \in Nat, NEW t \in Times, CopiesOf(n, t) # {}
        PROVE  Inserting(n, t)' \subseteq Inserting(n, t)
    <3>1. PICK row \in DOMAIN temp : Matches(row, n, t)
      BY <2>2 DEF CopiesOf
    <3>2. ~(pc'[w] = "insert_row" /\ num[w] = n /\ req[w][2] = t)
      BY <2>1, <3>1 DEF HasRow
    <3> QED BY <2>1, <3>2 DEF Inserting
  <2> QED BY <2>1, <2>2, RoomStays
<1>4. ASSUME NEW w \in Workers,
             \/ \E k \in Keys : Post(w, k)
             \/ FindNode(w) \/ CountNodes(w) \/ InsertNode(w)
             \/ AnswerCoap(w) \/ AnswerFlask(w) \/ Abort(w)
      PROVE  RoomForAll'
  <2>1. /\ UNCHANGED temp /\ pc'[w] # "insert_row"
        /\ \A v \in Workers \ {w} :
             pc'[v] = pc[v] /\ req'[v] = req[v] /\ num'[v] = num[v]
    <3>1. UNCHANGED temp /\ pc'[w] # "insert_row"
      BY <1>0, <1>4 DEF Post, FindNode, CountNodes, InsertNode, AnswerCoap, AnswerFlask,
                        Abort, Finish, Goto
    <3>2. ASSUME NEW v \in Workers \ {w}
          PROVE  pc'[v] = pc[v] /\ req'[v] = req[v] /\ num'[v] = num[v]
      BY <1>4 DEF IInv, TypeOK, Post, FindNode, CountNodes, InsertNode, AnswerCoap,
                  AnswerFlask, Abort, Finish, Goto
    <3> QED BY <3>1, <3>2
  <2> QED BY <1>2, <2>1
<1>5. CASE UNCHANGED vars
  <2>1. \A n \in Nat, t \in Times : Inserting(n, t)' = Inserting(n, t)
    BY <1>5 DEF vars, Inserting
  <2> QED BY <1>5, <2>1, RoomStays DEF vars
<1> QED BY <1>1, <1>3, <1>4, <1>5 DEF Next

(***************************************************************************)
(* Counting the rows and inserting one are two calls, yet a number has at  *)
(* most one row of a time per worker, however long both servers run and    *)
(* whatever they abort.                                                    *)
(***************************************************************************)
THEOREM RaceIsBounded ==
  ASSUME IsFiniteSet(Workers) PROVE Spec => []CopiesBounded
<1>1. Init => RoomForAll
  <2> SUFFICES ASSUME Init PROVE RoomForAll
    OBVIOUS
  <2>1. \A n, t : CopiesOf(n, t) = {}
    BY DEF Init, CopiesOf, EmptyBag, SetToBag
  <2> QED BY <2>1, FS_EmptySet DEF RoomForAll
<1>2. IInv /\ RoomForAll => CopiesBounded
  <2> SUFFICES ASSUME IInv, RoomForAll, NEW row \in DOMAIN temp
               PROVE  Cardinality(CopiesOf(row.node, row.time)) <= Cardinality(Workers)
    BY DEF CopiesBounded
  <2> DEFINE n == row.node
             t == row.time
             C == CopiesOf(n, t)
             I == Inserting(n, t)
  <2>1. n \in Nat /\ t \in Times /\ temp[row] \in Nat /\ temp[row] > 0
    BY DEF IInv, TypeOK, Rows, IsABag
  <2>2. C # {}
    <3>1. <<row, 1>> \in {row} \X (1 .. temp[row])
      BY <2>1
    <3> QED BY <3>1 DEF CopiesOf, Matches
  <2>3. IsFiniteSet(C) /\ Cardinality(C) + Cardinality(I) <= Cardinality(Workers)
    <3> HIDE DEF n, t
    <3> QED BY <2>1, <2>2 DEF RoomForAll
  <2>4. I \subseteq Workers
    BY DEF Inserting
  <2> HIDE DEF C, I
  <2>5. Cardinality(C) \in Nat /\ Cardinality(I) \in Nat /\ Cardinality(Workers) \in Nat
    BY <2>3, <2>4, InsertingFinite, FS_CardinalityType
  <2> QED BY <2>3, <2>5 DEF C
<1> QED BY <1>1, <1>2, RoomStep, Invariance, PTL DEF Spec

-----------------------------------------------------------------------------
(***************************************************************************)
(* One request at a time.  The numbers are then the positions from 0, and  *)
(* what a lookup has found stays true until the handler uses it.           *)
(***************************************************************************)
OneAtATime == \A v, w \in Workers : v = w

NumbersArePositions == \A d \in DOMAIN nodes : nodes[d].node_num = d - 1

AddrsDistinct ==
  \A d, e \in DOMAIN nodes : nodes[d].hwaddr = nodes[e].hwaddr => d = e

LookupsHold ==
  \A w \in Workers :
    /\ pc[w] \in {"count_nodes", "insert_node"} => Registrations(req[w][1]) = {}
    /\ pc[w] = "insert_node" => num[w] = Len(nodes)
    /\ pc[w] = "insert_row" => req[w] \notin StoredKeys
    /\ pc[w] \in {"created", "exists"} => req[w] \in StoredKeys

SInv == IInv /\ NumbersArePositions /\ AddrsDistinct /\ LookupsHold /\ StoredOnce

LEMMA SInvInit == Init => SInv
BY InitEstablishes
   DEF Init, SInv, NumbersArePositions, AddrsDistinct, LookupsHold, StoredOnce,
       EmptyBag, SetToBag

(***************************************************************************)
(* With distinct numbers and addresses, a row matches a request's number   *)
(* and time exactly when the request's reading is stored.                  *)
(***************************************************************************)
LEMMA MatchIsStored ==
  ASSUME SInv, NEW w \in Workers, pc[w] = "count_rows"
  PROVE  HasRow(w) <=> req[w] \in StoredKeys
<1>1. req[w] \in Keys /\ req[w] = <<req[w][1], req[w][2]>>
  BY DEF SInv, IInv, Busy, Keys
<1>2. nodes \in Seq(NodeDocs) /\ DOMAIN nodes = 1 .. Len(nodes) /\ Len(nodes) \in Nat
  BY DEF SInv, IInv, TypeOK
<1>3. PICK d \in DOMAIN nodes :
        nodes[d] = [hwaddr |-> req[w][1], node_num |-> num[w]]
  BY DEF SInv, IInv, HasRegistered, Registered
<1>4. ASSUME NEW row \in DOMAIN temp, row.time = req[w][2]
      PROVE  row.node = num[w] <=> row.addr = req[w][1]
  <2>1. PICK e \in DOMAIN nodes : nodes[e] = [hwaddr |-> row.addr, node_num |-> row.node]
    BY DEF SInv, IInv, RowsBelongToRegisteredNodes, Registered
  <2>2. nodes[d].node_num = d - 1 /\ nodes[e].node_num = e - 1
    BY DEF SInv, NumbersArePositions
  <2>3. row.node = num[w] => d = e
    BY <1>2, <1>3, <2>1, <2>2
  <2>4. row.addr = req[w][1] => d = e
    BY <1>3, <2>1 DEF SInv, AddrsDistinct
  <2> QED BY <1>3, <2>1, <2>3, <2>4
<1>5. req[w] \in StoredKeys <=>
        \E row \in DOMAIN temp : row.addr = req[w][1] /\ row.time = req[w][2]
  <2>1. \A row \in DOMAIN temp :
          req[w] = <<row.addr, row.time>> <=>
            row.addr = req[w][1] /\ row.time = req[w][2]
    BY <1>1
  <2> QED BY <2>1 DEF StoredKeys
<1> QED BY <1>4, <1>5 DEF HasRow, Matches

LEMMA InsertRowStores ==
  ASSUME SInv, NEW w \in Workers, InsertRow(w)
  PROVE  /\ DOMAIN temp' = DOMAIN temp \cup {Row(w)}
         /\ Row(w) \notin DOMAIN temp
         /\ \A r \in DOMAIN temp : temp'[r] = temp[r]
         /\ temp'[Row(w)] = 1
         /\ StoredKeys' = StoredKeys \cup {req[w]}
         /\ <<Row(w).addr, Row(w).time>> = req[w]
         /\ req[w] \notin StoredKeys
<1>1. temp' = temp (+) SetToBag({Row(w)}) /\ pc[w] = "insert_row"
  BY DEF InsertRow
<1>2. DOMAIN temp' = DOMAIN temp \cup {Row(w)}
  BY <1>1 DEF (+), SetToBag
<1>3. req[w] \in Keys /\ <<Row(w).addr, Row(w).time>> = req[w]
  BY <1>1 DEF SInv, IInv, Busy, Keys, Row
<1>4. req[w] \notin StoredKeys
  BY <1>1 DEF SInv, LookupsHold
<1>5. Row(w) \notin DOMAIN temp
  BY <1>3, <1>4 DEF StoredKeys
<1>6. \A r \in DOMAIN temp : temp[r] \in Nat
  BY DEF SInv, IInv, TypeOK, IsABag
<1>7. temp'[Row(w)] = 1 /\ \A r \in DOMAIN temp : temp'[r] = temp[r]
  BY <1>1, <1>2, <1>5, <1>6 DEF (+), SetToBag
<1>8. StoredKeys' = StoredKeys \cup {req[w]}
  BY <1>2, <1>3 DEF StoredKeys
<1> QED BY <1>2, <1>3, <1>4, <1>5, <1>7, <1>8

LEMMA SInvStep == OneAtATime /\ SInv /\ [Next]_vars => SInv'
<1> SUFFICES ASSUME OneAtATime, SInv, [Next]_vars PROVE SInv'
  OBVIOUS
<1>0. /\ pc \in [Workers -> Labels] /\ req \in [Workers -> Keys \cup {NoKey}]
      /\ num \in [Workers -> Nat] /\ nodes \in Seq(NodeDocs)
      /\ DOMAIN nodes = 1 .. Len(nodes) /\ Len(nodes) \in Nat
  BY DEF SInv, IInv, TypeOK
<1>i. IInv'
  BY StepPreserves DEF SInv
<1>k. ASSUME UNCHANGED <<nodes, temp>>
      PROVE  /\ NumbersArePositions' /\ AddrsDistinct' /\ StoredOnce'
             /\ StoredKeys' = StoredKeys
             /\ \A h : Registrations(h)' = Registrations(h)
  BY <1>k DEF SInv, NumbersArePositions, AddrsDistinct, StoredOnce, StoredKeys,
              Registrations
<1>1. ASSUME NEW w \in Workers,
             \/ \E k \in Keys : Post(w, k)
             \/ AnswerCoap(w) \/ AnswerFlask(w) \/ Abort(w)
      PROVE  SInv'
  <2>1. UNCHANGED <<nodes, temp>> /\ pc'[w] \in {"find_node", "idle"}
    BY <1>0, <1>1 DEF Post, AnswerCoap, AnswerFlask, Abort, Finish, Goto
  <2>2. LookupsHold'
    BY <2>1 DEF OneAtATime, LookupsHold
  <2> QED BY <1>i, <1>k, <2>1, <2>2 DEF SInv
<1>2. ASSUME NEW w \in Workers, FindNode(w) PROVE SInv'
  <2>1. /\ UNCHANGED <<nodes, temp, req>>
        /\ \/ pc'[w] = "count_rows"
           \/ pc'[w] = "count_nodes" /\ Registrations(req[w][1]) = {}
    BY <1>0, <1>2 DEF FindNode, Goto
  <2>2. LookupsHold'
    BY <1>k, <2>1 DEF OneAtATime, LookupsHold
  <2> QED BY <1>i, <1>k, <2>1, <2>2 DEF SInv
<1>3. ASSUME NEW w \in Workers, CountNodes(w) PROVE SInv'
  <2>1. /\ UNCHANGED <<nodes, temp, req>> /\ pc[w] = "count_nodes"
        /\ pc'[w] = "insert_node" /\ num'[w] = Len(nodes)
    BY <1>0, <1>3 DEF CountNodes, Goto
  <2>2. LookupsHold'
    BY <1>k, <2>1 DEF SInv, OneAtATime, LookupsHold
  <2> QED BY <1>i, <1>k, <2>1, <2>2 DEF SInv
<1>4. ASSUME NEW w \in Workers, InsertNode(w) PROVE SInv'
  <2>1. /\ DOMAIN nodes' = DOMAIN nodes \cup {Len(nodes) + 1}
        /\ \A d \in DOMAIN nodes : nodes'[d] = nodes[d]
        /\ nodes'[Len(nodes) + 1] = [hwaddr |-> req[w][1], node_num |-> num[w]]
    BY <1>4, InsertNodeFacts DEF SInv, IInv
  <2>2. /\ UNCHANGED temp /\ pc[w] = "insert_node" /\ pc'[w] = "count_rows"
    BY <1>0, <1>4 DEF InsertNode, Goto
  <2>3. num[w] = Len(nodes) /\ Registrations(req[w][1]) = {}
    BY <2>2 DEF SInv, LookupsHold
  <2>4. NumbersArePositions'
    BY <1>0, <2>1, <2>3 DEF SInv, NumbersArePositions
  <2>5. AddrsDistinct'
    BY <1>0, <2>1, <2>3 DEF SInv, AddrsDistinct, Registrations
  <2>6. LookupsHold'
    BY <2>2 DEF OneAtATime, LookupsHold
  <2>7. StoredOnce'
    BY <2>2 DEF SInv, StoredOnce
  <2> QED BY <1>i, <2>4, <2>5, <2>6, <2>7 DEF SInv
<1>5. ASSUME NEW w \in Workers, CountRows(w) PROVE SInv'
  <2>1. /\ UNCHANGED <<nodes, temp, req>> /\ pc[w] = "count_rows"
        /\ pc'[w] = IF HasRow(w) THEN "exists" ELSE "insert_row"
    BY <1>0, <1>5 DEF CountRows, Goto
  <2>2. pc'[w] = IF req[w] \in StoredKeys THEN "exists" ELSE "insert_row"
    BY <2>1, MatchIsStored
  <2>3. LookupsHold'
    BY <1>k, <2>1, <2>2 DEF OneAtATime, LookupsHold
  <2> QED BY <1>i, <1>k, <2>1, <2>3 DEF SInv
<1>6. ASSUME NEW w \in Workers, InsertRow(w) PROVE SInv'
  <2>1. /\ DOMAIN temp' = DOMAIN temp \cup {Row(w)}
        /\ \A r \in DOMAIN temp : temp'[r] = temp[r]
        /\ temp'[Row(w)] = 1
        /\ StoredKeys' = StoredKeys \cup {req[w]}
        /\ <<Row(w).addr, Row(w).time>> = req[w]
        /\ req[w] \notin StoredKeys
    BY <1>6, InsertRowStores
  <2>2. UNCHANGED <<nodes, req>> /\ pc'[w] = "created"
    BY <1>0, <1>6 DEF InsertRow, Goto
  <2>3. LookupsHold'
    BY <2>1, <2>2 DEF OneAtATime, LookupsHold
  <2>4. \A r \in DOMAIN temp : ~(r.addr = Row(w).addr /\ r.time = Row(w).time)
    BY <2>1 DEF StoredKeys
  <2>5. StoredOnce'
    BY <2>1, <2>4 DEF SInv, StoredOnce
  <2>6. NumbersArePositions' /\ AddrsDistinct'
    BY <2>2 DEF SInv, NumbersArePositions, AddrsDistinct
  <2> QED BY <1>i, <2>3, <2>5, <2>6 DEF SInv
<1>7. CASE UNCHANGED vars
  <2>1. UNCHANGED <<nodes, temp, pc, req, num>>
    BY <1>7 DEF vars
  <2>2. LookupsHold'
    BY <1>k, <2>1 DEF SInv, LookupsHold
  <2> QED BY <1>i, <1>k, <2>1, <2>2 DEF SInv
<1> QED BY <1>1, <1>2, <1>3, <1>4, <1>5, <1>6, <1>7 DEF Next

THEOREM SequentialInvariance ==
  ASSUME OneAtATime PROVE Spec => []SInv
<1>1. SInv /\ [Next]_vars => SInv'
  BY SInvStep
<1> QED BY <1>1, SInvInit, PTL DEF Spec

(***************************************************************************)
(* As long as requests come one at a time, and wherever they abort, a      *)
(* reading has at most one row, however often it is posted.                *)
(***************************************************************************)
THEOREM SequentialStoredOnce ==
  ASSUME OneAtATime PROVE Spec => []StoredOnce
<1>1. SInv => StoredOnce
  BY DEF SInv
<1> QED BY <1>1, SequentialInvariance, PTL

\* Likewise, an address has one number, and no other address has it.
THEOREM SequentialOneNumberEach ==
  ASSUME OneAtATime PROVE Spec => []OneNumberEach
<1>1. SInv => OneNumberEach
  BY DEF SInv, IInv, TypeOK, NumbersArePositions, AddrsDistinct, OneNumberEach
<1> QED BY <1>1, SequentialInvariance, PTL

(***************************************************************************)
(* With one worker, the five calls of the handler implement one atomic     *)
(* insertion of a reading that is not there, and a sender is told to       *)
(* forget a reading only when that reading is stored.                      *)
(***************************************************************************)
THEOREM SequentialRefinement ==
  ASSUME OneAtATime PROVE Spec => ImplementsReadingStore
<1>1. Init => S!Init
  BY DEF Init, S!Init, StoredKeys, EmptyBag, SetToBag
<1>2. SInv /\ [Next]_vars => [S!Next]_S!svars
  <2> SUFFICES ASSUME SInv, [Next]_vars PROVE [S!Next]_S!svars
    OBVIOUS
  <2>1. ASSUME UNCHANGED <<temp, told>> PROVE UNCHANGED S!svars
    BY <2>1 DEF S!svars, StoredKeys
  <2>2. ASSUME NEW w \in Workers,
               \/ \E k \in Keys : Post(w, k)
               \/ FindNode(w) \/ CountNodes(w) \/ InsertNode(w) \/ CountRows(w)
               \/ Abort(w)
        PROVE  UNCHANGED <<temp, told>>
    BY <2>2 DEF Post, FindNode, CountNodes, InsertNode, CountRows, Abort, Finish
  <2>3. ASSUME NEW w \in Workers, InsertRow(w) PROVE S!Next
    <3>1. /\ StoredKeys' = StoredKeys \cup {req[w]}
          /\ req[w] \notin StoredKeys
      BY <2>3, InsertRowStores
    <3>2. UNCHANGED told /\ req[w] \in Keys
      BY <2>3 DEF InsertRow, SInv, IInv, Busy
    <3> QED BY <3>1, <3>2 DEF S!Next, S!Store
  <2>4. ASSUME NEW w \in Workers, AnswerCoap(w) \/ AnswerFlask(w) PROVE S!Next
    <3>1. /\ pc[w] \in {"created", "exists"} /\ told' = told \cup {req[w]}
          /\ UNCHANGED temp
      BY <2>4 DEF AnswerCoap, AnswerFlask, Finish
    <3>2. req[w] \in StoredKeys /\ req[w] \in Keys
      BY <3>1 DEF SInv, LookupsHold, IInv, Busy
    <3>3. UNCHANGED StoredKeys
      BY <3>1 DEF StoredKeys
    <3> QED BY <3>1, <3>2, <3>3 DEF S!Next, S!Tell
  <2>5. CASE UNCHANGED vars
    BY <2>1, <2>5 DEF vars
  <2> QED BY <2>1, <2>2, <2>3, <2>4, <2>5 DEF Next
<1> QED BY <1>1, <1>2, SequentialInvariance, PTL DEF Spec, S!Spec, ImplementsReadingStore

=============================================================================
