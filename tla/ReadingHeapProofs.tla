--------------------------- MODULE ReadingHeapProofs ---------------------------
(***************************************************************************)
(* ReadingHeap and ReadingRace for every heap, cap, counter width and set  *)
(* of readings: with one thread the cells are the abstract outbox; with    *)
(* two, which pointers stay sound.                                         *)
(***************************************************************************)
EXTENDS ReadingRace, DataFacts

(***************************************************************************)
(* The cells of s are linked in this order from address a on, and the last *)
(* one ends the list.                                                      *)
(***************************************************************************)
Chain(m, a, s) ==
  /\ s \in Seq(Cells)
  /\ IsInjective(s)
  /\ a = IF s = <<>> THEN NULL ELSE s[1]
  /\ \A k \in 1 .. Len(s) : m[s[k]].next = IF k < Len(s) THEN s[k + 1] ELSE NULL

LEMMA ChainFits ==
  ASSUME NEW s \in Seq(Cells), IsInjective(s)
  PROVE  /\ Cardinality(Cells) \in Nat
         /\ Len(s) <= Cardinality(Cells)
<1>1. IsFiniteSet(Cells)
  BY HeapAssumption
<1>2. s \in Injection(1 .. Len(s), Cells)
  BY DEF Injection
<1>3. Cardinality(1 .. Len(s)) <= Cardinality(Cells)
  BY <1>1, <1>2, FS_Injection
<1>4. Cardinality(1 .. Len(s)) = Len(s) /\ Len(s) \in Nat
  <2>1. Len(s) \in Nat /\ 1 \in Int
    OBVIOUS
  <2>2. Cardinality(1 .. Len(s)) = IF 1 > Len(s) THEN 0 ELSE Len(s) - 1 + 1
    BY <2>1, FS_Interval
  <2> QED BY <2>1, <2>2
<1> QED BY <1>1, <1>3, <1>4, FS_CardinalityType

(***************************************************************************)
(* Linked walks a chain from its start to its end.                         *)
(***************************************************************************)
LEMMA LinkedIsChain ==
  ASSUME NEW m, NEW a, NEW s, Chain(m, a, s)
  PROVE  Linked(m, a) = s
<1> DEFINE N == Cardinality(Cells)
           W(f) == [n \in 0 .. N |->
                     IF n = 0 THEN <<>>
                     ELSE LET before == f[n - 1]
                              nxt == IF before = <<>> THEN a ELSE m[Last(before)].next
                          IN  IF nxt = NULL THEN before ELSE Append(before, nxt)]
           P(n) == SubSeq(s, 1, IF n < Len(s) THEN n ELSE Len(s))
           g == [n \in 0 .. N |-> P(n)]
<1>1. Linked(m, a) = (CHOOSE f : f = W(f))[N]
  BY DEF Linked
<1>2. /\ s \in Seq(Cells) /\ IsInjective(s) /\ Len(s) \in Nat
      /\ N \in Nat /\ Len(s) <= N /\ NULL \notin Cells
      /\ a = IF s = <<>> THEN NULL ELSE s[1]
      /\ \A k \in 1 .. Len(s) : m[s[k]].next = IF k < Len(s) THEN s[k + 1] ELSE NULL
  BY ChainFits, HeapAssumption DEF Chain
<1>3. /\ P(0) = <<>> /\ P(N) = s
      /\ \A n \in Nat : P(n) \in Seq(Cells)
  BY <1>2
\* One step further along the chain, or at its end.
<1>4. ASSUME NEW n \in Nat
      PROVE  LET nxt == IF P(n) = <<>> THEN a ELSE m[Last(P(n))].next
             IN  P(n + 1) = IF nxt = NULL THEN P(n) ELSE Append(P(n), nxt)
  <2> DEFINE nxt == IF P(n) = <<>> THEN a ELSE m[Last(P(n))].next
  <2>1. CASE n >= Len(s)
    <3>1. P(n) = s /\ P(n + 1) = s
      BY <1>2, <2>1
    <3>2. nxt = NULL
      BY <1>2, <3>1 DEF Last
    <3> QED BY <3>1, <3>2
  <2>2. CASE n < Len(s)
    <3>1. P(n) = SubSeq(s, 1, n) /\ P(n + 1) = SubSeq(s, 1, n + 1)
      BY <1>2, <2>2
    <3>2. nxt = s[n + 1]
      <4>1. CASE n = 0
        BY <1>2, <2>2, <3>1, <4>1
      <4>2. CASE n # 0
        <5>1. Len(P(n)) = n /\ P(n) # <<>> /\ Last(P(n)) = s[n]
          BY <1>2, <2>2, <3>1, <4>2 DEF Last
        <5>2. m[s[n]].next = s[n + 1]
          BY <1>2, <2>2, <4>2
        <5> QED BY <5>1, <5>2
      <4> QED BY <4>1, <4>2
    <3>3. s[n + 1] \in Cells
      BY <1>2, <2>2
    <3>4. P(n + 1) = Append(P(n), s[n + 1])
      <4> DEFINE x == SubSeq(s, 1, n)
                 y == SubSeq(s, 1, n + 1)
                 z == Append(x, s[n + 1])
      <4>1. /\ x \in Seq(Cells) /\ Len(x) = n
            /\ \A j \in 1 .. n : x[j] = s[j]
        BY <1>2, <2>2
      <4>2. /\ y \in Seq(Cells) /\ Len(y) = n + 1
            /\ \A j \in 1 .. n + 1 : y[j] = s[j]
        BY <1>2, <2>2
      <4>3. /\ z \in Seq(Cells) /\ Len(z) = n + 1
            /\ \A j \in 1 .. n + 1 : z[j] = s[j]
        <5> HIDE DEF x
        <5> QED BY <3>3, <4>1
      <4> HIDE DEF x, y, z
      <4>4. y = z
        BY <4>2, <4>3, SeqEqual
      <4> QED BY <3>1, <4>4 DEF x, y, z
    <3> QED BY <1>2, <3>2, <3>3, <3>4
  <2> QED BY <1>2, <2>1, <2>2
<1> HIDE DEF P
<1>5. g = W(g)
  <2>1. ASSUME NEW n \in 0 .. N
        PROVE  g[n] = W(g)[n]
    <3>1. CASE n = 0
      BY <1>2, <1>3, <3>1
    <3>2. CASE n # 0
      <4>1. n - 1 \in 0 .. N /\ n - 1 \in Nat /\ (n - 1) + 1 = n
        BY <1>2, <3>2
      <4>2. g[n - 1] = P(n - 1) /\ g[n] = P(n)
        BY <4>1
      <4> QED BY <1>4, <3>2, <4>1, <4>2
    <3> QED BY <3>1, <3>2
  <2> QED BY <2>1
<1>6. ASSUME NEW f, f = W(f)
      PROVE  f[N] = P(N)
  <2> DEFINE T == {n \in Nat : n <= N => f[n] = P(n)}
  <2>1. 0 \in T
    BY <1>2, <1>3, <1>6
  <2>2. ASSUME NEW n \in Nat, n \in T PROVE n + 1 \in T
    <3> SUFFICES ASSUME n + 1 <= N PROVE f[n + 1] = P(n + 1)
      OBVIOUS
    <3>1. n + 1 \in 0 .. N /\ n + 1 # 0 /\ (n + 1) - 1 = n /\ n <= N
      BY <1>2
    <3>2. f[n] = P(n)
      BY <2>2, <3>1
    <3>3. f[n + 1] = W(f)[n + 1]
      BY <1>6
    <3> QED BY <1>4, <3>1, <3>2, <3>3
  <2> HIDE DEF T
  <2>3. Nat \subseteq T
    BY <2>1, <2>2, SetInduction
  <2>4. N \in T
    BY <1>2, <2>3
  <2> QED BY <1>2, <2>4 DEF T
<1> HIDE DEF W
<1>7. (CHOOSE f : f = W(f)) = W(CHOOSE f : f = W(f))
  BY <1>5
<1> QED BY <1>1, <1>3, <1>6, <1>7

-----------------------------------------------------------------------------
(***************************************************************************)
(* What the operations on cells do to a chain.                             *)
(***************************************************************************)
LEMMA ChainFacts ==
  ASSUME NEW m, NEW a, NEW s, Chain(m, a, s)
  PROVE  /\ s \in Seq(Cells) /\ Len(s) \in Nat /\ IsInjective(s)
         /\ DOMAIN s = 1 .. Len(s) /\ ToSet(s) \subseteq Cells
         /\ NULL \notin ToSet(s)
         /\ a = NULL <=> s = <<>>
         /\ s # <<>> => a = s[1] /\ a \in ToSet(s)
<1>1. s \in Seq(Cells) /\ IsInjective(s) /\ a = IF s = <<>> THEN NULL ELSE s[1]
  BY DEF Chain
<1>2. Len(s) \in Nat /\ DOMAIN s = 1 .. Len(s) /\ ToSet(s) \subseteq Cells
  BY <1>1 DEF ToSet
<1>3. NULL \notin Cells
  BY HeapAssumption
<1>4. s # <<>> => s[1] \in ToSet(s)
  BY <1>1, <1>2 DEF ToSet
<1> QED BY <1>1, <1>2, <1>3, <1>4

\* Cells elsewhere may change.
LEMMA ChainElsewhere ==
  ASSUME NEW m, NEW a, NEW s, Chain(m, a, s), NEW n,
         \A c \in ToSet(s) : n[c].next = m[c].next
  PROVE  Chain(n, a, s)
<1>1. \A k \in 1 .. Len(s) : s[k] \in ToSet(s)
  BY ChainFacts DEF ToSet
<1> QED BY <1>1 DEF Chain

LEMMA ChainOfOne ==
  ASSUME NEW m, NEW c \in Cells, m[c].next = NULL
  PROVE  Chain(m, c, <<c>>)
BY DEF Chain, IsInjective

\* reading_add: link a new cell behind the last.
LEMMA ChainAppend ==
  ASSUME NEW m, NEW a, NEW s, Chain(m, a, s), s # <<>>,
         NEW c \in Cells, c \notin ToSet(s),
         NEW n, n[Last(s)].next = c, n[c].next = NULL,
         \A d \in ToSet(s) : d # Last(s) => n[d].next = m[d].next
  PROVE  Chain(n, a, Append(s, c))
<1> DEFINE t == Append(s, c)
<1>1. /\ s \in Seq(Cells) /\ Len(s) \in Nat \ {0} /\ IsInjective(s)
      /\ DOMAIN s = 1 .. Len(s) /\ a = s[1]
      /\ \A k \in 1 .. Len(s) : m[s[k]].next = IF k < Len(s) THEN s[k + 1] ELSE NULL
  BY DEF Chain
<1>2. /\ t \in Seq(Cells) /\ Len(t) = Len(s) + 1 /\ DOMAIN t = 1 .. Len(s) + 1
      /\ t[Len(s) + 1] = c /\ \A k \in 1 .. Len(s) : t[k] = s[k]
  BY <1>1
<1>3. \A k \in 1 .. Len(s) : s[k] \in ToSet(s) /\ s[k] # c
  BY <1>1 DEF ToSet
<1> HIDE DEF t
<1>4. IsInjective(t)
  <2>1. \A j, k \in 1 .. Len(s) : s[j] = s[k] => j = k
    BY <1>1 DEF IsInjective
  <2> QED BY <1>1, <1>2, <1>3, <2>1 DEF IsInjective
<1>5. ASSUME NEW k \in 1 .. Len(t)
      PROVE  n[t[k]].next = IF k < Len(t) THEN t[k + 1] ELSE NULL
  <2>1. CASE k < Len(s)
    <3>1. s[k] # Last(s)
      BY <1>1, <2>1 DEF Last, IsInjective
    <3>2. n[s[k]].next = s[k + 1]
      BY <1>1, <1>3, <2>1, <3>1
    <3>3. k \in 1 .. Len(s) /\ k + 1 \in 1 .. Len(s) /\ k < Len(t)
      BY <1>1, <1>2, <2>1
    <3>4. t[k] = s[k] /\ t[k + 1] = s[k + 1]
      BY <1>2, <3>3
    <3>5. n[t[k]].next = t[k + 1]
      BY <3>2, <3>4
    <3> QED BY <3>3, <3>5
  <2>2. CASE k = Len(s)
    <3>1. n[s[k]].next = c
      BY <2>2 DEF Last
    <3> QED BY <1>1, <1>2, <2>2, <3>1
  <2>3. CASE k = Len(s) + 1
    BY <1>1, <1>2, <2>3
  <2>4. k < Len(s) \/ k = Len(s) \/ k = Len(s) + 1
    <3>1. Len(s) \in Nat /\ Len(t) = Len(s) + 1
      BY <1>1, <1>2
    <3>2. k \in 1 .. Len(s) + 1
      BY <3>1
    <3> QED BY <3>1, <3>2
  <2> QED BY <2>1, <2>2, <2>3, <2>4
<1>6. a = t[1] /\ t # <<>>
  BY <1>1, <1>2
<1> QED BY <1>2, <1>4, <1>5, <1>6 DEF Chain, t

\* reading_remove of the k-th cell; the cell itself keeps its pointer.
LEMMA ChainRemoveFirst ==
  ASSUME NEW m, NEW a, NEW s, Chain(m, a, s), s # <<>>
  PROVE  Chain(m, m[a].next, Tail(s))
<1> DEFINE t == Tail(s)
<1>1. /\ s \in Seq(Cells) /\ Len(s) \in Nat \ {0} /\ IsInjective(s)
      /\ DOMAIN s = 1 .. Len(s) /\ a = s[1]
      /\ \A k \in 1 .. Len(s) : m[s[k]].next = IF k < Len(s) THEN s[k + 1] ELSE NULL
  BY DEF Chain
<1>2. /\ t \in Seq(Cells) /\ Len(t) = Len(s) - 1 /\ DOMAIN t = 1 .. Len(s) - 1
      /\ \A k \in 1 .. Len(s) - 1 : t[k] = s[k + 1]
  BY <1>1
<1> HIDE DEF t
<1>3. IsInjective(t)
  <2>1. \A j, k \in 1 .. Len(s) : s[j] = s[k] => j = k
    BY <1>1 DEF IsInjective
  <2>2. ASSUME NEW j \in 1 .. Len(s) - 1, NEW k \in 1 .. Len(s) - 1, t[j] = t[k]
        PROVE  j = k
    <3>1. j + 1 \in 1 .. Len(s) /\ k + 1 \in 1 .. Len(s) /\ s[j + 1] = s[k + 1]
      BY <1>1, <1>2, <2>2
    <3>2. j + 1 = k + 1
      BY <2>1, <3>1
    <3> QED BY <1>1, <3>2
  <2> QED BY <1>2, <2>2 DEF IsInjective
<1>4. m[a].next = IF t = <<>> THEN NULL ELSE t[1]
  BY <1>1, <1>2
<1>5. ASSUME NEW k \in 1 .. Len(t)
      PROVE  m[t[k]].next = IF k < Len(t) THEN t[k + 1] ELSE NULL
  <2>1. /\ k + 1 \in 1 .. Len(s) /\ t[k] = s[k + 1]
        /\ k < Len(t) <=> k + 1 < Len(s)
    BY <1>1, <1>2
  <2>2. m[t[k]].next = IF k + 1 < Len(s) THEN s[k + 1 + 1] ELSE NULL
    BY <1>1, <2>1
  <2>3. k < Len(t) => t[k + 1] = s[k + 1 + 1]
    BY <1>1, <1>2, <2>1
  <2> QED BY <2>1, <2>2, <2>3
<1> QED BY <1>2, <1>3, <1>4, <1>5 DEF Chain, t

LEMMA ChainRemoveInner ==
  ASSUME NEW m, NEW a, NEW s, Chain(m, a, s), NEW k \in 2 .. Len(s),
         NEW n, n[s[k - 1]].next = m[s[k]].next,
         \A d \in ToSet(s) : d # s[k - 1] => n[d].next = m[d].next
  PROVE  Chain(n, a, RemoveAt(s, k))
<1> DEFINE t == RemoveAt(s, k)
<1>1. /\ s \in Seq(Cells) /\ Len(s) \in Nat \ {0} /\ IsInjective(s)
      /\ DOMAIN s = 1 .. Len(s) /\ a = IF s = <<>> THEN NULL ELSE s[1]
      /\ \A j \in 1 .. Len(s) : m[s[j]].next = IF j < Len(s) THEN s[j + 1] ELSE NULL
  BY DEF Chain
<1>2. /\ k \in 1 .. Len(s) /\ k \in Nat /\ k >= 2 /\ s # <<>> /\ a = s[1]
  BY <1>1
<1>3. /\ t \in Seq(Cells) /\ Len(t) = Len(s) - 1 /\ DOMAIN t = 1 .. Len(s) - 1
      /\ \A j \in 1 .. Len(s) - 1 : t[j] = IF j < k THEN s[j] ELSE s[j + 1]
  <2>1. /\ t \in Seq(Cells) /\ Len(t) = Len(s) - 1
        /\ \A j \in 1 .. Len(s) - 1 : t[j] = IF j < k THEN s[j] ELSE s[j + 1]
    BY <1>1, <1>2, RemoveAtFacts
  <2> HIDE DEF t
  <2> QED BY <2>1
<1> HIDE DEF t
<1>4. IsInjective(t)
  BY <1>1, <1>2, <1>3, GapInjective DEF ClosesGap
<1>5. a = IF t = <<>> THEN NULL ELSE t[1]
  BY <1>1, <1>2, <1>3
<1>6. \A j \in 1 .. Len(s) : s[j] \in ToSet(s) /\ (j # k - 1 => s[j] # s[k - 1])
  BY <1>1, <1>2 DEF ToSet, IsInjective
<1>7. ASSUME NEW j \in 1 .. Len(t)
      PROVE  n[t[j]].next = IF j < Len(t) THEN t[j + 1] ELSE NULL
  <2>1. CASE j < k - 1
    <3>1. n[s[j]].next = s[j + 1]
      BY <1>1, <1>2, <1>6, <2>1
    <3> QED BY <1>1, <1>2, <1>3, <2>1, <3>1
  <2>2. CASE j = k - 1
    <3>1. n[s[j]].next = IF k < Len(s) THEN s[k + 1] ELSE NULL
      BY <1>1, <1>2, <2>2
    <3> QED BY <1>1, <1>2, <1>3, <2>2, <3>1
  <2>3. CASE j > k - 1
    <3>1. n[s[j + 1]].next = IF j + 1 < Len(s) THEN s[j + 2] ELSE NULL
      <4>1. j + 1 \in 1 .. Len(s) /\ j + 1 # k - 1 /\ (j + 1) + 1 = j + 2
        BY <1>1, <1>2, <1>3, <2>3
      <4> QED BY <1>1, <1>6, <4>1
    <3> QED BY <1>1, <1>2, <1>3, <2>3, <3>1
  <2> QED BY <1>2, <1>3, <2>1, <2>2, <2>3
<1> QED BY <1>3, <1>4, <1>5, <1>7 DEF Chain, t

-----------------------------------------------------------------------------
(***************************************************************************)
(* The inductive invariant for one thread.  reading_list is a chain of     *)
(* cells whose readings differ and are the queued ones; between two steps  *)
(* the thread holds a cell that is not linked yet, or a cursor on a linked *)
(* cell, or a cursor whose next cell is linked.                            *)
(***************************************************************************)
HeapIsChain == Chain(mem, head, List)

Ledger ==
  /\ \A a \in ToSet(List) : mem[a].reading \in Readings
  /\ \A a, b \in ToSet(List) : mem[a].reading = mem[b].reading => a = b
  /\ \A r \in Readings :
       fate[r] = "queued" <=> \E a \in ToSet(List) : mem[a].reading = r

AboutToLink(t) ==
  /\ new[t] \in Cells
  /\ mem[new[t]].reading \in Readings
  /\ fate[mem[new[t]].reading] # "queued"
  /\ mem[new[t]].next = NULL
  /\ last[t] = FoundTail

ThreadState ==
  \A t \in Threads :
    /\ pc[t] = "link" => AboutToLink(t)
    /\ pc[t] # "link" => new[t] = NULL
    /\ pc[t] = "loop" => temp[t] \in ToSet(List) \cup {NULL}
    /\ pc[t] = "wait" =>
         /\ temp[t] \in ToSet(List)
         /\ sent[t] = mem[temp[t]].reading
         /\ i[t] < MAX_SENDS_PER_PERIOD
    /\ pc[t] = "advance" =>
         /\ temp[t] \in Cells
         /\ mem[temp[t]].next \in ToSet(List) \cup {NULL}
         /\ i[t] < MAX_SENDS_PER_PERIOD

IInv ==
  /\ TypeOK
  /\ HeapIsChain
  /\ NoLeakNoDoubleUse
  /\ Ledger
  /\ ThreadState

-----------------------------------------------------------------------------
(***************************************************************************)
(* A state whose cells form the chain s has the list s.                    *)
(***************************************************************************)
LEMMA NewList ==
  ASSUME NEW s, Chain(mem', head', s)
  PROVE  List' = s /\ HeapIsChain'
<1>1. List' = s
  BY LinkedIsChain DEF List
<1> QED BY <1>1 DEF HeapIsChain

LEMMA ListFacts ==
  ASSUME HeapIsChain
  PROVE  /\ List \in Seq(Cells) /\ Len(List) \in Nat /\ IsInjective(List)
         /\ DOMAIN List = 1 .. Len(List) /\ ToSet(List) \subseteq Cells
         /\ NULL \notin ToSet(List)
         /\ head = NULL <=> List = <<>>
         /\ List # <<>> => head = List[1] /\ head \in ToSet(List)
BY ChainFacts DEF HeapIsChain

LEMMA KeepsList ==
  ASSUME HeapIsChain, head' = head,
         \A c \in ToSet(List) : mem'[c].next = mem[c].next
  PROVE  List' = List /\ HeapIsChain'
<1>1. Chain(mem', head', List)
  BY ChainElsewhere DEF HeapIsChain
<1> QED BY <1>1, NewList

\* The tail reading_add finds.
LEMMA TailFacts ==
  ASSUME HeapIsChain
  PROVE  /\ FoundTail = NULL <=> List = <<>>
         /\ List # <<>> => FoundTail = Last(List) /\ FoundTail \in ToSet(List)
         /\ FoundTail \in Cells \cup {NULL}
<1>1. /\ List \in Seq(Cells) /\ DOMAIN List = 1 .. Len(List) /\ Len(List) \in Nat
      /\ ToSet(List) \subseteq Cells /\ NULL \notin ToSet(List)
  BY ListFacts
<1>2. List # <<>> => Last(List) \in ToSet(List)
  BY <1>1 DEF Last, ToSet
<1> QED BY <1>1, <1>2 DEF FoundTail

LEMMA InitEstablishes == Init => IInv
<1> SUFFICES ASSUME Init PROVE IInv
  OBVIOUS
<1> USE DEF Init
<1>1. TypeOK
  <2>1. 0 \in Counter /\ 0 \in 0 .. MAX_SENDS_PER_PERIOD
    BY CapAssumption, HeapAssumption DEF Counter
  <2>2. fate \in [Readings -> Fates]
    BY DEF Fates
  <2> QED BY <2>1, <2>2 DEF TypeOK
<1>2. Chain(mem, head, <<>>)
  BY DEF Chain, IsInjective
<1>3. List = <<>> /\ HeapIsChain
  <2>1. List = <<>>
    BY <1>2, LinkedIsChain DEF List
  <2> QED BY <1>2, <2>1 DEF HeapIsChain
<1>4. ToSet(List) = {}
  BY <1>3 DEF ToSet
<1>5. Owned = {}
  BY DEF Owned
<1>6. NoLeakNoDoubleUse
  BY <1>3, <1>4, <1>5 DEF NoLeakNoDoubleUse, IsInjective
<1>7. Ledger
  BY <1>4 DEF Ledger
<1>8. ThreadState
  BY DEF ThreadState
<1> QED BY <1>1, <1>3, <1>6, <1>7, <1>8 DEF IInv

-----------------------------------------------------------------------------
(***************************************************************************)
(* get_temp has returned: a free cell becomes the thread's.                *)
(***************************************************************************)
LEMMA AllocateKeepsList ==
  ASSUME IInv, NEW t \in Threads, NEW r \in Readings, NEW a \in Cells,
         Allocate(t, r, a)
  PROVE  /\ List' = List /\ HeapIsChain'
         /\ \A c \in ToSet(List) : mem'[c] = mem[c]
<1>1. a \notin ToSet(List) /\ mem \in [Cells -> [reading : Readings \cup {NULL}, next : Cells \cup {NULL}]]
      /\ HeapIsChain /\ ToSet(List) \subseteq Cells
  BY ListFacts DEF IInv, NoLeakNoDoubleUse, Allocate, TypeOK
<1>2. \A c \in ToSet(List) : mem'[c] = mem[c]
  BY <1>1 DEF Allocate
<1>3. head' = head
  BY DEF Allocate
<1>4. List' = List /\ HeapIsChain'
  BY <1>1, <1>2, <1>3, KeepsList
<1> QED BY <1>2, <1>4

LEMMA AllocatePreserves ==
  ASSUME OneThread, IInv, NEW t \in Threads, NEW r \in Readings, NEW a \in Cells,
         Allocate(t, r, a)
  PROVE  IInv'
<1>1. List' = List /\ HeapIsChain' /\ \A c \in ToSet(List) : mem'[c] = mem[c]
  BY AllocateKeepsList
<1>2. \A u \in Threads : u = t
  BY DEF OneThread
<1>3. /\ TypeOK /\ HeapIsChain /\ ToSet(List) \subseteq Cells /\ NULL \notin ToSet(List)
      /\ FoundTail \in Cells \cup {NULL} /\ FoundTail' = FoundTail
  BY <1>1, ListFacts, TailFacts DEF IInv, FoundTail
<1>4. /\ mem'[a] = [reading |-> r, next |-> NULL] /\ new'[t] = a /\ last'[t] = FoundTail
      /\ pc'[t] = "link" /\ a \in free /\ free' = free \ {a} /\ a # NULL
      /\ fate' = fate /\ fate[r] # "queued" /\ new[t] = NULL
  BY <1>3, HeapAssumption DEF Allocate, TypeOK, Fresh, IInv, ThreadState
<1>5. TypeOK'
  BY <1>3 DEF Allocate, TypeOK
<1>6. NoLeakNoDoubleUse'
  <2>1. Owned = {} /\ Owned' = {a}
    BY <1>2, <1>4 DEF Owned
  <2>2. /\ IsInjective(List) /\ free \cap ToSet(List) = {}
        /\ free \cup ToSet(List) = Cells
    BY <2>1 DEF IInv, NoLeakNoDoubleUse
  <2> QED BY <1>1, <1>4, <2>1, <2>2 DEF NoLeakNoDoubleUse
<1>7. Ledger'
  BY <1>1, <1>4 DEF IInv, Ledger
<1>8. ThreadState'
  <2>1. AboutToLink(t)'
    BY <1>3, <1>4 DEF AboutToLink
  <2> QED BY <1>2, <1>4, <2>1 DEF ThreadState
<1> QED BY <1>1, <1>5, <1>6, <1>7, <1>8 DEF IInv

(***************************************************************************)
(* The steps that leave the heap alone: malloc fails, the loop ends, a     *)
(* request goes out or arrives or stays unanswered, the cursor moves.      *)
(***************************************************************************)
LEMMA HeapUntouched ==
  ASSUME IInv, UNCHANGED <<mem, free, head, new, fate>>
  PROVE  /\ List' = List /\ FoundTail' = FoundTail
         /\ HeapIsChain' /\ NoLeakNoDoubleUse' /\ Ledger'
<1>1. List' = List /\ HeapIsChain'
  BY KeepsList DEF IInv
<1>2. Owned' = Owned
  BY DEF Owned
<1> QED BY <1>1, <1>2 DEF IInv, NoLeakNoDoubleUse, Ledger, FoundTail

LEMMA AllocationFailsPreserves ==
  ASSUME OneThread, IInv, NEW t \in Threads, AllocationFails(t)
  PROVE  IInv'
<1>1. /\ List' = List /\ HeapIsChain' /\ NoLeakNoDoubleUse' /\ Ledger'
  BY HeapUntouched DEF AllocationFails
<1>2. TypeOK'
  BY DEF IInv, TypeOK, AllocationFails
<1>3. ThreadState'
  <2>1. \A u \in Threads : pc[u] = "idle" /\ pc'[u] = "halted" /\ new'[u] = new[u]
    BY DEF OneThread, AllocationFails
  <2> QED BY <2>1 DEF ThreadState, IInv
<1> QED BY <1>1, <1>2, <1>3 DEF IInv

LEMMA LoopPreserves ==
  ASSUME OneThread, IInv, NEW t \in Threads,
         Leave(t) \/ Post(t) \/ Store(t) \/ Advance(t)
  PROVE  IInv'
<1>1. UNCHANGED <<mem, free, head, length, new, last, fate>>
  BY DEF Leave, Post, Store, Advance
<1>2. /\ List' = List /\ HeapIsChain' /\ NoLeakNoDoubleUse' /\ Ledger'
  BY <1>1, HeapUntouched
<1>3. \A u \in Threads : u = t
  BY DEF OneThread
<1>4. TypeOK /\ ThreadState /\ Ledger /\ ToSet(List) \subseteq Cells /\ NULL \notin ToSet(List)
  BY ListFacts DEF IInv
<1>5. /\ pc[t] # "link" => new[t] = NULL
      /\ pc[t] = "loop" => temp[t] \in ToSet(List) \cup {NULL}
      /\ pc[t] = "wait" =>
           /\ temp[t] \in ToSet(List)
           /\ sent[t] = mem[temp[t]].reading
           /\ i[t] < MAX_SENDS_PER_PERIOD
      /\ pc[t] = "advance" =>
           /\ temp[t] \in Cells
           /\ mem[temp[t]].next \in ToSet(List) \cup {NULL}
           /\ i[t] < MAX_SENDS_PER_PERIOD
  BY <1>4 DEF ThreadState
<1>6. TypeOK' /\ ThreadState'
  <2>1. CASE Leave(t)
    <3>1. pc[t] = "loop" /\ pc'[t] = "idle" /\ new'[t] = NULL
      BY <1>4, <1>5, <2>1 DEF Leave, TypeOK
    <3>2. TypeOK'
      BY <1>4, <2>1, HeapAssumption DEF TypeOK, Leave
    <3> QED BY <1>3, <3>1, <3>2 DEF ThreadState
  <2>2. CASE Post(t)
    <3>1. /\ pc[t] = "loop" /\ pc'[t] = "wait" /\ new'[t] = NULL
          /\ temp'[t] = temp[t] /\ temp[t] \in ToSet(List)
          /\ sent'[t] = mem'[temp'[t]].reading /\ i'[t] < MAX_SENDS_PER_PERIOD
      BY <1>4, <1>5, <2>2 DEF Post, TypeOK
    <3>2. mem[temp[t]].reading \in Readings
      BY <1>4, <3>1 DEF Ledger
    <3>3. TypeOK'
      BY <1>4, <2>2, <3>2 DEF TypeOK, Post
    <3> QED BY <1>2, <1>3, <3>1, <3>3 DEF ThreadState
  <2>3. CASE Store(t)
    <3>1. /\ pc[t] = "wait" /\ pc' = pc /\ temp' = temp /\ sent' = sent /\ i' = i
          /\ sent[t] \in Readings
      BY <1>4, <1>5, <2>3 DEF Store, Ledger
    <3>2. TypeOK'
      BY <1>4, <2>3, <3>1 DEF TypeOK, Store
    <3> QED BY <1>1, <1>2, <1>3, <1>5, <3>1, <3>2 DEF ThreadState
  <2>4. CASE Advance(t)
    <3>1. /\ pc[t] = "advance" /\ pc'[t] = "loop" /\ new'[t] = NULL
          /\ temp'[t] = mem[temp[t]].next /\ i' = [i EXCEPT ![t] = @ + 1]
          /\ i[t] \in 0 .. MAX_SENDS_PER_PERIOD
      BY <1>4, <1>5, <2>4 DEF Advance, TypeOK
    <3>2. i' \in [Threads -> 0 .. MAX_SENDS_PER_PERIOD]
      <4>1. i[t] + 1 \in 0 .. MAX_SENDS_PER_PERIOD
        BY <1>5, <3>1, HeapAssumption
      <4> QED BY <1>4, <3>1, <4>1 DEF TypeOK
    <3>3. temp' \in [Threads -> Cells \cup {NULL}]
      BY <1>4, <1>5, <2>4, <3>1 DEF TypeOK, Advance
    <3>4. pc' \in [Threads -> {"idle", "link", "loop", "wait", "advance", "halted"}]
      BY <1>4, <2>4 DEF TypeOK, Advance
    <3>5. TypeOK'
      BY <1>1, <1>4, <2>4, <3>2, <3>3, <3>4 DEF TypeOK, Advance
    <3> QED BY <1>2, <1>3, <1>5, <3>1, <3>5 DEF ThreadState
  <2> QED BY <2>1, <2>2, <2>3, <2>4
<1> QED BY <1>2, <1>6 DEF IInv

LEMMA ResetPreserves ==
  ASSUME IInv, Reset
  PROVE  IInv' /\ List' = <<>>
<1> USE DEF Reset
<1>1. Chain(mem', head', <<>>)
  BY DEF Chain, IsInjective
<1>2. List' = <<>> /\ HeapIsChain'
  BY <1>1, NewList
<1>3. ToSet(List') = {}
  BY <1>2 DEF ToSet
<1>4. Owned' = {}
  BY DEF Owned
<1>5. TypeOK'
  <2>1. 0 \in Counter /\ 0 \in 0 .. MAX_SENDS_PER_PERIOD
    BY CapAssumption, HeapAssumption DEF Counter
  <2>2. fate' \in [Readings -> Fates]
    BY DEF Fates, IInv, TypeOK
  <2> QED BY <2>1, <2>2 DEF IInv, TypeOK
<1>6. NoLeakNoDoubleUse'
  BY <1>2, <1>3, <1>4 DEF NoLeakNoDoubleUse, IsInjective
<1>7. Ledger'
  BY <1>3 DEF Ledger
<1>8. ThreadState'
  BY DEF ThreadState
<1> QED BY <1>2, <1>5, <1>6, <1>7, <1>8 DEF IInv

-----------------------------------------------------------------------------
(***************************************************************************)
(* The rest of reading_add: the new cell becomes the last; over the cap    *)
(* the first one is freed.                                                 *)
(***************************************************************************)
Evicts(t) == last[t] # NULL /\ Increment(length) > MAX_READING_LIST_SIZE

LEMMA LinkAppends ==
  ASSUME IInv, NEW t \in Threads, Link(t)
  PROVE  /\ HeapIsChain'
         /\ Evicts(t) => List # <<>>
         /\ List' = IF Evicts(t) THEN Append(Tail(List), new[t])
                    ELSE Append(List, new[t])
         /\ mem' \in [Cells -> [reading : Readings \cup {NULL}, next : Cells \cup {NULL}]]
         /\ \A c \in Cells : mem'[c].reading = mem[c].reading
         /\ length' \in Counter
         /\ free' = IF Evicts(t) THEN free \cup {head} ELSE free
         /\ fate' = IF Evicts(t)
                    THEN [fate EXCEPT ![mem[new[t]].reading] = "queued",
                                      ![mem[head].reading] = "evicted"]
                    ELSE [fate EXCEPT ![mem[new[t]].reading] = "queued"]
<1>1. /\ HeapIsChain /\ AboutToLink(t) /\ TypeOK
      /\ new[t] \in Cells /\ mem[new[t]].next = NULL /\ last[t] = FoundTail
  BY DEF Link, IInv, ThreadState, AboutToLink
<1>2. /\ List \in Seq(Cells) /\ ToSet(List) \subseteq Cells /\ Len(List) \in Nat
      /\ head = NULL <=> List = <<>>
      /\ List # <<>> => head \in ToSet(List)
      /\ last[t] = NULL <=> List = <<>>
      /\ List # <<>> => last[t] = Last(List) /\ last[t] \in ToSet(List)
  BY <1>1, ListFacts, TailFacts
<1>3. new[t] \notin ToSet(List)
  <2>1. new[t] \in Owned
    BY <1>1, HeapAssumption DEF Owned
  <2> QED BY <2>1 DEF IInv, NoLeakNoDoubleUse
<1>4. /\ mem \in [Cells -> [reading : Readings \cup {NULL}, next : Cells \cup {NULL}]]
      /\ length \in Counter
  BY <1>1 DEF TypeOK
<1>5. Increment(length) \in Counter /\ 1 \in Counter
  BY <1>4, CapAssumption DEF Increment, Counter
<1>6. CASE last[t] = NULL
  <2>1. LinkFirst(t) /\ ~Evicts(t) /\ List = <<>>
    BY <1>2, <1>6 DEF Link, Evicts
  <2>2. mem' = mem /\ head' = new[t]
    BY <2>1 DEF LinkFirst
  <2>3. Chain(mem', head', <<new[t]>>)
    BY <1>1, <2>2, ChainOfOne
  <2>4. List' = <<new[t]>> /\ HeapIsChain'
    BY <2>3, NewList
  <2>5. Append(List, new[t]) = <<new[t]>>
    BY <2>1
  <2> QED BY <1>4, <1>5, <2>1, <2>2, <2>4, <2>5 DEF LinkFirst
<1>7. CASE last[t] # NULL
  <2> DEFINE m == [mem EXCEPT ![last[t]].next = new[t]]
             full == Append(List, new[t])
  <2>1. LinkLast(t) /\ List # <<>> /\ last[t] = Last(List) /\ last[t] \in ToSet(List)
    BY <1>2, <1>7 DEF Link
  <2>2. /\ m \in [Cells -> [reading : Readings \cup {NULL}, next : Cells \cup {NULL}]]
        /\ m[last[t]].next = new[t]
        /\ \A c \in Cells : m[c].reading = mem[c].reading
        /\ \A c \in Cells : c # last[t] => m[c] = mem[c]
    BY <1>1, <1>2, <1>4, <2>1
  <2>3. mem' = m
    BY <2>1 DEF LinkLast
  <2> HIDE DEF m
  <2>4. m[new[t]].next = NULL
    BY <1>1, <1>3, <2>1, <2>2
  <2>5. \A d \in ToSet(List) : d # Last(List) => m[d].next = mem[d].next
    BY <1>2, <2>1, <2>2
  <2>6. m[Last(List)].next = new[t]
    BY <2>1, <2>2
  <2>7. Chain(m, head, full)
    <3> HIDE DEF full
    <3>1. Chain(mem, head, List)
      BY <1>1 DEF HeapIsChain
    <3> QED BY <1>1, <1>3, <2>1, <2>4, <2>5, <2>6, <3>1, ChainAppend DEF full
  <2>8. full # <<>> /\ Tail(full) = Append(Tail(List), new[t])
    BY <1>1, <1>2, <2>1
  <2>9. head # NULL /\ length' = Increment(length)
    BY <1>2, <2>1 DEF LinkLast
  <2>10. CASE Evicts(t)
    <3>1. /\ head' = m[head].next /\ free' = free \cup {head}
          /\ fate' = [fate EXCEPT ![mem[new[t]].reading] = "queued",
                                  ![m[head].reading] = "evicted"]
      BY <2>1, <2>9, <2>10 DEF LinkLast, Evicts, m
    <3>2. m[head].reading = mem[head].reading
      BY <1>2, <2>1, <2>2
    <3>3. Chain(m, m[head].next, Tail(full))
      <4> HIDE DEF full
      <4> QED BY <2>7, <2>8, ChainRemoveFirst
    <3>4. List' = Tail(full) /\ HeapIsChain'
      <4>1. Chain(mem', head', Tail(full))
        BY <2>3, <3>1, <3>3
      <4> HIDE DEF full
      <4> QED BY <4>1, NewList
    <3> QED BY <1>5, <2>1, <2>2, <2>3, <2>8, <2>9, <2>10, <3>1, <3>2, <3>4
  <2>11. CASE ~Evicts(t)
    <3>1. /\ head' = head /\ free' = free
          /\ fate' = [fate EXCEPT ![mem[new[t]].reading] = "queued"]
      BY <1>7, <2>1, <2>9, <2>11 DEF LinkLast, Evicts
    <3>2. List' = full /\ HeapIsChain'
      <4>1. Chain(mem', head', full)
        BY <2>3, <2>7, <3>1
      <4> HIDE DEF full
      <4> QED BY <4>1, NewList
    <3> QED BY <1>5, <2>2, <2>3, <2>9, <2>11, <3>1, <3>2
  <2> QED BY <2>10, <2>11
<1> QED BY <1>6, <1>7

LEMMA LinkPreserves ==
  ASSUME OneThread, IInv, NEW t \in Threads, Link(t)
  PROVE  IInv'
<1> DEFINE r == mem[new[t]].reading
<1>1. /\ TypeOK /\ HeapIsChain /\ Ledger /\ NoLeakNoDoubleUse
      /\ new[t] \in Cells /\ r \in Readings /\ fate[r] # "queued"
      /\ fate \in [Readings -> Fates]
      /\ temp \in [Threads -> Cells \cup {NULL}]
      /\ mem \in [Cells -> [reading : Readings \cup {NULL}, next : Cells \cup {NULL}]]
  BY DEF Link, IInv, ThreadState, AboutToLink, TypeOK
<1>2. /\ HeapIsChain'
      /\ Evicts(t) => List # <<>>
      /\ List' = IF Evicts(t) THEN Append(Tail(List), new[t])
                 ELSE Append(List, new[t])
      /\ mem' \in [Cells -> [reading : Readings \cup {NULL}, next : Cells \cup {NULL}]]
      /\ \A c \in Cells : mem'[c].reading = mem[c].reading
      /\ length' \in Counter
      /\ free' = IF Evicts(t) THEN free \cup {head} ELSE free
      /\ fate' = IF Evicts(t)
                 THEN [fate EXCEPT ![r] = "queued", ![mem[head].reading] = "evicted"]
                 ELSE [fate EXCEPT ![r] = "queued"]
  BY LinkAppends
<1>3. /\ List \in Seq(Cells) /\ IsInjective(List) /\ ToSet(List) \subseteq Cells
      /\ List # <<>> => head = List[1] /\ head \in ToSet(List)
      /\ NULL \notin ToSet(List)
  BY <1>1, ListFacts
<1>4. /\ IsInjective(List') /\ ToSet(List') \subseteq Cells /\ NULL \notin ToSet(List')
      /\ (head' = NULL \/ head' \in Cells)
      /\ head' # NULL => head' \in ToSet(List')
  <2> DEFINE s == List'
  <2>1. Chain(mem', head', s)
    BY <1>2 DEF HeapIsChain
  <2> HIDE DEF s
  <2>2. /\ IsInjective(s) /\ ToSet(s) \subseteq Cells /\ NULL \notin ToSet(s)
        /\ head' = NULL <=> s = <<>>
        /\ s # <<>> => head' = s[1] /\ head' \in ToSet(s)
    BY <2>1, ChainFacts
  <2>3. /\ head' = NULL \/ head' \in Cells
        /\ head' # NULL => head' \in ToSet(s)
    BY <2>2
  <2> QED BY <2>2, <2>3 DEF s
<1>5. ToSet(List') = (ToSet(List) \cup {new[t]}) \ (IF Evicts(t) THEN {head} ELSE {})
  <2>1. CASE ~Evicts(t)
    BY <1>1, <1>2, <1>3, <2>1, AppendSet
  <2>2. CASE Evicts(t)
    <3>1. Tail(List) \in Seq(Cells) /\ ToSet(Tail(List)) = ToSet(List) \ {head}
      BY <1>2, <1>3, <2>2, TailSet
    <3>2. new[t] # head
      <4>1. new[t] \in Owned
        BY <1>1, HeapAssumption DEF Owned
      <4> QED BY <1>1, <1>2, <1>3, <2>2, <4>1 DEF NoLeakNoDoubleUse
    <3>3. ToSet(List') = ToSet(Tail(List)) \cup {new[t]}
      <4> DEFINE s == Tail(List)
      <4>1. s \in Seq(Cells) /\ List' = Append(s, new[t])
        BY <1>2, <2>2, <3>1
      <4> HIDE DEF s
      <4>2. ToSet(List') = ToSet(s) \cup {new[t]}
        BY <1>1, <4>1, AppendSet
      <4> QED BY <4>2 DEF s
    <3> QED BY <2>2, <3>1, <3>2, <3>3
  <2> QED BY <2>1, <2>2
<1>6. new[t] \notin ToSet(List) /\ new[t] \notin free /\ Owned = {new[t]}
  <2>1. Owned = {new[t]}
    BY <1>1, HeapAssumption DEF Owned, OneThread
  <2> QED BY <1>1, <2>1 DEF NoLeakNoDoubleUse
<1>7. \A u \in Threads : u = t
  BY DEF OneThread
<1>8. /\ new' = [new EXCEPT ![t] = NULL] /\ last' = [last EXCEPT ![t] = NULL]
      /\ temp' = [temp EXCEPT ![t] = head'] /\ i' = [i EXCEPT ![t] = 0]
      /\ pc' = [pc EXCEPT ![t] = "loop"] /\ sent' = sent /\ stored' = stored
  BY DEF Link
<1>9. TypeOK'
  <2>1. fate' \in [Readings -> Fates]
    <3>1. [fate EXCEPT ![r] = "queued"] \in [Readings -> Fates]
      BY <1>1 DEF Fates
    <3>2. [fate EXCEPT ![r] = "queued", ![mem[head].reading] = "evicted"] \in [Readings -> Fates]
      BY <1>1 DEF Fates
    <3> QED BY <1>2, <3>1, <3>2
  <2>2. free' \subseteq Cells
    BY <1>1, <1>2, <1>3 DEF TypeOK
  <2>3. temp' \in [Threads -> Cells \cup {NULL}]
    BY <1>1, <1>4, <1>8
  <2>4. i' \in [Threads -> 0 .. MAX_SENDS_PER_PERIOD]
    BY <1>1, <1>8, HeapAssumption DEF TypeOK
  <2> QED BY <1>1, <1>2, <1>4, <1>8, <2>1, <2>2, <2>3, <2>4 DEF TypeOK
<1>10. NoLeakNoDoubleUse'
  <2>1. Owned' = {}
    BY <1>1, <1>7, <1>8 DEF Owned, TypeOK
  <2>2. /\ free \cap ToSet(List) = {}
        /\ free \cup ToSet(List) \cup {new[t]} = Cells
    BY <1>1, <1>6 DEF NoLeakNoDoubleUse
  <2>3. /\ free' \cap ToSet(List') = {} /\ free' \cup ToSet(List') = Cells
    BY <1>2, <1>3, <1>5, <1>6, <2>2
  <2> QED BY <1>4, <2>1, <2>3 DEF NoLeakNoDoubleUse
<1>11. Ledger'
  <2>1. /\ \A a \in ToSet(List) : mem[a].reading \in Readings /\ mem[a].reading # r
        /\ \A a, b \in ToSet(List) : mem[a].reading = mem[b].reading => a = b
        /\ \A x \in Readings :
             fate[x] = "queued" <=> \E a \in ToSet(List) : mem[a].reading = x
    BY <1>1 DEF Ledger
  <2>2. \A a \in ToSet(List') : mem'[a].reading = mem[a].reading /\ a \in ToSet(List) \cup {new[t]}
    BY <1>2, <1>4, <1>5
  <2>3. /\ \A a \in ToSet(List') : mem'[a].reading \in Readings
        /\ \A a, b \in ToSet(List') : mem'[a].reading = mem'[b].reading => a = b
    BY <1>1, <2>1, <2>2
  <2>4. new[t] \in ToSet(List') /\ mem'[new[t]].reading = r
    BY <1>1, <1>2, <1>3, <1>5, <1>6
  <2>5. ASSUME NEW x \in Readings
        PROVE  fate'[x] = "queued" <=> \E a \in ToSet(List') : mem'[a].reading = x
    <3>1. CASE x = r
      <4>1. fate'[r] = "queued"
        <5>1. Evicts(t) => mem[head].reading # r
          BY <1>2, <1>3, <2>1
        <5> QED BY <1>1, <1>2, <5>1
      <4> QED BY <2>4, <3>1, <4>1
    <3>2. CASE x # r /\ Evicts(t) /\ x = mem[head].reading
      <4>1. fate'[x] = "evicted"
        BY <1>1, <1>2, <3>2
      <4>2. \A a \in ToSet(List') : mem'[a].reading # x
        BY <1>2, <1>3, <1>5, <2>1, <2>2, <3>2
      <4> QED BY <4>1, <4>2
    <3>3. CASE x # r /\ ~(Evicts(t) /\ x = mem[head].reading)
      <4>1. fate'[x] = fate[x]
        BY <1>1, <1>2, <3>3
      <4>2. ASSUME NEW a \in ToSet(List), mem[a].reading = x
            PROVE  a \in ToSet(List') /\ mem'[a].reading = x
        <5>1. ~Evicts(t) \/ a # head
          BY <3>3, <4>2
        <5> QED BY <1>2, <1>3, <1>5, <4>2, <5>1
      <4>3. ASSUME NEW a \in ToSet(List'), mem'[a].reading = x
            PROVE  a \in ToSet(List) /\ mem[a].reading = x
        BY <2>2, <3>3, <4>3
      <4> QED BY <2>1, <4>1, <4>2, <4>3
    <3> QED BY <3>1, <3>2, <3>3
  <2> QED BY <2>3, <2>5 DEF Ledger
<1>12. ThreadState'
  <2>1. pc'[t] = "loop" /\ new'[t] = NULL /\ temp'[t] = head'
    BY <1>1, <1>8 DEF TypeOK
  <2> QED BY <1>4, <1>7, <2>1 DEF ThreadState
<1> QED BY <1>2, <1>9, <1>10, <1>11, <1>12 DEF IInv

-----------------------------------------------------------------------------
(***************************************************************************)
(* An answer that settles the reading: the cell under the cursor is        *)
(* unlinked and freed, and still points at the cell behind it.             *)
(***************************************************************************)
LEMMA SettleRemoves ==
  ASSUME IInv, NEW t \in Threads, NEW answer \in {"created", "duplicate"},
         Answer(t, answer)
  PROVE  /\ HeapIsChain'
         /\ \E k \in 1 .. Len(List) :
              /\ List[k] = temp[t]
              /\ List' = RemoveAt(List, k)
              /\ mem[temp[t]].next = IF k < Len(List) THEN List[k + 1] ELSE NULL
         /\ mem' \in [Cells -> [reading : Readings \cup {NULL}, next : Cells \cup {NULL}]]
         /\ \A c \in Cells : mem'[c].reading = mem[c].reading
         /\ mem'[temp[t]].next = mem[temp[t]].next
         /\ length' \in Counter
         /\ free' = free \cup {temp[t]}
         /\ fate' = [fate EXCEPT ![mem[temp[t]].reading] = answer]
<1> DEFINE a == temp[t]
<1>1. /\ HeapIsChain /\ TypeOK
      /\ a \in ToSet(List)
      /\ reading_remove_cell(a, answer)
  BY DEF Answer, IInv, ThreadState
<1>2. /\ List \in Seq(Cells) /\ Len(List) \in Nat /\ IsInjective(List)
      /\ DOMAIN List = 1 .. Len(List) /\ ToSet(List) \subseteq Cells
      /\ List # <<>> => head = List[1]
  BY <1>1, ListFacts
<1>3. Chain(mem, head, List)
  BY <1>1 DEF HeapIsChain
<1>4. \A k \in 1 .. Len(List) :
        mem[List[k]].next = IF k < Len(List) THEN List[k + 1] ELSE NULL
  BY <1>3 DEF Chain
<1>5. PICK k \in 1 .. Len(List) : List[k] = a
  BY <1>1, <1>2 DEF ToSet
<1>6. /\ mem \in [Cells -> [reading : Readings \cup {NULL}, next : Cells \cup {NULL}]]
      /\ length \in Counter /\ a \in Cells /\ List # <<>> /\ NULL \notin Cells
  BY <1>1, <1>2, <1>5, HeapAssumption DEF TypeOK
<1>7. mem[a].next = IF k < Len(List) THEN List[k + 1] ELSE NULL
  BY <1>4, <1>5
<1>8. head = a <=> k = 1
  BY <1>2, <1>5, <1>6 DEF IsInjective
<1> HIDE DEF a
<1>9. CASE k = 1
  <2>1. a \notin {c \in Cells : NotFound(c)} /\ unlink_head(answer) /\ head = a
    BY <1>1, <1>6, <1>8, <1>9 DEF reading_remove_cell, NotFound
  <2>2. /\ head' = mem[head].next /\ mem' = mem /\ length' = length
        /\ free' = free \cup {a} /\ fate' = [fate EXCEPT ![mem[a].reading] = answer]
    BY <2>1 DEF unlink_head, Behind, FreeWith
  <2>3. Chain(mem, mem[head].next, Tail(List))
    BY <1>3, <1>6, ChainRemoveFirst
  <2>4. Chain(mem', head', Tail(List))
    BY <2>2, <2>3
  <2>5. List' = Tail(List) /\ HeapIsChain'
    BY <2>4, NewList
  <2>6. Tail(List) = RemoveAt(List, 1)
    BY <1>2, <1>6, TailIsRemoveFirst
  <2> QED BY <1>5, <1>6, <1>7, <1>9, <2>2, <2>5, <2>6 DEF a
<1>10. CASE k # 1
  <2>1. k \in 2 .. Len(List) /\ k - 1 \in 1 .. Len(List)
    BY <1>2, <1>10
  <2>2. mem[List[k - 1]].next = a /\ List[k - 1] \in ToSet(List)
    <3>1. k - 1 < Len(List) /\ (k - 1) + 1 = k
      BY <1>2, <2>1
    <3>2. mem[List[k - 1]].next = List[k]
      BY <1>4, <2>1, <3>1
    <3>3. List[k - 1] \in ToSet(List)
      BY <1>2, <2>1 DEF ToSet
    <3> QED BY <1>5, <3>2, <3>3
  <2>3. PICK p \in ToSet(List) : mem[p].next = a /\ unlink_inner(a, p, answer)
    BY <1>1, <1>8, <1>10, <2>2 DEF reading_remove_cell, NotFound
  <2>4. p = List[k - 1]
    <3>1. PICK j \in 1 .. Len(List) : p = List[j]
      BY <1>2 DEF ToSet
    <3>2. j < Len(List) /\ j + 1 \in 1 .. Len(List) /\ List[j + 1] = List[k]
      <4>1. mem[p].next # NULL
        BY <1>6, <2>3
      <4>2. j < Len(List)
        BY <1>2, <1>4, <3>1, <4>1
      <4>3. List[j + 1] = a
        BY <1>4, <2>3, <3>1, <4>2
      <4> QED BY <1>2, <1>5, <4>2, <4>3
    <3>3. j + 1 = k
      BY <1>2, <3>2 DEF IsInjective
    <3>4. j = k - 1
      BY <1>2, <3>3
    <3> QED BY <3>1, <3>4
  <2>5. /\ mem' = [mem EXCEPT ![p].next = mem[a].next] /\ head' = head
        /\ free' = free \cup {a} /\ fate' = [fate EXCEPT ![mem[a].reading] = answer]
        /\ length' = Decrement(length)
    BY <2>3 DEF unlink_inner, FreeWith
  <2>6. p \in Cells /\ p # a
    <3>1. k - 1 # k
      BY <1>2
    <3> QED BY <1>2, <1>5, <2>1, <2>3, <2>4, <3>1 DEF IsInjective
  <2>7. /\ mem' \in [Cells -> [reading : Readings \cup {NULL}, next : Cells \cup {NULL}]]
        /\ \A c \in Cells : mem'[c].reading = mem[c].reading
        /\ \A c \in Cells : c # p => mem'[c].next = mem[c].next
        /\ mem'[p].next = mem[a].next
    BY <1>6, <2>5, <2>6
  <2>8. Chain(mem', head', RemoveAt(List, k))
    <3>1. mem'[List[k - 1]].next = mem[List[k]].next
      BY <1>5, <2>4, <2>7
    <3>2. \A d \in ToSet(List) : d # List[k - 1] => mem'[d].next = mem[d].next
      BY <1>2, <2>4, <2>7
    <3>3. Chain(mem', head, RemoveAt(List, k))
      <4> DEFINE s == List
      <4>1. Chain(mem, head, s) /\ k \in 2 .. Len(s) /\ mem'[s[k - 1]].next = mem[s[k]].next
        BY <1>3, <2>1, <3>1
      <4>2. \A d \in ToSet(s) : d # s[k - 1] => mem'[d].next = mem[d].next
        BY <3>2
      <4> HIDE DEF s
      <4>3. Chain(mem', head, RemoveAt(s, k))
        BY <4>1, <4>2, ChainRemoveInner
      <4> QED BY <4>3 DEF s
    <3> QED BY <2>5, <3>3
  <2>9. List' = RemoveAt(List, k) /\ HeapIsChain'
    BY <2>8, NewList
  <2>10. length' \in Counter
    BY <1>6, <2>5, CapAssumption DEF Decrement, Counter
  <2>11. mem'[a].next = mem[a].next
    BY <1>6, <2>6, <2>7
  <2> QED BY <1>5, <1>7, <2>5, <2>7, <2>9, <2>10, <2>11 DEF a
<1> QED BY <1>9, <1>10

LEMMA AnswerPreserves ==
  ASSUME OneThread, IInv, NEW t \in Threads, NEW answer \in Answers,
         Answer(t, answer)
  PROVE  IInv'
<1> DEFINE r == mem[temp[t]].reading
<1>1. /\ TypeOK /\ HeapIsChain /\ Ledger /\ NoLeakNoDoubleUse
      /\ temp[t] \in ToSet(List) /\ sent[t] = r /\ i[t] < MAX_SENDS_PER_PERIOD
      /\ temp[t] \in Cells /\ new[t] = NULL /\ r \in Readings
      /\ fate \in [Readings -> Fates]
  <2>1. TypeOK /\ HeapIsChain /\ Ledger /\ NoLeakNoDoubleUse /\ pc[t] = "wait"
    BY DEF Answer, IInv
  <2>2. /\ temp[t] \in ToSet(List) /\ sent[t] = r /\ i[t] < MAX_SENDS_PER_PERIOD
        /\ new[t] = NULL
    BY <2>1 DEF IInv, ThreadState
  <2> QED BY <2>1, <2>2, ListFacts DEF TypeOK, Ledger
<1>2. \A u \in Threads : u = t
  BY DEF OneThread
<1>3. /\ sent' = [sent EXCEPT ![t] = NULL] /\ pc' = [pc EXCEPT ![t] = "advance"]
      /\ pc'[t] = "advance" /\ new'[t] = NULL
      /\ temp' = temp /\ i' = i /\ last' = last /\ new' = new /\ stored' = stored
  BY <1>1 DEF Answer, TypeOK
<1>4. CASE answer = "failed"
  <2>1. UNCHANGED <<mem, free, head, length, new, fate>>
    BY <1>4 DEF Answer
  <2>2. List' = List /\ HeapIsChain' /\ NoLeakNoDoubleUse' /\ Ledger'
    BY <2>1, HeapUntouched
  <2>3. TypeOK'
    BY <1>1, <1>3, <2>1 DEF TypeOK
  <2>4. mem[temp[t]].next \in ToSet(List) \cup {NULL}
    <3>1. PICK k \in 1 .. Len(List) : List[k] = temp[t]
      BY <1>1, ListFacts DEF ToSet
    <3>2. mem[temp[t]].next = IF k < Len(List) THEN List[k + 1] ELSE NULL
      BY <1>1, <3>1 DEF HeapIsChain, Chain
    <3>3. k < Len(List) => List[k + 1] \in ToSet(List)
      BY <1>1, ListFacts DEF ToSet
    <3> QED BY <3>2, <3>3
  <2>5. ThreadState'
    BY <1>1, <1>2, <1>3, <2>1, <2>2, <2>4 DEF ThreadState
  <2> QED BY <2>2, <2>3, <2>5 DEF IInv
<1>5. CASE answer # "failed"
  <2>1. answer \in {"created", "duplicate"}
    BY <1>5 DEF Answers
  <2>2. /\ HeapIsChain'
        /\ \E k \in 1 .. Len(List) :
             /\ List[k] = temp[t]
             /\ List' = RemoveAt(List, k)
             /\ mem[temp[t]].next = IF k < Len(List) THEN List[k + 1] ELSE NULL
        /\ mem' \in [Cells -> [reading : Readings \cup {NULL}, next : Cells \cup {NULL}]]
        /\ \A c \in Cells : mem'[c].reading = mem[c].reading
        /\ mem'[temp[t]].next = mem[temp[t]].next
        /\ length' \in Counter
        /\ free' = free \cup {temp[t]}
        /\ fate' = [fate EXCEPT ![r] = answer]
    BY <2>1, SettleRemoves
  <2>3. PICK k \in 1 .. Len(List) :
          /\ List[k] = temp[t]
          /\ List' = RemoveAt(List, k)
          /\ mem[temp[t]].next = IF k < Len(List) THEN List[k + 1] ELSE NULL
    BY <2>2
  <2>4. /\ List \in Seq(Cells) /\ IsInjective(List) /\ ToSet(List) \subseteq Cells
        /\ Len(List) \in Nat /\ DOMAIN List = 1 .. Len(List)
    BY <1>1, ListFacts
  <2>5. ToSet(List') = ToSet(List) \ {temp[t]}
    BY <2>3, <2>4, RemoveAtSet
  <2>6. head' \in Cells \cup {NULL} /\ IsInjective(List')
    <3> DEFINE s == List'
    <3>1. Chain(mem', head', s)
      BY <2>2 DEF HeapIsChain
    <3> HIDE DEF s
    <3>2. IsInjective(s) /\ (s = <<>> => head' = NULL)
      BY <3>1, ChainFacts
    <3>3. s # <<>> => head' \in Cells
      BY <3>1, ChainFacts
    <3> QED BY <3>2, <3>3 DEF s
  <2>7. TypeOK'
    <3>1. fate' \in [Readings -> Fates]
      BY <1>1, <2>1, <2>2 DEF Fates
    <3>2. free' \subseteq Cells
      BY <1>1, <2>2 DEF TypeOK
    <3> QED BY <1>1, <1>3, <2>2, <2>6, <3>1, <3>2 DEF TypeOK
  <2>8. NoLeakNoDoubleUse'
    <3>1. Owned = {} /\ Owned' = {}
      BY <1>1, <1>2, <1>3 DEF Owned
    <3>2. free \cap ToSet(List) = {} /\ free \cup ToSet(List) = Cells
      BY <1>1, <3>1 DEF NoLeakNoDoubleUse
    <3>3. free' \cap ToSet(List') = {} /\ free' \cup ToSet(List') = Cells
      BY <1>1, <2>2, <2>5, <3>2
    <3> QED BY <2>6, <3>1, <3>3 DEF NoLeakNoDoubleUse
  <2>9. Ledger'
    <3>1. /\ \A a \in ToSet(List) : mem[a].reading \in Readings
          /\ \A a, b \in ToSet(List) : mem[a].reading = mem[b].reading => a = b
          /\ \A x \in Readings :
               fate[x] = "queued" <=> \E a \in ToSet(List) : mem[a].reading = x
      BY <1>1 DEF Ledger
    <3>2. \A a \in ToSet(List') :
            a \in ToSet(List) /\ a # temp[t] /\ mem'[a].reading = mem[a].reading
      BY <2>2, <2>4, <2>5
    <3>3. ASSUME NEW x \in Readings
          PROVE  fate'[x] = "queued" <=> \E a \in ToSet(List') : mem'[a].reading = x
      <4>1. CASE x = r
        <5>1. fate'[x] # "queued"
          BY <1>1, <2>1, <2>2, <4>1
        <5> QED BY <1>1, <3>1, <3>2, <4>1, <5>1
      <4>2. CASE x # r
        <5>1. fate'[x] = fate[x]
          BY <1>1, <2>2, <4>2
        <5>2. ASSUME NEW a \in ToSet(List), mem[a].reading = x
              PROVE  a \in ToSet(List') /\ mem'[a].reading = x
          BY <2>2, <2>4, <2>5, <4>2, <5>2
        <5> QED BY <3>1, <3>2, <5>1, <5>2
      <4> QED BY <4>1, <4>2
    <3>4. /\ \A a \in ToSet(List') : mem'[a].reading \in Readings
          /\ \A a, b \in ToSet(List') : mem'[a].reading = mem'[b].reading => a = b
      BY <3>1, <3>2
    <3> QED BY <3>3, <3>4 DEF Ledger
  <2>10. ThreadState'
    <3>1. mem[temp[t]].next \in ToSet(List') \cup {NULL}
      <4>1. k < Len(List) => List[k + 1] \in ToSet(List) /\ List[k + 1] # temp[t]
        <5> SUFFICES ASSUME k < Len(List)
                     PROVE  List[k + 1] \in ToSet(List) /\ List[k + 1] # temp[t]
          OBVIOUS
        <5>1. k + 1 \in DOMAIN List /\ k \in DOMAIN List /\ k + 1 # k
          BY <2>4
        <5> QED BY <2>3, <5>1, <2>4 DEF ToSet, IsInjective
      <4> QED BY <2>3, <2>5, <4>1
    <3> QED BY <1>1, <1>2, <1>3, <2>2, <3>1 DEF ThreadState
  <2> QED BY <2>2, <2>7, <2>8, <2>9, <2>10 DEF IInv
<1> QED BY <1>4, <1>5

-----------------------------------------------------------------------------
LEMMA NextPreserves == ASSUME OneThread PROVE IInv /\ [Next]_vars => IInv'
<1> SUFFICES ASSUME IInv, [Next]_vars PROVE IInv'
  OBVIOUS
<1>1. ASSUME NEW t \in Threads, NEW r \in Readings, NEW a \in Cells, Allocate(t, r, a)
      PROVE  IInv'
  BY <1>1, AllocatePreserves
<1>2. ASSUME NEW t \in Threads, AllocationFails(t)
      PROVE  IInv'
  BY <1>2, AllocationFailsPreserves
<1>3. ASSUME NEW t \in Threads, Link(t)
      PROVE  IInv'
  BY <1>3, LinkPreserves
<1>4. ASSUME NEW t \in Threads, Leave(t) \/ Post(t) \/ Store(t) \/ Advance(t)
      PROVE  IInv'
  BY <1>4, LoopPreserves
<1>5. ASSUME NEW t \in Threads, NEW answer \in Answers, Answer(t, answer)
      PROVE  IInv'
  BY <1>5, AnswerPreserves
<1>6. CASE Reset
  BY <1>6, ResetPreserves
<1>7. CASE UNCHANGED vars
  <2>1. UNCHANGED <<mem, free, head, length, pc, temp, i, last, new, sent, stored, fate>>
    BY <1>7 DEF vars
  <2>2. HeapIsChain' /\ NoLeakNoDoubleUse' /\ Ledger' /\ List' = List /\ FoundTail' = FoundTail
    BY <2>1, HeapUntouched
  <2>3. TypeOK'
    BY <2>1 DEF TypeOK, IInv
  <2>4. ThreadState'
    BY <2>1, <2>2 DEF ThreadState, AboutToLink, IInv
  <2> QED BY <2>2, <2>3, <2>4 DEF IInv
<1> QED BY <1>1, <1>2, <1>3, <1>4, <1>5, <1>6, <1>7 DEF Next

LEMMA Invariance == ASSUME OneThread PROVE Spec => []IInv
BY InitEstablishes, NextPreserves, PTL DEF Spec

(***************************************************************************)
(* With one thread every pointer of util.c and util.h is a cell or NULL,   *)
(* and the counters of list and loop keep their bounds.                    *)
(***************************************************************************)
THEOREM TypeCorrect == ASSUME OneThread PROVE Spec => []TypeOK
<1>1. IInv => TypeOK
  BY DEF IInv
<1> QED BY <1>1, Invariance, PTL

(***************************************************************************)
(* With one thread reading_add and reading_remove neither leak a node nor  *)
(* link or free one twice.                                                 *)
(***************************************************************************)
THEOREM HeapIsSound == ASSUME OneThread PROVE Spec => []NoLeakNoDoubleUse
<1>1. IInv => NoLeakNoDoubleUse
  BY DEF IInv
<1> QED BY <1>1, Invariance, PTL

(***************************************************************************)
(* With one thread the read of temp->next after free(temp) (util.c:249)    *)
(* yields the node that follows in the list.                               *)
(***************************************************************************)
THEOREM FreedCursorIsSound == ASSUME OneThread PROVE Spec => []FreedNextIsLinked
<1>1. IInv => FreedNextIsLinked
  BY DEF IInv, ThreadState, FreedNextIsLinked
<1> QED BY <1>1, Invariance, PTL

(***************************************************************************)
(* With one thread a reading nobody answered for or evicted is linked.     *)
(***************************************************************************)
THEOREM NoReadingUnlinked == ASSUME OneThread PROVE Spec => []QueuedIsLinked
<1>1. IInv => QueuedIsLinked
  BY DEF IInv, Ledger, QueuedIsLinked
<1> QED BY <1>1, Invariance, PTL

(***************************************************************************)
(* With one thread a reading is dropped on a 201 or 406 only if the server *)
(* holds it: the node freed is the one the request was made of.            *)
(***************************************************************************)
THEOREM DropsOnlyWhatIsStored == ASSUME OneThread PROVE Spec => SettledIsStored
<1> DEFINE A == \A r \in Readings :
                  fate[r] = "queued" /\ fate'[r] \in {"created", "duplicate"}
                    => r \in stored'
<1>1. IInv /\ [Next]_vars => [A]_vars
  <2> SUFFICES ASSUME IInv, Next, NEW r \in Readings,
                      fate[r] = "queued", fate'[r] \in {"created", "duplicate"}
               PROVE  r \in stored'
    BY Zenon
  <2>1. fate \in [Readings -> Fates]
    BY DEF IInv, TypeOK
  <2>2. ASSUME NEW t \in Threads, NEW answer \in Answers, Answer(t, answer)
        PROVE  r \in stored'
    <3>1. answer \in {"created", "duplicate"}
      BY <2>2 DEF Answer, Answers
    <3>2. fate' = [fate EXCEPT ![mem[temp[t]].reading] = answer]
      BY <2>2, <3>1, SettleRemoves
    <3>3. r = mem[temp[t]].reading
      BY <2>1, <3>2
    <3>4. pc[t] = "wait" /\ sent[t] \in stored /\ stored' = stored
      BY <2>2, <3>1 DEF Answer
    <3>5. sent[t] = r
      BY <3>3, <3>4 DEF IInv, ThreadState
    <3> QED BY <3>4, <3>5
  <2>3. ASSUME NEW t \in Threads, Link(t)
        PROVE  FALSE
    <3>1. fate' = IF Evicts(t)
                  THEN [fate EXCEPT ![mem[new[t]].reading] = "queued",
                                    ![mem[head].reading] = "evicted"]
                  ELSE [fate EXCEPT ![mem[new[t]].reading] = "queued"]
      BY <2>3, LinkAppends
    <3> QED BY <2>1, <3>1
  <2>4. CASE Reset
    BY <2>4 DEF Reset
  <2>5. ASSUME NEW t \in Threads,
               \/ \E x \in Readings, a \in Cells : Allocate(t, x, a)
               \/ AllocationFails(t) \/ Leave(t) \/ Post(t) \/ Store(t) \/ Advance(t)
        PROVE  FALSE
    BY <2>5 DEF Allocate, AllocationFails, Leave, Post, Store, Advance
  <2> QED BY <2>2, <2>3, <2>4, <2>5 DEF Next
<1> QED BY <1>1, Invariance, PTL DEF Spec, SettledIsStored

-----------------------------------------------------------------------------
(***************************************************************************)
(* The readings of the list, as the queue of Outbox, and the steps of the  *)
(* thread, as steps of Outbox.                                             *)
(***************************************************************************)
LEMMA QueueFacts ==
  ASSUME NEW m, NEW a, NEW s, Chain(m, a, s),
         \A c \in ToSet(s) : m[c].reading \in Readings
  PROVE  LET q == [k \in DOMAIN s |-> m[s[k]].reading]
         IN  /\ q \in Seq(Readings) /\ Len(q) = Len(s)
             /\ DOMAIN q = 1 .. Len(s)
             /\ \A k \in 1 .. Len(s) : q[k] = m[s[k]].reading
<1>1. Len(s) \in Nat /\ DOMAIN s = 1 .. Len(s)
  BY ChainFacts
<1>2. \A k \in 1 .. Len(s) : s[k] \in ToSet(s)
  BY <1>1 DEF ToSet
<1>3. \A k \in 1 .. Len(s) : m[s[k]].reading \in Readings
  BY <1>2
<1> QED BY <1>1, <1>3

LEMMA SameQueue ==
  ASSUME HeapIsChain, List' = List,
         \A c \in ToSet(List) : mem'[c].reading = mem[c].reading
  PROVE  Queue' = Queue
<1>1. \A k \in DOMAIN List : mem'[List[k]].reading = mem[List[k]].reading
  BY DEF ToSet
<1> QED BY <1>1 DEF Queue

LEMMA InitIsOutboxInit == Init => O!Init
<1> SUFFICES ASSUME Init PROVE O!Init
  OBVIOUS
<1>1. Chain(mem, head, <<>>)
  BY DEF Init, Chain, IsInjective
<1>2. List = <<>>
  BY <1>1, LinkedIsChain DEF List
<1>3. Queue = <<>>
  BY <1>2 DEF Queue
<1> QED BY <1>3 DEF Init, O!Init

LEMMA LinkTakes ==
  ASSUME IInv, IInv', NEW t \in Threads, Link(t)
  PROVE  \E r \in Readings : O!Take(r) \/ O!TakeAndEvict(r)
<1> DEFINE r == mem[new[t]].reading
<1>1. /\ new[t] \in Cells /\ r \in Readings /\ fate[r] # "queued"
      /\ mem \in [Cells -> [reading : Readings \cup {NULL}, next : Cells \cup {NULL}]]
  BY DEF Link, IInv, ThreadState, AboutToLink, TypeOK
<1>2. /\ Evicts(t) => List # <<>>
      /\ List' = IF Evicts(t) THEN Append(Tail(List), new[t])
                 ELSE Append(List, new[t])
      /\ \A c \in Cells : mem'[c].reading = mem[c].reading
      /\ fate' = IF Evicts(t)
                 THEN [fate EXCEPT ![r] = "queued", ![mem[head].reading] = "evicted"]
                 ELSE [fate EXCEPT ![r] = "queued"]
  BY LinkAppends
<1>3. /\ List \in Seq(Cells) /\ Len(List) \in Nat
      /\ List # <<>> => head = List[1]
  BY ListFacts DEF IInv
<1>4. /\ Queue \in Seq(Readings) /\ Len(Queue) = Len(List)
      /\ \A k \in 1 .. Len(List) : Queue[k] = mem[List[k]].reading
  BY QueueFacts DEF IInv, HeapIsChain, Ledger, Queue
<1>5. /\ Queue' \in Seq(Readings) /\ Len(Queue') = Len(List')
      /\ \A k \in 1 .. Len(List') : Queue'[k] = mem'[List'[k]].reading
  <2>1. /\ HeapIsChain' /\ Ledger'
    BY DEF IInv
  <2> QED BY <2>1, QueueFacts DEF HeapIsChain, Ledger, Queue
<1> DEFINE q == Queue
           p == Queue'
           l == List'
<1>6. CASE ~Evicts(t)
  <2> DEFINE x == Append(q, r)
  <2>1. /\ Len(l) = Len(List) + 1 /\ l[Len(List) + 1] = new[t]
        /\ \A k \in 1 .. Len(List) : l[k] = List[k]
    BY <1>1, <1>2, <1>3, <1>6
  <2>2. /\ x \in Seq(Readings) /\ Len(x) = Len(List) + 1 /\ x[Len(List) + 1] = r
        /\ \A k \in 1 .. Len(List) : x[k] = mem[List[k]].reading
    BY <1>1, <1>4
  <2> HIDE DEF x
  <2>3. p = x
    <3>1. ASSUME NEW k \in 1 .. Len(List) + 1
          PROVE  p[k] = x[k]
      <4>1. p[k] = mem'[l[k]].reading
        BY <1>5, <2>1
      <4>2. CASE k = Len(List) + 1
        BY <1>1, <1>2, <2>1, <2>2, <4>1, <4>2
      <4>3. CASE k # Len(List) + 1
        <5>1. k \in 1 .. Len(List) /\ List[k] \in Cells
          BY <1>3, <4>3
        <5> QED BY <1>2, <2>1, <2>2, <4>1, <5>1
      <4> QED BY <4>2, <4>3
    <3>2. p \in Seq(Readings) /\ Len(p) = Len(List) + 1
      BY <1>5, <2>1
    <3> HIDE DEF p
    <3> QED BY <2>2, <3>1, <3>2, SeqEqual
  <2>4. O!Take(r)
    BY <1>1, <1>2, <1>6, <2>3 DEF O!Take, x
  <2> QED BY <1>1, <2>4
<1>7. CASE Evicts(t)
  <2> DEFINE y == Tail(q)
             x == Append(y, r)
  <2>1. Len(List) \in Nat \ {0} /\ List # <<>> /\ q # <<>> /\ Len(q) \in Nat \ {0}
    BY <1>2, <1>3, <1>4, <1>7
  <2>2. /\ Len(l) = Len(List) /\ l[Len(List)] = new[t]
        /\ \A k \in 1 .. Len(List) - 1 : l[k] = List[k + 1]
    <3> DEFINE s == Tail(List)
    <3>1. /\ s \in Seq(Cells) /\ Len(s) = Len(List) - 1
          /\ \A k \in 1 .. Len(List) - 1 : s[k] = List[k + 1]
      BY <1>3, <2>1
    <3>2. l = Append(s, new[t])
      BY <1>2, <1>7
    <3> HIDE DEF s, l
    <3> QED BY <1>1, <2>1, <3>1, <3>2
  <2>3. /\ x \in Seq(Readings) /\ Len(x) = Len(List) /\ x[Len(List)] = r
        /\ \A k \in 1 .. Len(List) - 1 : x[k] = mem[List[k + 1]].reading
    <3>1. /\ y \in Seq(Readings) /\ Len(y) = Len(List) - 1
          /\ \A k \in 1 .. Len(List) - 1 : y[k] = Queue[k + 1]
      BY <1>4, <2>1
    <3>2. \A k \in 1 .. Len(List) - 1 : y[k] = mem[List[k + 1]].reading
      <4> SUFFICES ASSUME NEW k \in 1 .. Len(List) - 1
                   PROVE  y[k] = mem[List[k + 1]].reading
        OBVIOUS
      <4>1. k + 1 \in 1 .. Len(List)
        BY <2>1
      <4> QED BY <1>4, <3>1, <4>1
    <3> HIDE DEF y
    <3> QED BY <1>1, <2>1, <3>1, <3>2
  <2> HIDE DEF x
  <2>4. p = x
    <3>1. ASSUME NEW k \in 1 .. Len(List)
          PROVE  p[k] = x[k]
      <4>1. p[k] = mem'[l[k]].reading
        BY <1>5, <2>2
      <4>2. CASE k = Len(List)
        BY <1>1, <1>2, <2>2, <2>3, <4>1, <4>2
      <4>3. CASE k # Len(List)
        <5>1. k \in 1 .. Len(List) - 1 /\ k + 1 \in 1 .. Len(List)
          BY <2>1, <4>3
        <5>2. List[k + 1] \in Cells
          BY <1>3, <5>1
        <5> QED BY <1>2, <2>2, <2>3, <4>1, <5>1, <5>2
      <4> QED BY <4>2, <4>3
    <3>2. p \in Seq(Readings) /\ Len(p) = Len(List)
      BY <1>5, <2>2
    <3> HIDE DEF p
    <3> QED BY <2>3, <3>1, <3>2, SeqEqual
  <2>5. Head(q) = mem[head].reading
    BY <1>3, <1>4, <2>1
  <2>6. O!TakeAndEvict(r)
    BY <1>1, <1>2, <1>7, <2>1, <2>4, <2>5 DEF O!TakeAndEvict, x
  <2> QED BY <1>1, <2>6
<1> QED BY <1>6, <1>7

LEMMA AnswerSettles ==
  ASSUME IInv, IInv', NEW t \in Threads, NEW answer \in {"created", "duplicate"},
         Answer(t, answer)
  PROVE  \E k \in DOMAIN Queue : O!Settle(k)
<1>1. /\ \A c \in Cells : mem'[c].reading = mem[c].reading
      /\ fate' = [fate EXCEPT ![mem[temp[t]].reading] = answer]
      /\ \E k \in 1 .. Len(List) : List[k] = temp[t] /\ List' = RemoveAt(List, k)
  BY SettleRemoves
<1>2. PICK k \in 1 .. Len(List) : List[k] = temp[t] /\ List' = RemoveAt(List, k)
  BY <1>1
<1>3. List \in Seq(Cells) /\ Len(List) \in Nat
  BY ListFacts DEF IInv
<1>4. /\ Queue \in Seq(Readings) /\ Len(Queue) = Len(List) /\ DOMAIN Queue = 1 .. Len(List)
      /\ \A j \in 1 .. Len(List) : Queue[j] = mem[List[j]].reading
  BY QueueFacts DEF IInv, HeapIsChain, Ledger, Queue
<1>5. /\ Queue' \in Seq(Readings) /\ Len(Queue') = Len(List')
      /\ \A j \in 1 .. Len(List') : Queue'[j] = mem'[List'[j]].reading
  <2>1. HeapIsChain' /\ Ledger'
    BY DEF IInv
  <2> QED BY <2>1, QueueFacts DEF HeapIsChain, Ledger, Queue
<1> DEFINE q == Queue
           p == Queue'
           l == List'
           x == RemoveAt(q, k)
<1>6. /\ Len(l) = Len(List) - 1
      /\ \A j \in 1 .. Len(List) - 1 : l[j] = IF j < k THEN List[j] ELSE List[j + 1]
  BY <1>2, <1>3, RemoveAtFacts
<1>7. /\ x \in Seq(Readings) /\ Len(x) = Len(List) - 1
      /\ \A j \in 1 .. Len(List) - 1 : x[j] = IF j < k THEN q[j] ELSE q[j + 1]
  <2>1. q \in Seq(Readings) /\ Len(q) = Len(List) /\ k \in 1 .. Len(q)
    BY <1>4
  <2> HIDE DEF q
  <2> QED BY <2>1, RemoveAtFacts
<1> HIDE DEF x
<1>8. p = x
  <2>1. ASSUME NEW j \in 1 .. Len(List) - 1
        PROVE  p[j] = x[j]
    <3>1. j \in 1 .. Len(List) /\ j + 1 \in 1 .. Len(List)
      BY <1>3
    <3>2. List[j] \in Cells /\ List[j + 1] \in Cells
      BY <1>3, <3>1
    <3>3. p[j] = mem'[l[j]].reading
      BY <1>5, <1>6
    <3>4. CASE j < k
      <4>1. l[j] = List[j] /\ x[j] = q[j]
        BY <1>6, <1>7, <3>4
      <4> QED BY <1>1, <1>4, <3>1, <3>2, <3>3, <4>1
    <3>5. CASE ~(j < k)
      <4>1. l[j] = List[j + 1] /\ x[j] = q[j + 1]
        BY <1>6, <1>7, <3>5
      <4> QED BY <1>1, <1>4, <3>1, <3>2, <3>3, <4>1
    <3> QED BY <3>4, <3>5
  <2>2. p \in Seq(Readings) /\ Len(p) = Len(List) - 1
    BY <1>5, <1>6
  <2> HIDE DEF p
  <2> QED BY <1>7, <2>1, <2>2, SeqEqual
<1>9. q[k] = mem[temp[t]].reading
  BY <1>2, <1>4
<1>10. \E z \in {"created", "duplicate"} : fate' = [fate EXCEPT ![q[k]] = z]
  BY <1>1, <1>9, Zenon
<1>11. O!Settle(k)
  BY <1>8, <1>10 DEF O!Settle, O!RemoveAt, RemoveAt, x
<1> QED BY <1>4, <1>11

LEMMA NextIsOutboxNext == IInv /\ IInv' /\ [Next]_vars => [O!Next]_(O!ovars)
<1> SUFFICES ASSUME IInv, IInv', [Next]_vars PROVE O!Next \/ UNCHANGED <<Queue, fate>>
  BY DEF O!ovars
<1>1. ASSUME NEW t \in Threads, NEW r \in Readings, NEW a \in Cells, Allocate(t, r, a)
      PROVE  UNCHANGED <<Queue, fate>>
  <2>1. List' = List /\ \A c \in ToSet(List) : mem'[c] = mem[c]
    BY <1>1, AllocateKeepsList
  <2>2. Queue' = Queue
    BY <2>1, SameQueue DEF IInv
  <2> QED BY <1>1, <2>2 DEF Allocate
<1>2. ASSUME UNCHANGED <<mem, free, head, new, fate>>
      PROVE  UNCHANGED <<Queue, fate>>
  <2>1. List' = List
    BY <1>2, HeapUntouched
  <2> QED BY <1>2, <2>1 DEF Queue
<1>3. ASSUME NEW t \in Threads,
             AllocationFails(t) \/ Leave(t) \/ Post(t) \/ Store(t) \/ Advance(t)
      PROVE  UNCHANGED <<Queue, fate>>
  <2>1. UNCHANGED <<mem, free, head, new, fate>>
    BY <1>3 DEF AllocationFails, Leave, Post, Store, Advance
  <2> QED BY <1>2, <2>1
<1>4. ASSUME NEW t \in Threads, Link(t)
      PROVE  O!Next
  BY <1>4, LinkTakes DEF O!Next
<1>5. ASSUME NEW t \in Threads, NEW answer \in Answers, Answer(t, answer)
      PROVE  O!Next \/ UNCHANGED <<Queue, fate>>
  <2>1. CASE answer = "failed"
    <3>1. UNCHANGED <<mem, free, head, new, fate>>
      BY <1>5, <2>1 DEF Answer
    <3> QED BY <1>2, <3>1
  <2>2. CASE answer # "failed"
    <3>1. answer \in {"created", "duplicate"}
      BY <2>2 DEF Answers
    <3> QED BY <1>5, <3>1, AnswerSettles DEF O!Next
  <2> QED BY <2>1, <2>2
<1>6. CASE Reset
  <2>1. List' = <<>>
    BY <1>6, ResetPreserves
  <2>2. Queue' = <<>>
    BY <2>1 DEF Queue
  <2>3. O!LoseMemory
    BY <1>6, <2>2 DEF Reset, O!LoseMemory
  <2> QED BY <2>3 DEF O!Next
<1>7. CASE UNCHANGED vars
  <2>1. UNCHANGED <<mem, free, head, new, fate>>
    BY <1>7 DEF vars
  <2> QED BY <1>2, <2>1
<1> QED BY <1>1, <1>3, <1>4, <1>5, <1>6, <1>7 DEF Next

(***************************************************************************)
(* With one thread the linked cells, their reuse by malloc, the 16-bit     *)
(* counter and the cursor on freed memory implement the abstract outbox.   *)
(***************************************************************************)
THEOREM HeapIsOutbox == ASSUME OneThread PROVE Spec => ImplementsOutbox
BY InitIsOutboxInit, NextIsOutboxNext, Invariance, PTL
   DEF Spec, ImplementsOutbox, O!Spec

-----------------------------------------------------------------------------
(***************************************************************************)
(* Both threads, cutting into each other anywhere.  A pointer is known if  *)
(* it is the address of a filled node, NULL, or what is read behind NULL.  *)
(* That the next of every filled node is known is kept because a node is   *)
(* filled before it is linked, and freeing does not unfill it.             *)
(***************************************************************************)
Addresses == Cells \cup {NULL, FLASH}
Known == Filled \cup {NULL, FLASH}
Heaps == [Cells -> [reading : Readings \cup {NULL}, next : Addresses]]
Calls == [node : Addresses, head : Addresses, temp : Addresses,
          why : Answers \cup {"none", "evicted"}]

Removing == {"remove", "unlink", "behead", "release", "search", "fetch", "free", "relink"}
Labels == Removing \cup {"idle", "fill", "test", "first", "walk", "link", "count", "begin",
                         "loop", "wait", "advance", "halted"}

RaceTypes ==
  /\ mem \in Heaps
  /\ pc \in [Threads -> Labels]
  /\ temp \in [Threads -> Addresses]
  /\ last \in [Threads -> Addresses]
  /\ new \in [Threads -> Addresses]
  /\ sent \in [Threads -> Readings \cup {NULL}]
  /\ call \in [Threads -> Calls]

Pointers(t) ==
  /\ {temp[t], last[t], call[t].node, call[t].head, call[t].temp} \subseteq Known
  /\ pc[t] = "fill" => new[t] \in Cells
  /\ pc[t] \in {"test", "first", "walk", "link"} => new[t] \in Filled
  /\ pc[t] = "link" => last[t] \in Filled
  /\ pc[t] \in {"wait", "advance"} => temp[t] \in Filled
  /\ pc[t] \in Removing /\ call[t].why # "evicted" => temp[t] \in Filled
  /\ pc[t] = "wait" => sent[t] \in Readings
  /\ pc[t] = "unlink" => call[t].head # NULL
  /\ pc[t] = "fetch" =>
       call[t].head \in Filled \/ (call[t].head = NULL /\ call[t].node = FLASH)
  /\ pc[t] \in {"free", "relink"} => call[t].head \in Filled

RaceInv ==
  /\ RaceTypes
  /\ head \in Known
  /\ \A c \in Filled : mem[c].next \in Known
  /\ \A t \in Threads : Pointers(t)

\* The step is one of thread t.
OnlyOf(t) ==
  \A u \in Threads \ {t} :
    /\ pc'[u] = pc[u] /\ temp'[u] = temp[u] /\ last'[u] = last[u]
    /\ new'[u] = new[u] /\ sent'[u] = sent[u] /\ call'[u] = call[u]

LEMMA OthersKeep ==
  ASSUME RaceInv, NEW t \in Threads, OnlyOf(t), RaceTypes',
         Filled \subseteq Filled', head' \in Known',
         \A c \in Filled' : mem'[c].next \in Known', Pointers(t)'
  PROVE  RaceInv'
<1>1. ASSUME NEW u \in Threads, u # t PROVE Pointers(u)'
  <2>1. /\ pc'[u] = pc[u] /\ temp'[u] = temp[u] /\ last'[u] = last[u]
        /\ new'[u] = new[u] /\ sent'[u] = sent[u] /\ call'[u] = call[u]
    BY <1>1 DEF OnlyOf
  <2>2. Pointers(u)
    BY DEF RaceInv
  <2>3. Known \subseteq Known'
    BY DEF Known
  <2> QED BY <2>1, <2>2, <2>3 DEF Pointers
<1> QED BY <1>1 DEF RaceInv

LEMMA SameFilled == UNCHANGED mem => Filled' = Filled /\ Known' = Known
BY DEF Filled, Known

LEMMA LocalStep ==
  ASSUME RaceInv, NEW t \in Threads, OnlyOf(t), RaceTypes', UNCHANGED <<mem, head>>,
         Pointers(t)'
  PROVE  RaceInv'
BY SameFilled, OthersKeep DEF RaceInv

\* What next pointers give.
LEMMA NextIsKnown ==
  ASSUME RaceInv, NEW a \in Filled \cup {NULL}
  PROVE  NextOf(a) \in Known /\ NextOf(a) \in Addresses
BY DEF RaceInv, NextOf, Known, Addresses, Filled

LEMMA WriteNext ==
  ASSUME RaceInv, NEW p \in Filled, NEW a \in Known,
         mem' = [mem EXCEPT ![p].next = a]
  PROVE  /\ mem' \in Heaps /\ Filled' = Filled /\ Known' = Known
         /\ \A c \in Filled : mem'[c].next \in Known
<1>1. p \in Cells /\ a \in Addresses /\ mem \in Heaps
  BY DEF Filled, Known, Addresses, RaceInv, RaceTypes
<1>2. mem' \in Heaps
  BY <1>1 DEF Heaps
<1>3. \A c \in Cells : mem'[c].reading = mem[c].reading
  BY <1>1 DEF Heaps
<1>4. \A c \in Cells : mem'[c].next = IF c = p THEN a ELSE mem[c].next
  BY <1>1 DEF Heaps
<1>5. Filled' = Filled /\ Known' = Known
  BY <1>3 DEF Filled, Known
<1> QED BY <1>2, <1>4, <1>5 DEF RaceInv, Filled

LEMMA RaceInvInit == RaceInit => RaceInv
<1> SUFFICES ASSUME RaceInit PROVE RaceInv
  OBVIOUS
<1>1. Filled = {}
  BY DEF RaceInit, Init, Filled
<1>2. RaceTypes
  <2>1. NULL \in Addresses /\ NoCall \in Calls
    BY DEF Addresses, Calls, NoCall
  <2>2. call \in [Threads -> Calls]
    BY <2>1 DEF RaceInit
  <2>3. mem \in Heaps
    BY <2>1 DEF RaceInit, Init, Heaps
  <2>4. pc \in [Threads -> Labels] /\ sent \in [Threads -> Readings \cup {NULL}]
    BY DEF RaceInit, Init, Labels
  <2>5. /\ temp \in [Threads -> Addresses] /\ last \in [Threads -> Addresses]
        /\ new \in [Threads -> Addresses]
    BY <2>1 DEF RaceInit, Init
  <2> QED BY <2>2, <2>3, <2>4, <2>5 DEF RaceTypes
<1> QED BY <1>1, <1>2 DEF RaceInit, Init, RaceInv, Pointers, Known, NoCall, Removing

-----------------------------------------------------------------------------
(* One lemma per routine, one step per action. *)

LEMMA AddKeepsPointers ==
  ASSUME RaceAssumption, RaceInv, NEW t \in Threads,
         \/ \E a \in Cells : StartAdd(t, a)
         \/ \E r \in Readings : Fill(t, r)
         \/ TestHead(t) \/ BecomeHead(t) \/ Walk(t) \/ LinkBehind(t) \/ Count(t)
  PROVE  RaceInv'
<1>1. Pointers(t) /\ RaceTypes /\ head \in Known /\ Known \subseteq Addresses
  BY DEF RaceInv, Known, Addresses, Filled
<1>2. ASSUME NEW a \in Cells, StartAdd(t, a) PROVE RaceInv'
  <2>1. RaceTypes'
    BY <1>1, <1>2 DEF StartAdd, Goto, RaceTypes, Addresses, Labels
  <2>2. OnlyOf(t)
    BY <1>1, <1>2 DEF StartAdd, Goto, RaceTypes, OnlyOf
  <2>3. /\ pc'[t] = "fill" /\ new'[t] = a /\ last'[t] = head
        /\ UNCHANGED <<mem, head, temp, sent, call>>
    BY <1>1, <1>2 DEF StartAdd, Goto, RaceTypes
  <2>4. Pointers(t)'
    BY <1>1, <2>3, SameFilled DEF Pointers, Removing
  <2> QED BY <2>1, <2>2, <2>3, <2>4, LocalStep
<1>3. ASSUME NEW r \in Readings, Fill(t, r) PROVE RaceInv'
  <2> DEFINE a == new[t]
  <2>1. a \in Cells /\ mem' = [mem EXCEPT ![a] = [reading |-> r, next |-> NULL]]
    BY <1>1, <1>3 DEF Fill, Pointers
  <2>2. /\ mem' \in Heaps
        /\ \A c \in Cells : mem'[c] = IF c = a THEN [reading |-> r, next |-> NULL]
                                     ELSE mem[c]
    BY <1>1, <2>1 DEF RaceTypes, Heaps, Addresses
  <2>3. Filled' = Filled \cup {a}
    BY <2>1, <2>2, HeapAssumption DEF Filled
  <2>4. \A c \in Filled' : mem'[c].next \in Known'
    BY <2>2, <2>3 DEF Filled, Known, RaceInv
  <2>5. RaceTypes'
    BY <1>1, <1>3, <2>2 DEF Fill, Goto, RaceTypes, Labels
  <2>6. OnlyOf(t)
    BY <1>1, <1>3 DEF Fill, Goto, RaceTypes, OnlyOf
  <2>7. Pointers(t)'
    <3>1. /\ pc'[t] = "test" /\ pc[t] = "fill"
          /\ UNCHANGED <<head, temp, last, new, sent, call>>
      BY <1>1, <1>3 DEF Fill, Goto, RaceTypes
    <3>2. Known \subseteq Known'
      BY <2>3 DEF Known
    <3> QED BY <1>1, <2>3, <3>1, <3>2 DEF Pointers, Removing
  <2>8. head' \in Known'
    BY <1>1, <1>3, <2>3 DEF Fill, Known
  <2> QED BY <2>3, <2>4, <2>5, <2>6, <2>7, <2>8, OthersKeep
<1>4. CASE TestHead(t)
  <2>1. PICK l \in {"first", "walk"} : pc' = [pc EXCEPT ![t] = l]
    BY <1>4 DEF TestHead, Goto
  <2>2. RaceTypes' /\ OnlyOf(t)
    BY <1>1, <1>4, <2>1 DEF TestHead, RaceTypes, OnlyOf, Labels
  <2>3. /\ pc'[t] = l /\ pc[t] = "test"
        /\ UNCHANGED <<mem, head, temp, last, new, sent, call>>
    BY <1>1, <1>4, <2>1 DEF TestHead, RaceTypes
  <2>4. Pointers(t)'
    BY <1>1, <2>3, SameFilled DEF Pointers, Removing
  <2> QED BY <2>2, <2>3, <2>4, LocalStep
<1>5. CASE BecomeHead(t)
  <2>1. /\ head' = new[t] /\ new[t] \in Filled /\ pc' = [pc EXCEPT ![t] = "begin"]
        /\ UNCHANGED <<mem, temp, last, new, sent, call>>
    BY <1>1, <1>5 DEF BecomeHead, LinkFirst, Goto, Pointers
  <2>2. Filled' = Filled /\ Known' = Known
    BY <2>1 DEF Filled, Known
  <2>3. RaceTypes' /\ OnlyOf(t)
    BY <1>1, <2>1 DEF RaceTypes, OnlyOf, Labels
  <2>4. Pointers(t)'
    BY <1>1, <2>1, <2>2 DEF RaceTypes, Pointers, Removing
  <2> QED BY <2>1, <2>2, <2>3, <2>4, OthersKeep DEF RaceInv, Known
<1>6. CASE Walk(t)
  <2>1. last[t] \in Filled \cup {NULL} /\ pc[t] = "walk"
    BY <1>1, <1>6 DEF Walk, Pointers, Known
  <2>2. NextOf(last[t]) \in Known /\ NextOf(last[t]) \in Addresses
    BY <2>1, NextIsKnown
  <2>3. CASE NextOf(last[t]) = NULL
    <3>1. last[t] \in Filled
      BY <2>1, <2>3 DEF NextOf, RaceAssumption
    <3>2. pc' = [pc EXCEPT ![t] = "link"] /\ UNCHANGED <<mem, head, temp, last, new, sent, call>>
      BY <1>6, <2>3 DEF Walk, Goto
    <3>3. RaceTypes' /\ OnlyOf(t)
      BY <1>1, <3>2 DEF RaceTypes, OnlyOf, Labels
    <3>4. pc'[t] = "link"
      BY <1>1, <3>2 DEF RaceTypes
    <3>5. Pointers(t)'
      BY <1>1, <2>1, <3>1, <3>2, <3>4, SameFilled DEF Pointers, Removing
    <3> QED BY <3>2, <3>3, <3>5, LocalStep
  <2>4. CASE NextOf(last[t]) # NULL
    <3>1. /\ last' = [last EXCEPT ![t] = NextOf(last[t])]
          /\ UNCHANGED <<mem, head, pc, temp, new, sent, call>>
      BY <1>6, <2>4 DEF Walk
    <3>2. RaceTypes' /\ OnlyOf(t)
      BY <1>1, <2>2, <3>1 DEF RaceTypes, OnlyOf, Labels
    <3>3. last'[t] = NextOf(last[t])
      BY <1>1, <3>1 DEF RaceTypes
    <3>4. Pointers(t)'
      BY <1>1, <2>1, <2>2, <3>1, <3>3, SameFilled DEF Pointers, Removing
    <3> QED BY <3>1, <3>2, <3>4, LocalStep
  <2> QED BY <2>3, <2>4
<1>7. CASE LinkBehind(t)
  <2>1. /\ last[t] \in Filled /\ new[t] \in Known
        /\ mem' = [mem EXCEPT ![last[t]].next = new[t]]
        /\ pc' = [pc EXCEPT ![t] = "count"]
        /\ UNCHANGED <<head, temp, last, new, sent, call>>
    BY <1>1, <1>7 DEF LinkBehind, Goto, Pointers, Known
  <2>2. /\ mem' \in Heaps /\ Filled' = Filled /\ Known' = Known
        /\ \A c \in Filled : mem'[c].next \in Known
    BY <2>1, WriteNext
  <2>3. RaceTypes' /\ OnlyOf(t)
    BY <1>1, <2>1, <2>2 DEF RaceTypes, OnlyOf, Labels
  <2>4. Pointers(t)'
    BY <1>1, <2>1, <2>2 DEF RaceTypes, Pointers, Removing
  <2> QED BY <1>1, <2>1, <2>2, <2>3, <2>4, OthersKeep
<1>8. CASE Count(t)
  <2>1. CASE length' > MAX_READING_LIST_SIZE
    <3> DEFINE record == [NoCall EXCEPT !.node = head, !.why = "evicted"]
    <3>1. /\ call' = [call EXCEPT ![t] = record] /\ pc' = [pc EXCEPT ![t] = "remove"]
          /\ UNCHANGED <<mem, head, temp, last, new, sent>>
      BY <1>8, <2>1 DEF Count, Goto, Remember
    <3>2. /\ record \in Calls /\ record.node = head /\ record.head = NULL
          /\ record.temp = NULL /\ record.why = "evicted"
      BY <1>1 DEF NoCall, Calls, Addresses
    <3> HIDE DEF record
    <3>3. RaceTypes' /\ OnlyOf(t)
      BY <1>1, <3>1, <3>2 DEF RaceTypes, OnlyOf, Labels, Removing
    <3>4. call'[t] = record /\ pc'[t] = "remove"
      BY <1>1, <3>1 DEF RaceTypes
    <3>5. Pointers(t)'
      BY <1>1, <3>1, <3>2, <3>4, SameFilled DEF Pointers, Known
    <3> QED BY <3>1, <3>3, <3>5, LocalStep
  <2>2. CASE ~(length' > MAX_READING_LIST_SIZE)
    <3>1. /\ pc' = [pc EXCEPT ![t] = "begin"]
          /\ UNCHANGED <<mem, head, temp, last, new, sent, call>>
      BY <1>8, <2>2 DEF Count, Goto
    <3>2. RaceTypes' /\ OnlyOf(t)
      BY <1>1, <3>1 DEF RaceTypes, OnlyOf, Labels
    <3>3. pc'[t] = "begin"
      BY <1>1, <3>1 DEF RaceTypes
    <3>4. Pointers(t)'
      BY <1>1, <3>1, <3>3, SameFilled DEF Pointers, Removing
    <3> QED BY <3>1, <3>2, <3>4, LocalStep
  <2> QED BY <2>1, <2>2
<1> QED BY <1>2, <1>3, <1>4, <1>5, <1>6, <1>7, <1>8

\* get_reading and send_reading around them.
LEMMA LoopKeepsPointers ==
  ASSUME RaceAssumption, RaceInv, NEW t \in Threads,
         \/ BeginLoop(t) \/ PostNode(t)
         \/ (Leave(t) \/ Advance(t)) /\ UNCHANGED call
         \/ \E answer \in Answers : HearAnswer(t, answer)
  PROVE  RaceInv'
<1>1. Pointers(t) /\ RaceTypes /\ head \in Known /\ Known \subseteq Addresses
  BY DEF RaceInv, Known, Addresses, Filled
<1>2. CASE BeginLoop(t)
  <2>1. /\ temp' = [temp EXCEPT ![t] = head] /\ pc' = [pc EXCEPT ![t] = "loop"]
        /\ new' = [new EXCEPT ![t] = NULL] /\ last' = [last EXCEPT ![t] = NULL]
        /\ UNCHANGED <<mem, head, sent, call>>
    BY <1>2 DEF BeginLoop, Goto
  <2>2. RaceTypes' /\ OnlyOf(t)
    BY <1>1, <2>1 DEF RaceTypes, OnlyOf, Labels, Addresses
  <2>3. temp'[t] = head /\ pc'[t] = "loop" /\ new'[t] = NULL /\ last'[t] = NULL
    BY <1>1, <2>1 DEF RaceTypes
  <2>4. Pointers(t)'
    BY <1>1, <2>1, <2>3, SameFilled DEF Pointers, Removing, Known
  <2> QED BY <2>1, <2>2, <2>4, LocalStep
<1>3. CASE PostNode(t)
  <2>1. /\ sent' = [sent EXCEPT ![t] = mem[temp[t]].reading]
        /\ pc' = [pc EXCEPT ![t] = "wait"]
        /\ temp[t] \in Filled
        /\ UNCHANGED <<mem, head, temp, last, new, call>>
    BY <1>1, <1>3 DEF PostNode, Post, Pointers, Known
  <2>2. mem[temp[t]].reading \in Readings
    BY <1>1, <2>1 DEF Filled, RaceTypes, Heaps
  <2>3. RaceTypes' /\ OnlyOf(t)
    BY <1>1, <2>1, <2>2 DEF RaceTypes, OnlyOf, Labels
  <2>4. pc'[t] = "wait" /\ sent'[t] \in Readings
    BY <1>1, <2>1, <2>2 DEF RaceTypes
  <2>5. Pointers(t)'
    BY <1>1, <2>1, <2>4, SameFilled DEF Pointers, Removing
  <2> QED BY <2>1, <2>3, <2>5, LocalStep
<1>4. CASE Leave(t) /\ UNCHANGED call
  <2>1. /\ temp' = [temp EXCEPT ![t] = NULL] /\ pc' = [pc EXCEPT ![t] = "idle"]
        /\ UNCHANGED <<mem, head, last, new, sent, call>>
    BY <1>4 DEF Leave
  <2>2. RaceTypes' /\ OnlyOf(t)
    BY <1>1, <2>1 DEF RaceTypes, OnlyOf, Labels, Addresses
  <2>3. temp'[t] = NULL /\ pc'[t] = "idle"
    BY <1>1, <2>1 DEF RaceTypes
  <2>4. Pointers(t)'
    BY <1>1, <2>1, <2>3, SameFilled DEF Pointers, Removing, Known
  <2> QED BY <2>1, <2>2, <2>4, LocalStep
<1>5. CASE Advance(t) /\ UNCHANGED call
  <2> DEFINE a == mem[temp[t]].next
  <2>1. /\ temp' = [temp EXCEPT ![t] = a] /\ pc' = [pc EXCEPT ![t] = "loop"]
        /\ temp[t] \in Filled
        /\ UNCHANGED <<mem, head, last, new, sent, call>>
    BY <1>1, <1>5 DEF Advance, Pointers
  <2>2. a \in Known
    BY <2>1 DEF RaceInv
  <2> HIDE DEF a
  <2>3. RaceTypes' /\ OnlyOf(t)
    BY <1>1, <2>1, <2>2 DEF RaceTypes, OnlyOf, Labels
  <2>4. temp'[t] = a /\ pc'[t] = "loop"
    BY <1>1, <2>1 DEF RaceTypes
  <2>5. Pointers(t)'
    BY <1>1, <2>1, <2>2, <2>4, SameFilled DEF Pointers, Removing
  <2> QED BY <2>1, <2>3, <2>5, LocalStep
<1>6. ASSUME NEW answer \in Answers, HearAnswer(t, answer) PROVE RaceInv'
  <2>1. /\ sent' = [sent EXCEPT ![t] = NULL] /\ temp[t] \in Filled
        /\ UNCHANGED <<mem, head, temp, last, new>>
    BY <1>1, <1>6 DEF HearAnswer, Pointers
  <2>2. CASE answer = "failed"
    <3>1. pc' = [pc EXCEPT ![t] = "advance"] /\ UNCHANGED call
      BY <1>6, <2>2 DEF HearAnswer, Goto
    <3>2. RaceTypes' /\ OnlyOf(t)
      BY <1>1, <2>1, <3>1 DEF RaceTypes, OnlyOf, Labels
    <3>3. pc'[t] = "advance"
      BY <1>1, <3>1 DEF RaceTypes
    <3>4. Pointers(t)'
      BY <1>1, <2>1, <3>1, <3>3, SameFilled DEF Pointers, Removing
    <3> QED BY <2>1, <3>2, <3>4, LocalStep
  <2>3. CASE answer # "failed"
    <3> DEFINE record == [NoCall EXCEPT !.node = temp[t], !.why = answer]
    <3>1. pc' = [pc EXCEPT ![t] = "remove"] /\ call' = [call EXCEPT ![t] = record]
      BY <1>6, <2>3 DEF HearAnswer, Goto, Remember, Answers
    <3>2. /\ record \in Calls /\ record.node = temp[t] /\ record.head = NULL
          /\ record.temp = NULL
      BY <1>1, <2>1 DEF NoCall, Calls, Addresses, Filled
    <3> HIDE DEF record
    <3>3. RaceTypes' /\ OnlyOf(t)
      BY <1>1, <2>1, <3>1, <3>2 DEF RaceTypes, OnlyOf, Labels, Removing
    <3>4. pc'[t] = "remove" /\ call'[t] = record
      BY <1>1, <3>1 DEF RaceTypes
    <3>5. Pointers(t)'
      BY <1>1, <2>1, <3>2, <3>4, SameFilled DEF Pointers, Known
    <3> QED BY <2>1, <3>3, <3>5, LocalStep
  <2> QED BY <2>2, <2>3
<1> QED BY <1>2, <1>3, <1>4, <1>5, <1>6

LEMMA ReturnKeeps ==
  ASSUME RaceInv, NEW t \in Threads, pc[t] \in Removing, Return(t),
         mem' \in Heaps, Filled' = Filled, Known' = Known,
         UNCHANGED <<temp, last, new, sent>>
  PROVE  RaceTypes' /\ OnlyOf(t) /\ Pointers(t)'
<1>1. Pointers(t) /\ RaceTypes
  BY DEF RaceInv
<1> DEFINE l == IF call[t].why = "evicted" THEN "begin" ELSE "advance"
<1>2. pc' = [pc EXCEPT ![t] = l] /\ call' = [call EXCEPT ![t] = NoCall]
  BY DEF Return, Goto, Remember
<1>3. NoCall \in Calls /\ l \in Labels
  BY DEF NoCall, Calls, Addresses, Labels
<1>4. RaceTypes' /\ OnlyOf(t)
  BY <1>1, <1>2, <1>3 DEF RaceTypes, OnlyOf
<1>5. pc'[t] = l /\ call'[t] = NoCall
  BY <1>1, <1>2 DEF RaceTypes
<1>6. Pointers(t)'
  BY <1>1, <1>5 DEF Pointers, NoCall, Known, Removing
<1> QED BY <1>4, <1>6

\* A step of reading_remove that moves its locals only.
LEMMA SearchKeeps ==
  ASSUME RaceInv, NEW t \in Threads, pc[t] \in Removing,
         NEW l \in Removing, NEW record \in Calls,
         pc' = [pc EXCEPT ![t] = l], call' = [call EXCEPT ![t] = record],
         UNCHANGED <<mem, head, temp, last, new, sent>>,
         {record.node, record.head, record.temp} \subseteq Known,
         record.why = call[t].why,
         l = "unlink" => record.head # NULL,
         l = "fetch" => record.head \in Filled \/ (record.head = NULL /\ record.node = FLASH),
         l \in {"free", "relink"} => record.head \in Filled
  PROVE  RaceInv'
<1>1. Pointers(t) /\ RaceTypes
  BY DEF RaceInv
<1>2. RaceTypes' /\ OnlyOf(t)
  BY <1>1 DEF RaceTypes, OnlyOf, Labels
<1>3. pc'[t] = l /\ call'[t] = record
  BY <1>1 DEF RaceTypes
<1>4. Pointers(t)'
  BY <1>1, <1>3, SameFilled DEF Pointers, Removing
<1> QED BY <1>2, <1>4, LocalStep

LEMMA RemoveKeepsPointers ==
  ASSUME RaceAssumption, RaceInv, NEW t \in Threads,
         \/ EnterRemove(t)
         \/ ReadBehindHead(t) \/ MoveHead(t) \/ FreeHead(t)
         \/ Search(t) \/ NotInList(t) \/ FetchBehind(t) \/ FreeNode(t) \/ Relink(t)
  PROVE  RaceInv'
<1>1. Pointers(t) /\ RaceTypes /\ head \in Known /\ Known \subseteq Addresses
  BY DEF RaceInv, Known, Addresses, Filled
<1>2. /\ call[t] \in Calls
      /\ {call[t].node, call[t].head, call[t].temp} \subseteq Known
  BY <1>1 DEF RaceTypes, Pointers
\* Returning without a write to the list.
<1>3. ASSUME pc[t] \in Removing, Return(t), UNCHANGED <<mem, head, temp, last, new, sent>>
      PROVE  RaceInv'
  <2>1. mem' \in Heaps
    BY <1>1, <1>3 DEF RaceTypes
  <2> QED BY <1>3, <2>1, ReturnKeeps, SameFilled, LocalStep
<1>4. CASE EnterRemove(t)
  <2>1. CASE head = NULL
    BY <1>3, <1>4, <2>1 DEF EnterRemove, Removing
  <2>2. CASE head # NULL
    <3> DEFINE record == [call[t] EXCEPT !.head = head]
               l == IF head = call[t].node THEN "unlink" ELSE "search"
    <3>1. /\ pc[t] \in Removing /\ pc' = [pc EXCEPT ![t] = l]
          /\ call' = [call EXCEPT ![t] = record]
          /\ UNCHANGED <<mem, head, temp, last, new, sent>>
      BY <1>4, <2>2 DEF EnterRemove, Goto, Remember, Removing
    <3>2. /\ record \in Calls /\ record.head = head /\ record.node = call[t].node
          /\ record.temp = call[t].temp /\ record.why = call[t].why
      BY <1>1, <1>2 DEF Calls
    <3>3. l \in {"unlink", "search"} /\ l \in Removing
      BY DEF Removing
    <3> HIDE DEF record, l
    <3> QED BY <1>1, <1>2, <2>2, <3>1, <3>2, <3>3, SearchKeeps
  <2> QED BY <2>1, <2>2
<1>5. CASE ReadBehindHead(t)
  <2> DEFINE a == NextOf(call[t].head)
             record == [call[t] EXCEPT !.temp = a]
  <2>1. a \in Known /\ a \in Addresses
    BY <1>2, <1>5, NextIsKnown DEF ReadBehindHead, Known
  <2>2. /\ pc[t] \in Removing /\ pc' = [pc EXCEPT ![t] = "behead"]
        /\ call' = [call EXCEPT ![t] = record]
        /\ UNCHANGED <<mem, head, temp, last, new, sent>>
    BY <1>5 DEF ReadBehindHead, Goto, Remember, Removing
  <2> HIDE DEF a
  <2>3. /\ record \in Calls /\ record.head = call[t].head /\ record.node = call[t].node
        /\ record.temp = a /\ record.why = call[t].why
    BY <1>2, <2>1 DEF Calls
  <2>4. "behead" \in Removing
    BY DEF Removing
  <2> HIDE DEF record
  <2> QED BY <1>2, <2>1, <2>2, <2>3, <2>4, SearchKeeps
<1>6. CASE MoveHead(t)
  <2>1. /\ head' = call[t].temp /\ pc' = [pc EXCEPT ![t] = "release"] /\ pc[t] = "behead"
        /\ UNCHANGED <<mem, temp, last, new, sent, call>>
    BY <1>6 DEF MoveHead, Goto
  <2>2. RaceTypes' /\ OnlyOf(t)
    BY <1>1, <2>1 DEF RaceTypes, OnlyOf, Labels, Removing
  <2>3. pc'[t] = "release"
    BY <1>1, <2>1 DEF RaceTypes
  <2>4. Filled' = Filled /\ Known' = Known
    BY <2>1, SameFilled
  <2>5. Pointers(t)'
    BY <1>1, <2>1, <2>3, <2>4 DEF Pointers, Removing
  <2> QED BY <1>2, <2>1, <2>2, <2>4, <2>5, OthersKeep DEF RaceInv
<1>7. CASE FreeHead(t)
  BY <1>3, <1>7 DEF FreeHead, Removing
<1>8. CASE Search(t)
  <2> DEFINE a == NextOf(call[t].head)
  <2>1. call[t].head \in Filled \cup {NULL} /\ a \in Known /\ a \in Addresses
    BY <1>2, <1>8, NextIsKnown DEF Search, Known
  <2>2. pc[t] \in Removing /\ UNCHANGED <<mem, head, temp, last, new, sent>>
    BY <1>8 DEF Search, Removing
  <2>3. CASE a = call[t].node
    <3>1. pc' = [pc EXCEPT ![t] = "fetch"] /\ UNCHANGED call
      BY <1>8, <2>3 DEF Search, Goto
    <3>2. call' = [call EXCEPT ![t] = call[t]] /\ "fetch" \in Removing
      BY <1>1, <3>1 DEF RaceTypes, Removing
    <3>3. call[t].head \in Filled \/ (call[t].head = NULL /\ call[t].node = FLASH)
      BY <2>1, <2>3 DEF NextOf
    <3> QED BY <1>2, <2>2, <3>1, <3>2, <3>3, SearchKeeps
  <2>4. CASE a # call[t].node
    <3> DEFINE record == [call[t] EXCEPT !.head = a]
    <3>1. call' = [call EXCEPT ![t] = record] /\ UNCHANGED pc /\ pc[t] = "search"
      BY <1>8, <2>4 DEF Search, Remember
    <3>2. call' = [call EXCEPT ![t] = record]
      BY <3>1
    <3>3. pc' = [pc EXCEPT ![t] = "search"] /\ "search" \in Removing
      BY <1>1, <3>1 DEF RaceTypes, Removing
    <3> HIDE DEF a
    <3>4. /\ record \in Calls /\ record.head = a /\ record.node = call[t].node
          /\ record.temp = call[t].temp /\ record.why = call[t].why
      BY <1>2, <2>1 DEF Calls
    <3> HIDE DEF record
    <3> QED BY <1>2, <2>1, <2>2, <3>2, <3>3, <3>4, SearchKeeps
  <2> QED BY <2>3, <2>4
<1>9. CASE NotInList(t)
  BY <1>3, <1>9 DEF NotInList, Removing
<1>10. CASE FetchBehind(t)
  <2>1. PICK a \in SecondRead(t) \ {FLASH} :
          Remember(t, [call[t] EXCEPT !.node = a, !.temp = NextOf(a)])
    BY <1>10 DEF FetchBehind
  <2> DEFINE record == [call[t] EXCEPT !.node = a, !.temp = NextOf(a)]
  <2>2. call[t].head \in Filled \/ (call[t].head = NULL /\ call[t].node = FLASH)
    BY <1>1, <1>10 DEF FetchBehind, Pointers
  <2>3. call[t].head = NULL /\ call[t].node = FLASH => SecondRead(t) = {FLASH}
    BY DEF SecondRead, NextOf
  <2>4. call[t].head \in Filled
    BY <2>1, <2>2, <2>3
  <2>5. NextOf(call[t].head) \in Known
    BY <2>4, NextIsKnown
  <2>6. a \in Filled \cup {NULL}
    BY <1>2, <2>1, <2>5 DEF SecondRead, Known
  <2>7. NextOf(a) \in Known /\ NextOf(a) \in Addresses /\ a \in Known /\ a \in Addresses
    BY <1>1, <2>6, NextIsKnown DEF Known
  <2>8. /\ pc[t] \in Removing /\ pc' = [pc EXCEPT ![t] = "free"]
        /\ call' = [call EXCEPT ![t] = record]
        /\ UNCHANGED <<mem, head, temp, last, new, sent>>
    BY <1>10, <2>1 DEF FetchBehind, Goto, Remember, Removing
  <2>9. /\ record \in Calls /\ record.head = call[t].head /\ record.node = a
        /\ record.temp = NextOf(a) /\ record.why = call[t].why
    BY <1>2, <2>7 DEF Calls
  <2>10. "free" \in Removing
    BY DEF Removing
  <2> HIDE DEF record
  <2> QED BY <1>2, <2>4, <2>7, <2>8, <2>9, <2>10, SearchKeeps
<1>11. CASE FreeNode(t)
  <2>1. /\ pc[t] = "free" /\ pc[t] \in Removing /\ pc' = [pc EXCEPT ![t] = "relink"]
        /\ UNCHANGED <<mem, head, temp, last, new, sent, call>>
    BY <1>11 DEF FreeNode, Goto, Removing
  <2>2. call[t].head \in Filled
    BY <1>1, <2>1 DEF Pointers
  <2>3. call' = [call EXCEPT ![t] = call[t]] /\ "relink" \in Removing
    BY <1>1, <2>1 DEF RaceTypes, Removing
  <2> QED BY <1>2, <2>1, <2>2, <2>3, SearchKeeps
<1>12. CASE Relink(t)
  <2>1. /\ call[t].head \in Filled /\ call[t].temp \in Known
        /\ mem' = [mem EXCEPT ![call[t].head].next = call[t].temp]
        /\ pc[t] \in Removing /\ Return(t)
        /\ UNCHANGED <<head, temp, last, new, sent>>
    BY <1>1, <1>2, <1>12 DEF Relink, Pointers, Removing
  <2>2. /\ mem' \in Heaps /\ Filled' = Filled /\ Known' = Known
        /\ \A c \in Filled : mem'[c].next \in Known
    BY <2>1, WriteNext
  <2>3. RaceTypes' /\ OnlyOf(t) /\ Pointers(t)'
    BY <2>1, <2>2, ReturnKeeps
  <2> QED BY <1>1, <2>1, <2>2, <2>3, OthersKeep
<1> QED BY <1>4, <1>5, <1>6, <1>7, <1>8, <1>9, <1>10, <1>11, <1>12

-----------------------------------------------------------------------------
LEMMA HaltKeeps ==
  ASSUME RaceInv, pc' = [u \in Threads |-> "halted"],
         UNCHANGED <<mem, head, temp, last, new, sent, call>>
  PROVE  RaceInv'
<1>1. RaceTypes'
  BY DEF RaceInv, RaceTypes, Labels
<1>2. ASSUME NEW t \in Threads PROVE Pointers(t)'
  BY SameFilled DEF RaceInv, Pointers, Removing
<1> QED BY <1>1, <1>2, SameFilled DEF RaceInv

LEMMA RaceInvNext == ASSUME RaceAssumption PROVE RaceInv /\ [RaceNext]_raceVars => RaceInv'
<1> SUFFICES ASSUME RaceInv, [RaceNext]_raceVars PROVE RaceInv'
  OBVIOUS
<1>1. ASSUME NEW t \in Threads, ThreadStep(t) PROVE RaceInv'
  <2>1. CASE AllocationFails(t) /\ UNCHANGED call
    BY <2>1, HaltKeeps DEF AllocationFails
  <2>2. CASE Fault(t)
    BY <2>2, HaltKeeps DEF Fault
  <2> QED BY <1>1, <2>1, <2>2, AddKeepsPointers, LoopKeepsPointers, RemoveKeepsPointers
         DEF ThreadStep
<1>2. ASSUME UNCHANGED <<mem, head, pc, temp, last, new, sent, call>> PROVE RaceInv'
  BY <1>2, SameFilled DEF RaceInv, RaceTypes, Pointers
<1>3. ASSUME NEW t \in Threads, Store(t), UNCHANGED call PROVE RaceInv'
  BY <1>2, <1>3 DEF Store
<1>4. CASE Reset /\ call' = [t \in Threads |-> NoCall]
  <2>1. Filled' = {}
    BY <1>4 DEF Reset, Filled
  <2>2. RaceTypes'
    <3>1. NULL \in Addresses /\ NoCall \in Calls
      BY DEF Addresses, Calls, NoCall
    <3>2. mem' \in Heaps
      BY <1>4, <3>1 DEF Reset, Heaps
    <3>3. /\ pc' \in [Threads -> Labels] /\ sent' \in [Threads -> Readings \cup {NULL}]
          /\ call' \in [Threads -> Calls]
      BY <1>4, <3>1 DEF Reset, Labels
    <3>4. /\ temp' \in [Threads -> Addresses] /\ last' \in [Threads -> Addresses]
          /\ new' \in [Threads -> Addresses]
      BY <1>4, <3>1 DEF Reset
    <3> QED BY <3>2, <3>3, <3>4 DEF RaceTypes
  <2>3. ASSUME NEW t \in Threads PROVE Pointers(t)'
    BY <1>4, <2>1 DEF Reset, Pointers, Known, NoCall, Removing
  <2> QED BY <1>4, <2>1, <2>2, <2>3 DEF Reset, RaceInv, Known
<1>5. CASE UNCHANGED raceVars
  BY <1>2, <1>5 DEF raceVars, vars
<1> QED BY <1>1, <1>3, <1>4, <1>5 DEF RaceNext

(***************************************************************************)
(* With both threads in the list, cutting into each other at every read    *)
(* and write: until the node faults, util.h:56 and util.h:90 write into a  *)
(* node that some reading_add filled, possibly freed since, and a request  *)
(* is made of such a node, never of what lies at NULL.                     *)
(***************************************************************************)
THEOREM NoWildWrite == ASSUME RaceAssumption PROVE RaceSpec => []NoWildPointer
<1>1. RaceInv => NoWildPointer
  BY DEF RaceInv, Pointers, NoWildPointer
<1> QED BY <1>1, RaceInvInit, RaceInvNext, PTL DEF RaceSpec

=============================================================================
