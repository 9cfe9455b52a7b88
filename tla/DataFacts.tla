------------------------------ MODULE DataFacts ------------------------------
(***************************************************************************)
(* Facts about sequences, division and the natural numbers that the proofs *)
(* of several components rest on.  None mentions the system.               *)
(***************************************************************************)
EXTENDS Integers, Sequences, SequencesExt, SequenceTheorems, FiniteSetTheorems,
        TLAPS

(***************************************************************************)
(* RemoveAt closes the gap and keeps the order.                            *)
(***************************************************************************)
LEMMA RemoveAtFacts ==
  ASSUME NEW S, NEW s \in Seq(S), NEW k \in 1 .. Len(s)
  PROVE  /\ RemoveAt(s, k) \in Seq(S)
         /\ Len(RemoveAt(s, k)) = Len(s) - 1
         /\ \A j \in 1 .. Len(s) - 1 :
              RemoveAt(s, k)[j] = IF j < k THEN s[j] ELSE s[j + 1]
<1> DEFINE a == SubSeq(s, 1, k - 1)
           b == SubSeq(s, k + 1, Len(s))
<1>1. /\ a \in Seq(S) /\ Len(a) = k - 1
      /\ \A j \in 1 .. k - 1 : a[j] = s[j]
  OBVIOUS
<1>2. /\ b \in Seq(S) /\ Len(b) = Len(s) - k
      /\ \A j \in 1 .. Len(s) - k : b[j] = s[j + k]
  OBVIOUS
<1>3. RemoveAt(s, k) = a \o b
  BY DEF RemoveAt
<1> HIDE DEF a, b
<1>4. /\ a \o b \in Seq(S)
      /\ Len(a \o b) = Len(s) - 1
      /\ \A j \in 1 .. Len(s) - 1 :
           (a \o b)[j] = IF j < k THEN a[j] ELSE b[j - (k - 1)]
  <2>1. /\ a \o b \in Seq(S)
        /\ Len(a \o b) = Len(a) + Len(b)
        /\ \A j \in 1 .. Len(a) + Len(b) :
             (a \o b)[j] = IF j <= Len(a) THEN a[j] ELSE b[j - Len(a)]
    BY <1>1, <1>2, ConcatProperties
  <2>2. Len(a) + Len(b) = Len(s) - 1
    BY <1>1, <1>2
  <2>3. Len(a) = k - 1 /\ \A j \in 1 .. Len(s) - 1 : j <= k - 1 <=> j < k
    BY <1>1
  <2> QED BY <2>1, <2>2, <2>3
<1>5. ASSUME NEW j \in 1 .. Len(s) - 1
      PROVE  (a \o b)[j] = IF j < k THEN s[j] ELSE s[j + 1]
  BY <1>1, <1>2, <1>4
<1> QED BY <1>3, <1>4, <1>5

(***************************************************************************)
(* Closing a gap in a sequence without repetitions removes one element.    *)
(***************************************************************************)
ClosesGap(t, s, k) ==
  /\ Len(t) = Len(s) - 1
  /\ \A j \in 1 .. Len(s) - 1 : t[j] = IF j < k THEN s[j] ELSE s[j + 1]

LEMMA GapInjective ==
  ASSUME NEW S, NEW s \in Seq(S), NEW t \in Seq(S), NEW k \in 1 .. Len(s),
         IsInjective(s), ClosesGap(t, s, k)
  PROVE  /\ IsInjective(t)
         /\ ToSet(t) = ToSet(s) \ {s[k]}
<1>1. /\ Len(t) = Len(s) - 1
      /\ \A j \in 1 .. Len(s) - 1 : t[j] = IF j < k THEN s[j] ELSE s[j + 1]
  BY DEF ClosesGap
<1>2. DOMAIN t = 1 .. Len(s) - 1 /\ DOMAIN s = 1 .. Len(s)
  BY <1>1
<1>3. IsInjective(t)
  <2>1. \A i, j \in 1 .. Len(s) : s[i] = s[j] => i = j
    BY <1>2 DEF IsInjective
  <2>2. ASSUME NEW i \in 1 .. Len(s) - 1, NEW j \in 1 .. Len(s) - 1, t[i] = t[j]
        PROVE  i = j
    <3> DEFINE At(n) == IF n < k THEN n ELSE n + 1
    <3>1. /\ At(i) \in 1 .. Len(s) /\ At(j) \in 1 .. Len(s)
          /\ At(i) = At(j) => i = j
      OBVIOUS
    <3>2. t[i] = s[At(i)] /\ t[j] = s[At(j)]
      BY <1>1
    <3> HIDE DEF At
    <3> QED BY <2>1, <2>2, <3>1, <3>2
  <2> QED BY <1>2, <2>2 DEF IsInjective
<1>4. ASSUME NEW e \in ToSet(t) PROVE e \in ToSet(s) \ {s[k]}
  BY <1>1, <1>2 DEF IsInjective, ToSet
<1>5. ASSUME NEW e \in ToSet(s) \ {s[k]} PROVE e \in ToSet(t)
  <2>1. PICK j \in 1 .. Len(s) : e = s[j]
    BY <1>2 DEF ToSet
  <2>2. j # k
    BY <2>1
  <2>3. CASE j < k
    BY <1>1, <1>2, <2>1, <2>3 DEF ToSet
  <2>4. CASE j > k
    <3>1. t[j - 1] = s[j] /\ j - 1 \in DOMAIN t
      BY <1>1, <1>2, <2>4
    <3> QED BY <2>1, <3>1 DEF ToSet
  <2> QED BY <2>2, <2>3, <2>4
<1> QED BY <1>3, <1>4, <1>5

(***************************************************************************)
(* The first element goes either way.                                      *)
(***************************************************************************)
LEMMA TailIsRemoveFirst ==
  ASSUME NEW S, NEW s \in Seq(S), s # <<>>
  PROVE  Tail(s) = RemoveAt(s, 1)
<1>1. Len(s) \in Nat \ {0} /\ 1 \in 1 .. Len(s)
  OBVIOUS
<1>2. /\ RemoveAt(s, 1) \in Seq(S) /\ Len(RemoveAt(s, 1)) = Len(s) - 1
      /\ \A j \in 1 .. Len(s) - 1 : RemoveAt(s, 1)[j] = s[j + 1]
  BY <1>1, RemoveAtFacts
<1>3. /\ Tail(s) \in Seq(S) /\ Len(Tail(s)) = Len(s) - 1
      /\ \A j \in 1 .. Len(s) - 1 : Tail(s)[j] = s[j + 1]
  BY <1>1
<1> DEFINE a == Tail(s)
           b == RemoveAt(s, 1)
<1> HIDE DEF a, b
<1>4. /\ a \in Seq(S) /\ b \in Seq(S) /\ Len(a) = Len(b)
      /\ \A j \in 1 .. Len(a) : a[j] = b[j]
  BY <1>1, <1>2, <1>3 DEF a, b
<1>5. a = b
  BY <1>4, SeqEqual
<1> QED BY <1>5 DEF a, b

(***************************************************************************)
(* What removing one element, the first, or adding a last one does to the  *)
(* set of the elements.                                                    *)
(***************************************************************************)
LEMMA RemoveAtSet ==
  ASSUME NEW S, NEW s \in Seq(S), IsInjective(s), NEW k \in 1 .. Len(s)
  PROVE  ToSet(RemoveAt(s, k)) = ToSet(s) \ {s[k]}
<1>1. RemoveAt(s, k) \in Seq(S) /\ ClosesGap(RemoveAt(s, k), s, k)
  BY RemoveAtFacts DEF ClosesGap
<1> QED BY <1>1, GapInjective

LEMMA TailSet ==
  ASSUME NEW S, NEW s \in Seq(S), IsInjective(s), s # <<>>
  PROVE  ToSet(Tail(s)) = ToSet(s) \ {s[1]}
<1>1. 1 \in 1 .. Len(s)
  OBVIOUS
<1> QED BY <1>1, TailIsRemoveFirst, RemoveAtSet

LEMMA AppendSet ==
  ASSUME NEW S, NEW s \in Seq(S), NEW e \in S
  PROVE  ToSet(Append(s, e)) = ToSet(s) \cup {e}
<1> DEFINE t == Append(s, e)
<1>1. /\ DOMAIN s = 1 .. Len(s) /\ DOMAIN t = 1 .. Len(s) + 1 /\ Len(s) \in Nat
      /\ t[Len(s) + 1] = e /\ \A j \in 1 .. Len(s) : t[j] = s[j]
  OBVIOUS
<1> HIDE DEF t
<1>2. ToSet(t) = ToSet(s) \cup {e}
  BY <1>1 DEF ToSet
<1> QED BY <1>2 DEF t

-----------------------------------------------------------------------------
(***************************************************************************)
(* Division by a positive number, as an inequality and not as an operator. *)
(***************************************************************************)
LEMMA DivFacts ==
  ASSUME NEW a \in Int, NEW d \in Nat \ {0}
  PROVE  /\ a \div d \in Int
         /\ d * (a \div d) <= a
         /\ a < d * (a \div d) + d
         /\ a \in Nat => a \div d \in Nat
OBVIOUS

LEMMA DivMonotone ==
  ASSUME NEW a \in Nat, NEW b \in Nat, a <= b,
         NEW c \in Nat \ {0}, NEW d \in Nat \ {0}, d <= c
  PROVE  a \div c <= b \div d
<1> DEFINE x == a \div c
           y == b \div d
<1>1. x \in Nat /\ y \in Nat /\ c * x <= a /\ b < d * y + d
  BY DivFacts
<1> HIDE DEF x, y
<1>2. d * x <= c * x
  <2>1. c * x = d * x + (c - d) * x
    BY <1>1
  <2>2. (c - d) * x \in Nat
    BY <1>1
  <2> QED BY <1>1, <2>1, <2>2
<1>3. d * x < d * (y + 1)
  BY <1>1, <1>2
<1>4. x < y + 1
  BY <1>1, <1>3
<1> QED BY <1>1, <1>4 DEF x, y

LEMMA DivStep ==
  ASSUME NEW a \in Nat, NEW b \in Nat, NEW d \in Nat \ {0}, a + d <= b
  PROVE  a \div d + 1 <= b \div d
<1> DEFINE x == a \div d
           y == b \div d
<1>1. x \in Nat /\ y \in Nat /\ d * x <= a /\ b < d * y + d
  BY DivFacts
<1> HIDE DEF x, y
<1>2. d * (x + 1) < d * (y + 1)
  BY <1>1
<1>3. x + 1 < y + 1
  BY <1>1, <1>2
<1> QED BY <1>1, <1>3 DEF x, y

-----------------------------------------------------------------------------
(***************************************************************************)
(* A set of natural numbers has a least one (finite sets are well founded  *)
(* under strict inclusion), and so a set can be used for induction.        *)
(***************************************************************************)
LEMMA LeastNumber ==
  ASSUME NEW T, T \subseteq Nat, T # {}
  PROVE  \E n \in T : \A m \in T : n <= m
<1> DEFINE R == StrictSubsetOrdering(Nat)
           F == FiniteSubsetsOf(Nat)
           U == {0 .. n : n \in T}
<1>1. IsWellFoundedOn(R, F)
  BY FS_StrictSubsetOrderingWellFounded
<1>2. U \subseteq F /\ U # {}
  <2>1. ASSUME NEW n \in T PROVE 0 .. n \in F
    <3>1. IsFiniteSet(0 .. n)
      BY FS_Interval
    <3> QED BY <3>1 DEF FiniteSubsetsOf
  <2> QED BY <2>1
<1>3. PICK x \in U : \A y \in U : <<y, x>> \notin R
  <2> HIDE DEF R, F, U
  <2> QED BY <1>1, <1>2, WFMin
<1>4. PICK n \in T : x = 0 .. n
  OBVIOUS
<1>5. ASSUME NEW m \in T PROVE n <= m
  <2> SUFFICES ASSUME m < n PROVE FALSE
    OBVIOUS
  <2>1. 0 .. m \subseteq 0 .. n /\ n \in 0 .. n /\ n \notin 0 .. m
    OBVIOUS
  <2>2. 0 .. m \in SUBSET Nat /\ 0 .. n \in SUBSET Nat /\ 0 .. m # 0 .. n
    BY <2>1
  <2>3. <<0 .. m, 0 .. n>> \in R
    BY <2>1, <2>2 DEF StrictSubsetOrdering
  <2> QED BY <1>3, <1>4, <2>3
<1> QED BY <1>5

LEMMA SetInduction ==
  ASSUME NEW T, 0 \in T, \A n \in Nat : n \in T => n + 1 \in T
  PROVE  Nat \subseteq T
<1> SUFFICES ASSUME Nat \ T # {} PROVE FALSE
  OBVIOUS
<1>1. PICK n \in Nat \ T : \A m \in Nat \ T : n <= m
  BY LeastNumber
<1>2. n - 1 \in Nat /\ n - 1 \in T
  BY <1>1
<1> QED BY <1>2
=============================================================================
