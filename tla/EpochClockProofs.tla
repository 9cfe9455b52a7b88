--------------------------- MODULE EpochClockProofs ---------------------------
(***************************************************************************)
(* EpochClock for every length of a second, range of the counter, age of   *)
(* an answer and start of the server.  Divisions are bounded on both sides *)
(* and the bounds added up: the loss is less than a second each, and that  *)
(* of the two divisions of the node's own counter does not add up further. *)
(***************************************************************************)
EXTENDS EpochClock, DataFacts

LEMMA ModFacts ==
  ASSUME NEW a \in Nat, NEW d \in Nat \ {0}
  PROVE  /\ a % d \in Nat
         /\ a = d * (a \div d) + (a % d)
OBVIOUS

-----------------------------------------------------------------------------
\* The node's counter when true time was t.
CounterAt(t) == (t - bootedAt) % COUNTER_MOD

(***************************************************************************)
(* The offset stems from the answer that set it, which was of some age.    *)
(***************************************************************************)
OffsetIsFromAnswer ==
  setAt # None =>
    \E age \in 0 .. MAX_AGE :
      /\ age <= setAt
      /\ epoch_offset = ServerTime(setAt - age) - CounterAt(setAt) \div MS_PER_SEC

(***************************************************************************)
(* A stamp s of a reading taken at t, in milliseconds: less than a second  *)
(* ahead of true time, and behind by less than two seconds and the age of  *)
(* the answer.                                                             *)
(***************************************************************************)
NotAhead(s, t) == MS_PER_SEC * (s - SERVER_START) <= t + MS_PER_SEC - 1

NotBehind(s, t) ==
  MS_PER_SEC * (s - SERVER_START) >= t - MAX_AGE - 2 * MS_PER_SEC + 2

EarlierNotAhead == earlier # None => NotAhead(earlier.stamp, earlier.at)

IInv ==
  /\ TypeOK
  /\ OffsetIsFromAnswer
  /\ EarlierNotAhead

LEMMA Numbers ==
  /\ MS_PER_SEC \in Nat \ {0} /\ COUNTER_MOD \in Nat \ {0}
  /\ MAX_AGE \in Nat /\ SERVER_START \in Nat /\ Horizon \in Nat
  /\ None \notin Int
BY ClockAssumption

LEMMA StampType ==
  ASSUME TypeOK
  PROVE  /\ elapsed \in Nat /\ bootedAt \in Nat /\ elapsed - bootedAt \in Nat
         /\ ztimer_now \in Nat
         /\ ztimer_now \div MS_PER_SEC \in Nat
         /\ Stamp \in Int
<1>1. elapsed \in Nat /\ bootedAt \in Nat /\ elapsed - bootedAt \in Nat
  BY Numbers DEF TypeOK
<1>2. ztimer_now \in Nat
  <2> DEFINE a == elapsed - bootedAt
  <2>1. a \in Nat
    BY <1>1
  <2> HIDE DEF a
  <2>2. a % COUNTER_MOD \in Nat
    BY <2>1, Numbers, ModFacts
  <2> QED BY <2>2 DEF a, ztimer_now
<1>3. ztimer_now \div MS_PER_SEC \in Nat
  <2> DEFINE z == ztimer_now
  <2> HIDE DEF z
  <2>1. z \in Nat
    BY <1>2 DEF z
  <2>2. z \div MS_PER_SEC \in Nat
    BY <2>1, Numbers, DivFacts
  <2> QED BY <2>2 DEF z
<1>4. Stamp \in Int
  BY <1>3 DEF Stamp, TypeOK
<1> QED BY <1>1, <1>2, <1>3, <1>4

(***************************************************************************)
(* While the counter has not wrapped, it has run as long as true time.     *)
(***************************************************************************)
LEMMA CounterRunsAlong ==
  ASSUME TypeOK, Good
  PROVE  /\ setAt \in Nat /\ elapsed - setAt \in Nat
         /\ CounterAt(setAt) \in Nat
         /\ ztimer_now = CounterAt(setAt) + (elapsed - setAt)
<1> DEFINE a == setAt - bootedAt
           b == elapsed - bootedAt
<1>1. a \in Nat /\ b \in Nat /\ setAt \in Nat /\ elapsed - setAt \in Nat
      /\ b - a = elapsed - setAt
  BY Numbers DEF TypeOK, Good
<1>2. a \div COUNTER_MOD = b \div COUNTER_MOD
  BY DEF Good, Wraps
<1> HIDE DEF a, b
<1>3. /\ a % COUNTER_MOD \in Nat /\ b % COUNTER_MOD \in Nat
      /\ a = COUNTER_MOD * (a \div COUNTER_MOD) + (a % COUNTER_MOD)
      /\ b = COUNTER_MOD * (b \div COUNTER_MOD) + (b % COUNTER_MOD)
  BY <1>1, Numbers, ModFacts
<1>4. a \div COUNTER_MOD \in Int
  BY <1>1, Numbers, DivFacts
<1> DEFINE q == COUNTER_MOD * (a \div COUNTER_MOD)
<1>5. q \in Int
  BY <1>4, Numbers
<1>6. a = q + (a % COUNTER_MOD) /\ b = q + (b % COUNTER_MOD)
  BY <1>2, <1>3
<1> HIDE DEF q
<1>7. b % COUNTER_MOD = (a % COUNTER_MOD) + (b - a)
  BY <1>1, <1>3, <1>5, <1>6
<1> QED BY <1>1, <1>3, <1>7 DEF a, b, ztimer_now, CounterAt

(***************************************************************************)
(* The arithmetic of a good stamp: s is when the offset was set, x how old *)
(* the answer was, z the counter then, and d the time since.               *)
(***************************************************************************)
LEMMA StampArithmetic ==
  ASSUME NEW s \in Nat, NEW x \in Nat, x <= s, x <= MAX_AGE, NEW z \in Nat, NEW d \in Nat,
         NEW p \in Int,
         p = ((s - x) \div MS_PER_SEC - z \div MS_PER_SEC) + (z + d) \div MS_PER_SEC
  PROVE  /\ MS_PER_SEC * p <= s + d + MS_PER_SEC - 1
         /\ MS_PER_SEC * p >= s + d - MAX_AGE - 2 * MS_PER_SEC + 2
<1> DEFINE a == s - x
           c == z + d
           q1 == a \div MS_PER_SEC
           q2 == z \div MS_PER_SEC
           q3 == c \div MS_PER_SEC
           M == MS_PER_SEC
<1>1. M \in Nat \ {0} /\ MAX_AGE \in Nat /\ a \in Nat /\ c \in Nat /\ a = s - x /\ c = z + d
  BY Numbers
<1>2. p = (q1 - q2) + q3
  OBVIOUS
<1> HIDE DEF a, c
<1>3. /\ q1 \in Int /\ q2 \in Int /\ q3 \in Int
      /\ M * q1 <= a /\ a < M * q1 + M
      /\ M * q2 <= z /\ z < M * q2 + M
      /\ M * q3 <= c /\ c < M * q3 + M
  BY <1>1, DivFacts
<1> HIDE DEF q1, q2, q3, M
<1>4. M * p = (M * q1 - M * q2) + M * q3
  BY <1>1, <1>2, <1>3
<1>5. M * q1 \in Int /\ M * q2 \in Int /\ M * q3 \in Int
  BY <1>1, <1>3
<1>6. /\ M * p <= s + d + M - 1
      /\ M * p >= s + d - MAX_AGE - 2 * M + 2
  BY <1>1, <1>3, <1>4, <1>5
<1> QED BY <1>6 DEF M

LEMMA GoodStamp ==
  ASSUME TypeOK, OffsetIsFromAnswer, Good
  PROVE  NotAhead(Stamp, elapsed) /\ NotBehind(Stamp, elapsed)
<1>1. PICK age \in 0 .. MAX_AGE :
        /\ age <= setAt
        /\ epoch_offset = ServerTime(setAt - age) - CounterAt(setAt) \div MS_PER_SEC
  BY DEF OffsetIsFromAnswer, Good
<1> DEFINE z == CounterAt(setAt)
           d == elapsed - setAt
           p == Stamp - SERVER_START
<1>2. /\ setAt \in Nat /\ d \in Nat /\ z \in Nat /\ ztimer_now = z + d
      /\ elapsed \in Nat /\ Stamp \in Int /\ setAt + d = elapsed
  BY CounterRunsAlong, StampType
<1>3. age \in Nat /\ age <= MAX_AGE /\ age <= setAt /\ p \in Int
  BY <1>1, <1>2, Numbers
<1> DEFINE q1 == (setAt - age) \div MS_PER_SEC
           q2 == z \div MS_PER_SEC
           q3 == (z + d) \div MS_PER_SEC
<1>4. p = (q1 - q2) + q3
  <2>1. q1 \in Int /\ q2 \in Int /\ q3 \in Int
    <3>1. setAt - age \in Int /\ z + d \in Int /\ z \in Int
      BY <1>2, <1>3
    <3> QED BY <3>1, Numbers, DivFacts
  <2>2. Stamp = ((SERVER_START + q1) - q2) + q3
    BY <1>1, <1>2 DEF Stamp, ServerTime
  <2> HIDE DEF q1, q2, q3
  <2> QED BY <2>1, <2>2, Numbers
<1> HIDE DEF z, d, p
<1>5. /\ MS_PER_SEC * p <= setAt + d + MS_PER_SEC - 1
      /\ MS_PER_SEC * p >= setAt + d - MAX_AGE - 2 * MS_PER_SEC + 2
  BY <1>2, <1>3, <1>4, StampArithmetic
<1>6. /\ MS_PER_SEC * p <= elapsed + MS_PER_SEC - 1
      /\ MS_PER_SEC * p >= elapsed - MAX_AGE - 2 * MS_PER_SEC + 2
  <2> DEFINE m == MS_PER_SEC * p
  <2>1. m \in Int /\ MS_PER_SEC \in Nat /\ MAX_AGE \in Nat
    BY <1>3, Numbers
  <2>2. /\ m <= setAt + d + MS_PER_SEC - 1
        /\ m >= setAt + d - MAX_AGE - 2 * MS_PER_SEC + 2
    BY <1>5
  <2> HIDE DEF m
  <2>3. m <= elapsed + MS_PER_SEC - 1 /\ m >= elapsed - MAX_AGE - 2 * MS_PER_SEC + 2
    BY <1>2, <2>1, <2>2
  <2> QED BY <2>3 DEF m
<1> QED BY <1>6 DEF p, NotAhead, NotBehind

-----------------------------------------------------------------------------
LEMMA InitEstablishes == Init => IInv
<1> SUFFICES ASSUME Init PROVE IInv
  OBVIOUS
<1>1. TypeOK
  BY Numbers DEF Init, TypeOK
<1> QED BY <1>1 DEF Init, IInv, OffsetIsFromAnswer, EarlierNotAhead

LEMMA TickPreserves ==
  ASSUME IInv, Tick
  PROVE  IInv'
<1>1. /\ elapsed < Horizon /\ elapsed' = elapsed + 1
      /\ UNCHANGED <<bootedAt, epoch_offset, errno, setAt, earlier>>
  BY DEF Tick
<1>2. /\ elapsed \in 0 .. Horizon /\ bootedAt \in 0 .. elapsed /\ epoch_offset \in Int
      /\ errno \in {"OK", "ERANGE"}
      /\ setAt = None \/ setAt \in bootedAt .. elapsed
      /\ earlier = None \/ earlier \in [at : 0 .. elapsed, stamp : Int]
  BY DEF IInv, TypeOK
<1>3. TypeOK'
  <2>1. /\ elapsed' \in 0 .. Horizon /\ bootedAt' \in 0 .. elapsed'
        /\ bootedAt .. elapsed \subseteq bootedAt .. elapsed'
        /\ 0 .. elapsed \subseteq 0 .. elapsed'
    BY <1>1, <1>2, Numbers
  <2>2. earlier' = None \/ earlier' \in [at : 0 .. elapsed', stamp : Int]
    BY <1>1, <1>2, <2>1
  <2> QED BY <1>1, <1>2, <2>1, <2>2 DEF TypeOK
<1>4. OffsetIsFromAnswer' /\ EarlierNotAhead'
  BY <1>1 DEF IInv, OffsetIsFromAnswer, EarlierNotAhead, CounterAt, ServerTime, NotAhead
<1> QED BY <1>3, <1>4 DEF IInv

LEMMA HearTimePreserves ==
  ASSUME IInv, NEW age \in 0 .. MAX_AGE, HearTime(age)
  PROVE  IInv'
<1>1. /\ age <= elapsed /\ UNCHANGED <<elapsed, bootedAt, errno, earlier>>
      /\ \/ /\ epoch_offset' = OffsetOf(ServerTime(elapsed - age))
            /\ setAt' = elapsed
         \/ UNCHANGED <<epoch_offset, setAt>>
  BY DEF HearTime, UpdateEpoch
<1>2. CASE UNCHANGED <<epoch_offset, setAt>>
  BY <1>1, <1>2 DEF IInv, TypeOK, OffsetIsFromAnswer, EarlierNotAhead, CounterAt,
                    ServerTime, NotAhead
<1>3. CASE /\ epoch_offset' = OffsetOf(ServerTime(elapsed - age))
           /\ setAt' = elapsed
  <2>1. epoch_offset' \in Int
    <3>1. ztimer_now \div MS_PER_SEC \in Nat /\ elapsed \in Nat
      BY StampType DEF IInv
    <3>2. elapsed - age \in Int
      BY <3>1, Numbers
    <3>3. (elapsed - age) \div MS_PER_SEC \in Int
      BY <3>2, Numbers, DivFacts
    <3> QED BY <1>3, <3>1, <3>3, Numbers DEF OffsetOf, ServerTime
  <2>2. TypeOK'
    <3>1. setAt' \in bootedAt .. elapsed
      BY <1>3, Numbers DEF IInv, TypeOK
    <3> QED BY <1>1, <2>1, <3>1 DEF IInv, TypeOK
  <2>3. OffsetIsFromAnswer'
    BY <1>1, <1>3 DEF OffsetIsFromAnswer, OffsetOf, ztimer_now, CounterAt, ServerTime
  <2> QED BY <1>1, <2>2, <2>3 DEF IInv, EarlierNotAhead, NotAhead
<1> QED BY <1>1, <1>2, <1>3

LEMMA TakeReadingPreserves ==
  ASSUME IInv, TakeReading
  PROVE  IInv'
<1>1. /\ Good /\ earlier' = [at |-> elapsed, stamp |-> Stamp]
      /\ UNCHANGED <<elapsed, bootedAt, epoch_offset, errno, setAt>>
  BY DEF TakeReading
<1>2. NotAhead(Stamp, elapsed)
  BY <1>1, GoodStamp DEF IInv
<1>3. EarlierNotAhead'
  BY <1>1, <1>2 DEF EarlierNotAhead, NotAhead
<1>4. earlier' \in [at : 0 .. elapsed, stamp : Int]
  BY <1>1, StampType DEF IInv
<1> QED BY <1>1, <1>3, <1>4
        DEF IInv, TypeOK, OffsetIsFromAnswer, CounterAt, ServerTime

LEMMA NextPreserves == IInv /\ [Next]_vars => IInv'
<1> SUFFICES ASSUME IInv, [Next]_vars PROVE IInv'
  OBVIOUS
<1>1. CASE Tick
  BY <1>1, TickPreserves
<1>2. ASSUME NEW age \in 0 .. MAX_AGE, HearTime(age) PROVE IInv'
  BY <1>2, HearTimePreserves
<1>3. CASE TakeReading
  BY <1>3, TakeReadingPreserves
<1>4. CASE HearGarbage \/ ParseOutOfRange \/ UNCHANGED vars
  <2>1. UNCHANGED <<elapsed, bootedAt, epoch_offset, setAt, earlier>>
        /\ errno' \in {errno, "ERANGE"}
    BY <1>4 DEF HearGarbage, UpdateEpoch, Accepts, ParseOutOfRange, vars
  <2> QED BY <2>1 DEF IInv, TypeOK, OffsetIsFromAnswer, EarlierNotAhead, CounterAt,
                      ServerTime, NotAhead
<1>5. CASE Reboot
  <2>1. TypeOK'
    BY <1>5, Numbers DEF Reboot, IInv, TypeOK
  <2> QED BY <1>5, <2>1 DEF Reboot, IInv, OffsetIsFromAnswer, EarlierNotAhead, NotAhead
<1> QED BY <1>1, <1>2, <1>3, <1>4, <1>5 DEF Next

LEMMA Invariance == Spec => []IInv
BY InitEstablishes, NextPreserves, PTL DEF Spec

-----------------------------------------------------------------------------
(***************************************************************************)
(* The clock's variables keep their types; the offset was never set in the *)
(* future or before the last boot.                                         *)
(***************************************************************************)
THEOREM TypeCorrect == Spec => []TypeOK
<1>1. IInv => TypeOK
  BY DEF IInv
<1> QED BY <1>1, Invariance, PTL

\* From milliseconds back to seconds.
LEMMA SecondsOfStamp ==
  ASSUME NEW t \in Nat, NEW s \in Int, NotAhead(s, t), NotBehind(s, t)
  PROVE  /\ s <= ServerTime(t) + 1
         /\ s >= ServerTime(t) - 1 - SecondsOf(MAX_AGE)
<1> DEFINE M == MS_PER_SEC
           p == s - SERVER_START
           q == t \div M
           c == MAX_AGE + M - 1
           w == c \div M
<1>1. M \in Nat \ {0} /\ MAX_AGE \in Nat /\ p \in Int /\ c \in Nat /\ SERVER_START \in Nat
      /\ c = MAX_AGE + M - 1
  BY Numbers
<1>2. M * p <= t + M - 1 /\ M * p >= t - MAX_AGE - 2 * M + 2
  BY DEF NotAhead, NotBehind
<1> HIDE DEF c
<1>3. q \in Int /\ w \in Int /\ M * q <= t /\ t < M * q + M /\ c < M * w + M
  BY <1>1, DivFacts
<1>4. s = SERVER_START + p /\ ServerTime(t) = SERVER_START + q /\ SecondsOf(MAX_AGE) = w
  BY <1>1 DEF ServerTime, SecondsOf, c
<1> HIDE DEF M, p, q, w
<1>5. p <= q + 1
  <2>1. M * (q + 2) = M * q + 2 * M
    BY <1>1, <1>3
  <2>2. M * p < M * (q + 2)
    BY <1>1, <1>2, <1>3, <2>1
  <2> QED BY <1>1, <1>3, <2>2
<1>6. p >= q - 1 - w
  <2>1. M * (q - 2 - w) = M * q - 2 * M - M * w
    BY <1>1, <1>3
  <2>2. M * (q - 2 - w) < M * p
    BY <1>1, <1>2, <1>3, <2>1
  <2>3. q - 2 - w < p
    BY <1>1, <1>3, <2>2
  <2> QED BY <1>1, <1>3, <2>3
<1> QED BY <1>1, <1>3, <1>4, <1>5, <1>6

(***************************************************************************)
(* "1 second accuracy": a good stamp is at most a second ahead of the      *)
(* server's clock, and behind by no more than a second and the age of the  *)
(* answer, whenever and how often the offset was set, in every second and  *)
(* at every state of the counter.                                          *)
(***************************************************************************)
THEOREM StampsAreAccurate == Spec => []StampIsAccurate
<1>1. IInv => StampIsAccurate
  <2> SUFFICES ASSUME IInv, Good PROVE StampIsAccurate
    BY DEF StampIsAccurate
  <2>1. NotAhead(Stamp, elapsed) /\ NotBehind(Stamp, elapsed)
    BY GoodStamp DEF IInv
  <2>2. elapsed \in Nat /\ Stamp \in Int
    BY StampType DEF IInv
  <2> QED BY <2>1, <2>2, SecondsOfStamp DEF StampIsAccurate
<1> QED BY <1>1, Invariance, PTL

(***************************************************************************)
(* Two readings taken MOMENT apart never have one stamp, nor stamps in the *)
(* wrong order, over updates, wraps and reboots: MAX_AGE and three seconds *)
(* are enough for every MAX_AGE and every length of a second.              *)
(***************************************************************************)
THEOREM StampsAreOrdered == Spec => []StampsKeepOrder
<1>1. IInv => StampsKeepOrder
  <2> SUFFICES ASSUME IInv, Good, earlier # None, elapsed - earlier.at >= MOMENT
               PROVE  Stamp > earlier.stamp
    BY DEF StampsKeepOrder
  <2> DEFINE M == MS_PER_SEC
             a == earlier.stamp - SERVER_START
             b == Stamp - SERVER_START
  <2>1. /\ earlier.at \in Nat /\ earlier.stamp \in Int
        /\ elapsed \in Nat /\ Stamp \in Int
        /\ M \in Nat \ {0} /\ MAX_AGE \in Nat /\ SERVER_START \in Nat
    BY StampType, Numbers DEF IInv, TypeOK
  <2>2. M * b >= elapsed - MAX_AGE - 2 * M + 2
    BY GoodStamp DEF IInv, NotBehind
  <2>3. M * a <= earlier.at + M - 1
    BY DEF IInv, EarlierNotAhead, NotAhead
  <2>4. elapsed >= earlier.at + MAX_AGE + 3 * M
    BY <2>1 DEF MOMENT
  <2>5. a \in Int /\ b \in Int
    BY <2>1
  <2>6. b > a => Stamp > earlier.stamp
    BY <2>1
  <2> HIDE DEF M, a, b
  <2>7. M * a < M * b
    BY <2>1, <2>2, <2>3, <2>4, <2>5
  <2>8. a < b
    BY <2>1, <2>5, <2>7
  <2> QED BY <2>5, <2>6, <2>8
<1> QED BY <1>1, Invariance, PTL

===============================================================================
