-------------------------- MODULE NodeThreadsProofs --------------------------
(***************************************************************************)
(* The node's timers and its sensor switch, for every queue size, period,  *)
(* range of a period, and set of users of the sensor.                      *)
(***************************************************************************)
EXTENDS NodeThreads, DataFacts

(***************************************************************************)
(* The switch: two users that are active at the same time have both        *)
(* noticed, whoever came first.                                            *)
(***************************************************************************)
TogetherIsShared ==
  \A u, v \in Active : u # v => shared[u]

PowerInv ==
  /\ PowerTypeOK
  /\ TogetherIsShared
  /\ AloneIsSteady

(***************************************************************************)
(* The timers: a timer that was set is due within its period, and a node   *)
(* that runs has no period that would shoot its callback.                  *)
(***************************************************************************)
DueWithinPeriod ==
  ~halted => \A t \in Timers : period[t] > 0 /\ left[t] \in Off .. period[t]

TimerTypeOK ==
  /\ left \in [Timers -> Off .. PERIOD_MOD - 1]
  /\ period \in [Timers -> 0 .. PERIOD_MOD - 1]
  /\ halted \in BOOLEAN

TimerInv ==
  /\ TimerTypeOK
  /\ DueWithinPeriod

LEMMA PowerInit_ == PowerInit => PowerInv
BY DEF PowerInit, PowerInv, PowerTypeOK, TogetherIsShared, AloneIsSteady, Active

LEMMA SwitchOnPreserves ==
  ASSUME PowerInv, NEW u \in Users, SwitchOn(u)
  PROVE  PowerInv'
<1> USE DEF SwitchOn, PowerInv, PowerTypeOK
<1>1. PowerTypeOK'
  OBVIOUS
<1>2. Active' = Active \cup {u} /\ u \notin Active
  BY DEF Active
<1>3. /\ Active # {} => shared'[u]
      /\ \A v \in Active : shared'[v]
  <2>1. \A v \in Users \ {u} : shared'[v] = (shared[v] \/ v \in Active)
    OBVIOUS
  <2>2. shared'[u] = (Active # {})
    BY Zenon
  <2>3. Active \subseteq Users \ {u}
    BY <1>2 DEF Active
  <2> QED BY <2>1, <2>2, <2>3
<1>4. TogetherIsShared'
  BY <1>2, <1>3 DEF TogetherIsShared
<1>5. AloneIsSteady'
  BY <1>2, <1>3 DEF AloneIsSteady
<1> QED BY <1>1, <1>4, <1>5

LEMMA ReadPreserves ==
  ASSUME PowerInv, NEW u \in Users, ReadSensor(u) \/ ReadFails(u)
  PROVE  PowerInv'
BY DEF ReadSensor, ReadFails, PowerInv, PowerTypeOK, TogetherIsShared,
       AloneIsSteady, Active

\* Whoever is left when a user switches off has shared the switch with it.
LEMMA SwitchOffPreserves ==
  ASSUME PowerInv, NEW u \in Users, SwitchOff(u)
  PROVE  PowerInv'
<1> USE DEF SwitchOff, PowerInv, PowerTypeOK
<1>1. PowerTypeOK'
  OBVIOUS
<1>2. Active' = Active \ {u} /\ u \in Active
  BY DEF Active
<1>3. TogetherIsShared' /\ \A v \in Active' : shared'[v]
  BY <1>2 DEF TogetherIsShared
<1> QED BY <1>1, <1>3 DEF AloneIsSteady

LEMMA TogglePreserves == PowerInv /\ toggle_sensor => PowerInv'
BY DEF toggle_sensor, PowerInv, PowerTypeOK, TogetherIsShared, AloneIsSteady, Active

LEMMA PowerStepPreserves == PowerInv /\ [Next]_vars => PowerInv'
<1> SUFFICES ASSUME PowerInv, [Next]_vars PROVE PowerInv'
  OBVIOUS
<1>0. "handler" \in Users
  BY ThreadsAssumption
<1>1. ASSUME UNCHANGED powerVars PROVE PowerInv'
  BY <1>1 DEF powerVars, PowerInv, PowerTypeOK, TogetherIsShared, AloneIsSteady, Active
<1>2. CASE HandlerSamples \/ HandlerReadFails
  BY <1>0, <1>2, SwitchOnPreserves, ReadPreserves, SwitchOffPreserves
     DEF HandlerSamples, HandlerReadFails
<1>3. CASE \E u \in Users : OtherSamples(u) \/ OtherReadFails(u)
  BY <1>3, SwitchOnPreserves, ReadPreserves, SwitchOffPreserves
     DEF OtherSamples, OtherReadFails
<1>4. CASE Toggle
  BY <1>4, TogglePreserves DEF Toggle
<1>5. CASE Reset
  BY <1>5 DEF Reset, PowerReset, PowerInv, PowerTypeOK, TogetherIsShared,
              AloneIsSteady, Active
<1>6. CASE \/ \E t \in Timers : StartTimer(t) \/ timer_cb(t)
           \/ Tick \/ Finish
           \/ \E t \in Timers, seconds \in Payloads : PutPeriod(t, seconds)
           \/ UNCHANGED vars
  BY <1>1, <1>6 DEF StartTimer, timer_cb, Tick, Finish, PutPeriod, vars
<1> QED BY <1>2, <1>3, <1>4, <1>5, <1>6 DEF Next

-----------------------------------------------------------------------------
\* A boot sets periods that are within range and not too short to be set.
LEMMA DefaultPeriodFacts ==
  /\ PERIOD_MOD \in Nat \ {0}
  /\ DEFAULT_PERIOD \in [Timers -> 0 .. PERIOD_MOD - 1]
  /\ \A t \in Timers : DEFAULT_PERIOD[t] > 0
<1>1. /\ PERIOD_MOD \in Nat /\ XTIMER_BACKOFF \in Nat \ {0}
      /\ DEFAULT_PERIOD \in [Timers -> XTIMER_BACKOFF .. PERIOD_MOD - 1]
  BY ThreadsAssumption
<1>2. "temp" \in Timers
  BY DEF Timers
<1> QED BY <1>1, <1>2

LEMMA OffIsInRange ==
  /\ Off \in Off .. PERIOD_MOD - 1
  /\ \A t \in Timers : Off \in Off .. DEFAULT_PERIOD[t]
<1>1. /\ PERIOD_MOD \in Nat
      /\ \A t \in Timers : DEFAULT_PERIOD[t] \in 0 .. PERIOD_MOD - 1
  BY DefaultPeriodFacts
<1> QED BY <1>1 DEF Off

LEMMA TimerReset ==
  ASSUME left' = [t \in Timers |-> Off], period' = DEFAULT_PERIOD, halted' = FALSE
  PROVE  TimerInv'
BY DefaultPeriodFacts, OffIsInRange DEF TimerInv, TimerTypeOK, DueWithinPeriod

LEMMA TimerInit_ == Init => TimerInv
BY DefaultPeriodFacts, OffIsInRange DEF Init, TimerInv, TimerTypeOK, DueWithinPeriod

LEMMA NewPeriodFacts ==
  ASSUME NEW seconds \in Payloads
  PROVE  NewPeriod(seconds) \in 0 .. PERIOD_MOD - 1
<1>1. /\ seconds \in Nat /\ US_PER_SEC \in Nat /\ PERIOD_MOD \in Nat \ {0}
  BY ThreadsAssumption, DefaultPeriodFacts
<1>2. seconds * US_PER_SEC \in Nat
  BY <1>1
<1> DEFINE us == seconds * US_PER_SEC
<1> HIDE DEF us
<1>3. us % PERIOD_MOD \in 0 .. PERIOD_MOD - 1
  BY <1>1, <1>2 DEF us
<1> QED BY <1>3 DEF NewPeriod, us

LEMMA TimerStepPreserves == TimerInv /\ [Next]_vars => TimerInv'
<1> SUFFICES ASSUME TimerInv, [Next]_vars PROVE TimerInv'
  OBVIOUS
<1>0. /\ left \in [Timers -> Off .. PERIOD_MOD - 1]
      /\ period \in [Timers -> 0 .. PERIOD_MOD - 1]
      /\ halted \in BOOLEAN
      /\ PERIOD_MOD \in Nat \ {0} /\ XTIMER_BACKOFF \in Nat \ {0}
  BY ThreadsAssumption, DefaultPeriodFacts DEF TimerInv, TimerTypeOK
<1>1. ASSUME NEW t \in Timers, StartTimer(t) \/ timer_cb(t) PROVE TimerInv'
  <2>1. left' = [left EXCEPT ![t] = period[t]] /\ UNCHANGED <<period, halted>>
    BY <1>1 DEF StartTimer, timer_cb
  <2> QED BY <1>0, <2>1 DEF TimerInv, TimerTypeOK, DueWithinPeriod, Off
<1>2. CASE Tick
  <2>1. \A t \in Timers : left[t] \in Int /\ left[t] # 0 /\ left[t] >= -1
    BY <1>0, <1>2 DEF Tick, Off
  <2>2. \A t \in Timers : left'[t] \in Off .. left[t]
    BY <1>2, <2>1 DEF Tick, Off
  <2>3. left' \in [Timers -> Off .. PERIOD_MOD - 1] /\ UNCHANGED <<period, halted>>
    BY <1>0, <1>2, <2>1 DEF Tick, Off
  <2> QED BY <1>0, <2>1, <2>2, <2>3 DEF TimerInv, TimerTypeOK, DueWithinPeriod, Off
<1>3. ASSUME NEW t \in Timers, NEW seconds \in Payloads, PutPeriod(t, seconds)
      PROVE TimerInv'
  <2> DEFINE new == NewPeriod(seconds)
  <2>1. new \in 0 .. PERIOD_MOD - 1
    BY NewPeriodFacts
  <2>2. /\ left' = [left EXCEPT ![t] = new] /\ period' = [period EXCEPT ![t] = new]
        /\ halted' = (new < XTIMER_BACKOFF) /\ ~halted
    BY <1>3 DEF PutPeriod, set_period, Serving, Running
  <2> HIDE DEF new
  <2>3. new \in Nat /\ new \in Off .. PERIOD_MOD - 1 /\ new \in Off .. new
    BY <1>0, <2>1 DEF Off
  <2>4. TimerTypeOK'
    <3>0. halted' = (new < XTIMER_BACKOFF) /\ new \in Int /\ XTIMER_BACKOFF \in Int
      BY <1>0, <2>2, <2>3
    <3>1. halted' \in BOOLEAN
      BY <3>0
    <3> QED BY <1>0, <2>1, <2>2, <2>3, <3>1 DEF TimerTypeOK
  <2>5. ASSUME ~halted' PROVE new > 0
    <3>1. ~(new < XTIMER_BACKOFF)
      BY <2>2, <2>5, Zenon
    <3> QED BY <1>0, <2>3, <3>1
  <2>6. DueWithinPeriod'
    BY <1>0, <2>2, <2>3, <2>5 DEF TimerInv, DueWithinPeriod
  <2> QED BY <2>4, <2>6 DEF TimerInv
<1>4. CASE Reset
  BY <1>4, TimerReset DEF Reset
<1>5. CASE \/ Finish \/ HandlerSamples \/ HandlerReadFails
           \/ \E u \in Users : OtherSamples(u) \/ OtherReadFails(u)
           \/ Toggle \/ UNCHANGED vars
  <2>1. UNCHANGED <<left, period, halted>>
    BY <1>5 DEF Finish, HandlerSamples, HandlerReadFails, OtherSamples,
                OtherReadFails, Toggle, vars, threadVars
  <2> QED BY <2>1 DEF TimerInv, TimerTypeOK, DueWithinPeriod
<1> QED BY <1>1, <1>2, <1>3, <1>4, <1>5 DEF Next

-----------------------------------------------------------------------------
(***************************************************************************)
(* What is left of TypeOK: the queue and the handler's work.               *)
(***************************************************************************)
QueueTypeOK ==
  /\ queue \in Seq(Timers)
  /\ Len(queue) <= HANDLER_QUEUE_SIZE
  /\ work \in {"receive", "ask", "sample", "post"}
  /\ span \in 0 .. SpanBound
  /\ quickest \in [Timers -> 0 .. PERIOD_MOD - 1]
  /\ dropped \in BOOLEAN

LEMMA QueueInit == Init => QueueTypeOK
<1> SUFFICES ASSUME Init PROVE QueueTypeOK
  OBVIOUS
<1>1. queue \in Seq(Timers) /\ Len(queue) <= HANDLER_QUEUE_SIZE
  BY ThreadsAssumption DEF Init
<1>2. 0 \in 0 .. SpanBound
  BY ThreadsAssumption
<1> QED BY <1>1, <1>2, DefaultPeriodFacts DEF Init, QueueTypeOK

LEMMA NextMessageKeepsType ==
  ASSUME QueueTypeOK, NextMessage
  PROVE  /\ queue' \in Seq(Timers)
         /\ Len(queue') <= HANDLER_QUEUE_SIZE
         /\ work' \in {"receive", "ask", "sample", "post"}
<1>1. CASE queue = <<>>
  BY <1>1 DEF NextMessage, QueueTypeOK
<1>2. CASE queue # <<>>
  <2>1. queue' = Tail(queue) /\ work' = Begins(Head(queue))
    BY <1>2 DEF NextMessage
  <2>2. queue' \in Seq(Timers) /\ Len(queue') = Len(queue) - 1
    BY <1>2, <2>1 DEF QueueTypeOK
  <2> QED BY <2>1, <2>2, ThreadsAssumption DEF QueueTypeOK, Begins
<1> QED BY <1>1, <1>2

LEMMA QueueStepPreserves == TimerInv /\ QueueTypeOK /\ [Next]_vars => QueueTypeOK'
<1> SUFFICES ASSUME TimerInv, QueueTypeOK, [Next]_vars PROVE QueueTypeOK'
  OBVIOUS
<1>0. /\ HANDLER_QUEUE_SIZE \in Nat /\ SpanBound \in Nat
      /\ period \in [Timers -> 0 .. PERIOD_MOD - 1]
      /\ 0 \in 0 .. SpanBound
  BY ThreadsAssumption DEF TimerInv, TimerTypeOK
<1>1. ASSUME NEW t \in Timers, timer_cb(t) PROVE QueueTypeOK'
  <2>1. CASE work = "receive"
    <3>1. /\ work' \in {"ask", "sample"} /\ span' = 0 /\ quickest' = period
          /\ dropped' = FALSE /\ queue' = queue
      BY <1>1, <2>1 DEF timer_cb, msg_try_send, Begins
    <3> QED BY <1>0, <3>1 DEF QueueTypeOK
  <2>2. CASE work # "receive" /\ HasRoom
    <3>1. queue' = Append(queue, t) /\ UNCHANGED <<work, span, quickest, dropped>>
      BY <1>1, <2>2 DEF timer_cb, msg_try_send
    <3>2. queue' \in Seq(Timers) /\ Len(queue') = Len(queue) + 1
      BY <3>1 DEF QueueTypeOK
    <3> QED BY <1>0, <2>2, <3>1, <3>2 DEF QueueTypeOK, HasRoom
  <2>3. CASE work # "receive" /\ ~HasRoom
    BY <1>1, <2>3 DEF timer_cb, msg_try_send, QueueTypeOK
  <2> QED BY <2>1, <2>2, <2>3
<1>2. CASE Tick
  <2>1. span' \in 0 .. SpanBound
    BY <1>0, <1>2 DEF Tick, QueueTypeOK
  <2> QED BY <1>2, <2>1 DEF Tick, QueueTypeOK
<1>3. CASE Finish \/ HandlerReadFails
  BY <1>3, NextMessageKeepsType DEF Finish, HandlerReadFails, QueueTypeOK
<1>4. CASE HandlerSamples
  BY <1>4 DEF HandlerSamples, QueueTypeOK
<1>5. ASSUME NEW t \in Timers, NEW seconds \in Payloads, PutPeriod(t, seconds)
      PROVE QueueTypeOK'
  <2>1. NewPeriod(seconds) \in 0 .. PERIOD_MOD - 1
    BY NewPeriodFacts
  <2>2. quickest' = [quickest EXCEPT ![t] = Lesser(@, NewPeriod(seconds))]
    BY <1>5 DEF PutPeriod, set_period
  <2>3. Lesser(quickest[t], NewPeriod(seconds)) \in 0 .. PERIOD_MOD - 1
    BY <2>1 DEF QueueTypeOK, Lesser
  <2> QED BY <1>5, <2>2, <2>3 DEF PutPeriod, QueueTypeOK
<1>6. CASE Reset
  <2>1. queue' = <<>>
    BY <1>6 DEF Reset
  <2>2. queue' \in Seq(Timers) /\ Len(queue') <= HANDLER_QUEUE_SIZE
    BY <1>0, <2>1
  <2> QED BY <1>0, <1>6, <2>2, DefaultPeriodFacts DEF Reset, QueueTypeOK
<1>7. CASE \/ \E t \in Timers : StartTimer(t)
           \/ \E u \in Users : OtherSamples(u) \/ OtherReadFails(u)
           \/ Toggle \/ UNCHANGED vars
  <2>1. UNCHANGED <<queue, work, span, quickest, dropped>>
    BY <1>7 DEF StartTimer, OtherSamples, OtherReadFails, Toggle, vars, threadVars
  <2> QED BY <2>1 DEF QueueTypeOK
<1> QED BY <1>1, <1>2, <1>3, <1>4, <1>5, <1>6, <1>7 DEF Next

-----------------------------------------------------------------------------
(***************************************************************************)
(* How often a timer can have fallen due in a span of sp ticks: its last   *)
(* tick was p - l ago (its period less what is left), and before that at   *)
(* most one in every q, its shortest period.  The messages of the span are *)
(* the first, those in the queue, those handled and those dropped, and     *)
(* each of them was such a tick.                                           *)
(***************************************************************************)
FiredBy(sp, p, l, q) ==
  IF l = Off \/ sp < p - l THEN 0 ELSE 1 + (sp - (p - l)) \div q

Fired(t) == FiredBy(span, period[t], left[t], quickest[t])

QuickestIsShort == ~halted => \A t \in Timers : quickest[t] \in 1 .. period[t]

ReceiveEmpties == work = "receive" => queue = <<>>

TicksOfSpan ==
  ~halted /\ work # "receive" /\ span < SpanBound =>
    1 + Len(queue) <= Fired("epoch") + Fired("temp")

SpanInv ==
  /\ QuickestIsShort
  /\ ReceiveEmpties
  /\ TicksOfSpan
  /\ DropNeedsLongSpan

LEMMA FiredBounds ==
  ASSUME NEW sp \in Nat, NEW p \in Nat, NEW l \in Off .. p, NEW q \in 1 .. p
  PROVE  /\ FiredBy(sp, p, l, q) \in Nat
         /\ FiredBy(sp, p, l, q) <= 1 + sp \div q
<1>1. q \in Nat \ {0} /\ sp \div q \in Nat
  BY DivFacts
<1>2. CASE l = Off \/ sp < p - l
  BY <1>1, <1>2 DEF FiredBy
<1>3. CASE ~(l = Off \/ sp < p - l)
  <2> DEFINE a == sp - (p - l)
  <2>1. a \in Nat /\ a <= sp
    BY <1>3 DEF Off
  <2> HIDE DEF a
  <2>2. a \div q \in Nat /\ a \div q <= sp \div q
    BY <1>1, <2>1, DivFacts, DivMonotone
  <2>3. FiredBy(sp, p, l, q) = 1 + a \div q
    BY <1>3 DEF FiredBy, a
  <2> HIDE DEF FiredBy
  <2> QED BY <1>1, <2>2, <2>3
<1> QED BY <1>2, <1>3

\* Right after a tick.
LEMMA FiredNow ==
  ASSUME NEW sp \in Nat, NEW p \in Nat, NEW q \in 1 .. p
  PROVE  FiredBy(sp, p, p, q) = 1 + sp \div q
<1>1. sp - (p - p) = sp /\ ~(sp < p - p) /\ p # Off
  BY DEF Off
<1> QED BY <1>1 DEF FiredBy

\* A tick counts one more.
LEMMA FiredOnceMore ==
  ASSUME NEW sp \in Nat, NEW p \in Nat, NEW q \in 1 .. p
  PROVE  FiredBy(sp, p, 0, q) + 1 <= FiredBy(sp, p, p, q)
<1>0. q \in Nat \ {0} /\ sp \div q \in Nat
  BY DivFacts
<1>1. FiredBy(sp, p, p, q) = 1 + sp \div q
  BY FiredNow
<1>2. CASE sp < p
  <2>1. FiredBy(sp, p, 0, q) = 0
    BY <1>2 DEF FiredBy
  <2> QED BY <1>0, <1>1, <2>1
<1>3. CASE ~(sp < p)
  <2> DEFINE a == sp - (p - 0)
  <2>1. a \in Nat /\ a + q <= sp
    BY <1>3
  <2>2. FiredBy(sp, p, 0, q) = 1 + a \div q
    BY <1>3 DEF FiredBy, Off
  <2> HIDE DEF a
  <2>3. a \div q \in Nat /\ a \div q + 1 <= sp \div q
    BY <1>0, <2>1, DivFacts, DivStep
  <2> QED BY <1>0, <1>1, <2>2, <2>3
<1> QED BY <1>2, <1>3

\* Time that passes leaves the count as it is.
LEMMA FiredWhileTicking ==
  ASSUME NEW sp \in Nat, NEW p \in Nat, NEW l \in Off .. p, l # 0, NEW q \in 1 .. p
  PROVE  FiredBy(sp + 1, p, IF l = Off THEN Off ELSE l - 1, q) = FiredBy(sp, p, l, q)
<1>1. CASE l = Off
  BY <1>1 DEF FiredBy
<1>2. CASE l # Off
  <2>1. /\ (sp + 1) - (p - (l - 1)) = sp - (p - l) /\ l - 1 # Off
        /\ sp + 1 < p - (l - 1) <=> sp < p - l
    BY <1>2 DEF Off
  <2> QED BY <1>2, <2>1 DEF FiredBy
<1> QED BY <1>1, <1>2

\* Starting a timer, with a new period or the old one, counts no less.
LEMMA FiredAfterStart ==
  ASSUME NEW sp \in Nat, NEW p \in Nat, NEW l \in Off .. p, NEW q \in 1 .. p,
         NEW n \in Nat, NEW m \in 1 .. n, m <= q
  PROVE  FiredBy(sp, p, l, q) <= FiredBy(sp, n, n, m)
<1>1. FiredBy(sp, n, n, m) = 1 + sp \div m
  BY FiredNow
<1>2. m \in Nat \ {0} /\ q \in Nat \ {0} /\ sp <= sp
  OBVIOUS
<1>3. sp \div q \in Nat /\ sp \div m \in Nat
  BY <1>2, DivFacts
<1>4. sp \div q <= sp \div m
  BY <1>2, DivMonotone
<1>5. FiredBy(sp, p, l, q) \in Nat /\ FiredBy(sp, p, l, q) <= 1 + sp \div q
  BY FiredBounds
<1> QED BY <1>1, <1>3, <1>4, <1>5

-----------------------------------------------------------------------------
LEMMA SpanInit == Init => SpanInv
<1> SUFFICES ASSUME Init PROVE SpanInv
  OBVIOUS
<1>1. \A t \in Timers : DEFAULT_PERIOD[t] \in Nat /\ DEFAULT_PERIOD[t] > 0
  BY DefaultPeriodFacts
<1>2. QuickestIsShort
  BY <1>1 DEF Init, QuickestIsShort
<1> QED BY <1>2 DEF Init, SpanInv, ReceiveEmpties, TicksOfSpan, DropNeedsLongSpan

LEMMA SpanReset == Reset => SpanInv'
<1> SUFFICES ASSUME Reset PROVE SpanInv'
  OBVIOUS
<1>1. \A t \in Timers : DEFAULT_PERIOD[t] \in Nat /\ DEFAULT_PERIOD[t] > 0
  BY DefaultPeriodFacts
<1>2. QuickestIsShort'
  BY <1>1 DEF Reset, QuickestIsShort
<1> QED BY <1>2 DEF Reset, SpanInv, ReceiveEmpties, TicksOfSpan, DropNeedsLongSpan

\* The numbers of a state in which the node runs.
LEMMA SpanTypes ==
  ASSUME TimerInv, QueueTypeOK, QuickestIsShort, ~halted
  PROVE  /\ span \in Nat /\ SpanBound \in Nat /\ span <= SpanBound
         /\ HANDLER_QUEUE_SIZE \in Nat
         /\ queue \in Seq(Timers) /\ Len(queue) \in Nat
         /\ Len(queue) <= HANDLER_QUEUE_SIZE
         /\ \A t \in Timers : /\ period[t] \in Nat
                              /\ left[t] \in Off .. period[t]
                              /\ quickest[t] \in 1 .. period[t]
                              /\ quickest[t] \in Nat \ {0}
                              /\ quickest[t] <= PERIOD_MOD - 1
                              /\ Fired(t) \in Nat
                              /\ Fired(t) <= 1 + span \div quickest[t]
                              /\ span \div quickest[t] \in Nat
<1>1. /\ SpanBound \in Nat /\ HANDLER_QUEUE_SIZE \in Nat /\ PERIOD_MOD \in Nat
  BY ThreadsAssumption
<1>2. /\ span \in Nat /\ span <= SpanBound
      /\ queue \in Seq(Timers) /\ Len(queue) \in Nat
      /\ Len(queue) <= HANDLER_QUEUE_SIZE
  BY <1>1 DEF QueueTypeOK
<1>3. ASSUME NEW t \in Timers
      PROVE  /\ period[t] \in Nat
             /\ left[t] \in Off .. period[t]
             /\ quickest[t] \in 1 .. period[t]
             /\ quickest[t] \in Nat \ {0}
             /\ quickest[t] <= PERIOD_MOD - 1
  BY <1>1 DEF TimerInv, TimerTypeOK, DueWithinPeriod, QuickestIsShort, QueueTypeOK
<1>4. ASSUME NEW t \in Timers
      PROVE  /\ Fired(t) \in Nat
             /\ Fired(t) <= 1 + span \div quickest[t]
             /\ span \div quickest[t] \in Nat
  <2>1. span \div quickest[t] \in Nat
    BY <1>2, <1>3, DivFacts
  <2> QED BY <1>2, <1>3, <2>1, FiredBounds DEF Fired
<1> QED BY <1>1, <1>2, <1>3, <1>4

\* A span that reached its bound is long enough.
LEMMA BoundIsLong ==
  ASSUME TimerInv, QueueTypeOK, QuickestIsShort, ~halted, span = SpanBound
  PROVE  span \div quickest["epoch"] + span \div quickest["temp"]
           >= HANDLER_QUEUE_SIZE
<1> DEFINE y == PERIOD_MOD - 1
           x == SpanBound \div y
<1>1. SpanBound \in Nat /\ HANDLER_QUEUE_SIZE \in Nat /\ SpanBound <= SpanBound
  BY SpanTypes
<1>2. ASSUME NEW t \in Timers
      PROVE  x \in Nat /\ span \div quickest[t] \in Nat /\ x <= span \div quickest[t]
  <2>1. /\ quickest[t] \in Nat \ {0} /\ quickest[t] <= PERIOD_MOD - 1
        /\ PERIOD_MOD \in Nat \ {0} /\ span \div quickest[t] \in Nat
    BY SpanTypes, DefaultPeriodFacts
  <2>2. y \in Nat \ {0} /\ quickest[t] <= y
    BY <2>1
  <2> HIDE DEF y
  <2>3. x \in Nat
    BY <1>1, <2>2, DivFacts
  <2>4. x <= SpanBound \div quickest[t]
    BY <1>1, <2>1, <2>2, DivMonotone
  <2> QED BY <2>1, <2>3, <2>4
<1>3. "epoch" \in Timers /\ "temp" \in Timers
  BY DEF Timers
<1>4. HANDLER_QUEUE_SIZE <= 2 * x
  BY SpanAssumption
<1> HIDE DEF x
<1> QED BY <1>1, <1>2, <1>3, <1>4

\* Spans get longer and quickest periods shorter: what was enough stays it.
LEMMA DropStaysJustified ==
  ASSUME TimerInv, QueueTypeOK, SpanInv, ~halted, dropped' = dropped,
         span' \in Nat, span <= span',
         \A t \in Timers : quickest'[t] \in Nat \ {0} /\ quickest'[t] <= quickest[t]
  PROVE  DropNeedsLongSpan'
<1> SUFFICES ASSUME dropped
             PROVE  span' \div quickest'["epoch"] + span' \div quickest'["temp"]
                      >= HANDLER_QUEUE_SIZE
  BY DEF DropNeedsLongSpan
<1>1. span \div quickest["epoch"] + span \div quickest["temp"] >= HANDLER_QUEUE_SIZE
  BY DEF SpanInv, DropNeedsLongSpan
<1>2. HANDLER_QUEUE_SIZE \in Nat
  BY ThreadsAssumption
<1>3. ASSUME NEW t \in Timers
      PROVE  /\ span \div quickest[t] \in Nat /\ span' \div quickest'[t] \in Nat
             /\ span \div quickest[t] <= span' \div quickest'[t]
  <2>1. span \in Nat /\ quickest[t] \in Nat \ {0}
    BY SpanTypes DEF SpanInv
  <2>2. span \div quickest[t] \in Nat /\ span' \div quickest'[t] \in Nat
    BY <2>1, DivFacts
  <2>3. span \div quickest[t] <= span' \div quickest'[t]
    BY <2>1, DivMonotone
  <2> QED BY <2>2, <2>3
<1>4. "epoch" \in Timers /\ "temp" \in Timers
  BY DEF Timers
<1> QED BY <1>1, <1>2, <1>3, <1>4

\* A message that a timer sends.
LEMMA CallbackKeepsSpan ==
  ASSUME TimerInv, QueueTypeOK, SpanInv, NEW t \in Timers, timer_cb(t)
  PROVE  SpanInv'
<1>0. /\ ~halted /\ ~halted' /\ left[t] = 0 /\ msg_try_send(t)
      /\ left' = [left EXCEPT ![t] = period[t]] /\ period' = period
  BY DEF timer_cb, Running
<1>1. /\ span \in Nat /\ SpanBound \in Nat /\ HANDLER_QUEUE_SIZE \in Nat
      /\ queue \in Seq(Timers) /\ Len(queue) \in Nat
      /\ Len(queue) <= HANDLER_QUEUE_SIZE
      /\ \A u \in Timers : /\ period[u] \in Nat
                           /\ left[u] \in Off .. period[u]
                           /\ quickest[u] \in 1 .. period[u]
                           /\ Fired(u) \in Nat
                           /\ span \div quickest[u] \in Nat
  BY <1>0, SpanTypes DEF SpanInv
<1>2. /\ left'[t] = period[t]
      /\ \A u \in Timers \ {t} : left'[u] = left[u]
  BY <1>0 DEF TimerInv, TimerTypeOK
<1>3. CASE work = "receive"
  <2>1. /\ work' # "receive" /\ span' = 0 /\ quickest' = period
        /\ dropped' = FALSE /\ queue = <<>> /\ queue' = queue
    BY <1>0, <1>3 DEF msg_try_send, Begins, SpanInv, ReceiveEmpties
  <2>2. QuickestIsShort'
    BY <1>0, <1>1, <2>1 DEF QuickestIsShort
  <2>3. Fired(t)' >= 1 /\ Fired(t)' \in Nat
    <3>1. period[t] \in 1 .. period[t] /\ 0 \in Nat
      BY <1>1
    <3>2. FiredBy(0, period[t], period[t], period[t]) = 1 + 0 \div period[t]
      BY <1>1, <3>1, FiredNow
    <3>3. 0 \div period[t] \in Nat
      BY <1>1, <3>1, DivFacts
    <3> QED BY <1>0, <1>2, <2>1, <3>2, <3>3 DEF Fired
  <2>4. \A u \in Timers \ {t} : Fired(u)' \in Nat
    <3> SUFFICES ASSUME NEW u \in Timers \ {t} PROVE Fired(u)' \in Nat
      OBVIOUS
    <3>1. period[u] \in 1 .. period[u] /\ 0 \in Nat
      BY <1>1
    <3>2. FiredBy(0, period[u], left[u], period[u]) \in Nat
      BY <1>1, <3>1, FiredBounds
    <3> QED BY <1>0, <1>2, <2>1, <3>2 DEF Fired
  <2>5. TicksOfSpan'
    BY <2>1, <2>3, <2>4 DEF TicksOfSpan, Timers
  <2> QED BY <2>1, <2>2, <2>5 DEF SpanInv, ReceiveEmpties, DropNeedsLongSpan
<1>4. CASE work # "receive"
  <2>1. UNCHANGED <<work, span, quickest>>
    BY <1>0, <1>4 DEF msg_try_send
  <2>2. QuickestIsShort' /\ ReceiveEmpties'
    BY <1>0, <1>4, <2>1 DEF SpanInv, QuickestIsShort, ReceiveEmpties
  <2>3. /\ Fired(t)' \in Nat /\ Fired(t) + 1 <= Fired(t)'
        /\ Fired(t)' = 1 + span \div quickest[t]
        /\ \A u \in Timers \ {t} : Fired(u)' = Fired(u)
    <3>1. /\ Fired(t) = FiredBy(span, period[t], 0, quickest[t])
          /\ Fired(t)' = FiredBy(span, period[t], period[t], quickest[t])
          /\ \A u \in Timers \ {t} : Fired(u)' = Fired(u)
      BY <1>0, <1>2, <2>1 DEF Fired
    <3>2. FiredBy(span, period[t], period[t], quickest[t]) = 1 + span \div quickest[t]
      BY <1>1, FiredNow
    <3>3. FiredBy(span, period[t], 0, quickest[t]) + 1
            <= FiredBy(span, period[t], period[t], quickest[t])
      BY <1>1, FiredOnceMore
    <3>4. 1 + span \div quickest[t] \in Nat
      BY <1>1
    <3> QED BY <3>1, <3>2, <3>3, <3>4
  <2>4. Fired("epoch")' + Fired("temp")' >= Fired("epoch") + Fired("temp") + 1
    <3>1. Fired("epoch") \in Nat /\ Fired("temp") \in Nat
      BY <1>1 DEF Timers
    <3>2. CASE t = "epoch"
      <4>1. /\ Fired("epoch")' \in Nat /\ Fired("epoch") + 1 <= Fired("epoch")'
            /\ Fired("temp")' = Fired("temp")
        BY <2>3, <3>2 DEF Timers
      <4> QED BY <3>1, <4>1
    <3>3. CASE t = "temp"
      <4>1. /\ Fired("temp")' \in Nat /\ Fired("temp") + 1 <= Fired("temp")'
            /\ Fired("epoch")' = Fired("epoch")
        BY <2>3, <3>3 DEF Timers
      <4> QED BY <3>1, <4>1
    <3> QED BY <3>2, <3>3 DEF Timers
  <2>5. CASE HasRoom
    <3>1. queue' = Append(queue, t) /\ dropped' = dropped
      BY <1>0, <1>4, <2>5 DEF msg_try_send
    <3>2. Len(queue') = Len(queue) + 1
      BY <1>1, <3>1
    <3>3. TicksOfSpan'
      <4>1. ~halted /\ work # "receive"
        BY <1>0, <1>4
      <4>2. "epoch" \in Timers /\ "temp" \in Timers
        BY DEF Timers
      <4>3. Fired("epoch")' \in Nat /\ Fired("temp")' \in Nat
        BY <1>1, <2>3, <4>2
      <4>4. span < SpanBound => 1 + Len(queue) <= Fired("epoch") + Fired("temp")
        BY <4>1 DEF SpanInv, TicksOfSpan
      <4>5. /\ Fired("epoch") \in Nat /\ Fired("temp") \in Nat
            /\ Len(queue) \in Nat
        BY <1>1, <4>2
      <4>6. span < SpanBound => 1 + Len(queue') <= Fired("epoch")' + Fired("temp")'
        BY <2>4, <3>2, <4>3, <4>4, <4>5
      <4> QED BY <2>1, <4>6 DEF TicksOfSpan
    <3>4. DropNeedsLongSpan'
      BY <1>0, <2>1, <3>1 DEF SpanInv, DropNeedsLongSpan
    <3> QED BY <2>2, <3>3, <3>4 DEF SpanInv
  <2>6. CASE ~HasRoom
    <3>1. queue' = queue /\ Len(queue) = HANDLER_QUEUE_SIZE
      BY <1>0, <1>1, <1>4, <2>6 DEF msg_try_send, HasRoom
    <3>2. "epoch" \in Timers /\ "temp" \in Timers
      BY DEF Timers
    <3>3. /\ Fired("epoch")' \in Nat /\ Fired("temp")' \in Nat
          /\ span < SpanBound =>
               2 + HANDLER_QUEUE_SIZE <= Fired("epoch")' + Fired("temp")'
      <4>1. /\ Fired("epoch")' \in Nat /\ Fired("temp")' \in Nat
            /\ Fired("epoch") \in Nat /\ Fired("temp") \in Nat
        BY <1>1, <2>3, <3>2
      <4>2. span < SpanBound =>
              1 + HANDLER_QUEUE_SIZE <= Fired("epoch") + Fired("temp")
        BY <1>0, <1>4, <3>1 DEF SpanInv, TicksOfSpan
      <4> QED BY <1>1, <2>4, <4>1, <4>2
    <3>4. TicksOfSpan'
      BY <1>1, <2>1, <3>1, <3>3 DEF TicksOfSpan
    <3>5. DropNeedsLongSpan'
      <4>1. CASE span = SpanBound
        BY <1>0, <2>1, <4>1, BoundIsLong DEF SpanInv, DropNeedsLongSpan
      <4>2. CASE span # SpanBound
        <5>1. span < SpanBound
          BY <1>1, <4>2, SpanTypes, <1>0 DEF SpanInv
        <5>2. \A u \in Timers : Fired(u)' <= 1 + span \div quickest[u]
          <6>1. \A u \in Timers : Fired(u) <= 1 + span \div quickest[u]
            BY <1>0, SpanTypes DEF SpanInv
          <6>2. 1 + span \div quickest[t] <= 1 + span \div quickest[t]
            BY <1>1
          <6> QED BY <2>3, <6>1, <6>2
        <5>3. span \div quickest["epoch"] + span \div quickest["temp"]
                >= HANDLER_QUEUE_SIZE
          <6>1. /\ Fired("epoch")' <= 1 + span \div quickest["epoch"]
                /\ Fired("temp")' <= 1 + span \div quickest["temp"]
            BY <3>2, <5>2
          <6>2. /\ span \div quickest["epoch"] \in Nat
                /\ span \div quickest["temp"] \in Nat
                /\ HANDLER_QUEUE_SIZE \in Nat
            BY <1>1, <3>2, ThreadsAssumption
          <6>3. /\ Fired("epoch")' \in Nat /\ Fired("temp")' \in Nat
                /\ 2 + HANDLER_QUEUE_SIZE <= Fired("epoch")' + Fired("temp")'
            BY <3>3, <5>1
          <6> QED BY <6>1, <6>2, <6>3
        <5> QED BY <2>1, <5>3 DEF DropNeedsLongSpan
      <4> QED BY <4>1, <4>2
    <3> QED BY <2>2, <3>4, <3>5 DEF SpanInv
  <2> QED BY <2>5, <2>6
<1> QED BY <1>3, <1>4

LEMMA TickKeepsSpan ==
  ASSUME TimerInv, QueueTypeOK, SpanInv, Tick
  PROVE  SpanInv'
<1>0. /\ ~halted /\ \A t \in Timers : left[t] # 0
      /\ \A t \in Timers : left'[t] = IF left[t] = Off THEN Off ELSE left[t] - 1
      /\ span' = IF work = "receive" \/ span = SpanBound THEN span ELSE span + 1
      /\ UNCHANGED <<period, queue, work, halted, quickest, dropped>>
  BY DEF Tick, Running
<1>1. /\ span \in Nat /\ SpanBound \in Nat /\ span <= SpanBound
      /\ \A u \in Timers : /\ period[u] \in Nat
                           /\ left[u] \in Off .. period[u]
                           /\ quickest[u] \in 1 .. period[u]
  BY <1>0, SpanTypes DEF SpanInv
<1>2. QuickestIsShort' /\ ReceiveEmpties'
  BY <1>0 DEF SpanInv, QuickestIsShort, ReceiveEmpties
<1>3. DropNeedsLongSpan'
  <2>1. span' \in Nat /\ span <= span'
    BY <1>0, <1>1
  <2>2. \A t \in Timers : quickest'[t] \in Nat \ {0} /\ quickest'[t] <= quickest[t]
    BY <1>0, <1>1
  <2> QED BY <1>0, <2>1, <2>2, DropStaysJustified
<1>4. TicksOfSpan'
  <2> SUFFICES ASSUME work # "receive", span' < SpanBound PROVE TicksOfSpan'
    BY <1>0 DEF TicksOfSpan
  <2>1. span' = span + 1 /\ span < SpanBound
    BY <1>0, <1>1
  <2>2. ASSUME NEW t \in Timers PROVE Fired(t)' = Fired(t)
    <3>1. FiredBy(span + 1, period[t], IF left[t] = Off THEN Off ELSE left[t] - 1,
                  quickest[t]) = FiredBy(span, period[t], left[t], quickest[t])
      BY <1>0, <1>1, FiredWhileTicking
    <3> QED BY <1>0, <2>1, <3>1 DEF Fired
  <2>3. 1 + Len(queue) <= Fired("epoch") + Fired("temp")
    BY <1>0, <2>1 DEF SpanInv, TicksOfSpan
  <2> QED BY <1>0, <2>2, <2>3 DEF TicksOfSpan, Timers
<1> QED BY <1>2, <1>3, <1>4 DEF SpanInv

\* A timer that is set, for the first time or to a new period.
LEMMA StartKeepsSpan ==
  ASSUME TimerInv, QueueTypeOK, SpanInv, ~halted, ~halted', NEW t \in Timers,
         NEW n \in Nat \ {0}, n <= PERIOD_MOD - 1,
         left' = [left EXCEPT ![t] = n], period' = [period EXCEPT ![t] = n],
         quickest' = [quickest EXCEPT ![t] = Lesser(@, n)],
         UNCHANGED <<queue, work, span, dropped>>
  PROVE  SpanInv'
<1>1. /\ span \in Nat /\ span <= span
      /\ queue \in Seq(Timers) /\ Len(queue) \in Nat
      /\ \A u \in Timers : /\ period[u] \in Nat
                           /\ left[u] \in Off .. period[u]
                           /\ quickest[u] \in 1 .. period[u]
                           /\ Fired(u) \in Nat
  BY SpanTypes DEF SpanInv
<1> DEFINE m == Lesser(quickest[t], n)
<1>2. m \in 1 .. n /\ m <= quickest[t]
  BY <1>1 DEF Lesser
<1>3. /\ left'[t] = n /\ period'[t] = n /\ quickest'[t] = m
      /\ \A u \in Timers \ {t} : /\ left'[u] = left[u] /\ period'[u] = period[u]
                                 /\ quickest'[u] = quickest[u]
  BY DEF TimerInv, TimerTypeOK, QueueTypeOK
<1> HIDE DEF m
<1>4. QuickestIsShort' /\ ReceiveEmpties'
  BY <1>1, <1>2, <1>3 DEF SpanInv, QuickestIsShort, ReceiveEmpties
<1>5. DropNeedsLongSpan'
  <2>1. \A u \in Timers : quickest'[u] \in Nat \ {0} /\ quickest'[u] <= quickest[u]
    BY <1>1, <1>2, <1>3
  <2>2. span' \in Nat /\ span <= span'
    BY <1>1
  <2> QED BY <2>1, <2>2, DropStaysJustified
<1>6. TicksOfSpan'
  <2>1. Fired(t) <= Fired(t)' /\ Fired(t)' \in Nat
    <3>1. /\ period[t] \in Nat /\ left[t] \in Off .. period[t]
          /\ quickest[t] \in 1 .. period[t] /\ n \in Nat
      BY <1>1
    <3>2. FiredBy(span, period[t], left[t], quickest[t]) <= FiredBy(span, n, n, m)
      BY <1>1, <1>2, <3>1, FiredAfterStart
    <3>3. FiredBy(span, n, n, m) \in Nat
      <4>1. n \in Off .. n
        BY DEF Off
      <4> QED BY <1>1, <1>2, <3>1, <4>1, FiredBounds
    <3> QED BY <1>3, <3>2, <3>3 DEF Fired
  <2>2. \A u \in Timers \ {t} : Fired(u)' = Fired(u)
    BY <1>3 DEF Fired
  <2>3. "epoch" \in Timers /\ "temp" \in Timers
    BY DEF Timers
  <2>4. Fired("epoch") + Fired("temp") <= Fired("epoch")' + Fired("temp")'
    BY <1>1, <2>1, <2>2 DEF Timers
  <2>5. Fired("epoch")' \in Nat /\ Fired("temp")' \in Nat
    BY <1>1, <2>1, <2>2, <2>3
  <2>6. ~halted /\ work # "receive" /\ span < SpanBound =>
          1 + Len(queue) <= Fired("epoch") + Fired("temp")
    BY DEF SpanInv, TicksOfSpan
  <2>7. Fired("epoch") \in Nat /\ Fired("temp") \in Nat
    BY <1>1, <2>3
  <2> QED BY <1>1, <2>4, <2>5, <2>6, <2>7 DEF TicksOfSpan
<1> QED BY <1>4, <1>5, <1>6 DEF SpanInv

\* The handler is done with a message and takes the next.
LEMMA NextMessageKeepsSpan ==
  ASSUME TimerInv, QueueTypeOK, SpanInv, NextMessage, work # "receive",
         UNCHANGED <<left, period, halted, span, quickest, dropped>>
  PROVE  SpanInv'
<1>1. QuickestIsShort' /\ DropNeedsLongSpan'
  BY DEF SpanInv, QuickestIsShort, DropNeedsLongSpan
<1>2. CASE queue = <<>>
  BY <1>1, <1>2 DEF NextMessage, SpanInv, ReceiveEmpties, TicksOfSpan
<1>3. CASE queue # <<>>
  <2>1. work' # "receive" /\ queue' = Tail(queue)
    BY <1>3 DEF NextMessage, Begins
  <2>2. Len(queue') = Len(queue) - 1 /\ Len(queue) \in Nat
    BY <1>3, <2>1 DEF QueueTypeOK
  <2>3. TicksOfSpan'
    <3> SUFFICES ASSUME ~halted, span < SpanBound
                 PROVE  1 + Len(queue') <= Fired("epoch") + Fired("temp")
      BY DEF TicksOfSpan, Fired
    <3>1. 1 + Len(queue) <= Fired("epoch") + Fired("temp")
      BY DEF SpanInv, TicksOfSpan
    <3>2. Fired("epoch") \in Nat /\ Fired("temp") \in Nat
      BY SpanTypes DEF SpanInv, Timers
    <3> QED BY <2>2, <3>1, <3>2
  <2> QED BY <1>1, <2>1, <2>3 DEF SpanInv, ReceiveEmpties
<1> QED BY <1>2, <1>3

LEMMA SpanStepPreserves ==
  TimerInv /\ QueueTypeOK /\ SpanInv /\ [Next]_vars => SpanInv'
<1> SUFFICES ASSUME TimerInv, QueueTypeOK, SpanInv, [Next]_vars PROVE SpanInv'
  OBVIOUS
<1>1. ASSUME NEW t \in Timers, timer_cb(t) PROVE SpanInv'
  BY <1>1, CallbackKeepsSpan
<1>2. ASSUME NEW t \in Timers, StartTimer(t) PROVE SpanInv'
  <2> DEFINE n == period[t]
  <2>1. ~halted /\ ~halted'
    BY <1>2 DEF StartTimer, Running
  <2>2. n \in Nat \ {0} /\ n <= PERIOD_MOD - 1 /\ quickest[t] \in 1 .. n
    BY <2>1, DefaultPeriodFacts
       DEF TimerInv, TimerTypeOK, DueWithinPeriod, SpanInv, QuickestIsShort
  <2>3. /\ left' = [left EXCEPT ![t] = n] /\ period' = period
        /\ quickest' = quickest /\ UNCHANGED <<queue, work, span, dropped>>
    BY <1>2 DEF StartTimer
  <2>4. period' = [period EXCEPT ![t] = n]
    BY <2>3 DEF TimerInv, TimerTypeOK
  <2> HIDE DEF n
  <2>5. Lesser(quickest[t], n) = quickest[t]
    BY <2>2 DEF Lesser
  <2>6. quickest' = [quickest EXCEPT ![t] = Lesser(@, n)]
    BY <2>3, <2>5 DEF QueueTypeOK
  <2> QED BY <2>1, <2>2, <2>3, <2>4, <2>6, StartKeepsSpan
<1>3. CASE Tick
  BY <1>3, TickKeepsSpan
<1>4. CASE Finish \/ HandlerReadFails
  BY <1>4, NextMessageKeepsSpan DEF Finish, HandlerReadFails
<1>5. ASSUME NEW t \in Timers, NEW seconds \in Payloads, PutPeriod(t, seconds)
      PROVE  SpanInv'
  <2> DEFINE n == NewPeriod(seconds)
  <2>1. /\ left' = [left EXCEPT ![t] = n] /\ period' = [period EXCEPT ![t] = n]
        /\ quickest' = [quickest EXCEPT ![t] = Lesser(@, n)]
        /\ halted' = (n < XTIMER_BACKOFF) /\ ~halted
        /\ UNCHANGED <<queue, work, span, dropped>>
    BY <1>5 DEF PutPeriod, set_period, Serving, Running
  <2>2. n \in 0 .. PERIOD_MOD - 1 /\ PERIOD_MOD \in Nat /\ XTIMER_BACKOFF \in Nat \ {0}
    BY NewPeriodFacts, ThreadsAssumption
  <2> HIDE DEF n
  <2>3. CASE halted'
    BY <2>1, <2>3 DEF SpanInv, QuickestIsShort, ReceiveEmpties, TicksOfSpan,
                      DropNeedsLongSpan
  <2>4. CASE ~halted'
    <3>1. ~(n < XTIMER_BACKOFF)
      BY <2>1, <2>4, Zenon
    <3>2. n \in Nat \ {0} /\ n <= PERIOD_MOD - 1
      BY <2>2, <3>1
    <3> QED BY <2>1, <2>4, <3>2, StartKeepsSpan
  <2> QED BY <2>3, <2>4
<1>6. CASE Reset
  BY <1>6, SpanReset
<1>7. CASE \/ HandlerSamples \/ Toggle \/ UNCHANGED vars
           \/ \E u \in Users : OtherSamples(u) \/ OtherReadFails(u)
  <2>1. /\ UNCHANGED <<left, period, queue, halted, span, quickest, dropped>>
        /\ work' = work \/ (work # "receive" /\ work' # "receive")
    BY <1>7 DEF HandlerSamples, Toggle, OtherSamples, OtherReadFails, vars, threadVars
  <2> QED BY <2>1 DEF SpanInv, QuickestIsShort, ReceiveEmpties, TicksOfSpan,
                      DropNeedsLongSpan, Fired
<1> QED BY <1>1, <1>2, <1>3, <1>4, <1>5, <1>6, <1>7 DEF Next

-----------------------------------------------------------------------------
IInv == PowerInv /\ TimerInv /\ QueueTypeOK /\ SpanInv

LEMMA Invariance == Spec => []IInv
<1>1. Init => IInv
  BY PowerInit_, TimerInit_, QueueInit, SpanInit DEF Init, IInv
<1>2. IInv /\ [Next]_vars => IInv'
  BY PowerStepPreserves, TimerStepPreserves, QueueStepPreserves, SpanStepPreserves
     DEF IInv
<1> QED BY <1>1, <1>2, PTL DEF Spec

(***************************************************************************)
(* The node keeps to its types; in particular the handler's queue never    *)
(* holds more than its size, and no period exceeds its range.              *)
(***************************************************************************)
THEOREM TypeCorrect == Spec => []TypeOK
<1>1. IInv => TypeOK
  BY DEF IInv, PowerInv, TimerInv, TimerTypeOK, QueueTypeOK, TypeOK
<1> QED BY Invariance, <1>1, PTL

(***************************************************************************)
(* A user that samples alone has power throughout, for any number of users *)
(* of the switch (util.c:44).                                              *)
(***************************************************************************)
THEOREM AloneHasPower == Spec => []AloneIsSteady
<1>1. IInv => AloneIsSteady
  BY DEF IInv, PowerInv
<1> QED BY Invariance, <1>1, PTL

(***************************************************************************)
(* A tick is lost to a full queue only when the handler was busy so long   *)
(* that the timers, at their shortest periods, were due often enough to    *)
(* fill it, for every queue size and whatever periods were put meanwhile   *)
(* (main.c:92).                                                            *)
(***************************************************************************)
THEOREM DropIsJustified == Spec => []DropNeedsLongSpan
<1>1. IInv => DropNeedsLongSpan
  BY DEF IInv, SpanInv
<1> QED BY Invariance, <1>1, PTL

(***************************************************************************)
(* A new period is in force at once, and no running node is without its    *)
(* timers, whatever was put (util.c:256).                                  *)
(***************************************************************************)
THEOREM PeriodIsInForce == Spec => []NextTickWithinPeriod
<1>1. IInv => NextTickWithinPeriod
  <2> SUFFICES ASSUME IInv, Serving, NEW t \in Timers
               PROVE  left[t] \in 0 .. period[t] /\ period[t] > 0
    BY DEF NextTickWithinPeriod
  <2>1. left[t] \in Off .. period[t] /\ left[t] # Off /\ period[t] > 0
    BY DEF IInv, TimerInv, DueWithinPeriod, Serving, Running
  <2>2. period[t] \in Nat
    BY DEF IInv, TimerInv, TimerTypeOK
  <2> QED BY <2>1, <2>2 DEF Off
<1> QED BY Invariance, <1>1, PTL

=============================================================================
