----------------------------- MODULE NodeThreads -----------------------------
(***************************************************************************)
(* The threads and timers of a sensor node (main.c).  Two timers re-arm    *)
(* themselves in their callbacks, which run in the timer interrupt and     *)
(* send the handler thread a message, EPOCH or TEMP, without waiting and   *)
(* without a look at the result; the handler's queue is bounded.  The      *)
(* resource /period changes a period.  A TEMP message samples the sensor   *)
(* through the switch it shares with the resource /temp and the shell, and *)
(* then posts; how long posting and asking for the time take is left open. *)
(*                                                                         *)
(* Time passes in ticks.  A callback runs when its timer is due, before    *)
(* time goes on.                                                           *)
(***************************************************************************)
EXTENDS Integers, Sequences, SensorPower

CONSTANTS HANDLER_QUEUE_SIZE,
          DEFAULT_PERIOD,       \* per timer, at boot
          US_PER_SEC,           \* ticks in the unit of a /period payload
          PERIOD_MOD,           \* 2^32, the range of a period
          XTIMER_BACKOFF,       \* a shorter timer is not set but shot
          Payloads,             \* what strtoul makes of a /period payload
          SpanBound             \* the span is counted up to here

Timers == {"epoch", "temp"}

ASSUME ThreadsAssumption ==
  /\ HANDLER_QUEUE_SIZE \in Nat
  /\ PERIOD_MOD \in Nat
  /\ XTIMER_BACKOFF \in Nat \ {0}
  /\ US_PER_SEC \in Nat
  /\ DEFAULT_PERIOD \in [Timers -> XTIMER_BACKOFF .. PERIOD_MOD - 1]
  /\ Payloads \subseteq Nat
  /\ SpanBound \in Nat
  /\ {"handler", "coap"} \subseteq Users

\* In a span that reaches its bound the queue can fill, whatever the periods.
ASSUME SpanAssumption ==
  HANDLER_QUEUE_SIZE <= 2 * (SpanBound \div (PERIOD_MOD - 1))

VARIABLES
  left,      \* per timer: ticks until it is due, Off before it is first set
  period,    \* per timer: epoch_period, temp_period
  queue,     \* the handler's message queue
  work,      \* the handler: "receive", or what it does about its message
  halted,    \* after a hard fault
  (* History variables, read by no guard. *)
  span,      \* ticks since the handler was last in msg_receive, see SpanBound
  quickest,  \* per timer: its shortest period in that span
  dropped    \* a message found the queue full in that span

threadVars == <<left, period, queue, work, halted, span, quickest, dropped>>
vars == <<powerVars, threadVars>>

Off == -1

Init ==
  /\ PowerInit
  /\ left = [t \in Timers |-> Off]
  /\ period = DEFAULT_PERIOD
  /\ queue = <<>>
  /\ work = "receive"
  /\ halted = FALSE
  /\ span = 0
  /\ quickest = DEFAULT_PERIOD
  /\ dropped = FALSE

Running == ~halted

-----------------------------------------------------------------------------
(***************************************************************************)
(* main sets xt_get and then xt_put; the shell and the CoAP server start   *)
(* when both are set.                                                      *)
(***************************************************************************)
Serving == Running /\ \A t \in Timers : left[t] # Off

StartTimer(t) ==
  /\ Running
  /\ left[t] = Off
  /\ t = "temp" => left["epoch"] # Off
  /\ left' = [left EXCEPT ![t] = period[t]]
  /\ UNCHANGED <<powerVars, period, queue, work, halted, span, quickest, dropped>>

Tick ==
  /\ Running
  /\ \E t \in Timers : left[t] # Off
  /\ \A t \in Timers : left[t] # 0
  /\ left' = [t \in Timers |-> IF left[t] = Off THEN Off ELSE left[t] - 1]
  /\ span' = IF work = "receive" \/ span = SpanBound THEN span ELSE span + 1
  /\ UNCHANGED <<powerVars, period, queue, work, halted, quickest, dropped>>

-----------------------------------------------------------------------------
Begins(message) == IF message = "epoch" THEN "ask" ELSE "sample"

KeepsOneFree == Len(queue) < HANDLER_QUEUE_SIZE - 1

HasRoom == Len(queue) < HANDLER_QUEUE_SIZE

(***************************************************************************)
(* msg_try_send from the interrupt: a handler in msg_receive is handed the *)
(* message, for a busy one it is queued if there is room.                  *)
(***************************************************************************)
msg_try_send(message) ==
  CASE work = "receive" ->
         /\ work' = Begins(message)
         /\ span' = 0
         /\ quickest' = period
         /\ dropped' = FALSE
         /\ UNCHANGED queue
    [] work # "receive" /\ HasRoom ->
         /\ queue' = Append(queue, message)
         /\ UNCHANGED <<work, span, quickest, dropped>>
    [] OTHER ->
         /\ dropped' = TRUE
         /\ UNCHANGED <<queue, work, span, quickest>>

timer_cb(t) ==
  /\ Running
  /\ left[t] = 0
  /\ msg_try_send(t)
  /\ left' = [left EXCEPT ![t] = period[t]]
  /\ UNCHANGED <<powerVars, period, halted>>

(***************************************************************************)
(* handler_thread: the loop takes the next message or waits.               *)
(***************************************************************************)
NextMessage ==
  IF queue = <<>>
  THEN work' = "receive" /\ UNCHANGED queue
  ELSE work' = Begins(Head(queue)) /\ queue' = Tail(queue)

\* update_epoch, or the posts of get_reading, are over.
Finish ==
  /\ Running
  /\ work \in {"ask", "post"}
  /\ NextMessage
  /\ UNCHANGED <<powerVars, left, period, halted, span, quickest, dropped>>

\* A user of the sensor that is not the handler, on behalf of a request.
Visits(u) == u # "handler" /\ Serving

HandlerSamples ==
  /\ Running
  /\ work = "sample"
  /\ \/ SwitchOn("handler") /\ UNCHANGED <<work, queue>>
     \/ ReadSensor("handler") /\ UNCHANGED <<work, queue>>
     \/ SwitchOff("handler") /\ work' = "post" /\ UNCHANGED queue
  /\ UNCHANGED <<left, period, halted, span, quickest, dropped>>

HandlerReadFails ==
  /\ Running
  /\ work = "sample"
  /\ ReadFails("handler")
  /\ NextMessage
  /\ UNCHANGED <<left, period, halted, span, quickest, dropped>>

OtherSamples(u) ==
  /\ Visits(u)
  /\ SwitchOn(u) \/ ReadSensor(u) \/ SwitchOff(u)
  /\ UNCHANGED threadVars

OtherReadFails(u) ==
  /\ Visits(u)
  /\ ReadFails(u)
  /\ UNCHANGED threadVars

Toggle ==
  /\ Serving
  /\ toggle_sensor
  /\ UNCHANGED threadVars

-----------------------------------------------------------------------------
(***************************************************************************)
(* PUT /period: the payload, in seconds and modulo the range of a period,  *)
(* becomes the period and the timer starts anew.  A period below the       *)
(* backoff shoots the callback at once, which sets the timer, which shoots *)
(* the callback, until the stack is used up.  What is not a number counts  *)
(* as 0.                                                                   *)
(***************************************************************************)
NeverWraps(seconds) == seconds * US_PER_SEC

NewPeriod(seconds) == (seconds * US_PER_SEC) % PERIOD_MOD

Lesser(a, b) == IF a < b THEN a ELSE b

KeepsRunning(t, new) ==
  /\ period' = [period EXCEPT ![t] = new]
  /\ quickest' = [quickest EXCEPT ![t] = Lesser(@, new)]
  /\ UNCHANGED left

set_period(t, new) ==
  /\ period' = [period EXCEPT ![t] = new]
  /\ left' = [left EXCEPT ![t] = new]
  /\ quickest' = [quickest EXCEPT ![t] = Lesser(@, new)]

PutPeriod(t, seconds) ==
  /\ Serving
  /\ sampling["coap"] = "no"
  /\ set_period(t, NewPeriod(seconds))
  /\ halted' = (NewPeriod(seconds) < XTIMER_BACKOFF)
  /\ UNCHANGED <<powerVars, queue, work, span, dropped>>

Reset ==
  /\ PowerReset
  /\ left' = [t \in Timers |-> Off]
  /\ period' = DEFAULT_PERIOD
  /\ queue' = <<>>
  /\ work' = "receive"
  /\ halted' = FALSE
  /\ span' = 0
  /\ quickest' = DEFAULT_PERIOD
  /\ dropped' = FALSE

Next ==
  \/ \E t \in Timers : StartTimer(t) \/ timer_cb(t)
  \/ Tick
  \/ Finish
  \/ HandlerSamples
  \/ HandlerReadFails
  \/ \E u \in Users : OtherSamples(u) \/ OtherReadFails(u)
  \/ Toggle
  \/ \E t \in Timers, seconds \in Payloads : PutPeriod(t, seconds)
  \/ Reset

Spec == Init /\ [][Next]_vars

(***************************************************************************)
(* Time passes, interrupts are served, and the handler runs: its requests  *)
(* end, as nanocoap_request gives up.  Nothing is promised of the users    *)
(* that come by request.                                                   *)
(***************************************************************************)
Fairness ==
  /\ \A t \in Timers : WF_vars(StartTimer(t)) /\ WF_vars(timer_cb(t))
  /\ WF_vars(Tick)
  /\ WF_vars(Finish)
  /\ WF_vars(HandlerSamples \/ HandlerReadFails)

FairSpec == Spec /\ Fairness

-----------------------------------------------------------------------------
TypeOK ==
  /\ PowerTypeOK
  /\ left \in [Timers -> Off .. PERIOD_MOD - 1]
  /\ period \in [Timers -> 0 .. PERIOD_MOD - 1]
  /\ queue \in Seq(Timers)
  /\ Len(queue) <= HANDLER_QUEUE_SIZE
  /\ work \in {"receive", "ask", "sample", "post"}
  /\ halted \in BOOLEAN
  /\ span \in 0 .. SpanBound
  /\ quickest \in [Timers -> 0 .. PERIOD_MOD - 1]
  /\ dropped \in BOOLEAN

(***************************************************************************)
(* "use queue to prevent message collisions and lost messages"             *)
(* (main.c:92): a message is dropped only when the handler has been busy   *)
(* for so long without a pause that the timers, at their shortest periods, *)
(* fell due often enough to fill the queue.  (The message it was busy with *)
(* first and the one dropped are one each of the extra ticks at the ends.) *)
(***************************************************************************)
DropNeedsLongSpan ==
  dropped /\ ~halted =>
    span \div quickest["epoch"] + span \div quickest["temp"] >= HANDLER_QUEUE_SIZE

(***************************************************************************)
(* A period that was put is in force at once: no timer is further from its *)
(* next tick than its present period, however long the old one was, and no *)
(* running node is without a timer (util.c:256, main.c:71).                *)
(***************************************************************************)
NextTickWithinPeriod ==
  Serving => \A t \in Timers : left[t] \in 0 .. period[t] /\ period[t] > 0

(***************************************************************************)
(* Whoever leaves the sensor on, it is switched off again with the next    *)
(* good sample: if from some time on nobody toggles, resets or puts a      *)
(* period, the node runs and drops no tick, and the sensor does not fail   *)
(* with power on throughout, then the sensor is off again and again, with  *)
(* any number of users cutting each other's power (util.c:50,              *)
(* coap_handler.c:51).  Where ticks are dropped TEMP may starve: a timer   *)
(* in step with it can take every place of the queue first.                *)
(***************************************************************************)
Faulty ==
  \/ \E u \in Users : steady[u] /\ powered /\ ReadFails(u)
  \/ Toggle
  \/ Reset
  \/ \E t \in Timers, seconds \in Payloads : PutPeriod(t, seconds)

SwitchedOffAgain ==
  <>[](Serving /\ ~dropped) /\ <>[][~Faulty]_vars => []<>~powered

=============================================================================
