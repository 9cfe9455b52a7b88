--------------------------- MODULE UpstreamProofs ---------------------------
(***************************************************************************)
(* Upstream's invariants for every number of requests in flight and of     *)
(* retransmissions.                                                        *)
(***************************************************************************)
EXTENDS Upstream, TLAPS

Cause(x) == server[x].worker = "raised" \/ server[x].early

(***************************************************************************)
(* What the transaction looks like at each stage of its worker.  The lock  *)
(* shows in the two lines on a request that is acknowledged before it is   *)
(* answered: while the worker runs, neither the timer nor the listener     *)
(* does it, and before that there is no timer.                             *)
(***************************************************************************)
Stages(s) ==
  /\ s.worker \in {"none", "starting"} => s.response = None /\ s.timer = "off"
  /\ s.worker = "running" => s.response \in {None, "bare"}
  /\ s.worker = "done" => s.response \in {"ACK", "CON"} /\ s.acknowledged
  /\ s.worker = "none" => ~s.acknowledged /\ ~s.early
  /\ s.worker \in {"starting", "running"} /\ s.acknowledged => s.early
  /\ s.completed => s.acknowledged
  /\ s.response = None => s.executed = 0
  /\ s.response # None => s.executed = 1

WorkerStages == \A x \in Requests : Stages(server[x])

ListenerWaitsForKnown == \A x \in Requests : listener = x => Known(x)

IInv ==
  /\ TypeOK
  /\ WorkerStages
  /\ ListenerWaitsForKnown
  /\ EmptyNeedsCause
  /\ ListenerDeathNeedsCause

LEMMA InitEstablishes == Init => IInv
<1> SUFFICES ASSUME Init PROVE IInv
  OBVIOUS
<1> DEFINE s == [NewTransaction EXCEPT !.worker = "none"]
           c == [caller |-> "idle", queue |-> None, acknowledged |-> FALSE,
                 retry |-> Unstarted, receiver |-> "listening", heard |-> None]
<1>1. s \in Server /\ Stages(s)
  <2>1. 0 \in 0 .. 2
    OBVIOUS
  <2> QED BY <2>1, UpstreamAssumption DEF NewTransaction, Server, Stages
<1>a. -1 \in -3 .. MAX_RETRANSMIT + 1
  BY UpstreamAssumption
<1>b. c \in Client
  BY <1>a DEF Client, Unstarted, Gone
<1>2. /\ client = [x \in Requests |-> c] /\ server = [x \in Requests |-> s]
      /\ listener = None /\ up = {} /\ down = [x \in Requests |-> {}]
  BY DEF Init
<1> HIDE DEF s, c
<1>3. TypeOK
  BY <1>1, <1>b, <1>2 DEF TypeOK
<1> QED
  BY <1>1, <1>2, <1>3, UpstreamAssumption
     DEF IInv, WorkerStages, ListenerWaitsForKnown, EmptyNeedsCause,
         ListenerDeathNeedsCause

(***************************************************************************)
(* The steps of the client change nothing of the server, and put nothing   *)
(* in the network that goes down.                                          *)
(***************************************************************************)
LEMMA ClientStepPreserves ==
  ASSUME IInv, client' \in [Requests -> Client], up' \subseteq Requests,
         UNCHANGED <<server, listener, down>>
  PROVE  IInv'
BY DEF IInv, TypeOK, WorkerStages, ListenerWaitsForKnown, Known,
       EmptyNeedsCause, ListenerDeathNeedsCause

(***************************************************************************)
(* A step of the server on one transaction: enough that the transaction    *)
(* stays in its stages, keeps its cause, and has one where it says empty.  *)
(***************************************************************************)
LEMMA ServerStepPreserves ==
  ASSUME IInv, NEW x \in Requests,
         server' \in [Requests -> Server],
         down' \in [Requests -> SUBSET {"empty", "ACK", "CON"}],
         \A y \in Requests \ {x} : server'[y] = server[y] /\ down'[y] = down[y],
         UNCHANGED <<client, up>>,
         Stages(server'[x]),
         Known(x) => Known(x)',
         Cause(x) => Cause(x)',
         "empty" \in down'[x] => "empty" \in down[x] \/ Cause(x)',
         listener' \in {None, listener}
  PROVE  IInv'
<1>1. TypeOK'
  BY DEF IInv, TypeOK
<1>2. WorkerStages'
  BY DEF IInv, WorkerStages
<1>3. ListenerWaitsForKnown'
  BY UpstreamAssumption DEF IInv, ListenerWaitsForKnown, Known
<1>4. \A y \in Requests : Cause(y) => Cause(y)'
  BY DEF Cause
<1>5. EmptyNeedsCause'
  BY <1>4 DEF IInv, EmptyNeedsCause, Cause
<1>6. ListenerDeathNeedsCause'
  BY <1>4, UpstreamAssumption DEF IInv, ListenerDeathNeedsCause, Cause
<1> QED BY <1>1, <1>2, <1>3, <1>5, <1>6 DEF IInv

(***************************************************************************)
(* _send_ack, by the listener for a duplicate or by the timer: under the   *)
(* lock, a request that is not acknowledged has a cause for being so now.  *)
(***************************************************************************)
LEMMA AcknowledgedFacts ==
  ASSUME IInv, NEW x \in Requests, Known(x), ~Locked(x)
  PROVE  /\ Acknowledged(x) \in Server
         /\ Stages(Acknowledged(x))
         /\ Acknowledged(x).worker = server[x].worker
         /\ Cause(x) => Acknowledged(x).worker = "raised" \/ Acknowledged(x).early
         /\ ~server[x].acknowledged =>
              Acknowledged(x).worker = "raised" \/ Acknowledged(x).early
<1>1. server[x] \in Server /\ Stages(server[x])
  BY DEF IInv, TypeOK, WorkerStages
<1>2. server[x].worker \in {"starting", "done", "raised"}
  BY <1>1 DEF Known, Locked, Server
<1> QED BY <1>1, <1>2 DEF Acknowledged, Server, Stages, Cause

LEMMA StepPreserves == IInv /\ [Next]_vars => IInv'
<1> SUFFICES ASSUME IInv, [Next]_vars PROVE IInv'
  OBVIOUS
<1>0. /\ client \in [Requests -> Client] /\ server \in [Requests -> Server]
      /\ up \subseteq Requests
      /\ down \in [Requests -> SUBSET {"empty", "ACK", "CON"}]
      /\ \A x \in Requests : Stages(server[x])
      /\ MAX_RETRANSMIT \in Nat
  BY UpstreamAssumption DEF IInv, TypeOK, WorkerStages
<1>1. ASSUME NEW x \in Requests, Call(x) \/ ClientStep(x) PROVE IInv'
  <2>1. client[x] \in Client
    BY <1>0
  <2>2. client' \in [Requests -> Client] /\ up' \subseteq Requests
    <3>1. CASE Call(x)
      BY <1>0, <2>1, <3>1 DEF Call, Client
    <3>0. {-2, -3} \subseteq -3 .. MAX_RETRANSMIT + 1
      BY <1>0
    <3>2. CASE _start_retransmission(x)
      BY <1>0, <2>1, <3>2 DEF _start_retransmission, Client, Gone
    <3>3. CASE Return(x)
      BY <1>0, <2>1, <3>3 DEF Return, Client
    <3>4. CASE Retransmit(x)
      BY <1>0, <2>1, <3>4 DEF Retransmit, Retrying, Exhausted, Client, Gone
    <3>5. CASE LeaveLoop(x)
      BY <1>0, <2>1, <3>0, <3>5 DEF LeaveLoop, Retrying, Reported, Put, Client, Gone, Leaving
    <3>6. CASE ClearStop(x)
      BY <1>0, <2>1, <3>6 DEF ClearStop, Client, Gone
    <3>7. CASE SetStop(x)
      BY <1>0, <2>1, <3>7 DEF SetStop, AfterHearing, Client
    <3>8. CASE Callback(x)
      BY <1>0, <2>1, <3>8 DEF Callback, Put, Client
    <3> QED BY <1>1, <3>1, <3>2, <3>3, <3>4, <3>5, <3>6, <3>7, <3>8 DEF ClientStep
  <2>3. UNCHANGED <<server, listener, down>>
    BY <1>1 DEF ClientStep, Call, _start_retransmission, Return, Retransmit,
                LeaveLoop, ClearStop, SetStop, Callback
  <2> QED BY <2>2, <2>3, ClientStepPreserves
<1>2. ASSUME NEW x \in Requests, NEW kind \in {"empty", "ACK", "CON"}, Receive(x, kind)
      PROVE IInv'
  <2>1. client[x] \in Client
    BY <1>0
  <2>2. client' \in [Requests -> Client]
    BY <1>0, <1>2, <2>1 DEF Receive, AfterHearing, Client
  <2> QED BY <1>0, <1>2, <2>2, ClientStepPreserves DEF Receive
<1>3. ASSUME NEW x \in Requests, TakeRequest(x) PROVE IInv'
  <2> DEFINE s == [NewTransaction EXCEPT !.executed = server[x].executed]
  <2>1. server[x].worker = "none" /\ server[x] \in Server /\ Stages(server[x])
    BY <1>0, <1>3 DEF TakeRequest, Known
  <2>2. s \in Server /\ Stages(s) /\ s.worker = "starting" /\ ~Cause(x)
    BY <2>1, UpstreamAssumption DEF NewTransaction, Server, Stages, Cause
  <2>3. server' = [server EXCEPT ![x] = s]
    BY <1>3 DEF TakeRequest
  <2> HIDE DEF s
  <2>4. server'[x] = s
    BY <1>0, <2>3
  <2> QED BY <1>0, <1>3, <2>1, <2>2, <2>3, <2>4, ServerStepPreserves
          DEF TakeRequest, Known
<1>4. ASSUME NEW x \in Requests, ResendResponse(x) PROVE IInv'
  BY <1>0, <1>4, ServerStepPreserves DEF ResendResponse, Answer, Cause, Known
<1>5. ASSUME NEW x \in Requests, ResendUntyped(x) PROVE IInv'
  <2>1. server[x] \in Server /\ Stages(server[x])
    BY <1>0
  <2>2. Cause(x)
    BY <1>5, <2>1, UpstreamAssumption
       DEF ResendUntyped, Duplicate, Known, Stages, Server, Cause
  <2> QED BY <1>5, <2>2, UpstreamAssumption
          DEF ResendUntyped, IInv, TypeOK, WorkerStages, ListenerWaitsForKnown,
              Known, EmptyNeedsCause, ListenerDeathNeedsCause, Cause
<1>6. ASSUME NEW x \in Requests, WaitForLock(x) PROVE IInv'
  BY <1>6, UpstreamAssumption
     DEF WaitForLock, Duplicate, IInv, TypeOK, WorkerStages, ListenerWaitsForKnown,
         Known, EmptyNeedsCause, ListenerDeathNeedsCause
<1>7. ASSUME NEW x \in Requests, AcknowledgeDuplicate(x) PROVE IInv'
  <2>1. Known(x) /\ ~Locked(x)
    BY <1>7 DEF AcknowledgeDuplicate, IInv, ListenerWaitsForKnown
  <2>2. server'[x] = Acknowledged(x) /\ server' = [server EXCEPT ![x] = Acknowledged(x)]
    BY <1>0, <1>7 DEF AcknowledgeDuplicate
  <2>3. AnswerEmpty(x) /\ UNCHANGED <<client, up>> /\ listener' = None
    BY <1>7 DEF AcknowledgeDuplicate
  <2> QED BY <1>0, <2>1, <2>2, <2>3, AcknowledgedFacts, ServerStepPreserves
          DEF AnswerEmpty, Answer, Known, Cause
<1>8. ASSUME NEW x \in Requests, TimerFires(x) PROVE IInv'
  <2> DEFINE s == [server[x] EXCEPT !.timer = "fired"]
  <2>1. server[x] \in Server /\ Stages(server[x]) /\ server[x].timer = "set"
    BY <1>0, <1>8 DEF TimerFires
  <2>2. /\ s \in Server /\ Stages(s) /\ s.worker = server[x].worker
        /\ s.early = server[x].early
    BY <2>1 DEF Server, Stages
  <2>3. server' = [server EXCEPT ![x] = s] /\ server'[x] = s
    BY <1>0, <1>8 DEF TimerFires
  <2> HIDE DEF s
  <2> QED BY <1>0, <1>8, <2>2, <2>3, ServerStepPreserves DEF TimerFires, Cause, Known
<1>9. ASSUME NEW x \in Requests, TimerAcknowledges(x) PROVE IInv'
  <2> DEFINE s == [Acknowledged(x) EXCEPT !.timer = "off"]
  <2>1. server[x] \in Server /\ Stages(server[x]) /\ server[x].timer = "fired"
    BY <1>0, <1>9 DEF TimerAcknowledges
  <2>2. Known(x) /\ ~Locked(x)
    BY <1>9, <2>1 DEF TimerAcknowledges, Known, Stages
  <2>3. /\ s \in Server /\ Stages(s) /\ s.worker = Acknowledged(x).worker
        /\ s.early = Acknowledged(x).early
    BY <2>2, AcknowledgedFacts DEF Server, Stages
  <2>4. server' = [server EXCEPT ![x] = s] /\ server'[x] = s
    BY <1>0, <1>9 DEF TimerAcknowledges
  <2>5. AnswerEmpty(x) /\ UNCHANGED <<client, listener, up>>
    BY <1>9 DEF TimerAcknowledges
  <2> HIDE DEF s
  <2> QED BY <1>0, <2>2, <2>3, <2>4, <2>5, AcknowledgedFacts, ServerStepPreserves
          DEF AnswerEmpty, Answer, Known, Cause
<1>10. ASSUME NEW x \in Requests, WorkerStep(x) PROVE IInv'
  <2>0. server[x] \in Server /\ Stages(server[x])
    BY <1>0
  <2>1. CASE WorkerStarts(x)
    <3> DEFINE s == [server[x] EXCEPT !.worker = "running", !.timer = "set"]
    <3>1. s \in Server /\ Stages(s) /\ s.worker = "running" /\ s.early = server[x].early
      BY <2>0, <2>1 DEF WorkerStarts, Server, Stages
    <3>2. server' = [server EXCEPT ![x] = s] /\ server'[x] = s
      BY <1>0, <2>1 DEF WorkerStarts
    <3>3. server[x].worker = "starting" /\ UNCHANGED <<client, listener, up, down>>
      BY <2>1 DEF WorkerStarts
    <3> HIDE DEF s
    <3> QED BY <1>0, <3>1, <3>2, <3>3, ServerStepPreserves DEF Cause, Known
  <2>2. CASE WorkerHandles(x)
    <3> DEFINE s == [server[x] EXCEPT !.response = "bare", !.executed = @ + 1]
    <3>0. /\ server[x].worker = "running" /\ server[x].response = None
          /\ server[x].executed + 1 = 1
      BY <2>0, <2>2 DEF WorkerHandles, Stages
    <3>1. s = [server[x] EXCEPT !.response = "bare", !.executed = 1]
      BY <3>0
    <3> HIDE DEF s
    <3>c. 1 \in 0 .. 2
      OBVIOUS
    <3>a. s \in Server /\ s.worker = "running" /\ s.early = server[x].early
      BY <2>0, <3>0, <3>1, <3>c DEF Server
    <3>b. Stages(s)
      BY <2>0, <3>0, <3>1, UpstreamAssumption DEF Server, Stages
    <3>2. server' = [server EXCEPT ![x] = s] /\ server'[x] = s
      BY <1>0, <2>2 DEF WorkerHandles, s
    <3>3. UNCHANGED <<client, listener, up, down>>
      BY <2>2 DEF WorkerHandles
    <3> QED BY <1>0, <3>0, <3>a, <3>b, <3>2, <3>3, ServerStepPreserves DEF Cause, Known
  <2>3. CASE WorkerRaises(x)
    <3> DEFINE s == [server[x] EXCEPT !.worker = "raised"]
    <3>1. s \in Server /\ Stages(s) /\ s.worker = "raised"
      BY <2>0, <2>3 DEF WorkerRaises, Server, Stages
    <3>2. server' = [server EXCEPT ![x] = s] /\ server'[x] = s
      BY <1>0, <2>3 DEF WorkerRaises
    <3> HIDE DEF s
    <3> QED BY <1>0, <2>3, <3>1, <3>2, ServerStepPreserves DEF WorkerRaises, Cause, Known
  <2>4. CASE WorkerResponds(x)
    <3> DEFINE kind == IF server[x].acknowledged THEN "CON" ELSE "ACK"
               s == [server[x] EXCEPT
                       !.worker = "done",
                       !.timer = IF @ = "set" THEN "off" ELSE @,
                       !.response = kind,
                       !.completed = @ \/ kind = "ACK",
                       !.acknowledged = TRUE]
    <3>1. /\ s \in Server /\ Stages(s) /\ s.worker = "done" /\ s.early = server[x].early
          /\ server[x].worker = "running"
      BY <2>0, <2>4, UpstreamAssumption DEF WorkerResponds, Server, Stages
    <3>2. /\ server' = [server EXCEPT ![x] = s] /\ server'[x] = s
          /\ down' = [down EXCEPT ![x] = @ \cup {kind}]
      BY <1>0, <2>4 DEF WorkerResponds, Answer
    <3>3. kind \in {"ACK", "CON"} /\ UNCHANGED <<client, listener, up>>
      BY <2>4 DEF WorkerResponds
    <3> HIDE DEF s, kind
    <3> QED BY <1>0, <3>1, <3>2, <3>3, ServerStepPreserves DEF Cause, Known
  <2> QED BY <1>10, <2>1, <2>2, <2>3, <2>4 DEF WorkerStep
<1>11. ASSUME Lose PROVE IInv'
  <2>1. /\ up' \subseteq up
        /\ down' \in [Requests -> SUBSET {"empty", "ACK", "CON"}]
        /\ \A x \in Requests : down'[x] \subseteq down[x]
    BY <1>0, <1>11 DEF Lose
  <2> QED BY <1>11, <2>1
          DEF Lose, IInv, TypeOK, WorkerStages, ListenerWaitsForKnown, Known,
              EmptyNeedsCause, ListenerDeathNeedsCause
<1>12. CASE UNCHANGED vars
  BY <1>0, <1>12, ClientStepPreserves DEF vars
<1> QED
  BY <1>1, <1>2, <1>3, <1>4, <1>5, <1>6, <1>7, <1>8, <1>9, <1>10, <1>11, <1>12 DEF Next

LEMMA Invariance == Spec => []IInv
BY InitEstablishes, StepPreserves, PTL DEF Spec

(***************************************************************************)
(* Client and server keep to their types.                                  *)
(***************************************************************************)
THEOREM TypeCorrect == Spec => []TypeOK
<1>1. IInv => TypeOK
  BY DEF IInv
<1> QED BY Invariance, <1>1, PTL

(***************************************************************************)
(* However often a request comes in, and whenever its duplicates do, its   *)
(* handler runs at most once (messagelayer.py:76).                         *)
(***************************************************************************)
THEOREM HandledOnce == Spec => []ExecutedOnce
<1>1. IInv => ExecutedOnce
  <2> SUFFICES ASSUME IInv, NEW x \in Requests PROVE server[x].executed <= 1
    BY DEF ExecutedOnce
  <2>1. Stages(server[x])
    BY DEF IInv, WorkerStages
  <2>2. server[x].executed \in {0, 1}
    BY <2>1 DEF Stages
  <2> QED BY <2>2
<1> QED BY Invariance, <1>1, PTL

(***************************************************************************)
(* The lock keeps the separate timer from acknowledging a request that is  *)
(* only slow: an acknowledgement without an answer means a handler that    *)
(* raised or a duplicate that overtook the worker (server/coap.py:200).    *)
(***************************************************************************)
THEOREM NoEmptyWithoutCause == Spec => []EmptyNeedsCause
<1>1. IInv => EmptyNeedsCause
  BY DEF IInv
<1> QED BY Invariance, <1>1, PTL

(***************************************************************************)
(* Nothing but a duplicate of such a request ends the listener             *)
(* (server/coap.py:158).                                                   *)
(***************************************************************************)
THEOREM NoDeathWithoutCause == Spec => []ListenerDeathNeedsCause
<1>1. IInv => ListenerDeathNeedsCause
  BY DEF IInv
<1> QED BY Invariance, <1>1, PTL

=============================================================================
