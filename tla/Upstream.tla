------------------------------ MODULE Upstream ------------------------------
(***************************************************************************)
(* A forwarded request between the proxy's CoAP client and the CoAP server.*)
(*                                                                         *)
(* Client: the caller sends, starts a retransmission thread and waits for  *)
(* the first thing put in a queue; a receiver thread pairs datagrams with  *)
(* the request.  The caller sets no timeout.                               *)
(*                                                                         *)
(* Server: one listener takes the datagrams, finds duplicates, and starts  *)
(* a worker per request.  The worker holds the transaction's lock from its *)
(* first to its last step; the separate timer and the listener, when it    *)
(* acknowledges a duplicate, need that lock.                               *)
(*                                                                         *)
(* The network loses, delays, reorders and duplicates: a datagram stays    *)
(* deliverable until it is lost.  The server's retransmissions of a CON    *)
(* response are duplicates of it; their acknowledgement, which ends them,  *)
(* is left out, and so is the purge: a transaction outlives its request.   *)
(***************************************************************************)
EXTENDS Integers

CONSTANTS Requests, MAX_RETRANSMIT, None

ASSUME UpstreamAssumption ==
  /\ Requests \cap {None, "dead"} = {}
  /\ None \notin {"dead", "bare", "ACK", "CON"}
  /\ MAX_RETRANSMIT \in Nat

VARIABLES
  client,    \* per request: the client's threads, see Client
  server,    \* per request: the transaction and its worker, see Server
  listener,  \* None, the request whose lock it waits for, or "dead"
  up,        \* requests with a datagram under way to the server
  down       \* per request: datagrams under way to its client

vars == <<client, server, listener, up, down>>

(***************************************************************************)
(* retry is the count of the retransmission thread, or one of these: it is *)
(* not started, has left its loop, or has set retransmit_stop to None.     *)
(* The receiver goes from "listening" over "stopping" the retransmission   *)
(* to "joining" its thread.                                                *)
(***************************************************************************)
Unstarted == -1
Leaving == -2
Gone == -3

Client ==
  [caller : {"idle", "waiting", "returned"},
   queue : {None, "response", "nothing"},     \* what was put there first
   acknowledged : BOOLEAN,                    \* request.acknowledged
   retry : Gone .. MAX_RETRANSMIT + 1,
   receiver : {"listening", "stopping", "joining", "dead"},
   heard : {None, "empty", "ACK", "CON"}]     \* what the receiver works on

(***************************************************************************)
(* A response is "bare" from its creation until it has a type.             *)
(***************************************************************************)
Server ==
  [worker : {"none", "starting", "running", "done", "raised"},
   timer : {"off", "set", "fired"},
   acknowledged : BOOLEAN,                    \* request.acknowledged
   completed : BOOLEAN,
   response : {None, "bare", "ACK", "CON"},
   executed : 0 .. 2,                         \* history: runs of the handler
   early : BOOLEAN]                           \* history: a duplicate was
                                              \* acknowledged before the worker

NewTransaction ==
  [worker |-> "starting", timer |-> "off", acknowledged |-> FALSE,
   completed |-> FALSE, response |-> None, executed |-> 0, early |-> FALSE]

Init ==
  /\ client = [x \in Requests |->
       [caller |-> "idle", queue |-> None, acknowledged |-> FALSE,
        retry |-> Unstarted, receiver |-> "listening", heard |-> None]]
  /\ server = [x \in Requests |-> [NewTransaction EXCEPT !.worker = "none"]]
  /\ listener = None
  /\ up = {}
  /\ down = [x \in Requests |-> {}]

-----------------------------------------------------------------------------
(* The caller. *)

Put(q, item) == IF q = None THEN item ELSE q

Call(x) ==
  /\ client[x].caller = "idle"
  /\ client' = [client EXCEPT ![x].caller = "waiting"]
  /\ up' = up \cup {x}
  /\ UNCHANGED <<server, listener, down>>

_start_retransmission(x) ==
  /\ client[x].caller = "waiting"
  /\ client[x].retry = Unstarted
  /\ client' = [client EXCEPT ![x].retry = 0]
  /\ UNCHANGED <<server, listener, up, down>>

\* queue.get returns what was put first; client.stop ends the threads.
Return(x) ==
  /\ client[x].caller = "waiting"
  /\ client[x].retry # Unstarted
  /\ client[x].queue # None
  /\ client' = [client EXCEPT ![x].caller = "returned"]
  /\ UNCHANGED <<server, listener, up, down>>

-----------------------------------------------------------------------------
(* The retransmission thread. *)

Retrying(x) ==
  /\ client[x].caller = "waiting"
  /\ client[x].retry >= 0

NeverExhausted(x) == FALSE

Exhausted(x) == client[x].retry > MAX_RETRANSMIT

Retransmit(x) ==
  /\ Retrying(x)
  /\ ~Exhausted(x)
  /\ ~client[x].acknowledged
  /\ client' = [client EXCEPT ![x].retry = @ + 1]
  /\ up' = IF client[x].retry + 1 < MAX_RETRANSMIT THEN up \cup {x} ELSE up
  /\ UNCHANGED <<server, listener, down>>

\* Giving up is reported, but only when nothing was heard.
GivesUpSilently(x) == client[x].queue

Reported(x) ==
  IF client[x].acknowledged THEN client[x].queue ELSE Put(client[x].queue, "nothing")

LeaveLoop(x) ==
  /\ Retrying(x)
  /\ client[x].acknowledged \/ Exhausted(x)
  /\ client' = [client EXCEPT ![x].retry = Leaving, ![x].queue = Reported(x)]
  /\ UNCHANGED <<server, listener, up, down>>

ClearStop(x) ==
  /\ client[x].caller = "waiting"
  /\ client[x].retry = Leaving
  /\ client' = [client EXCEPT ![x].retry = Gone]
  /\ UNCHANGED <<server, listener, up, down>>

-----------------------------------------------------------------------------
(***************************************************************************)
(* The receiver.  It looks whether retransmit_stop is None, and uses it    *)
(* afterwards: if the other thread cleared it in between, the exception    *)
(* ends the receiver.                                                      *)
(***************************************************************************)
AfterHearing(kind) == IF kind = "empty" THEN "listening" ELSE "joining"

Receive(x, kind) ==
  /\ client[x].caller = "waiting"
  /\ client[x].receiver = "listening"
  /\ kind \in down[x]
  /\ client' = [client EXCEPT
       ![x].acknowledged = TRUE,
       ![x].heard = kind,
       ![x].receiver = IF client[x].retry \in {Unstarted, Gone}
                       THEN AfterHearing(kind) ELSE "stopping"]
  /\ UNCHANGED <<server, listener, up, down>>

SetStop(x) ==
  /\ client[x].caller = "waiting"
  /\ client[x].receiver = "stopping"
  /\ client' = [client EXCEPT ![x].receiver =
       IF client[x].retry = Gone THEN "dead" ELSE AfterHearing(client[x].heard)]
  /\ UNCHANGED <<server, listener, up, down>>

\* _wait_for_retransmit_thread, and the callback with the response.
Callback(x) ==
  /\ client[x].caller = "waiting"
  /\ client[x].receiver = "joining"
  /\ client[x].retry \in {Unstarted, Gone}
  /\ client' = [client EXCEPT ![x].receiver = "listening",
                              ![x].queue = Put(@, "response")]
  /\ UNCHANGED <<server, listener, up, down>>

-----------------------------------------------------------------------------
(* The server. *)

Answer(x, kind) == down' = [down EXCEPT ![x] = @ \cup {kind}]

NoLock(x) == FALSE

LostByException(x) == server[x].worker \in {"running", "raised"}

Locked(x) == server[x].worker = "running"

\* The body of _send_ack, under the lock: the transaction after it, and
\* the datagram, if the request was not acknowledged before.
Acknowledged(x) ==
  [server[x] EXCEPT
     !.acknowledged = TRUE,
     !.completed = @ \/ ~server[x].acknowledged,
     !.early = @ \/ (~server[x].acknowledged /\ server[x].worker = "starting")]

AnswerEmpty(x) ==
  IF server[x].acknowledged THEN UNCHANGED down ELSE Answer(x, "empty")

NeverKnown(x) == FALSE

Known(x) == server[x].worker # "none"

TakeRequest(x) ==
  /\ listener = None
  /\ x \in up
  /\ ~Known(x)
  /\ server' = [server EXCEPT ![x] = [NewTransaction EXCEPT !.executed = server[x].executed]]
  /\ UNCHANGED <<client, listener, up, down>>

(***************************************************************************)
(* A duplicate of a completed transaction gets the response there is.  One *)
(* without a type cannot be serialised, and the exception is not among     *)
(* those the listener catches.  Any other duplicate is acknowledged.       *)
(***************************************************************************)
Duplicate(x) == listener = None /\ x \in up /\ Known(x)

ResendResponse(x) ==
  /\ Duplicate(x)
  /\ server[x].completed
  /\ server[x].response \in {"ACK", "CON"}
  /\ Answer(x, server[x].response)
  /\ UNCHANGED <<client, server, listener, up>>

ResendUntyped(x) ==
  /\ Duplicate(x)
  /\ server[x].completed
  /\ server[x].response = "bare"
  /\ listener' = "dead"
  /\ UNCHANGED <<client, server, up, down>>

WaitForLock(x) ==
  /\ Duplicate(x)
  /\ ~server[x].completed
  /\ listener' = x
  /\ UNCHANGED <<client, server, up, down>>

AcknowledgeDuplicate(x) ==
  /\ listener = x
  /\ ~Locked(x)
  /\ server' = [server EXCEPT ![x] = Acknowledged(x)]
  /\ AnswerEmpty(x)
  /\ listener' = None
  /\ UNCHANGED <<client, up>>

(***************************************************************************)
(* The separate timer waits for the lock like everybody else.              *)
(***************************************************************************)
TimerFires(x) ==
  /\ server[x].timer = "set"
  /\ server' = [server EXCEPT ![x].timer = "fired"]
  /\ UNCHANGED <<client, listener, up, down>>

TimerAcknowledges(x) ==
  /\ server[x].timer = "fired"
  /\ ~Locked(x)
  /\ server' = [server EXCEPT ![x] = [Acknowledged(x) EXCEPT !.timer = "off"]]
  /\ AnswerEmpty(x)
  /\ UNCHANGED <<client, listener, up>>

(***************************************************************************)
(* The worker.  A handler that raises gives the lock back and leaves the   *)
(* timer running.                                                          *)
(***************************************************************************)
WorkerStarts(x) ==
  /\ server[x].worker = "starting"
  /\ server' = [server EXCEPT ![x].worker = "running", ![x].timer = "set"]
  /\ UNCHANGED <<client, listener, up, down>>

WorkerHandles(x) ==
  /\ server[x].worker = "running"
  /\ server[x].response = None
  /\ server' = [server EXCEPT ![x].response = "bare", ![x].executed = @ + 1]
  /\ UNCHANGED <<client, listener, up, down>>

WorkerRaises(x) ==
  /\ server[x].worker = "running"
  /\ server[x].response = "bare"
  /\ server' = [server EXCEPT ![x].worker = "raised"]
  /\ UNCHANGED <<client, listener, up, down>>

\* A timer that has fired cannot be cancelled any more.
WorkerResponds(x) ==
  /\ server[x].worker = "running"
  /\ server[x].response = "bare"
  /\ LET kind == IF server[x].acknowledged THEN "CON" ELSE "ACK"
     IN  /\ server' = [server EXCEPT
              ![x].worker = "done",
              ![x].timer = IF @ = "set" THEN "off" ELSE @,
              ![x].response = kind,
              ![x].completed = @ \/ kind = "ACK",
              ![x].acknowledged = TRUE]
         /\ Answer(x, kind)
  /\ UNCHANGED <<client, listener, up>>

-----------------------------------------------------------------------------
Lose ==
  /\ \/ \E x \in up : up' = up \ {x} /\ UNCHANGED down
     \/ \E x \in Requests : \E kind \in down[x] :
          down' = [down EXCEPT ![x] = @ \ {kind}] /\ UNCHANGED up
  /\ UNCHANGED <<client, server, listener>>

ClientStep(x) ==
  \/ _start_retransmission(x) \/ Return(x)
  \/ Retransmit(x) \/ LeaveLoop(x) \/ ClearStop(x)
  \/ SetStop(x) \/ Callback(x)

WorkerStep(x) ==
  WorkerStarts(x) \/ WorkerHandles(x) \/ WorkerRaises(x) \/ WorkerResponds(x)

Next ==
  \E x \in Requests :
    \/ Call(x)
    \/ ClientStep(x)
    \/ \E kind \in {"empty", "ACK", "CON"} : Receive(x, kind)
    \/ TakeRequest(x) \/ ResendResponse(x) \/ ResendUntyped(x)
    \/ WaitForLock(x) \/ AcknowledgeDuplicate(x)
    \/ TimerFires(x) \/ TimerAcknowledges(x)
    \/ WorkerStep(x)
    \/ Lose

Spec == Init /\ [][Next]_vars

(***************************************************************************)
(* Python runs the threads; handlers end.  Nothing is promised of the      *)
(* network.                                                                *)
(***************************************************************************)
FairSpec ==
  /\ Spec
  /\ \A x \in Requests :
       /\ WF_vars(_start_retransmission(x)) /\ WF_vars(Return(x))
       /\ WF_vars(Retransmit(x) \/ LeaveLoop(x) \/ ClearStop(x))
       /\ WF_vars(SetStop(x) \/ Callback(x))
       /\ WF_vars(WorkerStarts(x) \/ WorkerHandles(x))
       /\ WF_vars(WorkerRaises(x) \/ WorkerResponds(x))
       /\ WF_vars(AcknowledgeDuplicate(x))

-----------------------------------------------------------------------------
(***************************************************************************)
(* "Listen for incoming messages", until stopped (server/coap.py:122).     *)
(***************************************************************************)
ListenerSurvives == listener # "dead"

TypeOK ==
  /\ client \in [Requests -> Client]
  /\ server \in [Requests -> Server]
  /\ listener \in Requests \cup {None, "dead"}
  /\ up \subseteq Requests
  /\ down \in [Requests -> SUBSET {"empty", "ACK", "CON"}]

(***************************************************************************)
(* "Handle duplicates" (messagelayer.py:61): however often a request comes *)
(* in, its handler runs at most once.                                      *)
(***************************************************************************)
ExecutedOnce == \A x \in Requests : server[x].executed <= 1

(***************************************************************************)
(* Because the worker holds the lock throughout, the server acknowledges a *)
(* request without answering it only when the handler raised, or when a    *)
(* duplicate came before the worker had the lock: however slow the handler *)
(* is, the separate timer acknowledges nothing (server/coap.py:200).       *)
(***************************************************************************)
EmptyNeedsCause ==
  \A x \in Requests :
    "empty" \in down[x] => server[x].worker = "raised" \/ server[x].early

(***************************************************************************)
(* The listener ends only on a duplicate of a request that was             *)
(* acknowledged without an answer.                                         *)
(***************************************************************************)
ListenerDeathNeedsCause ==
  listener = "dead" =>
    \E x \in Requests : server[x].worker = "raised" \/ server[x].early

(***************************************************************************)
(* The proxy's call comes back, with a response or with nothing, though it *)
(* sets no timeout (forwardLayer.py:113), unless an acknowledgement was    *)
(* heard that no answer followed, or the receiver died between its look at *)
(* retransmit_stop and its use (messagelayer.py:131, 183).                 *)
(***************************************************************************)
CallReturns ==
  \A x \in Requests :
    client[x].caller = "waiting" ~>
      \/ client[x].caller = "returned"
      \/ client[x].heard = "empty"
      \/ client[x].receiver = "dead"

(***************************************************************************)
(* The listener, which serves every client, waits for a worker's lock when *)
(* a duplicate comes too soon; it is free again when the handler ends.     *)
(***************************************************************************)
ListenerComesBack == \A x \in Requests : listener = x ~> listener # x

=============================================================================
