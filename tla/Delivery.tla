------------------------------- MODULE Delivery -------------------------------
(***************************************************************************)
(* A reading on its way from a node's backlog to the database: exchanges   *)
(* of the node, the proxy, and the calls of the server.  The server's      *)
(* listener is one thread, so it takes each forwarded request at most      *)
(* once; what it does for one may end long after the proxy gave up on it.  *)
(***************************************************************************)
EXTENDS ForwardProxy

CONSTANT Readings

ASSUME DeliveryAssumption == None \notin Readings

VARIABLES
  carries,  \* per exchange: the reading it posts
  settled,  \* readings the node has deleted, told that the server has them
  stored,   \* per reading: its rows in the database
  serves    \* per forwarding thread: where the server is with its request

deliveryVars == <<carries, settled, stored, serves>>
allVars == <<vars, deliveryVars>>

DeliveryInit ==
  /\ Init
  /\ carries = [x \in Exchanges |-> None]
  /\ settled = {}
  /\ stored = [r \in Readings |-> 0]
  /\ serves = [t \in Threads |-> "idle"]

(***************************************************************************)
(* A reading is posted again until the node is told that it arrived, never *)
(* twice at the same time.                                                 *)
(***************************************************************************)
PostReading(x, p, r) ==
  /\ r \notin settled
  /\ \A y \in open : carries[y] # r
  /\ BeginOn(x, p)
  /\ carries' = [carries EXCEPT ![x] = r]
  /\ UNCHANGED <<settled, stored, serves>>

SettlesOnZero == {"created", "exists", "empty"}

\* send_reading: 201 with a payload, or 406.  An empty answer gives 0.
Settling == {"created", "exists"}

HearAnswer(x, m) ==
  /\ HearStep(x, m)
  /\ settled' = IF m.code \in Settling THEN settled \cup {carries[x]} ELSE settled
  /\ UNCHANGED <<carries, stored, serves>>

ForwardReading(t) ==
  /\ Forward(t)
  /\ serves' = [serves EXCEPT ![t] = "asked"]
  /\ UNCHANGED <<carries, settled, stored>>

-----------------------------------------------------------------------------
\* The payload is that of the transaction, whichever datagram t came with.
Payload(t) == carries[Own(t).exchange]

CountRows(t) ==
  /\ serves[t] = "asked"
  /\ serves' = [serves EXCEPT ![t] = IF stored[Payload(t)] = 0 THEN "insert" ELSE "exists"]
  /\ UNCHANGED <<vars, carries, settled, stored>>

InsertRow(t) ==
  /\ serves[t] = "insert"
  /\ stored' = [stored EXCEPT ![Payload(t)] = @ + 1]
  /\ serves' = [serves EXCEPT ![t] = "created"]
  /\ UNCHANGED <<vars, carries, settled>>

\* The proxy's client returns the server's code or, at any time, a failure.
ReturnsFromServer(t, code) ==
  /\ code \in Settling => serves[t] = code
  /\ Returns(t, code)
  /\ UNCHANGED deliveryVars

-----------------------------------------------------------------------------
DeliveryNext ==
  \/ \E x \in Exchanges, p \in Ports, r \in Readings : PostReading(x, p, r)
  \/ \E x \in Exchanges, m \in down : HearAnswer(x, m)
  \/ (ClientStep \/ ProxyStep) /\ UNCHANGED deliveryVars
  \/ \E t \in Threads :
       \/ ForwardReading(t)
       \/ CountRows(t)
       \/ InsertRow(t)
       \/ \E code \in Codes \ {"empty"} : ReturnsFromServer(t, code)

DeliverySpec == DeliveryInit /\ [][DeliveryNext]_allVars

-----------------------------------------------------------------------------
DeliveryTypeOK ==
  /\ TypeOK
  /\ carries \in [Exchanges -> Readings \cup {None}]
  /\ settled \subseteq Readings
  /\ stored \in [Readings -> Nat]
  /\ serves \in [Threads -> {"idle", "asked", "insert", "created", "exists"}]

(***************************************************************************)
(* "assume already received" (util.c:219): a reading the node deletes is   *)
(* in the database, through every loss, retry, late acknowledgement and    *)
(* race of the proxy's threads, unless a port is used again too early.     *)
(***************************************************************************)
SettledIsStored == \A r \in settled : stored[r] > 0

=============================================================================
