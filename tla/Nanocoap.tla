------------------------------ MODULE Nanocoap ------------------------------
(***************************************************************************)
(* The node's side of a CoAP exchange, nanocoap_request, and the network   *)
(* between node and proxy.  Each exchange opens a socket on a port chosen  *)
(* at random, sends its request up to five times, and takes the first      *)
(* datagram that reaches the socket as its answer; then the socket is      *)
(* closed.  All requests of the program have message id 1 and no token, so *)
(* the proxy can tell two exchanges apart by their ports only.  A port     *)
(* here is a port of one node: it stands for the node's address as well.   *)
(*                                                                         *)
(* The network loses, delays, reorders and duplicates: a datagram stays    *)
(* deliverable until it is lost.                                           *)
(***************************************************************************)
EXTENDS Integers, FiniteSets

CONSTANTS Exchanges, Ports, None

ASSUME NanocoapAssumption == None \notin Exchanges \cup Ports

VARIABLES
  port,    \* per exchange: the port of its socket, None before it begins
  open,    \* exchanges whose socket is open
  heard,   \* per exchange: what nanocoap_request returned, None before
  up,      \* exchanges with a datagram under way to the proxy
  down     \* answers under way to the node

clientVars == <<port, open, heard, up, down>>

\* Code 0, an empty acknowledgement or an empty message, is "empty".
Codes == {"empty", "created", "exists", "unavailable"}

\* "for" is the exchange the proxy believes it answers.
Datagrams == [to : Ports, code : Codes, for : Exchanges]

ClientInit ==
  /\ port = [x \in Exchanges |-> None]
  /\ open = {}
  /\ heard = [x \in Exchanges |-> None]
  /\ up = {}
  /\ down = {}

Closes(x, result) ==
  /\ open' = open \ {x}
  /\ heard' = [heard EXCEPT ![x] = result]

\* The firmware is built without gnrc_sock_check_reuse: any port will do.
Begin(x, p) ==
  /\ port[x] = None
  /\ port' = [port EXCEPT ![x] = p]
  /\ open' = open \cup {x}
  /\ up' = up \cup {x}
  /\ UNCHANGED <<heard, down>>

Resend(x) ==
  /\ x \in open
  /\ up' = up \cup {x}
  /\ UNCHANGED <<port, open, heard, down>>

(***************************************************************************)
(* The socket takes datagrams of the proxy only; of these, any: neither    *)
(* type nor message id is looked at.                                       *)
(***************************************************************************)
Hear(x, m) ==
  /\ x \in open
  /\ m.to = port[x]
  /\ Closes(x, m.code)
  /\ UNCHANGED <<port, up, down>>

GiveUp(x) ==
  /\ x \in open
  /\ Closes(x, "timeout")
  /\ UNCHANGED <<port, up, down>>

Lose ==
  /\ \/ \E x \in up : up' = up \ {x} /\ UNCHANGED down
     \/ \E m \in down : down' = down \ {m} /\ UNCHANGED up
  /\ UNCHANGED <<port, open, heard>>

Send(m) == down' = down \cup {m}

ClientTypeOK ==
  /\ port \in [Exchanges -> Ports \cup {None}]
  /\ open \subseteq Exchanges
  /\ heard \in [Exchanges -> Codes \cup {"timeout", None}]
  /\ up \subseteq Exchanges
  /\ down \subseteq Datagrams

=============================================================================
