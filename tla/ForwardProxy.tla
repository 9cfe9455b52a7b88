----------------------------- MODULE ForwardProxy -----------------------------
(***************************************************************************)
(* The CoAP forward proxy: one thread per datagram, a table of             *)
(* transactions by port (the host and the message id do not vary), a timer *)
(* per forwarded request that acknowledges it when the answer is late, and *)
(* a purge of old transactions.  No lock is held anywhere on the way.      *)
(*                                                                         *)
(* A transaction bears the name of the thread that created it.  Threads    *)
(* are used once.  A response that is sent as a CON is sent again by a     *)
(* retransmission thread; the network's duplicates stand for that.         *)
(* Whether a request is acknowledged is read and set in one step: a thread *)
(* in between would add a second datagram to those that may be heard.      *)
(***************************************************************************)
EXTENDS Nanocoap

CONSTANTS Threads,    \* datagrams the proxy handles
          PortReuse   \* when the node may draw a port again, see BeginOn

ASSUME ProxyAssumption ==
  /\ None \notin Threads \cup Codes \cup {"ACK", "CON"}
  /\ PortReuse \in {"forgotten", "quiet", "any"}

VARIABLES
  table,     \* per port: the transaction, _transactions
  pc,        \* per thread: what it does next
  datagram,  \* per thread: the exchange its datagram belongs to
  at,        \* per thread: the transaction it works on
  timer,     \* per thread: its separate timer is running
  tx         \* per transaction: the fields of the object, see New

proxyVars == <<table, pc, datagram, at, timer, tx>>
vars == <<clientVars, proxyVars>>

\* response: None before there is one, "empty" before it has a code.
New(x) == [exchange |-> x, acknowledged |-> FALSE, completed |-> FALSE,
           duplicated |-> FALSE, response |-> None, type |-> None,
           separate_timer |-> None]

NoTransaction == New(None)

ProxyInit ==
  /\ table = [p \in Ports |-> None]
  /\ pc = [t \in Threads |-> "free"]
  /\ datagram = [t \in Threads |-> None]
  /\ at = [t \in Threads |-> None]
  /\ timer = [t \in Threads |-> FALSE]
  /\ tx = [t \in Threads |-> NoTransaction]

-----------------------------------------------------------------------------
Goto(t, label) == pc' = [pc EXCEPT ![t] = label]

Key(t) == port[datagram[t]]

\* The transaction a thread works on, and an update of its fields.
Own(t) == tx[at[t]]
Becomes(t, record) == tx' = [tx EXCEPT ![at[t]] = record]

Arrive(t, x) ==
  /\ pc[t] = "free"
  /\ x \in up
  /\ datagram' = [datagram EXCEPT ![t] = x]
  /\ Goto(t, "lookup")
  /\ UNCHANGED <<clientVars, table, at, timer, tx>>

(***************************************************************************)
(* MessageLayer.receive_request: look the key up, and then either put a    *)
(* new transaction there, or mark the one there and take the one there,    *)
(* whatever happened in between.  A transaction purged since is a          *)
(* KeyError, the thread's end.                                             *)
(***************************************************************************)
Lookup(t) ==
  /\ pc[t] = "lookup"
  /\ Goto(t, IF table[Key(t)] = None THEN "insert" ELSE "mark")
  /\ UNCHANGED <<clientVars, table, datagram, at, timer, tx>>

Insert(t) ==
  /\ pc[t] = "insert"
  /\ tx' = [tx EXCEPT ![t] = New(datagram[t])]
  /\ table' = [table EXCEPT ![Key(t)] = t]
  /\ at' = [at EXCEPT ![t] = t]
  /\ Goto(t, "check")
  /\ UNCHANGED <<clientVars, datagram, timer>>

Mark(t) ==
  /\ pc[t] = "mark"
  /\ IF table[Key(t)] = None
     THEN Goto(t, "done") /\ UNCHANGED tx
     ELSE /\ Goto(t, "take")
          /\ tx' = [tx EXCEPT ![table[Key(t)]].duplicated = TRUE]
  /\ UNCHANGED <<clientVars, table, datagram, at, timer>>

Take(t) ==
  /\ pc[t] = "take"
  /\ at' = [at EXCEPT ![t] = table[Key(t)]]
  /\ Goto(t, IF table[Key(t)] = None THEN "done" ELSE "check")
  /\ UNCHANGED <<clientVars, table, datagram, timer, tx>>

(***************************************************************************)
(* The two conditions of receive_datagram.  The flags are those of the     *)
(* transaction, which every thread on it reads and writes, and the second  *)
(* condition reads them again.                                             *)
(***************************************************************************)
Check(t) ==
  /\ pc[t] = "check"
  /\ Goto(t, IF Own(t).duplicated /\ Own(t).completed THEN "resend" ELSE "recheck")
  /\ UNCHANGED <<clientVars, table, datagram, at, timer, tx>>

Recheck(t) ==
  /\ pc[t] = "recheck"
  /\ Goto(t, IF Own(t).duplicated /\ ~Own(t).completed THEN "ack" ELSE "start")
  /\ UNCHANGED <<clientVars, table, datagram, at, timer, tx>>

(***************************************************************************)
(* send_empty of an acknowledgement, sent unless the request is            *)
(* acknowledged already; _send_ack of a duplicate and of the timer.        *)
(***************************************************************************)
Answers(t, code) == [to |-> port[Own(t).exchange], code |-> code,
                     for |-> Own(t).exchange]

SendAck(t) ==
  IF Own(t).acknowledged
  THEN UNCHANGED <<tx, clientVars>>
  ELSE /\ Becomes(t, [Own(t) EXCEPT !.acknowledged = TRUE, !.completed = TRUE])
       /\ Send(Answers(t, "empty"))
       /\ UNCHANGED <<port, open, heard, up>>

AckDuplicate(t) ==
  /\ pc[t] = "ack"
  /\ SendAck(t)
  /\ Goto(t, "done")
  /\ UNCHANGED <<table, datagram, at, timer>>

TimerFires(t) ==
  /\ timer[t]
  /\ timer' = [timer EXCEPT ![t] = FALSE]
  /\ SendAck(t)
  /\ UNCHANGED <<table, pc, datagram, at>>

(***************************************************************************)
(* MessageLayer.send_response and the datagram: the type, once chosen,     *)
(* stays; a response goes out with the code it has by now.                 *)
(***************************************************************************)
SendResponse(t, r) ==
  LET piggyback == r.type = None /\ ~r.acknowledged
  IN  /\ Becomes(t, [r EXCEPT
           !.type = CASE piggyback -> "ACK" [] r.type = None /\ ~piggyback -> "CON"
                      [] OTHER -> @,
           !.completed = @ \/ piggyback,
           !.acknowledged = TRUE])
      /\ Send(Answers(t, r.response))
      /\ UNCHANGED <<port, open, heard, up>>

ResendsAnything(t) ==
  /\ pc[t] = "resend"
  /\ SendResponse(t, Own(t))
  /\ Goto(t, "done")
  /\ UNCHANGED <<table, datagram, at, timer>>

\* A duplicate of a completed transaction; without a response it raises.
ResendResponse(t) ==
  /\ pc[t] = "resend"
  /\ IF Own(t).response = None
     THEN UNCHANGED <<tx, clientVars>>
     ELSE SendResponse(t, Own(t))
  /\ Goto(t, "done")
  /\ UNCHANGED <<table, datagram, at, timer>>

(***************************************************************************)
(* Forwarding: start the timer, then a new, empty response and the client. *)
(***************************************************************************)
NoTimer(t) ==
  /\ pc[t] = "start"
  /\ Becomes(t, [Own(t) EXCEPT !.separate_timer = t])
  /\ Goto(t, "prepare")
  /\ UNCHANGED <<clientVars, table, datagram, at, timer>>

StartTimer(t) ==
  /\ pc[t] = "start"
  /\ timer' = [timer EXCEPT ![t] = TRUE]
  /\ Becomes(t, [Own(t) EXCEPT !.separate_timer = t])
  /\ Goto(t, "prepare")
  /\ UNCHANGED <<clientVars, table, datagram, at>>

Forward(t) ==
  /\ pc[t] = "prepare"
  /\ Becomes(t, [Own(t) EXCEPT !.response = "empty", !.type = None])
  /\ Goto(t, "forward")
  /\ UNCHANGED <<clientVars, table, datagram, at, timer>>

\* HelperClient.send_request returns; None, after its last retransmission,
\* becomes 5.03.  It may also raise or never return.
Returns(t, code) ==
  /\ pc[t] = "forward"
  /\ Becomes(t, [Own(t) EXCEPT !.response = code])
  /\ Goto(t, "reply")
  /\ UNCHANGED <<clientVars, table, datagram, at, timer>>

Raises(t) ==
  /\ pc[t] = "forward"
  /\ Goto(t, "done")
  /\ UNCHANGED <<clientVars, table, datagram, at, timer, tx>>

\* Only the timer that was started last can be stopped.
Reply(t) ==
  /\ pc[t] = "reply"
  /\ timer' = [timer EXCEPT ![Own(t).separate_timer] = FALSE]
  /\ SendResponse(t, Own(t))
  /\ Goto(t, "done")
  /\ UNCHANGED <<table, datagram, at>>

(***************************************************************************)
(* EXCHANGE_LIFETIME is 247 s; an exchange is over after 62 s, and nothing *)
(* is in the network for the rest.                                         *)
(***************************************************************************)
Purge(p) ==
  /\ table[p] # None
  /\ tx[table[p]].exchange \notin open \cup up
  /\ table' = [table EXCEPT ![p] = None]
  /\ UNCHANGED <<clientVars, pc, datagram, at, timer, tx>>

-----------------------------------------------------------------------------
\* No datagram of an earlier exchange on port p is in the network, and no
\* thread or timer is at work on one.
Quiet(p) ==
  \A y \in Exchanges : port[y] = p =>
    /\ y \notin open \cup up
    /\ \A m \in down : m.for # y
    /\ \A t \in Threads : datagram[t] = y => pc[t] = "done" /\ ~timer[t]

\* Nothing of an earlier exchange on port p is left anywhere.
Forgotten(p) == table[p] = None /\ Quiet(p)

(***************************************************************************)
(* The node draws ports at random and does not look when it last used one. *)
(* "any" is that; "quiet" and "forgotten" are the draws that come after    *)
(* the network, or the network and the table, have let go of the port.     *)
(***************************************************************************)
BeginOn(x, p) ==
  /\ PortReuse = "quiet" => Quiet(p)
  /\ PortReuse = "forgotten" => Forgotten(p)
  /\ Begin(x, p)
  /\ UNCHANGED proxyVars

ClientStep ==
  /\ \/ \E x \in Exchanges : Resend(x) \/ GiveUp(x)
     \/ Lose
  /\ UNCHANGED proxyVars

HearStep(x, m) == Hear(x, m) /\ UNCHANGED proxyVars

ThreadStep(t) ==
  \/ Lookup(t) \/ Insert(t) \/ Mark(t) \/ Take(t) \/ Check(t) \/ Recheck(t)
  \/ AckDuplicate(t) \/ ResendResponse(t) \/ StartTimer(t) \/ Reply(t)

\* The steps that neither ask the server nor wait for it.
ProxyStep ==
  \/ \E t \in Threads :
       \/ \E x \in Exchanges : Arrive(t, x)
       \/ ThreadStep(t)
       \/ TimerFires(t)
       \/ Raises(t)
  \/ \E p \in Ports : Purge(p)

Init == ClientInit /\ ProxyInit

Next ==
  \/ \E x \in Exchanges, p \in Ports : BeginOn(x, p)
  \/ ClientStep
  \/ \E x \in Exchanges, m \in down : HearStep(x, m)
  \/ ProxyStep
  \/ \E t \in Threads :
       \/ Forward(t)
       \/ \E code \in Codes \ {"empty"} : Returns(t, code)

Spec == Init /\ [][Next]_vars

-----------------------------------------------------------------------------
Transactions ==
  [exchange : Exchanges \cup {None}, acknowledged : BOOLEAN,
   completed : BOOLEAN, duplicated : BOOLEAN,
   response : Codes \cup {None}, type : {None, "ACK", "CON"},
   separate_timer : Threads \cup {None}]

Labels == {"free", "lookup", "insert", "mark", "take", "check", "recheck", "ack",
           "resend", "start", "prepare", "forward", "reply", "done"}

TypeOK ==
  /\ ClientTypeOK
  /\ table \in [Ports -> Threads \cup {None}]
  /\ pc \in [Threads -> Labels]
  /\ datagram \in [Threads -> Exchanges \cup {None}]
  /\ at \in [Threads -> Threads \cup {None}]
  /\ timer \in [Threads -> BOOLEAN]
  /\ tx \in [Threads -> Transactions]

(***************************************************************************)
(* "Sends an ACK message for the request" (forward_proxy/coap.py:350):     *)
(* whatever threads share a transaction and replace its timer, a request   *)
(* that was taken in is acknowledged, or a timer or a thread on it is      *)
(* about to do so.  A thread that waits for the server does not count: the *)
(* call it waits in may raise or never return.                             *)
(***************************************************************************)
Attends(u, t) ==
  at[u] = t /\ (timer[u] \/ pc[u] \notin {"forward", "done"})

AcknowledgedOrAttended ==
  \A t \in Threads :
    tx[t].exchange # None /\ ~tx[t].acknowledged => \E u \in Threads : Attends(u, t)

=============================================================================
