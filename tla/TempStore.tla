------------------------------ MODULE TempStore ------------------------------
(***************************************************************************)
(* Posting a reading to the Mongo database.  The CoAP server (one thread   *)
(* per request) and the Flask server run the same five database calls in   *)
(* the same order against the same two collections: look the node up, and  *)
(* for an unknown node count the nodes and insert one with that number;    *)
(* count the rows with that number and time, and insert a row if there are *)
(* none.  Each call is atomic, the handler is not, and nothing is unique   *)
(* in the database but _id.                                                *)
(*                                                                         *)
(* A request names a hardware address and a time in whole seconds; one     *)
(* that brings no time is stamped by the server, which here is a request   *)
(* with some time.  The temperature itself plays no part.                  *)
(***************************************************************************)
EXTENDS Integers, Sequences, FiniteSets, Bags

CONSTANTS Workers,    \* request threads of both servers
          FlaskWorkers, \* those of the Flask server
          Addrs,      \* hardware addresses
          Times,      \* timestamps
          NoKey       \* no request

ASSUME StoreAssumption ==
  /\ FlaskWorkers \subseteq Workers
  /\ NoKey \notin Addrs \X Times

Keys == Addrs \X Times

VARIABLES
  nodes,   \* collection nodes, in insertion order
  temp,    \* collection temp: a bag of rows; a row's addr is what it is a
           \* reading of, and is not in the database
  pc,      \* per worker: the next call
  req,     \* per worker: the request <<hwaddr, time>>
  num,     \* per worker: node_num
  told     \* history: readings whose sender was answered created or exists

vars == <<nodes, temp, pc, req, num, told>>

Init ==
  /\ nodes = <<>>
  /\ temp = EmptyBag
  /\ pc = [w \in Workers |-> "idle"]
  /\ req = [w \in Workers |-> NoKey]
  /\ num = [w \in Workers |-> 0]
  /\ told = {}

-----------------------------------------------------------------------------
Goto(w, label) == pc' = [pc EXCEPT ![w] = label]

\* render_POST_advanced, or the POST route of Flask, is entered.
Post(w, k) ==
  /\ pc[w] = "idle"
  /\ Goto(w, "find_node")
  /\ req' = [req EXCEPT ![w] = k]
  /\ UNCHANGED <<nodes, temp, num, told>>

\* Mutants: the query does not name the address; the query never matches.
AnyDocument(h) == DOMAIN nodes
NeverFound(h) == {}

Registrations(h) == {d \in DOMAIN nodes : nodes[d].hwaddr = h}

FindNode(w) ==
  /\ pc[w] = "find_node"
  /\ \/ /\ Registrations(req[w][1]) = {}
        /\ Goto(w, "count_nodes")
        /\ UNCHANGED num
     \/ \E d \in Registrations(req[w][1]) :
          /\ \A e \in Registrations(req[w][1]) : d <= e
          /\ num' = [num EXCEPT ![w] = nodes[d].node_num]
          /\ Goto(w, "count_rows")
  /\ UNCHANGED <<nodes, temp, req, told>>

\* Mutants: the number is taken to be that of the last, or of the next, node.
NumberOfTheLast(w) ==
  /\ pc[w] = "count_nodes"
  /\ num' = [num EXCEPT ![w] = Len(nodes) - 1]
  /\ Goto(w, "insert_node")
  /\ UNCHANGED <<nodes, temp, req, told>>

CountsFromOne(w) ==
  /\ pc[w] = "count_nodes"
  /\ num' = [num EXCEPT ![w] = Len(nodes) + 1]
  /\ Goto(w, "insert_node")
  /\ UNCHANGED <<nodes, temp, req, told>>

CountNodes(w) ==
  /\ pc[w] = "count_nodes"
  /\ num' = [num EXCEPT ![w] = Len(nodes)]
  /\ Goto(w, "insert_node")
  /\ UNCHANGED <<nodes, temp, req, told>>

InsertNode(w) ==
  /\ pc[w] = "insert_node"
  /\ nodes' = Append(nodes, [hwaddr |-> req[w][1], node_num |-> num[w]])
  /\ Goto(w, "count_rows")
  /\ UNCHANGED <<temp, req, num, told>>

Row(w) == [node |-> num[w], time |-> req[w][2], addr |-> req[w][1]]

Matches(row, n, t) == row.node = n /\ row.time = t

\* Mutants: rows of every node count; no row counts.
AnyNodeHasRow(w) == \E row \in DOMAIN temp : row.time = req[w][2]
NoRow(w) == FALSE

HasRow(w) == \E row \in DOMAIN temp : Matches(row, num[w], req[w][2])

CountRows(w) ==
  /\ pc[w] = "count_rows"
  /\ IF HasRow(w)
     THEN Goto(w, "exists")
     ELSE Goto(w, "insert_row")
  /\ UNCHANGED <<nodes, temp, req, num, told>>

InsertRow(w) ==
  /\ pc[w] = "insert_row"
  /\ temp' = temp (+) SetToBag({Row(w)})
  /\ Goto(w, "created")
  /\ UNCHANGED <<nodes, req, num, told>>

Finish(w) ==
  /\ Goto(w, "idle")
  /\ req' = [req EXCEPT ![w] = NoKey]
  /\ num' = [num EXCEPT ![w] = 0]
  /\ UNCHANGED <<nodes, temp>>

(***************************************************************************)
(* The answers.  201 and 406 are what the CoAP server says, 200 and 409    *)
(* what Flask says; either pair tells the sender to forget the reading.    *)
(***************************************************************************)
AnswerCoap(w) ==
  /\ w \notin FlaskWorkers
  /\ pc[w] \in {"created", "exists"}
  /\ told' = told \cup {req[w]}
  /\ Finish(w)

AnswerFlask(w) ==
  /\ w \in FlaskWorkers
  /\ pc[w] \in {"created", "exists"}
  /\ told' = told \cup {req[w]}
  /\ Finish(w)

(***************************************************************************)
(* A database call raises, or the server process dies: the request ends    *)
(* where it is, and nothing or an error is answered.  A request whose      *)
(* parameters are missing (400) never gets beyond its first step.          *)
(***************************************************************************)
Abort(w) ==
  /\ pc[w] # "idle"
  /\ Finish(w)
  /\ UNCHANGED told

Next ==
  \E w \in Workers :
    \/ \E k \in Keys : Post(w, k)
    \/ FindNode(w)
    \/ CountNodes(w)
    \/ InsertNode(w)
    \/ CountRows(w)
    \/ InsertRow(w)
    \/ AnswerCoap(w)
    \/ AnswerFlask(w)
    \/ Abort(w)

Spec == Init /\ [][Next]_vars

-----------------------------------------------------------------------------
NodeDocs == [hwaddr : Addrs, node_num : Nat]
Rows == [node : Nat, time : Times, addr : Addrs]
Labels == {"idle", "find_node", "count_nodes", "insert_node", "count_rows",
           "insert_row", "created", "exists"}

TypeOK ==
  /\ nodes \in Seq(NodeDocs)
  /\ IsABag(temp)
  /\ DOMAIN temp \subseteq Rows
  /\ pc \in [Workers -> Labels]
  /\ req \in [Workers -> Keys \cup {NoKey}]
  /\ num \in [Workers -> Nat]
  /\ told \subseteq Keys

(***************************************************************************)
(* A row is never stored under a number that is not the number of the node *)
(* it came from: the node is registered before its first row, and stays    *)
(* registered, however the handlers of several nodes interleave or abort.  *)
(***************************************************************************)
Registered(h, n) == \E d \in DOMAIN nodes : nodes[d] = [hwaddr |-> h, node_num |-> n]

RowsBelongToRegisteredNodes ==
  \A row \in DOMAIN temp : Registered(row.addr, row.node)

(***************************************************************************)
(* Counting the nodes and inserting one are two calls, but the collection  *)
(* only grows, so a number is never ahead of the position of its document. *)
(* The number an address gets is below the number of nodes ever after, and *)
(* two addresses can share a number but none can overshoot.                *)
(***************************************************************************)
NumberBelowPosition ==
  \A d \in DOMAIN nodes : nodes[d].node_num < d

(***************************************************************************)
(* The race between counting the rows and inserting one is bounded by the  *)
(* requests that can be in it: however long the system runs, a number has  *)
(* at most as many rows of one time as there are workers.                  *)
(***************************************************************************)
CopiesOf(n, t) ==
  UNION {{row} \X (1 .. temp[row]) : row \in {r \in DOMAIN temp : Matches(r, n, t)}}

CopiesBounded ==
  \A row \in DOMAIN temp :
    Cardinality(CopiesOf(row.node, row.time)) <= Cardinality(Workers)

(***************************************************************************)
(* What one request at a time guarantees, aborts included: a reading is    *)
(* stored once, an address is registered once, with a number of its own.   *)
(***************************************************************************)
StoredOnce ==
  \A r, s \in DOMAIN temp :
    /\ temp[r] = 1
    /\ r.addr = s.addr /\ r.time = s.time => r = s

OneNumberEach ==
  \A d, e \in DOMAIN nodes :
    d # e => /\ nodes[d].hwaddr # nodes[e].hwaddr
             /\ nodes[d].node_num # nodes[e].node_num

(***************************************************************************)
(* The database keeps the promise of ReadingStore.                         *)
(***************************************************************************)
StoredKeys == {<<row.addr, row.time>> : row \in DOMAIN temp}

S == INSTANCE ReadingStore WITH stored <- StoredKeys
ImplementsReadingStore == S!Spec

(***************************************************************************)
(* "Data already exists for this node with this timestamp" (temp.py:49):   *)
(* a reading that is refused as existing is a reading of this node.        *)
(***************************************************************************)
RefusedIsStored ==
  \A w \in Workers : pc[w] = "exists" => req[w] \in StoredKeys

=============================================================================
