----------------------------- MODULE DeliveryProofs -----------------------------
(***************************************************************************)
(* The forward proxy for every number of exchanges, ports and threads, and *)
(* then Delivery, which adds what the exchanges carry and the database.    *)
(* What is said of the proxy alone comes first: one part holds however     *)
(* ports are used again, the other needs that they are not used too early. *)
(***************************************************************************)
EXTENDS Delivery, TLAPS

-----------------------------------------------------------------------------
(* What holds of threads, transactions, the table and the network. *)

\* A thread that has no transaction yet.
Early == {"free", "lookup", "insert", "mark", "take"}

HasTransaction(t) ==
  /\ tx[at[t]].exchange \in Exchanges
  /\ port[tx[at[t]].exchange] = port[datagram[t]]
  /\ pc[t] = "resend" => tx[at[t]].completed
  /\ pc[t] \in {"forward", "reply"} => tx[at[t]].response # None
  /\ pc[t] \in {"prepare", "forward", "reply", "done"} =>
       timer[t] \/ tx[at[t]].acknowledged

ThreadFacts ==
  \A t \in Threads :
    /\ pc[t] # "free" => datagram[t] \in Exchanges /\ port[datagram[t]] \in Ports
    /\ pc[t] \in Early => at[t] = None /\ ~timer[t] /\ tx[t].exchange = None
    /\ pc[t] \notin Early \cup {"done"} => at[t] # None
    /\ timer[t] => at[t] # None
    /\ at[t] # None => HasTransaction(t)

\* The thread that created a transaction works on it, as does the one
\* that started its timer last.
TransactionFacts ==
  \A s \in Threads :
    /\ tx[s].exchange # None => at[s] = s
    /\ tx[s].completed => tx[s].acknowledged
    /\ tx[s].separate_timer # None => at[tx[s].separate_timer] = s

TableFacts ==
  \A p \in Ports : table[p] # None =>
    tx[table[p]].exchange \in Exchanges /\ port[tx[table[p]].exchange] = p

NetworkFacts ==
  /\ \A x \in open \cup up : port[x] \in Ports
  /\ \A m \in down : port[m.for] = m.to

IInv == TypeOK /\ ThreadFacts /\ TransactionFacts /\ TableFacts /\ NetworkFacts

-----------------------------------------------------------------------------
(* What holds when ports are not used again too early. *)

InTable(y) == \E p \in Ports : table[p] # None /\ tx[table[p]].exchange = y

\* Something of exchange y is left somewhere.
Live(y) ==
  \/ y \in open \cup up
  \/ \E m \in down : m.for = y
  \/ \E t \in Threads : datagram[t] = y /\ (pc[t] # "done" \/ timer[t])
  \/ InTable(y)

OneLivePerPort ==
  \A x, y \in Exchanges : Live(x) /\ Live(y) /\ port[x] = port[y] => x = y

OwnExchange ==
  \A t \in Threads : at[t] # None => tx[at[t]].exchange = datagram[t]

UInv == OneLivePerPort /\ OwnExchange

-----------------------------------------------------------------------------
(***************************************************************************)
(* What no step takes back of a transaction, and which timers it may name. *)
(***************************************************************************)
Keeps(old, r, t) ==
  /\ r.exchange = old.exchange
  /\ old.acknowledged => r.acknowledged
  /\ old.completed => r.completed
  /\ r.completed => r.acknowledged
  /\ old.response # None => r.response # None
  /\ r.separate_timer \in {old.separate_timer, t}

\* All that is sent is an answer to the exchange of t's transaction.
OnlyAnswers(t) ==
  /\ down' \subseteq Datagrams
  /\ \A m \in down' \ down : m.to = port[Own(t).exchange] /\ m.for = Own(t).exchange

LEMMA Types ==
  ASSUME IInv
  PROVE  /\ port \in [Exchanges -> Ports \cup {None}]
         /\ open \subseteq Exchanges /\ up \subseteq Exchanges
         /\ down \subseteq Datagrams
         /\ table \in [Ports -> Threads \cup {None}]
         /\ pc \in [Threads -> Labels]
         /\ datagram \in [Threads -> Exchanges \cup {None}]
         /\ at \in [Threads -> Threads \cup {None}]
         /\ timer \in [Threads -> BOOLEAN]
         /\ tx \in [Threads -> Transactions]
         /\ None \notin Threads \cup Codes \cup {"ACK", "CON"} \cup Exchanges \cup Ports
BY ProxyAssumption, NanocoapAssumption DEF IInv, TypeOK, ClientTypeOK

LEMMA OwnFacts ==
  ASSUME IInv, NEW t \in Threads, at[t] # None
  PROVE  /\ at[t] \in Threads /\ pc[t] \in Labels \ Early
         /\ Own(t) \in Transactions
         /\ Own(t).exchange \in Exchanges
         /\ datagram[t] \in Exchanges
         /\ port[Own(t).exchange] = port[datagram[t]]
         /\ port[Own(t).exchange] \in Ports
         /\ Own(t).completed => Own(t).acknowledged
         /\ HasTransaction(t)
<1>1. at[t] \in Threads /\ pc[t] \in Labels
  BY Types
<1>2. pc[t] \notin Early /\ HasTransaction(t)
  BY DEF IInv, ThreadFacts
<1>3. pc[t] # "free"
  BY <1>2 DEF Early
<1>4. datagram[t] \in Exchanges /\ port[datagram[t]] \in Ports
  BY <1>3 DEF IInv, ThreadFacts
<1>5. Own(t) \in Transactions /\ (Own(t).completed => Own(t).acknowledged)
  BY <1>1, Types DEF Own, IInv, TransactionFacts
<1> QED BY <1>1, <1>2, <1>4, <1>5 DEF HasTransaction, Own

(***************************************************************************)
(* A step of a thread, or of its timer, that has a transaction: t goes to  *)
(* label l and its transaction becomes r.                                  *)
(***************************************************************************)
Moves(t, l, r) ==
  /\ UNCHANGED <<port, open, heard, up, table, datagram, at>>
  /\ pc[t] # "done" \/ timer[t]
  /\ pc' = [pc EXCEPT ![t] = l]
  /\ tx' = [tx EXCEPT ![at[t]] = r]
  /\ timer' \in [Threads -> BOOLEAN]
  /\ timer'[t] => at[t] # None
  /\ \A u \in Threads \ {t} :
       /\ timer'[u] => timer[u]
       /\ timer[u] => timer'[u] \/ (at[u] = at[t] /\ r.acknowledged)
  /\ OnlyAnswers(t)
  /\ Keeps(Own(t), r, t)
  /\ l = "resend" => r.completed
  /\ l \in {"forward", "reply"} => r.response # None
  /\ l \in {"prepare", "forward", "reply", "done"} => timer'[t] \/ r.acknowledged

LEMMA MovePreserves ==
  ASSUME IInv, NEW t \in Threads, at[t] # None,
         NEW l \in Labels \ Early, NEW r \in Transactions, Moves(t, l, r)
  PROVE  IInv' /\ (UInv => UInv')
<1> USE Types, OwnFacts DEF Moves
<1>1. tx'[at[t]] = r /\ \A s \in Threads \ {at[t]} : tx'[s] = tx[s]
  OBVIOUS
<1>2. pc'[t] = l /\ \A u \in Threads \ {t} : pc'[u] = pc[u]
  OBVIOUS
<1>3. TypeOK'
  BY DEF IInv, TypeOK, ClientTypeOK, OnlyAnswers
<1>4. \A s \in Threads :
        /\ tx'[s].exchange = tx[s].exchange
        /\ tx[s].acknowledged => tx'[s].acknowledged
        /\ tx[s].completed => tx'[s].completed
        /\ tx[s].response # None => tx'[s].response # None
  BY <1>1 DEF Keeps, Own
<1>5. ThreadFacts'
  <2> SUFFICES ASSUME NEW u \in Threads
               PROVE  /\ pc'[u] # "free" => datagram[u] \in Exchanges /\ port[datagram[u]] \in Ports
                      /\ pc'[u] \in Early => at[u] = None /\ ~timer'[u] /\ tx'[u].exchange = None
                      /\ pc'[u] \notin Early \cup {"done"} => at[u] # None
                      /\ timer'[u] => at[u] # None
                      /\ at[u] # None => HasTransaction(u)'
    BY DEF ThreadFacts
  <2>1. CASE u = t
    <3>1. HasTransaction(t)'
      BY <1>1, <1>2, <2>1 DEF HasTransaction, Keeps, Own
    <3> QED BY <1>2, <2>1, <3>1 DEF Early
  <2>2. CASE u # t
    <3>1. at[u] # None => HasTransaction(u)'
      BY <1>1, <1>2, <1>4, <2>2 DEF HasTransaction, IInv, ThreadFacts
    <3> QED BY <1>2, <1>4, <2>2, <3>1 DEF IInv, ThreadFacts
  <2> QED BY <2>1, <2>2
<1>6. TransactionFacts'
  BY <1>1, <1>4 DEF IInv, TransactionFacts, Keeps, Own
<1>7. TableFacts'
  BY <1>4 DEF IInv, TableFacts
<1>8. NetworkFacts'
  BY DEF IInv, NetworkFacts, OnlyAnswers
<1>9. ASSUME UInv
      PROVE  UInv'
  <2>1. OwnExchange'
    BY <1>4, <1>9 DEF UInv, OwnExchange
  <2>2. \A y \in Exchanges : InTable(y)' => InTable(y)
    BY <1>4 DEF InTable
  <2>3. \A m \in down' : m \in down \/ m.for = datagram[t]
    BY <1>9 DEF OnlyAnswers, UInv, OwnExchange, Own
  <2>4. \A u \in Threads :
          pc'[u] # "done" \/ timer'[u] => pc[u] # "done" \/ timer[u]
    BY <1>2
  <2>5. \A y \in Exchanges : Live(y)' => Live(y)
    BY <2>2, <2>3, <2>4 DEF Live
  <2>6. OneLivePerPort'
    BY <2>5, <1>9 DEF UInv, OneLivePerPort
  <2> QED BY <2>1, <2>6 DEF UInv
<1> QED BY <1>3, <1>5, <1>6, <1>7, <1>8, <1>9 DEF IInv

\* The same for a step that leaves the transactions and the network alone.
LEMMA GotoPreserves ==
  ASSUME IInv, NEW t \in Threads, at[t] # None, pc[t] # "done",
         NEW l \in Labels \ Early,
         UNCHANGED <<port, open, heard, up, down, table, datagram, at, timer, tx>>,
         pc' = [pc EXCEPT ![t] = l],
         l = "resend" => Own(t).completed,
         l \in {"forward", "reply"} => Own(t).response # None,
         l \in {"prepare", "forward", "reply", "done"} => timer[t] \/ Own(t).acknowledged
  PROVE  IInv' /\ (UInv => UInv')
<1> DEFINE r == Own(t)
<1>1. r \in Transactions /\ tx' = [tx EXCEPT ![at[t]] = r]
  BY Types, OwnFacts DEF Own
<1>2. Keeps(Own(t), r, t) /\ OnlyAnswers(t)
  BY Types, OwnFacts DEF Keeps, OnlyAnswers
<1>3. /\ timer' \in [Threads -> BOOLEAN]
      /\ timer'[t] => at[t] # None
      /\ \A u \in Threads \ {t} :
           /\ timer'[u] => timer[u]
           /\ timer[u] => timer'[u] \/ (at[u] = at[t] /\ r.acknowledged)
  BY Types
<1>4. timer'[t] = timer[t]
  OBVIOUS
<1>5. Moves(t, l, r)
  BY <1>1, <1>2, <1>3, <1>4 DEF Moves
<1> HIDE DEF r
<1> QED BY <1>1, <1>5, MovePreserves

-----------------------------------------------------------------------------
\* The updates of a transaction leave it one.
LEMMA RecordFacts ==
  ASSUME NEW e \in Transactions
  PROVE  /\ [e EXCEPT !.acknowledged = TRUE, !.completed = TRUE] \in Transactions
         /\ \A k \in {None, "ACK", "CON"}, b \in BOOLEAN :
              [e EXCEPT !.type = k, !.completed = @ \/ b, !.acknowledged = TRUE]
                \in Transactions
         /\ [e EXCEPT !.response = "empty", !.type = None] \in Transactions
         /\ \A code \in Codes : [e EXCEPT !.response = code] \in Transactions
         /\ \A u \in Threads : [e EXCEPT !.separate_timer = u] \in Transactions
         /\ [e EXCEPT !.duplicated = TRUE] \in Transactions
<1>1. [e EXCEPT !.acknowledged = TRUE, !.completed = TRUE] \in Transactions
  BY DEF Transactions
<1>2. ASSUME NEW k \in {None, "ACK", "CON"}, NEW b \in BOOLEAN
      PROVE  [e EXCEPT !.type = k, !.completed = @ \/ b, !.acknowledged = TRUE]
               \in Transactions
  BY DEF Transactions
<1>3. [e EXCEPT !.response = "empty", !.type = None] \in Transactions
  BY DEF Transactions, Codes
<1>4. ASSUME NEW code \in Codes
      PROVE  [e EXCEPT !.response = code] \in Transactions
  BY DEF Transactions
<1>5. ASSUME NEW u \in Threads
      PROVE  [e EXCEPT !.separate_timer = u] \in Transactions
  BY DEF Transactions
<1>6. [e EXCEPT !.duplicated = TRUE] \in Transactions
  BY DEF Transactions
<1> QED BY <1>1, <1>2, <1>3, <1>4, <1>5, <1>6

LEMMA AckFacts ==
  ASSUME IInv, NEW t \in Threads, at[t] # None, SendAck(t)
  PROVE  /\ \E r \in Transactions :
              /\ tx' = [tx EXCEPT ![at[t]] = r]
              /\ Keeps(Own(t), r, t)
              /\ r.acknowledged
              /\ r.response = Own(t).response
         /\ OnlyAnswers(t)
         /\ UNCHANGED <<port, open, heard, up>>
<1> USE Types, OwnFacts
<1>1. CASE Own(t).acknowledged
  <2>1. tx' = [tx EXCEPT ![at[t]] = Own(t)]
    BY <1>1 DEF SendAck, Own
  <2>2. Keeps(Own(t), Own(t), t)
    BY DEF Keeps
  <2> QED BY <1>1, <2>1, <2>2 DEF SendAck, OnlyAnswers, clientVars
<1>2. CASE ~Own(t).acknowledged
  <2> DEFINE r == [Own(t) EXCEPT !.acknowledged = TRUE, !.completed = TRUE]
             m == Answers(t, "empty")
  <2>4. r \in Transactions
    BY RecordFacts
  <2>5. /\ r.exchange = Own(t).exchange /\ r.response = Own(t).response
        /\ r.separate_timer = Own(t).separate_timer
        /\ r.acknowledged = TRUE /\ r.completed = TRUE
    BY DEF Transactions
  <2>1. r \in Transactions /\ Keeps(Own(t), r, t) /\ r.acknowledged
        /\ r.response = Own(t).response
    <3> HIDE DEF r
    <3> QED BY <2>4, <2>5, Zenon DEF Keeps
  <2>2. /\ tx' = [tx EXCEPT ![at[t]] = r] /\ down' = down \cup {m}
        /\ UNCHANGED <<port, open, heard, up>>
    BY <1>2 DEF SendAck, Becomes, Send
  <2>3. m \in Datagrams /\ m.to = port[Own(t).exchange] /\ m.for = Own(t).exchange
    BY DEF Answers, Datagrams, Codes
  <2> HIDE DEF r, m
  <2> QED BY <2>1, <2>2, <2>3 DEF OnlyAnswers
<1> QED BY <1>1, <1>2

LEMMA ResponseFacts ==
  ASSUME IInv, NEW t \in Threads, at[t] # None, Own(t).response # None,
         SendResponse(t, Own(t))
  PROVE  /\ \E r \in Transactions :
              /\ tx' = [tx EXCEPT ![at[t]] = r]
              /\ Keeps(Own(t), r, t)
              /\ r.acknowledged
              /\ r.response = Own(t).response
         /\ OnlyAnswers(t)
         /\ UNCHANGED <<port, open, heard, up>>
<1> USE Types, OwnFacts
<1> DEFINE piggyback == Own(t).type = None /\ ~Own(t).acknowledged
           kind == CASE piggyback -> "ACK"
                     [] Own(t).type = None /\ ~piggyback -> "CON"
                     [] OTHER -> Own(t).type
           r == [Own(t) EXCEPT !.type = kind,
                               !.completed = @ \/ piggyback,
                               !.acknowledged = TRUE]
           m == Answers(t, Own(t).response)
<1>1. kind \in {None, "ACK", "CON"}
  BY DEF Transactions
<1>2. /\ tx' = [tx EXCEPT ![at[t]] = r] /\ down' = down \cup {m}
      /\ UNCHANGED <<port, open, heard, up>>
  BY DEF SendResponse, Becomes, Send
<1>3. m \in Datagrams /\ m.to = port[Own(t).exchange] /\ m.for = Own(t).exchange
  BY DEF Answers, Datagrams, Transactions
<1> HIDE DEF m
<1>4. r \in Transactions
  <2>1. kind \in {None, "ACK", "CON"} /\ piggyback \in BOOLEAN
    BY <1>1
  <2> HIDE DEF kind, piggyback
  <2> QED BY <2>1, RecordFacts
<1>5. /\ r.exchange = Own(t).exchange /\ r.response = Own(t).response
      /\ r.separate_timer = Own(t).separate_timer
      /\ r.acknowledged = TRUE
  BY DEF Transactions
<1>6. Own(t).completed => r.completed
  BY DEF Transactions
<1> HIDE DEF r
<1>7. Keeps(Own(t), r, t)
  BY <1>5, <1>6, Zenon DEF Keeps
<1> QED BY <1>2, <1>3, <1>4, <1>5, <1>7 DEF OnlyAnswers
-----------------------------------------------------------------------------
(* The steps of a thread that has a transaction. *)

LEMMA AckDuplicateKeeps ==
  ASSUME IInv, NEW t \in Threads, AckDuplicate(t)
  PROVE  IInv' /\ (UInv => UInv')
<1>1. pc[t] = "ack" /\ at[t] # None
  BY DEF AckDuplicate, IInv, ThreadFacts, Early
<1>2. PICK r \in Transactions :
        /\ tx' = [tx EXCEPT ![at[t]] = r]
        /\ Keeps(Own(t), r, t)
        /\ r.acknowledged
  BY <1>1, AckFacts DEF AckDuplicate
<1>3. OnlyAnswers(t) /\ UNCHANGED <<port, open, heard, up>>
  BY <1>1, AckFacts DEF AckDuplicate
<1>4. "done" \in Labels \ Early
  BY DEF Labels, Early
<1>5. Moves(t, "done", r)
  BY <1>1, <1>2, <1>3, Types DEF AckDuplicate, Goto, Moves
<1> QED BY <1>1, <1>4, <1>5, MovePreserves

LEMMA TimerFiresKeeps ==
  ASSUME IInv, NEW t \in Threads, TimerFires(t)
  PROVE  IInv' /\ (UInv => UInv')
<1>1. timer[t] /\ at[t] # None
  BY DEF TimerFires, IInv, ThreadFacts
<1>2. PICK r \in Transactions :
        /\ tx' = [tx EXCEPT ![at[t]] = r]
        /\ Keeps(Own(t), r, t)
        /\ r.acknowledged
        /\ r.response = Own(t).response
  BY <1>1, AckFacts DEF TimerFires
<1>3. OnlyAnswers(t) /\ UNCHANGED <<port, open, heard, up>>
  BY <1>1, AckFacts DEF TimerFires
<1>4. pc[t] \in Labels \ Early /\ HasTransaction(t)
  BY <1>1, OwnFacts
<1>5. /\ pc[t] = "resend" => r.completed
      /\ pc[t] \in {"forward", "reply"} => r.response # None
  BY <1>2, <1>4 DEF HasTransaction, Keeps, Own
<1>6. timer' \in [Threads -> BOOLEAN] /\ \A u \in Threads \ {t} : timer'[u] = timer[u]
  BY Types DEF TimerFires
<1>7. Moves(t, pc[t], r)
  BY <1>1, <1>2, <1>3, <1>5, <1>6, Types DEF TimerFires, Moves
<1> QED BY <1>1, <1>4, <1>7, MovePreserves

LEMMA CheckKeeps ==
  ASSUME IInv, NEW t \in Threads, Check(t) \/ Recheck(t) \/ Raises(t)
  PROVE  IInv' /\ (UInv => UInv')
<1>1. at[t] # None /\ pc[t] # "done"
  BY DEF Check, Recheck, Raises, IInv, ThreadFacts, Early
<1>2. {"resend", "recheck", "ack", "start", "done"} \subseteq Labels \ Early
  BY DEF Labels, Early
<1>3. CASE Check(t)
  BY <1>1, <1>2, <1>3, GotoPreserves DEF Check, Goto, clientVars
<1>4. CASE Recheck(t)
  BY <1>1, <1>2, <1>4, GotoPreserves DEF Recheck, Goto, clientVars
<1>5. CASE Raises(t)
  <2>1. timer[t] \/ Own(t).acknowledged
    BY <1>1, <1>5, OwnFacts DEF Raises, HasTransaction, Own
  <2> QED BY <1>1, <1>2, <1>5, <2>1, GotoPreserves DEF Raises, Goto, clientVars
<1> QED BY <1>3, <1>4, <1>5

LEMMA ResendResponseKeeps ==
  ASSUME IInv, NEW t \in Threads, ResendResponse(t)
  PROVE  IInv' /\ (UInv => UInv')
<1>1. pc[t] = "resend" /\ at[t] # None
  BY DEF ResendResponse, IInv, ThreadFacts, Early
<1>2. "done" \in Labels \ Early
  BY DEF Labels, Early
<1>3. Own(t).acknowledged
  BY <1>1, OwnFacts DEF HasTransaction, Own
<1>4. CASE Own(t).response = None
  BY <1>1, <1>2, <1>3, <1>4, GotoPreserves DEF ResendResponse, Goto, clientVars
<1>5. CASE Own(t).response # None
  <2>1. PICK r \in Transactions :
          /\ tx' = [tx EXCEPT ![at[t]] = r]
          /\ Keeps(Own(t), r, t)
          /\ r.acknowledged
    BY <1>1, <1>5, ResponseFacts DEF ResendResponse
  <2>2. OnlyAnswers(t) /\ UNCHANGED <<port, open, heard, up>>
    BY <1>1, <1>5, ResponseFacts DEF ResendResponse
  <2>3. Moves(t, "done", r)
    BY <1>1, <2>1, <2>2, Types DEF ResendResponse, Goto, Moves
  <2> QED BY <1>1, <1>2, <2>3, MovePreserves
<1> QED BY <1>4, <1>5

LEMMA StartTimerKeeps ==
  ASSUME IInv, NEW t \in Threads, StartTimer(t)
  PROVE  IInv' /\ (UInv => UInv')
<1> DEFINE r == [Own(t) EXCEPT !.separate_timer = t]
<1>1. pc[t] = "start" /\ at[t] # None
  BY DEF StartTimer, IInv, ThreadFacts, Early
<1>2. "prepare" \in Labels \ Early
  BY DEF Labels, Early
<1>3. r \in Transactions
  BY <1>1, OwnFacts, RecordFacts
<1>4. Keeps(Own(t), r, t)
  <2>1. /\ r.exchange = Own(t).exchange /\ r.response = Own(t).response
        /\ r.separate_timer = t
        /\ r.acknowledged = Own(t).acknowledged /\ r.completed = Own(t).completed
    BY <1>1, OwnFacts DEF Transactions
  <2>2. Own(t).completed => Own(t).acknowledged
    BY <1>1, OwnFacts
  <2> HIDE DEF r
  <2> QED BY <2>1, <2>2 DEF Keeps
<1>5. tx' = [tx EXCEPT ![at[t]] = r]
  BY DEF StartTimer, Becomes
<1>6. OnlyAnswers(t)
  BY Types DEF StartTimer, clientVars, OnlyAnswers
<1> HIDE DEF r
<1>7. Moves(t, "prepare", r)
  BY <1>1, <1>4, <1>5, <1>6, Types DEF StartTimer, Goto, Moves, clientVars
<1> QED BY <1>1, <1>2, <1>3, <1>7, MovePreserves

LEMMA ForwardKeeps ==
  ASSUME IInv, NEW t \in Threads, Forward(t)
  PROVE  IInv' /\ (UInv => UInv')
<1> DEFINE r == [Own(t) EXCEPT !.response = "empty", !.type = None]
<1>1. pc[t] = "prepare" /\ at[t] # None
  BY DEF Forward, IInv, ThreadFacts, Early
<1>2. "forward" \in Labels \ Early
  BY DEF Labels, Early
<1>3. r \in Transactions
  BY <1>1, OwnFacts, RecordFacts
<1>4. /\ r.exchange = Own(t).exchange /\ r.response = "empty"
      /\ r.separate_timer = Own(t).separate_timer
      /\ r.acknowledged = Own(t).acknowledged /\ r.completed = Own(t).completed
  BY <1>1, OwnFacts DEF Transactions
<1>5. r.response # None
  BY <1>4, ProxyAssumption DEF Codes
<1>6. tx' = [tx EXCEPT ![at[t]] = r]
  BY DEF Forward, Becomes
<1>7. OnlyAnswers(t)
  BY Types DEF Forward, clientVars, OnlyAnswers
<1> HIDE DEF r
<1>8. Keeps(Own(t), r, t)
  BY <1>1, <1>4, <1>5, OwnFacts DEF Keeps
<1>9. timer[t] \/ r.acknowledged
  BY <1>1, <1>4, OwnFacts DEF HasTransaction, Own
<1>10. Moves(t, "forward", r)
  BY <1>1, <1>5, <1>6, <1>7, <1>8, <1>9, Types DEF Forward, Goto, Moves, clientVars
<1> QED BY <1>1, <1>2, <1>3, <1>10, MovePreserves

LEMMA ReturnsKeeps ==
  ASSUME IInv, NEW t \in Threads, NEW code \in Codes, Returns(t, code)
  PROVE  IInv' /\ (UInv => UInv')
<1> DEFINE r == [Own(t) EXCEPT !.response = code]
<1>1. pc[t] = "forward" /\ at[t] # None
  BY DEF Returns, IInv, ThreadFacts, Early
<1>2. "reply" \in Labels \ Early
  BY DEF Labels, Early
<1>3. r \in Transactions
  BY <1>1, OwnFacts, RecordFacts
<1>4. /\ r.exchange = Own(t).exchange /\ r.response = code
      /\ r.separate_timer = Own(t).separate_timer
      /\ r.acknowledged = Own(t).acknowledged /\ r.completed = Own(t).completed
  BY <1>1, OwnFacts DEF Transactions
<1>5. r.response # None
  BY <1>4, ProxyAssumption
<1>6. tx' = [tx EXCEPT ![at[t]] = r]
  BY DEF Returns, Becomes
<1>7. OnlyAnswers(t)
  BY Types DEF Returns, clientVars, OnlyAnswers
<1> HIDE DEF r
<1>8. Keeps(Own(t), r, t)
  BY <1>1, <1>4, <1>5, OwnFacts DEF Keeps
<1>9. timer[t] \/ r.acknowledged
  BY <1>1, <1>4, OwnFacts DEF HasTransaction, Own
<1>10. Moves(t, "reply", r)
  BY <1>1, <1>5, <1>6, <1>7, <1>8, <1>9, Types DEF Returns, Goto, Moves, clientVars
<1> QED BY <1>1, <1>2, <1>3, <1>10, MovePreserves

\* The timer that is stopped, if any, is on the transaction answered.
LEMMA ReplyKeeps ==
  ASSUME IInv, NEW t \in Threads, Reply(t)
  PROVE  IInv' /\ (UInv => UInv')
<1>1. pc[t] = "reply" /\ at[t] # None
  BY DEF Reply, IInv, ThreadFacts, Early
<1>2. Own(t).response # None
  BY <1>1, OwnFacts DEF HasTransaction, Own
<1>3. PICK r \in Transactions :
        /\ tx' = [tx EXCEPT ![at[t]] = r]
        /\ Keeps(Own(t), r, t)
        /\ r.acknowledged
  BY <1>1, <1>2, ResponseFacts DEF Reply
<1>4. OnlyAnswers(t) /\ UNCHANGED <<port, open, heard, up>>
  BY <1>1, <1>2, ResponseFacts DEF Reply
<1>5. "done" \in Labels \ Early
  BY DEF Labels, Early
<1>6. timer' \in [Threads -> BOOLEAN]
      /\ \A u \in Threads :
           timer'[u] = IF u = Own(t).separate_timer THEN FALSE ELSE timer[u]
  BY Types DEF Reply
<1>7. \A u \in Threads : u = Own(t).separate_timer => at[u] = at[t]
  BY <1>1, OwnFacts, Types DEF IInv, TransactionFacts, Own
<1>8. \A u \in Threads : /\ timer'[u] => timer[u]
                         /\ timer[u] => timer'[u] \/ (at[u] = at[t] /\ r.acknowledged)
  BY <1>3, <1>6, <1>7
<1>9. Moves(t, "done", r)
  BY <1>1, <1>3, <1>4, <1>6, <1>8 DEF Reply, Goto, Moves
<1> QED BY <1>1, <1>5, <1>9, MovePreserves

-----------------------------------------------------------------------------
(* The node and the network. *)

\* A step that leaves the proxy, its answers and the ports alone.
LEMMA QuietPreserves ==
  ASSUME IInv, UNCHANGED <<port, proxyVars>>, ClientTypeOK',
         open' \subseteq open, up' \subseteq up \cup open, down' \subseteq down
  PROVE  IInv' /\ (UInv => UInv')
<1>1. TypeOK' /\ ThreadFacts' /\ TransactionFacts' /\ TableFacts'
  BY DEF IInv, TypeOK, ThreadFacts, HasTransaction, TransactionFacts, TableFacts, proxyVars
<1>2. NetworkFacts'
  BY DEF IInv, NetworkFacts
<1>3. ASSUME UInv
      PROVE  UInv'
  <2>1. OwnExchange'
    BY <1>3 DEF UInv, OwnExchange, proxyVars
  <2>2. \A y \in Exchanges : Live(y)' => Live(y)
    BY DEF Live, InTable, proxyVars
  <2> QED BY <1>3, <2>1, <2>2 DEF UInv, OneLivePerPort
<1> QED BY <1>1, <1>2, <1>3 DEF IInv

LEMMA ClientKeeps ==
  ASSUME IInv, ClientStep \/ \E x \in Exchanges, m \in down : HearStep(x, m)
  PROVE  IInv' /\ (UInv => UInv')
<1>1. CASE \E x \in Exchanges : Resend(x) /\ UNCHANGED proxyVars
  BY <1>1, QuietPreserves DEF Resend, IInv, TypeOK, ClientTypeOK
<1>2. CASE \E x \in Exchanges : GiveUp(x) /\ UNCHANGED proxyVars
  BY <1>2, QuietPreserves DEF GiveUp, Closes, IInv, TypeOK, ClientTypeOK
<1>3. CASE Lose /\ UNCHANGED proxyVars
  BY <1>3, QuietPreserves DEF Lose, IInv, TypeOK, ClientTypeOK
<1>4. CASE \E x \in Exchanges, m \in down : HearStep(x, m)
  <2>1. PICK x \in Exchanges, m \in down : HearStep(x, m)
    BY <1>4
  <2>2. m.code \in Codes
    BY Types DEF Datagrams
  <2> QED BY <2>1, <2>2, QuietPreserves DEF HearStep, Hear, Closes, IInv, TypeOK, ClientTypeOK
<1> QED BY <1>1, <1>2, <1>3, <1>4 DEF ClientStep

LEMMA BeginKeeps ==
  ASSUME IInv, NEW x \in Exchanges, NEW p \in Ports, BeginOn(x, p)
  PROVE  IInv' /\ (UInv /\ PortReuse = "forgotten" => UInv')
<1> USE Types
<1>1. /\ port[x] = None /\ port'[x] = p
      /\ \A y \in Exchanges \ {x} : port'[y] = port[y]
      /\ open' = open \cup {x} /\ up' = up \cup {x}
      /\ UNCHANGED <<heard, down, table, pc, datagram, at, timer, tx>>
  BY DEF BeginOn, Begin, proxyVars
<1>2. \A y \in Exchanges : port[y] \in Ports => port'[y] = port[y]
  BY <1>1
<1>3. TypeOK'
  BY <1>1 DEF BeginOn, Begin, IInv, TypeOK, ClientTypeOK
<1>4. ThreadFacts'
  <2> SUFFICES ASSUME NEW u \in Threads
               PROVE  /\ pc[u] # "free" => datagram[u] \in Exchanges /\ port'[datagram[u]] \in Ports
                      /\ at[u] # None => HasTransaction(u)'
    BY <1>1 DEF ThreadFacts, IInv
  <2>1. pc[u] # "free" => datagram[u] \in Exchanges /\ port'[datagram[u]] \in Ports
    BY <1>2 DEF IInv, ThreadFacts
  <2>2. at[u] # None => HasTransaction(u)'
    BY <1>1, <1>2, OwnFacts DEF HasTransaction, Own
  <2> QED BY <2>1, <2>2
<1>5. TransactionFacts'
  BY <1>1 DEF IInv, TransactionFacts
<1>6. TableFacts'
  BY <1>1, <1>2 DEF IInv, TableFacts
<1>7. NetworkFacts'
  BY <1>1, <1>2 DEF IInv, NetworkFacts, Datagrams
<1>8. ASSUME UInv, PortReuse = "forgotten"
      PROVE  UInv'
  <2>1. OwnExchange'
    BY <1>1, <1>8 DEF UInv, OwnExchange
  <2>2. \A y \in Exchanges : InTable(y)' <=> InTable(y)
    BY <1>1 DEF InTable
  <2>3. \A y \in Exchanges \ {x} : Live(y)' => Live(y)
    BY <1>1, <2>2 DEF Live
  <2>4. \A y \in Exchanges : port[y] = p => ~Live(y)
    <3> SUFFICES ASSUME NEW y \in Exchanges, port[y] = p
                 PROVE  ~Live(y)
      OBVIOUS
    <3>1. Forgotten(p)
      BY <1>8 DEF BeginOn
    <3>2. ~InTable(y)
      BY <3>1 DEF InTable, Forgotten, IInv, TableFacts
    <3> QED BY <3>1, <3>2 DEF Forgotten, Quiet, Live
  <2>5. OneLivePerPort'
    BY <1>1, <1>8, <2>3, <2>4 DEF UInv, OneLivePerPort
  <2> QED BY <2>1, <2>5 DEF UInv
<1> QED BY <1>3, <1>4, <1>5, <1>6, <1>7, <1>8 DEF IInv

-----------------------------------------------------------------------------
(* The steps of a thread that has no transaction yet, and the purge. *)

LEMMA ArriveKeeps ==
  ASSUME IInv, NEW t \in Threads, NEW x \in Exchanges, Arrive(t, x) \/ Lookup(t)
  PROVE  IInv' /\ (UInv => UInv')
<1> USE Types
<1>1. CASE Arrive(t, x)
  <2>1. /\ pc[t] = "free" /\ x \in up /\ pc'[t] = "lookup" /\ datagram'[t] = x
        /\ \A u \in Threads \ {t} : pc'[u] = pc[u] /\ datagram'[u] = datagram[u]
        /\ UNCHANGED <<port, open, heard, up, down, table, at, timer, tx>>
    BY <1>1 DEF Arrive, Goto, clientVars
  <2>2. port[x] \in Ports /\ at[t] = None /\ ~timer[t] /\ tx[t].exchange = None
    BY <2>1 DEF IInv, NetworkFacts, ThreadFacts, Early
  <2>3. TypeOK'
    BY <1>1 DEF Arrive, Goto, clientVars, IInv, TypeOK, ClientTypeOK, Labels
  <2>4. ThreadFacts'
    <3>1. ASSUME NEW u \in Threads, at[u] # None
          PROVE  HasTransaction(u)'
      BY <2>1, <2>2, <3>1 DEF HasTransaction, IInv, ThreadFacts
    <3> QED BY <2>1, <2>2, <3>1 DEF IInv, ThreadFacts, Early
  <2>5. TransactionFacts' /\ TableFacts' /\ NetworkFacts'
    BY <2>1 DEF IInv, TransactionFacts, TableFacts, NetworkFacts
  <2>6. ASSUME UInv
        PROVE  UInv'
    <3>1. OwnExchange'
      BY <2>1, <2>2, <2>6 DEF UInv, OwnExchange
    <3>2. \A y \in Exchanges : Live(y)' => Live(y)
      BY <2>1 DEF Live, InTable
    <3> QED BY <2>1, <2>6, <3>1, <3>2 DEF UInv, OneLivePerPort
  <2> QED BY <2>3, <2>4, <2>5, <2>6 DEF IInv
<1>2. CASE Lookup(t)
  <2>1. /\ pc[t] = "lookup" /\ pc'[t] \in {"insert", "mark"}
        /\ \A u \in Threads \ {t} : pc'[u] = pc[u]
        /\ UNCHANGED <<port, open, heard, up, down, table, datagram, at, timer, tx>>
    BY <1>2 DEF Lookup, Goto, clientVars
  <2>2. TypeOK'
    BY <1>2 DEF Lookup, Goto, clientVars, IInv, TypeOK, ClientTypeOK, Labels
  <2>3. ThreadFacts'
    <3>1. ASSUME NEW u \in Threads, at[u] # None
          PROVE  HasTransaction(u)'
      BY <2>1, <3>1 DEF HasTransaction, IInv, ThreadFacts, Early
    <3> QED BY <2>1, <3>1 DEF IInv, ThreadFacts, Early
  <2>4. TransactionFacts' /\ TableFacts' /\ NetworkFacts'
    BY <2>1 DEF IInv, TransactionFacts, TableFacts, NetworkFacts
  <2>5. ASSUME UInv
        PROVE  UInv'
    <3>1. OwnExchange'
      BY <2>1, <2>5 DEF UInv, OwnExchange
    <3>2. \A y \in Exchanges : Live(y)' => Live(y)
      BY <2>1 DEF Live, InTable
    <3> QED BY <2>1, <2>5, <3>1, <3>2 DEF UInv, OneLivePerPort
  <2> QED BY <2>2, <2>3, <2>4, <2>5 DEF IInv
<1> QED BY <1>1, <1>2

LEMMA InsertKeeps ==
  ASSUME IInv, NEW t \in Threads, Insert(t)
  PROVE  IInv' /\ (UInv => UInv')
<1> USE Types
<1> DEFINE x == datagram[t]
<1>1. /\ pc[t] = "insert" /\ at[t] = None /\ ~timer[t] /\ tx[t].exchange = None
      /\ x \in Exchanges /\ port[x] \in Ports
  BY DEF Insert, IInv, ThreadFacts, Early
<1>2. New(x) \in Transactions
  BY <1>1, ProxyAssumption DEF New, Transactions
<1>3. /\ pc'[t] = "check" /\ at'[t] = t
      /\ \A u \in Threads \ {t} : pc'[u] = pc[u] /\ at'[u] = at[u]
      /\ UNCHANGED <<port, open, heard, up, down, datagram, timer>>
      /\ table'[port[x]] = t
      /\ \A p \in Ports \ {port[x]} : table'[p] = table[p]
      /\ tx'[t] = New(x)
      /\ \A s \in Threads \ {t} : tx'[s] = tx[s]
  BY <1>1 DEF Insert, Goto, Key, clientVars
<1>4. New(x).exchange = x /\ ~New(x).acknowledged /\ ~New(x).completed
      /\ New(x).separate_timer = None
  BY DEF New
<1>5. TypeOK'
  BY <1>1, <1>2 DEF Insert, Goto, Key, clientVars, IInv, TypeOK, ClientTypeOK, Labels
<1> HIDE DEF x
<1>6. \A u \in Threads : at[u] # t
  BY <1>1 DEF IInv, ThreadFacts, HasTransaction
<1>7. ThreadFacts'
  <2>1. HasTransaction(t)'
    BY <1>1, <1>3, <1>4 DEF HasTransaction, x
  <2>2. ASSUME NEW u \in Threads \ {t}, at[u] # None
        PROVE  HasTransaction(u)'
    BY <1>3, <1>6, <2>2 DEF HasTransaction, IInv, ThreadFacts
  <2> QED BY <1>1, <1>3, <2>1, <2>2 DEF IInv, ThreadFacts, Early, x
<1>8. TransactionFacts'
  <2> SUFFICES ASSUME NEW v \in Threads
               PROVE  /\ tx'[v].exchange # None => at'[v] = v
                      /\ tx'[v].completed => tx'[v].acknowledged
                      /\ tx'[v].separate_timer # None => at'[tx'[v].separate_timer] = v
    BY DEF TransactionFacts
  <2>1. CASE v = t
    BY <1>3, <1>4, <2>1
  <2>2. CASE v # t
    <3>1. tx'[v] = tx[v] /\ at'[v] = at[v] /\ tx[v] \in Transactions
      BY <1>3, <2>2
    <3>2. /\ tx[v].exchange # None => at[v] = v
          /\ tx[v].completed => tx[v].acknowledged
          /\ tx[v].separate_timer # None => at[tx[v].separate_timer] = v
      BY DEF IInv, TransactionFacts
    <3>3. tx[v].separate_timer \in Threads \cup {None}
      BY <3>1 DEF Transactions
    <3>4. tx[v].separate_timer # None => at'[tx[v].separate_timer] = v
      BY <1>1, <1>3, <3>2, <3>3
    <3> QED BY <3>1, <3>2, <3>4
  <2> QED BY <2>1, <2>2
<1>9. TableFacts'
  BY <1>1, <1>3, <1>4 DEF IInv, TableFacts
<1>10. NetworkFacts'
  BY <1>3 DEF IInv, NetworkFacts
<1>11. ASSUME UInv
       PROVE  UInv'
  <2>1. OwnExchange'
    BY <1>3, <1>4, <1>6, <1>11 DEF UInv, OwnExchange, x
  <2>2. \A y \in Exchanges : InTable(y)' => InTable(y) \/ y = datagram[t]
    BY <1>1, <1>3, <1>4 DEF InTable, IInv, TableFacts, x
  <2>3. \A y \in Exchanges : Live(y)' => Live(y)
    BY <1>1, <1>3, <2>2 DEF Live
  <2> QED BY <1>3, <1>11, <2>1, <2>3 DEF UInv, OneLivePerPort
<1> QED BY <1>5, <1>7, <1>8, <1>9, <1>10, <1>11 DEF IInv

LEMMA MarkKeeps ==
  ASSUME IInv, NEW t \in Threads, Mark(t)
  PROVE  IInv' /\ (UInv => UInv')
<1> USE Types
<1> DEFINE s == table[Key(t)]
<1>1. /\ pc[t] = "mark" /\ at[t] = None /\ ~timer[t] /\ tx[t].exchange = None
      /\ datagram[t] \in Exchanges /\ Key(t) \in Ports
  BY DEF Mark, IInv, ThreadFacts, Early, Key
<1>2. s \in Threads \cup {None}
  BY <1>1
<1>3. /\ \A u \in Threads \ {t} : pc'[u] = pc[u]
      /\ UNCHANGED <<port, open, heard, up, down, table, datagram, at, timer>>
      /\ pc' \in [Threads -> Labels]
      /\ pc'[t] \in {"done", "take"}
  BY <1>1 DEF Mark, Goto, clientVars, Labels
<1>4. /\ tx' \in [Threads -> Transactions]
      /\ \A u \in Threads :
           /\ tx'[u].exchange = tx[u].exchange
           /\ tx'[u].acknowledged = tx[u].acknowledged
           /\ tx'[u].completed = tx[u].completed
           /\ tx'[u].response = tx[u].response
           /\ tx'[u].separate_timer = tx[u].separate_timer
  <2>1. CASE s = None
    BY <2>1 DEF Mark
  <2>2. CASE s # None
    <3>1. tx' = [tx EXCEPT ![s] = [tx[s] EXCEPT !.duplicated = TRUE]]
      BY <2>2 DEF Mark
    <3>2. s \in Threads /\ tx[s] \in Transactions
      BY <2>2, <1>2
    <3> HIDE DEF s
    <3>3. [tx[s] EXCEPT !.duplicated = TRUE] \in Transactions
      BY <3>2, RecordFacts
    <3>4. \A u \in Threads \ {s} : tx'[u] = tx[u]
      BY <3>1
    <3>5. tx'[s] = [tx[s] EXCEPT !.duplicated = TRUE]
      BY <3>1, <3>2
    <3>6. tx' \in [Threads -> Transactions]
      BY <3>1, <3>2, <3>3
    <3> QED BY <3>2, <3>4, <3>5, <3>6 DEF Transactions
  <2> QED BY <2>1, <2>2
<1>5. TypeOK'
  BY <1>3, <1>4 DEF IInv, TypeOK, ClientTypeOK
<1> HIDE DEF s
<1>6. ThreadFacts'
  <2>1. ASSUME NEW u \in Threads \ {t}, at[u] # None
        PROVE  HasTransaction(u)'
    BY <1>3, <1>4, <2>1 DEF HasTransaction, IInv, ThreadFacts
  <2> QED BY <1>1, <1>3, <1>4, <2>1 DEF IInv, ThreadFacts, Early
<1>7. TransactionFacts'
  BY <1>3, <1>4 DEF IInv, TransactionFacts
<1>8. TableFacts' /\ NetworkFacts'
  BY <1>3, <1>4 DEF IInv, TableFacts, NetworkFacts
<1>9. ASSUME UInv
      PROVE  UInv'
  <2>1. OwnExchange'
    BY <1>3, <1>4, <1>9 DEF UInv, OwnExchange
  <2>2. \A y \in Exchanges : Live(y)' => Live(y)
    BY <1>1, <1>3, <1>4 DEF Live, InTable
  <2> QED BY <1>3, <1>9, <2>1, <2>2 DEF UInv, OneLivePerPort
<1> QED BY <1>5, <1>6, <1>7, <1>8, <1>9 DEF IInv

\* The transaction taken may be another than the one marked.
LEMMA TakeKeeps ==
  ASSUME IInv, NEW t \in Threads, Take(t)
  PROVE  IInv' /\ (UInv => UInv')
<1> USE Types
<1> DEFINE x == datagram[t]
           s == table[port[x]]
<1>1. /\ pc[t] = "take" /\ at[t] = None /\ ~timer[t] /\ tx[t].exchange = None
      /\ x \in Exchanges /\ port[x] \in Ports
  BY DEF Take, IInv, ThreadFacts, Early
<1>2. s \in Threads \cup {None}
  BY <1>1
<1>3. /\ at'[t] = s
      /\ \A u \in Threads \ {t} : pc'[u] = pc[u] /\ at'[u] = at[u]
      /\ UNCHANGED <<port, open, heard, up, down, table, datagram, timer, tx>>
      /\ pc'[t] = IF s = None THEN "done" ELSE "check"
  BY <1>1 DEF Take, Goto, Key, clientVars
<1>4. TypeOK'
  <2>1. /\ pc' \in [Threads -> Labels]
        /\ at' \in [Threads -> Threads \cup {None}]
    BY <1>1 DEF Take, Goto, Key, Labels
  <2> QED BY <1>3, <2>1 DEF IInv, TypeOK, ClientTypeOK
<1>5. s # None => tx[s].exchange \in Exchanges /\ port[tx[s].exchange] = port[x]
  BY <1>1 DEF IInv, TableFacts
<1> HIDE DEF x, s
<1>6. ThreadFacts'
  <2>1. s # None => HasTransaction(t)'
    BY <1>2, <1>3, <1>5 DEF HasTransaction, x
  <2>2. ASSUME NEW u \in Threads \ {t}, at[u] # None
        PROVE  HasTransaction(u)'
    BY <1>3, <2>2 DEF HasTransaction, IInv, ThreadFacts
  <2> QED BY <1>1, <1>3, <2>1, <2>2 DEF IInv, ThreadFacts, Early, x
<1>7. TransactionFacts'
  <2>1. \A u \in Threads : at[u] # None => at'[u] = at[u]
    BY <1>1, <1>3
  <2>2. \A v \in Threads : tx[v].separate_timer \in Threads \cup {None}
    BY DEF Transactions
  <2> QED BY <1>3, <2>1, <2>2 DEF IInv, TransactionFacts
<1>8. TableFacts' /\ NetworkFacts'
  BY <1>3 DEF IInv, TableFacts, NetworkFacts
<1>9. ASSUME UInv
      PROVE  UInv'
  <2>1. s # None => InTable(tx[s].exchange)
    BY <1>1 DEF InTable, s
  <2>2. Live(x)
    BY <1>1 DEF Live, x
  <2>3. s # None => tx[s].exchange = datagram[t]
    BY <1>1, <1>5, <1>9, <2>1, <2>2 DEF UInv, OneLivePerPort, Live, x
  <2>4. OwnExchange'
    BY <1>2, <1>3, <1>9, <2>3 DEF UInv, OwnExchange
  <2>5. \A y \in Exchanges : Live(y)' => Live(y)
    BY <1>1, <1>3 DEF Live, InTable
  <2> QED BY <1>3, <1>9, <2>4, <2>5 DEF UInv, OneLivePerPort
<1> QED BY <1>4, <1>6, <1>7, <1>8, <1>9 DEF IInv

LEMMA PurgeKeeps ==
  ASSUME IInv, NEW p \in Ports, Purge(p)
  PROVE  IInv' /\ (UInv => UInv')
<1> USE Types
<1>1. /\ table'[p] = None
      /\ \A q \in Ports \ {p} : table'[q] = table[q]
      /\ UNCHANGED <<port, open, heard, up, down, pc, datagram, at, timer, tx>>
  BY DEF Purge, clientVars
<1>2. TypeOK'
  BY DEF Purge, clientVars, IInv, TypeOK, ClientTypeOK
<1>3. ThreadFacts' /\ TransactionFacts' /\ NetworkFacts'
  BY <1>1 DEF IInv, ThreadFacts, HasTransaction, TransactionFacts, NetworkFacts
<1>4. TableFacts'
  BY <1>1 DEF IInv, TableFacts
<1>5. ASSUME UInv
      PROVE  UInv'
  <2>1. \A y \in Exchanges : Live(y)' => Live(y)
    BY <1>1 DEF Live, InTable
  <2> QED BY <1>1, <1>5, <2>1 DEF UInv, OwnExchange, OneLivePerPort
<1> QED BY <1>2, <1>3, <1>4, <1>5 DEF IInv

-----------------------------------------------------------------------------
LEMMA InitEstablishes == Init => IInv /\ UInv
<1> SUFFICES ASSUME Init
             PROVE  IInv /\ UInv
  OBVIOUS
<1> USE ProxyAssumption, NanocoapAssumption DEF Init, ClientInit, ProxyInit
<1>1. NoTransaction \in Transactions /\ NoTransaction.exchange = None
      /\ ~NoTransaction.completed /\ NoTransaction.separate_timer = None
  BY DEF NoTransaction, New, Transactions
<1> HIDE DEF NoTransaction
<1>2. TypeOK
  BY <1>1 DEF TypeOK, ClientTypeOK, Labels
<1>3. ThreadFacts /\ TransactionFacts /\ TableFacts /\ NetworkFacts
  BY <1>1 DEF ThreadFacts, TransactionFacts, TableFacts, NetworkFacts, Early
<1>4. UInv
  BY DEF UInv, OneLivePerPort, OwnExchange, Live, InTable
<1> QED BY <1>2, <1>3, <1>4 DEF IInv

LEMMA NextKeeps ==
  ASSUME IInv, [Next]_vars
  PROVE  IInv' /\ (UInv /\ PortReuse = "forgotten" => UInv')
<1>1. CASE \E x \in Exchanges, p \in Ports : BeginOn(x, p)
  BY <1>1, BeginKeeps
<1>2. CASE ClientStep \/ \E x \in Exchanges, m \in down : HearStep(x, m)
  BY <1>2, ClientKeeps
<1>3. CASE \E t \in Threads, x \in Exchanges : Arrive(t, x)
  BY <1>3, ArriveKeeps
<1>4. CASE \E t \in Threads : ThreadStep(t)
  <2> PICK t \in Threads : ThreadStep(t)
    BY <1>4
  <2>1. CASE Lookup(t)
    <3>1. datagram[t] \in Exchanges
      BY <2>1 DEF Lookup, IInv, ThreadFacts
    <3> QED BY <2>1, <3>1, ArriveKeeps
  <2>2. CASE Insert(t)
    BY <2>2, InsertKeeps
  <2>3. CASE Mark(t)
    BY <2>3, MarkKeeps
  <2>4. CASE Check(t) \/ Recheck(t)
    BY <2>4, CheckKeeps
  <2>5. CASE AckDuplicate(t)
    BY <2>5, AckDuplicateKeeps
  <2>6. CASE ResendResponse(t)
    BY <2>6, ResendResponseKeeps
  <2>7. CASE StartTimer(t)
    BY <2>7, StartTimerKeeps
  <2>8. CASE Reply(t)
    BY <2>8, ReplyKeeps
  <2>9. CASE Take(t)
    BY <2>9, TakeKeeps
  <2> QED BY <2>1, <2>2, <2>3, <2>4, <2>5, <2>6, <2>7, <2>8, <2>9 DEF ThreadStep
<1>5. CASE \E t \in Threads : TimerFires(t)
  BY <1>5, TimerFiresKeeps
<1>6. CASE \E t \in Threads : Raises(t)
  BY <1>6, CheckKeeps
<1>7. CASE \E p \in Ports : Purge(p)
  BY <1>7, PurgeKeeps
<1>8. CASE \E t \in Threads : Forward(t)
  BY <1>8, ForwardKeeps
<1>9. CASE \E t \in Threads, code \in Codes \ {"empty"} : Returns(t, code)
  BY <1>9, ReturnsKeeps
<1>10. CASE UNCHANGED vars
  <2>1. ClientTypeOK'
    BY <1>10 DEF IInv, TypeOK, ClientTypeOK, vars, clientVars
  <2> QED BY <1>10, <2>1, QuietPreserves DEF vars, clientVars
<1> QED BY <1>1, <1>2, <1>3, <1>4, <1>5, <1>6, <1>7, <1>8, <1>9, <1>10
        DEF Next, ProxyStep

\* The thread that created a transaction attends to it until it has
\* started a timer, and whoever stops the timer has acknowledged.
LEMMA Attended == IInv => AcknowledgedOrAttended
<1> SUFFICES ASSUME IInv, NEW t \in Threads,
                    tx[t].exchange # None, ~tx[t].acknowledged
             PROVE  Attends(t, t)
  BY DEF AcknowledgedOrAttended
<1>1. at[t] = t /\ HasTransaction(t)
  BY Types DEF IInv, TransactionFacts, ThreadFacts
<1>2. pc[t] \in {"forward", "done"} => timer[t]
  BY <1>1 DEF HasTransaction
<1> QED BY <1>1, <1>2 DEF Attends

LEMMA ProxyInvariant == Spec => []IInv
<1>1. Init => IInv
  BY InitEstablishes
<1>2. IInv /\ [Next]_vars => IInv'
  BY NextKeeps
<1> QED BY <1>1, <1>2, PTL DEF Spec

(***************************************************************************)
(* Every field of every thread and transaction keeps its type.             *)
(***************************************************************************)
THEOREM TypeCorrect == Spec => []TypeOK
<1>1. IInv => TypeOK
  BY DEF IInv
<1> QED BY <1>1, ProxyInvariant, PTL

(***************************************************************************)
(* However ports are used again, duplicates arrive, timers are replaced    *)
(* and stopped and calls fail: a request taken in is acknowledged, or a    *)
(* thread or a timer will see to it.                                       *)
(***************************************************************************)
THEOREM NeverUnattended == Spec => []AcknowledgedOrAttended
<1> QED BY Attended, ProxyInvariant, PTL

-----------------------------------------------------------------------------
(***************************************************************************)
(* Delivery: as long as ports are not used again too early, a reading that *)
(* the node deletes is in the database.  The argument follows the word     *)
(* "stored" back: from the node to an answer, from the answer to the       *)
(* response of a transaction, from there to what the server did, and at    *)
(* every link the exchange is the same.                                    *)
(***************************************************************************)
\* What exchange y carries is in the database.
Arrived(y) == y \in Exchanges /\ carries[y] \in Readings /\ stored[carries[y]] > 0

DataTypeOK ==
  /\ carries \in [Exchanges -> Readings \cup {None}]
  /\ settled \subseteq Readings
  /\ stored \in [Readings -> Nat]
  /\ serves \in [Threads -> {"idle", "asked", "insert", "created", "exists"}]

CarriesReading == \A x \in Exchanges : port[x] # None <=> carries[x] \in Readings

ServerKnows ==
  \A t \in Threads :
    /\ serves[t] # "idle" => at[t] # None
    /\ serves[t] \in Settling => Arrived(Own(t).exchange)

ResponsesTrue == \A s \in Threads : tx[s].response \in Settling => Arrived(tx[s].exchange)

AnswersTrue == \A m \in down : m.code \in Settling => Arrived(m.for)

DInv ==
  /\ DataTypeOK /\ CarriesReading /\ ServerKnows
  /\ ResponsesTrue /\ AnswersTrue /\ SettledIsStored

-----------------------------------------------------------------------------
(***************************************************************************)
(* What a step of the proxy or of the node does to responses and answers:  *)
(* it invents none that says "stored", and moves none to another exchange. *)
(***************************************************************************)
OwnersStay ==
  \A t \in Threads : at[t] # None =>
    at'[t] = at[t] /\ tx'[at[t]].exchange = tx[at[t]].exchange

NoNewAnswer ==
  \A m \in down' :
    \/ m \in down
    \/ m.code \notin Settling
    \/ \E s \in Threads : m.code = tx[s].response /\ m.for = tx[s].exchange

NoNewResponse ==
  \A s \in Threads : tx'[s].response \in Settling =>
    tx'[s].response = tx[s].response /\ tx'[s].exchange = tx[s].exchange

Honest == OwnersStay /\ NoNewAnswer /\ NoNewResponse

LEMMA QuietIsHonest ==
  ASSUME IInv, UNCHANGED <<at, tx>>, down' \subseteq down
  PROVE  Honest
BY DEF Honest, OwnersStay, NoNewAnswer, NoNewResponse

\* One transaction changes, to r, and what is sent is code.
LEMMA ChangeIsHonest ==
  ASSUME IInv, NEW t \in Threads, at[t] # None, NEW r \in Transactions, NEW code,
         UNCHANGED at,
         tx' = [tx EXCEPT ![at[t]] = r],
         r.exchange = Own(t).exchange,
         r.response \in Settling => r.response = Own(t).response,
         down' \subseteq down \cup {Answers(t, code)},
         code \in Settling => code = Own(t).response
  PROVE  Honest
<1> USE Types, OwnFacts
<1>1. tx'[at[t]] = r /\ \A s \in Threads \ {at[t]} : tx'[s] = tx[s]
  OBVIOUS
<1>2. OwnersStay
  BY <1>1 DEF OwnersStay, Own
<1>3. NoNewResponse
  BY <1>1 DEF NoNewResponse, Own
<1>4. Answers(t, code).code = code /\ Answers(t, code).for = Own(t).exchange
  BY DEF Answers
<1>5. NoNewAnswer
  BY <1>4 DEF NoNewAnswer, Own
<1> QED BY <1>2, <1>3, <1>5 DEF Honest

LEMMA AckIsHonest ==
  ASSUME IInv, NEW t \in Threads, at[t] # None, SendAck(t), UNCHANGED at
  PROVE  Honest
<1>1. PICK r \in Transactions :
        /\ tx' = [tx EXCEPT ![at[t]] = r]
        /\ Keeps(Own(t), r, t)
        /\ r.response = Own(t).response
  BY AckFacts
<1>2. down' \subseteq down \cup {Answers(t, "empty")}
  BY DEF SendAck, Send, clientVars
<1> QED BY <1>1, <1>2, ChangeIsHonest DEF Keeps, Settling

LEMMA ResponseIsHonest ==
  ASSUME IInv, NEW t \in Threads, at[t] # None, Own(t).response # None,
         SendResponse(t, Own(t)), UNCHANGED at
  PROVE  Honest
<1>1. PICK r \in Transactions :
        /\ tx' = [tx EXCEPT ![at[t]] = r]
        /\ Keeps(Own(t), r, t)
        /\ r.response = Own(t).response
  BY ResponseFacts
<1>2. down' \subseteq down \cup {Answers(t, Own(t).response)}
  BY DEF SendResponse, Send
<1> QED BY <1>1, <1>2, ChangeIsHonest DEF Keeps

LEMMA ThreadIsHonest ==
  ASSUME IInv, NEW t \in Threads, ThreadStep(t)
  PROVE  Honest
<1> USE Types
<1>1. CASE Lookup(t) \/ Check(t) \/ Recheck(t)
  BY <1>1, QuietIsHonest DEF Lookup, Check, Recheck, clientVars
<1>2. CASE Insert(t)
  <2>1. at[t] = None /\ tx[t].exchange = None /\ datagram[t] \in Exchanges
    BY <1>2 DEF Insert, IInv, ThreadFacts, Early
  <2>2. /\ UNCHANGED down
        /\ \A u \in Threads \ {t} : at'[u] = at[u] /\ tx'[u] = tx[u]
        /\ tx'[t] = New(datagram[t])
    BY <1>2 DEF Insert, clientVars
  <2>3. \A u \in Threads : at[u] # t
    BY <2>1 DEF IInv, ThreadFacts, HasTransaction
  <2>4. New(datagram[t]).response \notin Settling
    BY ProxyAssumption DEF New, Settling, Codes
  <2> QED BY <2>1, <2>2, <2>3, <2>4 DEF Honest, OwnersStay, NoNewAnswer, NoNewResponse
<1>3. CASE Mark(t)
  <2>1. at[t] = None /\ datagram[t] \in Exchanges /\ port[datagram[t]] \in Ports
    BY <1>3 DEF Mark, IInv, ThreadFacts, Early
  <2>2. UNCHANGED <<down, at>>
    BY <1>3 DEF Mark, clientVars
  <2>3. \A u \in Threads : tx'[u].exchange = tx[u].exchange /\ tx'[u].response = tx[u].response
    <3> DEFINE s == table[Key(t)]
    <3>1. CASE s = None
      BY <1>3, <3>1 DEF Mark
    <3>2. CASE s # None
      <4>1. tx' = [tx EXCEPT ![s] = [tx[s] EXCEPT !.duplicated = TRUE]]
        BY <1>3, <3>2 DEF Mark
      <4>2. s \in Threads
        BY <2>1, <3>2 DEF Key
      <4> HIDE DEF s
      <4>3. \A u \in Threads \ {s} : tx'[u] = tx[u]
        BY <4>1
      <4>4. tx'[s] = [tx[s] EXCEPT !.duplicated = TRUE] /\ tx[s] \in Transactions
        BY <4>1, <4>2
      <4> QED BY <4>3, <4>4 DEF Transactions
    <3> QED BY <3>1, <3>2
  <2> QED BY <2>1, <2>2, <2>3 DEF Honest, OwnersStay, NoNewAnswer, NoNewResponse
<1>4. CASE AckDuplicate(t)
  BY <1>4, AckIsHonest DEF AckDuplicate, IInv, ThreadFacts, Early
<1>5. CASE ResendResponse(t)
  <2>1. at[t] # None /\ UNCHANGED at
    BY <1>5 DEF ResendResponse, IInv, ThreadFacts, Early
  <2>2. CASE Own(t).response = None
    BY <1>5, <2>1, <2>2, QuietIsHonest DEF ResendResponse, clientVars
  <2>3. CASE Own(t).response # None
    BY <1>5, <2>1, <2>3, ResponseIsHonest DEF ResendResponse
  <2> QED BY <2>2, <2>3
<1>6. CASE StartTimer(t)
  <2> DEFINE r == [Own(t) EXCEPT !.separate_timer = t]
  <2>1. at[t] # None /\ UNCHANGED <<at, down>>
    BY <1>6 DEF StartTimer, IInv, ThreadFacts, Early, clientVars
  <2>2. r \in Transactions
    BY <2>1, OwnFacts, RecordFacts
  <2>3. r.exchange = Own(t).exchange /\ r.response = Own(t).response
    BY <2>1, OwnFacts DEF Transactions
  <2>4. tx' = [tx EXCEPT ![at[t]] = r]
    BY <1>6 DEF StartTimer, Becomes
  <2> HIDE DEF r
  <2> QED BY <2>1, <2>2, <2>3, <2>4, ChangeIsHonest
<1>7. CASE Reply(t)
  <2>1. pc[t] = "reply" /\ at[t] # None
    BY <1>7 DEF Reply, IInv, ThreadFacts, Early
  <2>2. Own(t).response # None
    BY <2>1, OwnFacts DEF HasTransaction, Own
  <2> QED BY <1>7, <2>1, <2>2, ResponseIsHonest DEF Reply
<1>8. CASE Take(t)
  <2>1. at[t] = None /\ UNCHANGED <<down, tx>> /\ \A u \in Threads \ {t} : at'[u] = at[u]
    BY <1>8 DEF Take, IInv, ThreadFacts, Early, clientVars
  <2> QED BY <2>1 DEF Honest, OwnersStay, NoNewAnswer, NoNewResponse
<1> QED BY <1>1, <1>2, <1>3, <1>4, <1>5, <1>6, <1>7, <1>8 DEF ThreadStep

LEMMA StepIsHonest ==
  ASSUME IInv, ClientStep \/ ProxyStep
  PROVE  Honest /\ UNCHANGED port
<1>1. CASE ClientStep
  <2>1. UNCHANGED <<port, at, tx>> /\ down' \subseteq down
    BY <1>1 DEF ClientStep, Resend, GiveUp, Closes, Lose, proxyVars
  <2> QED BY <2>1, QuietIsHonest
<1>2. CASE \E t \in Threads : (\E x \in Exchanges : Arrive(t, x)) \/ Raises(t)
  BY <1>2, QuietIsHonest DEF Arrive, Raises, clientVars
<1>3. CASE \E p \in Ports : Purge(p)
  BY <1>3, QuietIsHonest DEF Purge, clientVars
<1>4. CASE \E t \in Threads : TimerFires(t)
  <2> PICK t \in Threads : TimerFires(t)
    BY <1>4
  <2>1. at[t] # None
    BY DEF TimerFires, IInv, ThreadFacts
  <2> QED BY <2>1, AckIsHonest, AckFacts DEF TimerFires
<1>5. CASE \E t \in Threads : ThreadStep(t)
  <2> PICK t \in Threads : ThreadStep(t)
    BY <1>5
  <2>1. UNCHANGED port
    BY DEF ThreadStep, Lookup, Insert, Mark, Take, Check, Recheck, AckDuplicate,
           ResendResponse, StartTimer, Reply, SendAck, SendResponse, clientVars
  <2> QED BY <2>1, ThreadIsHonest
<1> QED BY <1>1, <1>2, <1>3, <1>4, <1>5 DEF ProxyStep

LEMMA ForwardIsHonest ==
  ASSUME IInv, NEW t \in Threads, Forward(t)
  PROVE  Honest /\ at[t] # None
<1> DEFINE r == [Own(t) EXCEPT !.response = "empty", !.type = None]
<1>1. at[t] # None /\ UNCHANGED <<at, down>>
  BY DEF Forward, IInv, ThreadFacts, Early, clientVars
<1>2. r \in Transactions
  BY <1>1, OwnFacts, RecordFacts
<1>3. r.exchange = Own(t).exchange /\ r.response = "empty"
  BY <1>1, OwnFacts DEF Transactions
<1>4. tx' = [tx EXCEPT ![at[t]] = r]
  BY DEF Forward, Becomes
<1> HIDE DEF r
<1> QED BY <1>1, <1>2, <1>3, <1>4, ChangeIsHonest DEF Settling

-----------------------------------------------------------------------------
(***************************************************************************)
(* What was stored stays stored, so whatever says "stored" stays true when *)
(* nothing new says so.                                                    *)
(***************************************************************************)
Lasting == \A y \in Exchanges : Arrived(y) => Arrived(y)'

LEMMA SameRowsLast ==
  ASSUME UNCHANGED <<carries, stored>>
  PROVE  Lasting
BY DEF Lasting, Arrived

LEMMA HonestKeepsAnswers ==
  ASSUME IInv, DInv, IInv', Honest, Lasting
  PROVE  ResponsesTrue' /\ AnswersTrue'
<1> USE Types
<1>1. ASSUME NEW s \in Threads, tx[s].response \in Settling
      PROVE  tx[s].exchange \in Exchanges /\ Arrived(tx[s].exchange)
  <2>1. Arrived(tx[s].exchange)
    BY <1>1 DEF DInv, ResponsesTrue
  <2> QED BY <2>1 DEF Arrived
<1>2. ResponsesTrue'
  BY <1>1 DEF ResponsesTrue, Honest, NoNewResponse, Lasting
<1>3. AnswersTrue'
  <2> SUFFICES ASSUME NEW m \in down', m.code \in Settling
               PROVE  Arrived(m.for)'
    BY DEF AnswersTrue
  <2>1. CASE m \in down
    <3>1. m.for \in Exchanges
      BY <2>1 DEF Datagrams
    <3> QED BY <2>1, <3>1 DEF DInv, AnswersTrue, Lasting
  <2>2. CASE m \notin down
    <3>1. PICK s \in Threads : m.code = tx[s].response /\ m.for = tx[s].exchange
      BY <2>2 DEF Honest, NoNewAnswer
    <3>2. m.for \in Exchanges /\ Arrived(m.for)
      BY <3>1, <1>1
    <3> QED BY <3>2 DEF Lasting
  <2> QED BY <2>1, <2>2
<1> QED BY <1>2, <1>3

LEMMA HonestKeepsServer ==
  ASSUME IInv, DInv, OwnersStay, Lasting, NEW t \in Threads, serves'[t] = serves[t]
  PROVE  /\ serves'[t] # "idle" => at'[t] # None
         /\ serves'[t] \in Settling => Arrived(Own(t).exchange)'
<1> USE Types, OwnFacts
<1>1. CASE serves[t] = "idle"
  BY <1>1 DEF Settling
<1>2. CASE serves[t] # "idle"
  <2>1. at[t] # None
    BY <1>2 DEF DInv, ServerKnows
  <2>2. at'[t] = at[t] /\ Own(t)'.exchange = Own(t).exchange
    BY <2>1 DEF OwnersStay, Own
  <2> QED BY <2>1, <2>2 DEF DInv, ServerKnows, Lasting
<1> QED BY <1>1, <1>2

-----------------------------------------------------------------------------
LEMMA DataTypes ==
  ASSUME DInv
  PROVE  /\ carries \in [Exchanges -> Readings \cup {None}]
         /\ settled \subseteq Readings
         /\ stored \in [Readings -> Nat]
         /\ serves \in [Threads -> {"idle", "asked", "insert", "created", "exists"}]
BY DEF DInv, DataTypeOK

LEMMA QuietDeliveryKeeps ==
  ASSUME IInv, DInv, IInv', ClientStep \/ ProxyStep, UNCHANGED deliveryVars
  PROVE  DInv'
<1>1. Honest /\ UNCHANGED port
  BY StepIsHonest
<1>2. UNCHANGED <<carries, settled, stored, serves>>
  BY DEF deliveryVars
<1>3. Lasting
  BY <1>2, SameRowsLast
<1>4. ServerKnows'
  BY <1>1, <1>2, <1>3, HonestKeepsServer DEF Honest, ServerKnows
<1>5. DataTypeOK' /\ CarriesReading' /\ SettledIsStored'
  BY <1>1, <1>2 DEF DInv, DataTypeOK, CarriesReading, SettledIsStored
<1> QED BY <1>1, <1>3, <1>4, <1>5, HonestKeepsAnswers DEF DInv

LEMMA ForwardReadingKeeps ==
  ASSUME IInv, DInv, IInv', NEW t \in Threads, ForwardReading(t)
  PROVE  DInv'
<1> USE DataTypes
<1>1. Honest /\ at[t] # None /\ UNCHANGED <<port, at>>
  BY ForwardIsHonest DEF ForwardReading, Forward, clientVars
<1>2. /\ UNCHANGED <<carries, settled, stored>>
      /\ serves' = [serves EXCEPT ![t] = "asked"]
  BY DEF ForwardReading
<1>3. Lasting
  BY <1>2, SameRowsLast
<1>4. ServerKnows'
  <2> SUFFICES ASSUME NEW u \in Threads
               PROVE  /\ serves'[u] # "idle" => at'[u] # None
                      /\ serves'[u] \in Settling => Arrived(Own(u).exchange)'
    BY DEF ServerKnows
  <2>1. CASE u = t
    BY <1>1, <1>2, <2>1 DEF Settling
  <2>2. CASE u # t
    BY <1>1, <1>2, <1>3, <2>2, HonestKeepsServer DEF Honest
  <2> QED BY <2>1, <2>2
<1>5. DataTypeOK' /\ CarriesReading' /\ SettledIsStored'
  BY <1>1, <1>2 DEF DInv, DataTypeOK, CarriesReading, SettledIsStored
<1> QED BY <1>1, <1>3, <1>4, <1>5, HonestKeepsAnswers DEF DInv

\* An exchange that begins had no reading, so nothing speaks of it yet.
LEMMA PostReadingKeeps ==
  ASSUME IInv, DInv, IInv', NEW x \in Exchanges, NEW p \in Ports, NEW r \in Readings,
         PostReading(x, p, r)
  PROVE  DInv'
<1> USE Types, DataTypes
<1>1. /\ port[x] = None /\ port' = [port EXCEPT ![x] = p]
      /\ UNCHANGED <<down, at, tx>>
  BY DEF PostReading, BeginOn, Begin, proxyVars
<1>2. /\ carries' = [carries EXCEPT ![x] = r]
      /\ UNCHANGED <<settled, stored, serves>>
  BY DEF PostReading
<1>3. carries[x] \notin Readings
  BY <1>1 DEF DInv, CarriesReading
<1>4. Lasting
  BY <1>2, <1>3 DEF Lasting, Arrived
<1>5. Honest
  BY <1>1, QuietIsHonest
<1>6. ServerKnows'
  BY <1>2, <1>4, <1>5, HonestKeepsServer DEF Honest, ServerKnows
<1>7. DataTypeOK' /\ CarriesReading' /\ SettledIsStored'
  BY <1>1, <1>2 DEF DInv, DataTypeOK, CarriesReading, SettledIsStored
<1> QED BY <1>4, <1>5, <1>6, <1>7, HonestKeepsAnswers DEF DInv

\* The answer that is heard is one to this exchange: nothing of another
\* exchange on the same port is left.
LEMMA HearAnswerKeeps ==
  ASSUME IInv, UInv, DInv, IInv', NEW x \in Exchanges, NEW m \in down, HearAnswer(x, m)
  PROVE  DInv'
<1> USE Types, DataTypes
<1>1. /\ x \in open /\ m.to = port[x]
      /\ UNCHANGED <<port, down, at, tx, carries, stored, serves>>
      /\ settled' = IF m.code \in Settling THEN settled \cup {carries[x]} ELSE settled
  BY DEF HearAnswer, HearStep, Hear, proxyVars
<1>2. m.for = x
  <2>1. m.for \in Exchanges /\ port[m.for] = port[x]
    BY <1>1 DEF Datagrams, IInv, NetworkFacts
  <2>2. Live(x) /\ Live(m.for)
    BY <1>1 DEF Live
  <2> QED BY <2>1, <2>2 DEF UInv, OneLivePerPort
<1>3. m.code \in Settling => Arrived(x)
  BY <1>2 DEF DInv, AnswersTrue
<1>4. settled' \subseteq Readings /\ SettledIsStored'
  BY <1>1, <1>3 DEF DInv, SettledIsStored, Arrived
<1>5. Lasting /\ Honest
  BY <1>1, SameRowsLast, QuietIsHonest
<1>6. ServerKnows'
  BY <1>1, <1>5, HonestKeepsServer DEF Honest, ServerKnows
<1>7. DataTypeOK' /\ CarriesReading'
  BY <1>1, <1>4 DEF DInv, DataTypeOK, CarriesReading
<1> QED BY <1>4, <1>5, <1>6, <1>7, HonestKeepsAnswers DEF DInv

\* The server's two steps: what it counts or inserts is the reading of the
\* transaction it answers.
LEMMA ServerKeeps ==
  ASSUME IInv, DInv, IInv', NEW t \in Threads, CountRows(t) \/ InsertRow(t)
  PROVE  DInv'
<1> USE Types, DataTypes
<1>1. UNCHANGED <<port, down, at, tx, carries, settled>>
  BY DEF CountRows, InsertRow, vars, clientVars, proxyVars
<1>2. at[t] # None
  BY DEF CountRows, InsertRow, DInv, ServerKnows
<1>3. Own(t).exchange \in Exchanges /\ Payload(t) \in Readings
  <2>1. Own(t).exchange \in Exchanges /\ port[Own(t).exchange] \in Ports
    BY <1>2, OwnFacts
  <2> QED BY <2>1 DEF Payload, DInv, CarriesReading
<1>4. /\ stored' \in [Readings -> Nat]
      /\ \A r \in Readings : stored[r] > 0 => stored'[r] > 0
      /\ serves' \in [Threads -> {"idle", "asked", "insert", "created", "exists"}]
      /\ \A u \in Threads \ {t} : serves'[u] = serves[u]
      /\ serves'[t] \in Settling => stored'[Payload(t)] > 0
  BY <1>3 DEF CountRows, InsertRow, Settling
<1>5. Lasting
  BY <1>1, <1>4 DEF Lasting, Arrived
<1>6. Honest
  BY <1>1, QuietIsHonest
<1>7. ServerKnows'
  <2> SUFFICES ASSUME NEW u \in Threads
               PROVE  /\ serves'[u] # "idle" => at'[u] # None
                      /\ serves'[u] \in Settling => Arrived(Own(u).exchange)'
    BY DEF ServerKnows
  <2>1. CASE u = t
    BY <1>1, <1>2, <1>3, <1>4, <2>1 DEF Arrived, Own, Payload
  <2>2. CASE u # t
    BY <1>4, <1>5, <1>6, <2>2, HonestKeepsServer DEF Honest
  <2> QED BY <2>1, <2>2
<1>8. DataTypeOK' /\ CarriesReading' /\ SettledIsStored'
  BY <1>1, <1>4 DEF DInv, DataTypeOK, CarriesReading, SettledIsStored
<1> QED BY <1>5, <1>6, <1>7, <1>8, HonestKeepsAnswers DEF DInv

LEMMA ReturnsFromServerKeeps ==
  ASSUME IInv, DInv, IInv', NEW t \in Threads, NEW code \in Codes,
         ReturnsFromServer(t, code)
  PROVE  DInv'
<1> USE Types, DataTypes
<1> DEFINE r == [Own(t) EXCEPT !.response = code]
<1>1. /\ at[t] # None
      /\ UNCHANGED <<port, down, at, carries, settled, stored, serves>>
      /\ tx' = [tx EXCEPT ![at[t]] = r]
      /\ code \in Settling => serves[t] = code
  BY DEF ReturnsFromServer, Returns, Becomes, IInv, ThreadFacts, Early, clientVars,
         deliveryVars
<1>2. r.exchange = Own(t).exchange /\ r.response = code /\ at[t] \in Threads
  BY <1>1, OwnFacts DEF Transactions
<1> HIDE DEF r
<1>3. tx'[at[t]] = r /\ \A s \in Threads \ {at[t]} : tx'[s] = tx[s]
  BY <1>1, <1>2
<1>4. Lasting
  BY <1>1, SameRowsLast
<1>5. OwnersStay
  BY <1>1, <1>2, <1>3 DEF OwnersStay, Own
<1>6. ServerKnows'
  BY <1>1, <1>4, <1>5, HonestKeepsServer DEF ServerKnows
<1>7. ResponsesTrue'
  <2> SUFFICES ASSUME NEW s \in Threads, tx'[s].response \in Settling
               PROVE  Arrived(tx[s].exchange)'
    BY DEF ResponsesTrue
  <2>1. CASE s = at[t]
    <3>1. Arrived(Own(t).exchange)
      BY <1>1, <1>2, <1>3, <2>1 DEF DInv, ServerKnows
    <3>2. tx'[s].exchange = Own(t).exchange
      BY <1>2, <1>3, <2>1
    <3> QED BY <1>1, <3>1, <3>2 DEF Arrived
  <2>2. CASE s # at[t]
    <3>1. tx'[s] = tx[s] /\ Arrived(tx[s].exchange)
      BY <1>3, <2>2 DEF DInv, ResponsesTrue
    <3> QED BY <1>1, <3>1 DEF Arrived
  <2> QED BY <2>1, <2>2
<1>8. AnswersTrue'
  BY <1>1 DEF DInv, AnswersTrue, Arrived
<1>9. DataTypeOK' /\ CarriesReading' /\ SettledIsStored'
  BY <1>1 DEF DInv, DataTypeOK, CarriesReading, SettledIsStored
<1> QED BY <1>6, <1>7, <1>8, <1>9 DEF DInv

-----------------------------------------------------------------------------
\* Delivery only restricts the proxy: when calls begin and what they return.
LEMMA DeliveryIsProxy == [DeliveryNext]_allVars => [Next]_vars
BY DEF DeliveryNext, allVars, PostReading, HearAnswer, ForwardReading, CountRows,
       InsertRow, ReturnsFromServer, Next

LEMMA DeliveryInitEstablishes == DeliveryInit => DInv
<1> SUFFICES ASSUME DeliveryInit
             PROVE  DInv
  OBVIOUS
<1> USE DeliveryAssumption, ProxyAssumption DEF DeliveryInit
<1>1. DataTypeOK /\ CarriesReading /\ SettledIsStored
  BY DEF DataTypeOK, CarriesReading, SettledIsStored, Init, ClientInit
<1>2. ServerKnows
  BY DEF ServerKnows, Settling
<1>3. AnswersTrue
  BY DEF AnswersTrue, Init, ClientInit
<1>4. ResponsesTrue
  BY DEF ResponsesTrue, Init, ProxyInit, NoTransaction, New, Settling, Codes
<1> QED BY <1>1, <1>2, <1>3, <1>4 DEF DInv

LEMMA DeliveryNextKeeps ==
  ASSUME IInv, UInv, DInv, IInv', [DeliveryNext]_allVars
  PROVE  DInv'
<1>1. CASE \E x \in Exchanges, p \in Ports, r \in Readings : PostReading(x, p, r)
  BY <1>1, PostReadingKeeps
<1>2. CASE \E x \in Exchanges, m \in down : HearAnswer(x, m)
  BY <1>2, HearAnswerKeeps
<1>3. CASE (ClientStep \/ ProxyStep) /\ UNCHANGED deliveryVars
  BY <1>3, QuietDeliveryKeeps
<1>4. CASE \E t \in Threads : ForwardReading(t)
  BY <1>4, ForwardReadingKeeps
<1>5. CASE \E t \in Threads : CountRows(t) \/ InsertRow(t)
  BY <1>5, ServerKeeps
<1>6. CASE \E t \in Threads, code \in Codes \ {"empty"} : ReturnsFromServer(t, code)
  BY <1>6, ReturnsFromServerKeeps
<1>7. CASE UNCHANGED allVars
  BY <1>7 DEF allVars, vars, clientVars, proxyVars, deliveryVars, DInv, DataTypeOK,
       CarriesReading, ServerKnows, ResponsesTrue, AnswersTrue, SettledIsStored, Arrived, Own
<1> QED BY <1>1, <1>2, <1>3, <1>4, <1>5, <1>6, <1>7 DEF DeliveryNext

(***************************************************************************)
(* A delivery is a behaviour of the proxy, whose theorems therefore hold   *)
(* of it.                                                                  *)
(***************************************************************************)
THEOREM DeliveryRunsTheProxy == DeliverySpec => Spec
<1>1. DeliveryInit => Init
  BY DEF DeliveryInit
<1> QED BY <1>1, DeliveryIsProxy, PTL DEF DeliverySpec, Spec

(***************************************************************************)
(* In a delivery as well, a request taken in is never left unattended.     *)
(***************************************************************************)
THEOREM DeliveryNeverUnattended == DeliverySpec => []AcknowledgedOrAttended
BY DeliveryRunsTheProxy, NeverUnattended, PTL

LEMMA DeliveryInvariant ==
  ASSUME PortReuse = "forgotten"
  PROVE  DeliverySpec => [](IInv /\ UInv /\ DInv)
<1>1. DeliveryInit => IInv /\ UInv /\ DInv
  BY InitEstablishes, DeliveryInitEstablishes DEF DeliveryInit
<1>2. IInv /\ UInv /\ DInv /\ [DeliveryNext]_allVars => (IInv /\ UInv /\ DInv)'
  BY DeliveryIsProxy, NextKeeps, DeliveryNextKeeps
<1> QED BY <1>1, <1>2, PTL DEF DeliverySpec

(***************************************************************************)
(* Without early reuse of a port, every reading the node deletes is in the *)
(* database.                                                               *)
(***************************************************************************)
THEOREM DeletedIsStored ==
  ASSUME PortReuse = "forgotten"
  PROVE  DeliverySpec => []SettledIsStored
<1>1. DInv => SettledIsStored
  BY DEF DInv
<1> QED BY <1>1, DeliveryInvariant, PTL

-----------------------------------------------------------------------------
(***************************************************************************)
(* However ports are used again: an exchange that has begun carries a      *)
(* reading, and so does the transaction of a thread the server works for.  *)
(***************************************************************************)
ServedHasTransaction == \A t \in Threads : serves[t] # "idle" => at[t] # None

TInv == DataTypeOK /\ CarriesReading /\ ServedHasTransaction

\* Steps of the proxy and the network never touch the data.
LEMMA QuietDeliveryKeepsTypes ==
  ASSUME IInv, TInv, ClientStep \/ ProxyStep, UNCHANGED deliveryVars
  PROVE  TInv'
<1>1. OwnersStay /\ UNCHANGED port
  BY StepIsHonest DEF Honest
<1> QED BY <1>1 DEF TInv, DataTypeOK, CarriesReading, ServedHasTransaction, OwnersStay,
              deliveryVars

LEMMA PostReadingKeepsTypes ==
  ASSUME IInv, TInv, NEW x \in Exchanges, NEW p \in Ports, NEW r \in Readings,
         PostReading(x, p, r)
  PROVE  TInv'
<1>1. /\ port' = [port EXCEPT ![x] = p]
      /\ carries' = [carries EXCEPT ![x] = r]
      /\ UNCHANGED <<at, settled, stored, serves>>
  BY DEF PostReading, BeginOn, Begin, proxyVars
<1> QED BY <1>1, Types DEF TInv, DataTypeOK, CarriesReading, ServedHasTransaction

\* Whatever answer is heard, the exchange that hears it carries a reading.
LEMMA HearAnswerKeepsTypes ==
  ASSUME IInv, TInv, NEW x \in Exchanges, NEW m \in down, HearAnswer(x, m)
  PROVE  TInv'
<1>1. /\ x \in open
      /\ UNCHANGED <<port, at, carries, stored, serves>>
      /\ settled' = IF m.code \in Settling THEN settled \cup {carries[x]} ELSE settled
  BY DEF HearAnswer, HearStep, Hear, proxyVars
<1>2. carries[x] \in Readings
  BY <1>1, Types DEF IInv, NetworkFacts, TInv, CarriesReading
<1> QED BY <1>1, <1>2 DEF TInv, DataTypeOK, CarriesReading, ServedHasTransaction

LEMMA ForwardReadingKeepsTypes ==
  ASSUME IInv, TInv, NEW t \in Threads, ForwardReading(t)
  PROVE  TInv'
<1>1. at[t] # None /\ OwnersStay
  BY ForwardIsHonest DEF ForwardReading, Honest
<1>2. /\ UNCHANGED <<port, at, carries, settled, stored>>
      /\ serves' = [serves EXCEPT ![t] = "asked"]
  BY DEF ForwardReading, Forward, clientVars
<1> QED BY <1>1, <1>2 DEF TInv, DataTypeOK, CarriesReading, ServedHasTransaction

LEMMA ServerKeepsTypes ==
  ASSUME IInv, TInv, NEW t \in Threads, CountRows(t) \/ InsertRow(t)
  PROVE  TInv'
<1>1. at[t] # None /\ UNCHANGED <<port, at, carries, settled>>
  BY DEF CountRows, InsertRow, TInv, ServedHasTransaction, vars, clientVars, proxyVars
<1>2. Own(t).exchange \in Exchanges /\ port[Own(t).exchange] \in Ports
  BY <1>1, OwnFacts
<1>3. Payload(t) \in Readings
  BY <1>2, Types DEF Payload, TInv, CarriesReading
<1>4. /\ stored' \in [Readings -> Nat]
      /\ serves' \in [Threads -> {"idle", "asked", "insert", "created", "exists"}]
      /\ \A u \in Threads \ {t} : serves'[u] = serves[u]
  BY <1>3 DEF CountRows, InsertRow, TInv, DataTypeOK
<1> QED BY <1>1, <1>4 DEF TInv, DataTypeOK, CarriesReading, ServedHasTransaction

LEMMA DeliveryNextKeepsTypes ==
  ASSUME IInv, TInv, [DeliveryNext]_allVars
  PROVE  TInv'
<1>1. CASE \E x \in Exchanges, p \in Ports, r \in Readings : PostReading(x, p, r)
  BY <1>1, PostReadingKeepsTypes
<1>2. CASE \E x \in Exchanges, m \in down : HearAnswer(x, m)
  BY <1>2, HearAnswerKeepsTypes
<1>3. CASE (ClientStep \/ ProxyStep) /\ UNCHANGED deliveryVars
  BY <1>3, QuietDeliveryKeepsTypes
<1>4. CASE \E t \in Threads : ForwardReading(t)
  BY <1>4, ForwardReadingKeepsTypes
<1>5. CASE \E t \in Threads : CountRows(t) \/ InsertRow(t)
  BY <1>5, ServerKeepsTypes
<1>6. CASE \E t \in Threads, code \in Codes \ {"empty"} : ReturnsFromServer(t, code)
  BY <1>6 DEF ReturnsFromServer, Returns, clientVars, deliveryVars,
              TInv, DataTypeOK, CarriesReading, ServedHasTransaction
<1>7. CASE UNCHANGED allVars
  BY <1>7 DEF allVars, vars, clientVars, proxyVars, deliveryVars,
              TInv, DataTypeOK, CarriesReading, ServedHasTransaction
<1> QED BY <1>1, <1>2, <1>3, <1>4, <1>5, <1>6, <1>7 DEF DeliveryNext

(***************************************************************************)
(* Readings, rows and calls of the server keep their types, however ports  *)
(* are used again: an answer heard on the wrong exchange still deletes a   *)
(* reading, and the server always has one to count and insert.             *)
(***************************************************************************)
THEOREM DeliveryTypeCorrect == DeliverySpec => []DeliveryTypeOK
<1>1. DeliveryInit => IInv /\ TInv
  BY InitEstablishes, DeliveryInitEstablishes
     DEF DeliveryInit, DInv, TInv, ServerKnows, ServedHasTransaction
<1>2. IInv /\ TInv /\ [DeliveryNext]_allVars => (IInv /\ TInv)'
  BY DeliveryIsProxy, NextKeeps, DeliveryNextKeepsTypes
<1>3. IInv /\ TInv => DeliveryTypeOK
  BY DEF IInv, TInv, DataTypeOK, DeliveryTypeOK
<1> QED BY <1>1, <1>2, <1>3, PTL DEF DeliverySpec

=============================================================================
