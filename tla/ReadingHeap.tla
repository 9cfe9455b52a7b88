----------------------------- MODULE ReadingHeap -----------------------------
(***************************************************************************)
(* The backlog of SensorNode one level down: nodes in heap cells linked by *)
(* next pointers, freed and allocated again.  A step of reading_add or     *)
(* reading_remove here is what a thread does that nobody else on the list  *)
(* interrupts; the properties are about one thread.  ReadingRace takes the *)
(* two routines apart for two.                                             *)
(***************************************************************************)
EXTENDS ReadingList

CONSTANTS Readings, Cells, NULL,
          Threads,                 \* those that call get_reading
          MAX_SENDS_PER_PERIOD

ASSUME HeapAssumption ==
  /\ NULL \notin Cells \cup Readings
  /\ IsFiniteSet(Cells)
  /\ MAX_SENDS_PER_PERIOD \in Nat \ {0}

VARIABLES
  mem,      \* Cells -> [reading, next]; a freed cell keeps what it held
  free,     \* the cells malloc may return
  head,     \* reading_list.head
  length,   \* reading_list.length
  pc, temp, i, \* per thread: program counter, cursor and counter of the loop
  last,     \* per thread: last_node, the tail reading_add found
  new,      \* per thread: the node reading_add allocated
  sent,     \* per thread: the reading in the request under way
  stored,   \* readings the server holds
  fate      \* history: what the node did with each reading

vars == <<mem, free, head, length, pc, temp, i, last, new, sent, stored, fate>>

Fates == {"none", "queued", "created", "duplicate", "evicted", "lost"}
Answers == {"created", "duplicate", "failed"}

(***************************************************************************)
(* The cells from address a on, in order; a cycle is cut after one turn.   *)
(***************************************************************************)
Linked(m, a) ==
  LET chain[n \in 0 .. Cardinality(Cells)] ==
        IF n = 0 THEN <<>>
        ELSE LET before == chain[n - 1]
                 nxt == IF before = <<>> THEN a ELSE m[Last(before)].next
             IN  IF nxt = NULL THEN before ELSE Append(before, nxt)
  IN  chain[Cardinality(Cells)]

List == Linked(mem, head)
Queue == [k \in DOMAIN List |-> mem[List[k]].reading]

Init ==
  /\ mem = [a \in Cells |-> [reading |-> NULL, next |-> NULL]]
  /\ free = Cells
  /\ head = NULL
  /\ length = 0
  /\ pc = [t \in Threads |-> "idle"]
  /\ temp = [t \in Threads |-> NULL]
  /\ i = [t \in Threads |-> 0]
  /\ last = [t \in Threads |-> NULL]
  /\ new = [t \in Threads |-> NULL]
  /\ sent = [t \in Threads |-> NULL]
  /\ stored = {}
  /\ fate = [r \in Readings |-> "none"]

OneThread == \A t, u \in Threads : t = u

-----------------------------------------------------------------------------
\* A reading's name may be used again once no thread has to do with it.
Fresh(r) ==
  /\ fate[r] # "queued"
  /\ \A t \in Threads : sent[t] # r /\ (new[t] # NULL => mem[new[t]].reading # r)

StopsAtHead == head

FoundTail == IF List = <<>> THEN NULL ELSE Last(List)

(***************************************************************************)
(* get_temp has returned; reading_add finds the tail and fills a new node. *)
(***************************************************************************)
Allocate(t, r, a) ==
  /\ pc[t] = "idle"
  /\ Fresh(r)
  /\ a \in free
  /\ free' = free \ {a}
  /\ mem' = [mem EXCEPT ![a] = [reading |-> r, next |-> NULL]]
  /\ new' = [new EXCEPT ![t] = a]
  /\ last' = [last EXCEPT ![t] = FoundTail]
  /\ pc' = [pc EXCEPT ![t] = "link"]
  /\ stored' = stored \ {r}
  /\ UNCHANGED <<head, length, temp, i, sent, fate>>

AllocationFails(t) ==
  /\ pc[t] = "idle"
  /\ free = {}
  /\ pc' = [u \in Threads |-> "halted"]
  /\ UNCHANGED <<mem, free, head, length, temp, i, last, new, sent, stored, fate>>

(***************************************************************************)
(* The rest of reading_add: link the node, count it, evict the head of a   *)
(* list the counter calls too long.  Then get_reading takes the new head.  *)
(***************************************************************************)
LinkFirst(t) ==
  /\ head' = new[t]
  /\ length' = 1
  /\ fate' = [fate EXCEPT ![mem[new[t]].reading] = "queued"]
  /\ UNCHANGED <<mem, free>>

LinkLast(t) ==
  LET m == [mem EXCEPT ![last[t]].next = new[t]]
  IN  /\ length' = Increment(length)
      /\ mem' = m
      /\ IF length' > MAX_READING_LIST_SIZE /\ head # NULL
         THEN /\ head' = m[head].next
              /\ free' = free \cup {head}
              /\ fate' = [fate EXCEPT ![mem[new[t]].reading] = "queued",
                                      ![m[head].reading] = "evicted"]
         ELSE /\ fate' = [fate EXCEPT ![mem[new[t]].reading] = "queued"]
              /\ UNCHANGED <<head, free>>

Link(t) ==
  /\ pc[t] = "link"
  /\ IF last[t] = NULL THEN LinkFirst(t) ELSE LinkLast(t)
  /\ temp' = [temp EXCEPT ![t] = head']
  /\ i' = [i EXCEPT ![t] = 0]
  /\ new' = [new EXCEPT ![t] = NULL]
  /\ last' = [last EXCEPT ![t] = NULL]
  /\ pc' = [pc EXCEPT ![t] = "loop"]
  /\ UNCHANGED <<sent, stored>>

(***************************************************************************)
(* The loop: leave it, or copy the node into a request and wait.           *)
(***************************************************************************)
Leave(t) ==
  /\ pc[t] = "loop"
  /\ temp[t] = NULL \/ i[t] = MAX_SENDS_PER_PERIOD
  /\ pc' = [pc EXCEPT ![t] = "idle"]
  /\ temp' = [temp EXCEPT ![t] = NULL]
  /\ i' = [i EXCEPT ![t] = 0]
  /\ UNCHANGED <<mem, free, head, length, last, new, sent, stored, fate>>

Post(t) ==
  /\ pc[t] = "loop"
  /\ temp[t] # NULL
  /\ i[t] < MAX_SENDS_PER_PERIOD
  /\ sent' = [sent EXCEPT ![t] = mem[temp[t]].reading]
  /\ pc' = [pc EXCEPT ![t] = "wait"]
  /\ UNCHANGED <<mem, free, head, length, temp, i, last, new, stored, fate>>

\* The request reaches the server, whatever becomes of the answer.
Store(t) ==
  /\ pc[t] = "wait"
  /\ sent[t] \notin stored
  /\ stored' = stored \cup {sent[t]}
  /\ UNCHANGED <<mem, free, head, length, pc, temp, i, last, new, sent, fate>>

(***************************************************************************)
(* reading_remove on cells: unlink and free the node.  A node that is not  *)
(* linked is not found; the search then ends at address 0 and returns.     *)
(***************************************************************************)
SkipsOne(a) == IF mem[a].next = NULL THEN NULL ELSE mem[mem[a].next].next

Behind(a) == mem[a].next

FreesSuccessor(a) == IF mem[a].next = NULL THEN free ELSE free \cup {mem[a].next}

FreeWith(a) == free \cup {a}

unlink_head(answer) ==
  /\ head' = Behind(head)
  /\ free' = FreeWith(head)
  /\ fate' = [fate EXCEPT ![mem[head].reading] = answer]
  /\ UNCHANGED <<mem, length>>

unlink_inner(a, p, answer) ==
  /\ mem' = [mem EXCEPT ![p].next = mem[a].next]
  /\ free' = FreeWith(a)
  /\ fate' = [fate EXCEPT ![mem[a].reading] = answer]
  /\ length' = Decrement(length)
  /\ UNCHANGED head

NotFound(a) == a # head /\ \A p \in ToSet(List) : mem[p].next # a

AlwaysTheHead(a, answer) ==
  IF head # NULL THEN unlink_head(answer)
  ELSE UNCHANGED <<mem, free, head, length, fate>>

reading_remove_cell(a, answer) ==
  \/ head # NULL /\ head = a /\ unlink_head(answer)
  \/ /\ head # a
     /\ \E p \in ToSet(List) : mem[p].next = a /\ unlink_inner(a, p, answer)
  \/ NotFound(a) /\ UNCHANGED <<mem, free, head, length, fate>>

Answer(t, answer) ==
  /\ pc[t] = "wait"
  /\ answer \in {"created", "duplicate"} => sent[t] \in stored
  /\ IF answer \in {"created", "duplicate"}
     THEN reading_remove_cell(temp[t], answer)
     ELSE UNCHANGED <<mem, free, head, length, fate>>
  /\ sent' = [sent EXCEPT ![t] = NULL]
  /\ pc' = [pc EXCEPT ![t] = "advance"]
  /\ UNCHANGED <<temp, i, last, new, stored>>

\* temp = temp->next, out of a node that may have been freed.
Advance(t) ==
  /\ pc[t] = "advance"
  /\ temp' = [temp EXCEPT ![t] = mem[temp[t]].next]
  /\ i' = [i EXCEPT ![t] = @ + 1]
  /\ pc' = [pc EXCEPT ![t] = "loop"]
  /\ UNCHANGED <<mem, free, head, length, last, new, sent, stored, fate>>

Reset ==
  /\ mem' = [a \in Cells |-> [reading |-> NULL, next |-> NULL]]
  /\ free' = Cells
  /\ head' = NULL
  /\ length' = 0
  /\ pc' = [t \in Threads |-> "idle"]
  /\ temp' = [t \in Threads |-> NULL]
  /\ i' = [t \in Threads |-> 0]
  /\ last' = [t \in Threads |-> NULL]
  /\ new' = [t \in Threads |-> NULL]
  /\ sent' = [t \in Threads |-> NULL]
  /\ fate' = [r \in Readings |-> IF fate[r] = "queued" THEN "lost" ELSE fate[r]]
  /\ UNCHANGED stored

Next ==
  \/ \E t \in Threads :
       \/ \E r \in Readings, a \in Cells : Allocate(t, r, a)
       \/ AllocationFails(t)
       \/ Link(t)
       \/ Leave(t)
       \/ Post(t)
       \/ Store(t)
       \/ \E answer \in Answers : Answer(t, answer)
       \/ Advance(t)
  \/ Reset

Spec == Init /\ [][Next]_vars

-----------------------------------------------------------------------------
TypeOK ==
  /\ mem \in [Cells -> [reading : Readings \cup {NULL}, next : Cells \cup {NULL}]]
  /\ free \subseteq Cells
  /\ head \in Cells \cup {NULL}
  /\ length \in Counter
  /\ pc \in [Threads -> {"idle", "link", "loop", "wait", "advance", "halted"}]
  /\ temp \in [Threads -> Cells \cup {NULL}]
  /\ i \in [Threads -> 0 .. MAX_SENDS_PER_PERIOD]
  /\ last \in [Threads -> Cells \cup {NULL}]
  /\ new \in [Threads -> Cells \cup {NULL}]
  /\ sent \in [Threads -> Readings \cup {NULL}]
  /\ stored \subseteq Readings
  /\ fate \in [Readings -> Fates]

(***************************************************************************)
(* Memory is neither leaked nor used twice: every cell is free, linked     *)
(* exactly once, or the node a thread is about to link.                    *)
(***************************************************************************)
Owned == {new[t] : t \in Threads} \ {NULL}

NoLeakNoDoubleUse ==
  /\ IsInjective(List)
  /\ free \cap ToSet(List) = {}
  /\ Owned \cap (free \cup ToSet(List)) = {}
  /\ free \cup ToSet(List) \cup Owned = Cells

(***************************************************************************)
(* The read of temp->next after the node was freed (util.c:249) is benign: *)
(* the freed node still points at the node that follows it in the list.    *)
(***************************************************************************)
FreedNextIsLinked ==
  \A t \in Threads :
    pc[t] = "advance" => mem[temp[t]].next \in ToSet(List) \cup {NULL}

(***************************************************************************)
(* A reading is dropped from the backlog on a 201 or a 406 only if the     *)
(* server holds it ("keeping for retransmission", util.c:226, is what      *)
(* happens to every other reading).                                        *)
(***************************************************************************)
SettledIsStored ==
  [][\A r \in Readings :
       fate[r] = "queued" /\ fate'[r] \in {"created", "duplicate"}
         => r \in stored']_vars

(***************************************************************************)
(* A reading that get_reading added (util.h:62) and that nobody answered   *)
(* for or evicted is in the list.                                          *)
(***************************************************************************)
QueuedIsLinked ==
  \A r \in Readings :
    fate[r] = "queued" => \E a \in ToSet(List) : mem[a].reading = r

(***************************************************************************)
(* With one thread the cells, their reuse and the freed cursor implement   *)
(* the abstract outbox.                                                    *)
(***************************************************************************)
O == INSTANCE Outbox WITH queue <- Queue
ImplementsOutbox == O!Spec

=============================================================================
