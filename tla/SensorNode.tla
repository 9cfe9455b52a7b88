----------------------------- MODULE SensorNode -----------------------------
(***************************************************************************)
(* The handler thread of one sensor node: each TEMP message runs           *)
(* get_reading, which samples the sensor, appends the reading to the       *)
(* backlog and then walks the first MAX_SENDS_PER_PERIOD readings of the   *)
(* backlog, posting each and waiting for its answer.                       *)
(*                                                                         *)
(* A reading is a name in Readings; the name may be used again once the    *)
(* reading has left the backlog.  Samples that fail change nothing here.   *)
(* Answers other than 201 and 406 (a timeout, 400, 503, an empty ACK) are  *)
(* "failed"; they come only while the path to the server and its database  *)
(* is not all there.                                                       *)
(***************************************************************************)
EXTENDS ReadingList, Functions

CONSTANTS Readings,               \* names of readings
          NULL,                   \* the null pointer
          MAX_SENDS_PER_PERIOD,   \* posts attempted per TEMP message
          HEAP_NODES              \* list nodes the heap can hold

ASSUME NodeAssumption ==
  /\ NULL \notin Readings
  /\ MAX_SENDS_PER_PERIOD \in Nat \ {0}
  /\ HEAP_NODES \in Nat
  /\ MAX_READING_LIST_SIZE < HEAP_NODES

VARIABLES
  list,     \* the static reading_list
  pc,       \* "idle": in msg_receive; "sending": in get_reading's loop;
            \* "halted": after a hard fault
  temp,     \* the loop's cursor
  i,        \* the loop's counter
  uplink,   \* the path to the server works (environment)
  (* History variables, read by no guard. *)
  fate,     \* what became of each reading
  batch,    \* the backlog as the loop found it
  episode,  \* insertions since the backlog was last empty, up to the cap + 1
  wrapped   \* the counter passed LEN_MOD - 1 since the backlog was last empty

vars == <<list, pc, temp, i, uplink, fate, batch, episode, wrapped>>

Fates == {"none", "queued", "created", "duplicate", "evicted", "lost"}
Answers == {"created", "duplicate", "failed"}

Init ==
  /\ list = EmptyList
  /\ pc = "idle"
  /\ temp = NULL
  /\ i = 0
  /\ uplink = TRUE
  /\ fate = [r \in Readings |-> "none"]
  /\ batch = <<>>
  /\ episode = 0
  /\ wrapped = FALSE

-----------------------------------------------------------------------------
(***************************************************************************)
(* get_reading up to its loop.  malloc has a node to give.                 *)
(***************************************************************************)
FirstOf(nodes) == IF nodes = <<>> THEN NULL ELSE Head(nodes)

get_reading(r) ==
  /\ pc = "idle"
  /\ fate[r] # "queued"
  /\ Len(list.nodes) < HEAP_NODES
  /\ list' = reading_add(list, r)
  /\ temp' = FirstOf(list'.nodes)
  /\ i' = 0
  /\ pc' = "sending"
  /\ fate' = [x \in Readings |->
                CASE x = r -> "queued"
                  [] x # r /\ OverCap(list) /\ x = Head(list.nodes) -> "evicted"
                  [] OTHER -> fate[x]]
  /\ batch' = list'.nodes
  /\ episode' = IF list.nodes = <<>> THEN 1
                ELSE IF episode > MAX_READING_LIST_SIZE THEN episode
                ELSE episode + 1
  /\ wrapped' = /\ list.nodes # <<>>
                /\ wrapped \/ Increment(list.length) = 0
  /\ UNCHANGED uplink

(***************************************************************************)
(* One turn of the loop: send_reading and the move to the next node.  A    *)
(* settled reading's node is freed first and its next field read after;    *)
(* no other thread runs here, so the freed node still holds its old next.  *)
(***************************************************************************)
Settles(answer) == answer \in {"created", "duplicate"}

ForgetsDuplicates(answer) ==
  IF answer = "created"
  THEN /\ list' = reading_remove(list, temp)
       /\ fate' = [fate EXCEPT ![temp] = answer]
  ELSE UNCHANGED <<list, fate>>

send_reading(answer) ==
  IF Settles(answer)
  THEN /\ list' = reading_remove(list, temp)
       /\ fate' = [fate EXCEPT ![temp] = answer]
  ELSE UNCHANGED <<list, fate>>

HeadAfterSend == FirstOf(list'.nodes)

NextAfterSend == Successor(list.nodes, temp, NULL)

Send(r, answer) ==
  /\ pc = "sending"
  /\ temp = r
  /\ i < MAX_SENDS_PER_PERIOD
  /\ uplink => Settles(answer)
  /\ send_reading(answer)
  /\ temp' = NextAfterSend
  /\ i' = i + 1
  /\ UNCHANGED <<pc, uplink, batch, episode, wrapped>>

EndOfPeriod ==
  /\ pc = "sending"
  /\ temp = NULL \/ i = MAX_SENDS_PER_PERIOD
  /\ pc' = "idle"
  /\ temp' = NULL
  /\ i' = 0
  /\ batch' = <<>>
  /\ UNCHANGED <<list, uplink, fate, episode, wrapped>>

(***************************************************************************)
(* The backlog lives in RAM: a reset empties it.  reading_add writes       *)
(* through malloc's result unchecked, so an exhausted heap is a hard       *)
(* fault, and the firmware, built with DEVELHELP, halts until it is reset. *)
(***************************************************************************)
Reset ==
  /\ list' = EmptyList
  /\ pc' = "idle"
  /\ temp' = NULL
  /\ i' = 0
  /\ fate' = [r \in Readings |-> IF fate[r] = "queued" THEN "lost" ELSE fate[r]]
  /\ batch' = <<>>
  /\ episode' = 0
  /\ wrapped' = FALSE
  /\ UNCHANGED uplink

HeapExhausted ==
  /\ pc = "idle"
  /\ Len(list.nodes) >= HEAP_NODES
  /\ pc' = "halted"
  /\ UNCHANGED <<list, temp, i, uplink, fate, batch, episode, wrapped>>

UplinkChanges ==
  /\ uplink' = ~uplink
  /\ UNCHANGED <<list, pc, temp, i, fate, batch, episode, wrapped>>

Next ==
  \/ \E r \in Readings : get_reading(r)
  \/ \E r \in Readings, answer \in Answers : Send(r, answer)
  \/ EndOfPeriod
  \/ HeapExhausted
  \/ Reset
  \/ UplinkChanges

Spec == Init /\ [][Next]_vars

(***************************************************************************)
(* Fairness: the timer keeps ticking and the thread keeps running, and     *)
(* nanocoap_request returns in the end (it gives up after five waits).     *)
(* Nothing is promised of the uplink, and resets are not promised.         *)
(***************************************************************************)
Fairness ==
  /\ WF_vars(\E r \in Readings : get_reading(r))
  /\ WF_vars(\E r \in Readings, answer \in Answers : Send(r, answer))
  /\ WF_vars(EndOfPeriod)
  /\ WF_vars(HeapExhausted)

FairSpec == Spec /\ Fairness

-----------------------------------------------------------------------------
TypeOK ==
  /\ list \in ReadingLists(Readings)
  /\ pc \in {"idle", "sending", "halted"}
  /\ temp \in Readings \cup {NULL}
  /\ i \in 0 .. MAX_SENDS_PER_PERIOD
  /\ uplink \in BOOLEAN
  /\ fate \in [Readings -> Fates]
  /\ batch \in Seq(Readings)
  /\ episode \in 0 .. MAX_READING_LIST_SIZE + 1
  /\ wrapped \in BOOLEAN

(***************************************************************************)
(* No reading is lost, leaked or kept twice: the backlog holds exactly the *)
(* readings whose fate is still open, each in one node.  (reading_remove   *)
(* frees the node it was asked to, reading_add frees the one it evicts.)   *)
(***************************************************************************)
Ledger ==
  /\ \A j, k \in DOMAIN list.nodes : list.nodes[j] = list.nodes[k] => j = k
  /\ \A r \in Readings : fate[r] = "queued" <=> r \in ToSet(list.nodes)

(***************************************************************************)
(* The loop of get_reading, which frees nodes under its own cursor, still  *)
(* walks the backlog it started from: after i posts the cursor is at       *)
(* reading i + 1 of that backlog, or null when there is none, and nothing  *)
(* from the cursor on has been touched.                                    *)
(***************************************************************************)
CursorFollowsBatch ==
  pc = "sending" =>
    /\ i <= Len(batch)
    /\ temp = IF i < Len(batch) THEN batch[i + 1] ELSE NULL
    /\ \A k \in i + 1 .. Len(batch) : batch[k] \in ToSet(list.nodes)
    /\ \A r \in ToSet(list.nodes) : r \in ToSet(batch)

(***************************************************************************)
(* The cap of util.h:92 does its job for one counter range: until the      *)
(* counter wraps it never counts fewer readings than the backlog holds,    *)
(* so the backlog never outgrows MAX_READING_LIST_SIZE (after that it does *)
(* for a while, although util.h:92 says "cap size of list").               *)
(***************************************************************************)
CapHolds ==
  ~wrapped => /\ Len(list.nodes) <= MAX_READING_LIST_SIZE
              /\ list.nodes # <<>> => Len(list.nodes) <= list.length

(***************************************************************************)
(* A reading is given up for space only when more readings than the cap    *)
(* have been taken since the backlog was last empty.                       *)
(***************************************************************************)
Evicts(r) == fate[r] = "queued" /\ fate'[r] = "evicted"

EvictsOnlyInLongEpisode ==
  [][\A r \in Readings : Evicts(r) => episode' > MAX_READING_LIST_SIZE]_vars

(***************************************************************************)
(* After an outage a node that has not halted catches up: once the uplink  *)
(* stays, every period comes to end with an empty backlog, whether the     *)
(* server creates the readings or calls them duplicates.                   *)
(***************************************************************************)
CatchesUp ==
  <>[](uplink /\ pc # "halted") => <>[](pc = "idle" => list.nodes = <<>>)

(***************************************************************************)
(* The node implements the promise of Outbox: first in, first out, except  *)
(* for readings the server settled out of turn; only the oldest evicted.   *)
(***************************************************************************)
O == INSTANCE Outbox WITH queue <- list.nodes
ImplementsOutbox == O!Spec

=============================================================================
