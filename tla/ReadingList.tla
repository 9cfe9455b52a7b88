---------------------------- MODULE ReadingList ----------------------------
(***************************************************************************)
(* The sensor node's backlog of unsent readings: the singly linked list of *)
(* util.h, here the sequence of its readings from head to tail together    *)
(* with the 16-bit counter the code keeps beside it.                       *)
(*                                                                         *)
(* The counter is not the length of the list: it is set to 1 when a        *)
(* reading enters an empty list, incremented by every other insertion, and *)
(* decremented only when a reading other than the head is removed.         *)
(***************************************************************************)
EXTENDS Integers, Sequences, FiniteSets, SequencesExt

CONSTANTS MAX_READING_LIST_SIZE,  \* the cap the counter is compared with
          LEN_MOD                 \* number of values of a uint16_t

ASSUME CapAssumption ==
  /\ MAX_READING_LIST_SIZE \in Nat \ {0}
  /\ LEN_MOD \in Nat
  /\ MAX_READING_LIST_SIZE < LEN_MOD

Counter == 0 .. LEN_MOD - 1
ReadingLists(R) == [nodes : Seq(R), length : Counter]

EmptyList == [nodes |-> <<>>, length |-> 0]

NeverWraps(n) == n + 1

Increment(n) == IF n + 1 = LEN_MOD THEN 0 ELSE n + 1
Decrement(n) == IF n = 0 THEN LEN_MOD - 1 ELSE n - 1

Position(s, e) == CHOOSE k \in DOMAIN s : s[k] = e

\* The reading the node's next field points to, or none at the tail.
Successor(s, e, none) ==
  LET k == Position(s, e) IN IF k < Len(s) THEN s[k + 1] ELSE none

(***************************************************************************)
(* reading_remove.  A reading that is not in the list changes nothing: the *)
(* search runs off the tail, reads the next field of address 0 (the vector *)
(* table on the SAM R30) and returns.                                      *)
(***************************************************************************)
RemovesTheHead(list, node) ==
  IF list.nodes = <<>> THEN list
  ELSE [nodes |-> Tail(list.nodes), length |-> list.length]

reading_remove(list, node) ==
  CASE node \notin ToSet(list.nodes) -> list
    [] node \in ToSet(list.nodes) /\ node = Head(list.nodes) ->
         [nodes |-> Tail(list.nodes), length |-> list.length]
    [] OTHER ->
         [nodes  |-> RemoveAt(list.nodes, Position(list.nodes, node)),
          length |-> Decrement(list.length)]

(***************************************************************************)
(* reading_add: append, and drop the head when the counter exceeds the cap.*)
(***************************************************************************)
Prepended(list, node) ==
  IF list.nodes = <<>>
  THEN [nodes |-> <<node>>, length |-> 1]
  ELSE [nodes  |-> <<node>> \o list.nodes,
        length |-> Increment(list.length)]

Appended(list, node) ==
  IF list.nodes = <<>>
  THEN [nodes |-> <<node>>, length |-> 1]
  ELSE [nodes  |-> Append(list.nodes, node),
        length |-> Increment(list.length)]

OverCapLate(list) ==
  list.nodes # <<>> /\ Increment(list.length) > MAX_READING_LIST_SIZE + 1

OverCapEarly(list) ==
  list.nodes # <<>> /\ Increment(list.length) >= MAX_READING_LIST_SIZE

OverCap(list) == list.nodes # <<>> /\ Increment(list.length) > MAX_READING_LIST_SIZE

reading_add(list, node) ==
  LET full == Appended(list, node)
  IN  IF OverCap(list) THEN reading_remove(full, Head(full.nodes)) ELSE full

=============================================================================
