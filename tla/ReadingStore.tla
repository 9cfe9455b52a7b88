---------------------------- MODULE ReadingStore ----------------------------
(***************************************************************************)
(* What the database promises the nodes: a reading, which a node knows by  *)
(* its hardware address and its timestamp, is stored once and for ever,    *)
(* and whoever is told that it was created or that it was there already    *)
(* can forget it.                                                          *)
(***************************************************************************)
CONSTANT Keys              \* pairs of a hardware address and a timestamp

VARIABLES stored, told     \* told: readings whose sender may forget them

svars == <<stored, told>>

Init == stored = {} /\ told = {}

Store(k) ==
  /\ k \notin stored
  /\ stored' = stored \cup {k}
  /\ UNCHANGED told

Tell(k) ==
  /\ k \in stored
  /\ told' = told \cup {k}
  /\ UNCHANGED stored

Next == \E k \in Keys : Store(k) \/ Tell(k)

Spec == Init /\ [][Next]_svars

=============================================================================
