----------------------------- MODULE MCDelivery -----------------------------
(* Delivery on small instances; readings, exchanges, ports and threads are *)
(* interchangeable.                                                        *)
EXTENDS Delivery, TLC

CONSTANTS x1, x2, p1, p2, t1, t2, r1, r2

Symmetry ==
  Permutations(Exchanges) \cup Permutations(Ports) \cup
  Permutations(Threads) \cup Permutations(Readings)

=============================================================================
