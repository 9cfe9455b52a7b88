---------------------------- MODULE MCTempStore ----------------------------
(* TempStore with two hardware addresses, which are interchangeable.      *)
EXTENDS TempStore, TLC

CONSTANTS h1, h2, t1, t2, w1, w2

Symmetry == Permutations(Addrs)

=============================================================================
