---------------------------- MODULE MCReadingHeap ----------------------------
(* ReadingHeap on small instances.  Readings and cells are interchangeable. *)
EXTENDS ReadingHeap, TLC

CONSTANTS r1, r2, r3, c1, c2, c3, Handler

Symmetry == Permutations(Readings) \cup Permutations(Cells)

=============================================================================
