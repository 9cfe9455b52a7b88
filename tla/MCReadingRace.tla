---------------------------- MODULE MCReadingRace ----------------------------
(* ReadingRace on small instances.  Readings and cells are interchangeable. *)
EXTENDS ReadingRace, TLC

CONSTANTS r1, r2, r3, c1, c2

Symmetry == Permutations(Readings) \cup Permutations(Cells)

=============================================================================
