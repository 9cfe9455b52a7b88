---------------------------- MODULE MCSensorNode ----------------------------
(* SensorNode on a small instance: a cap of 2, a counter that wraps at 5,  *)
(* a heap of 4 nodes, 2 posts per period and one more name than the heap   *)
(* holds, so that a new reading always has a free name.  No symmetry: the  *)
(* run checks liveness too.                                                *)
EXTENDS SensorNode

CONSTANTS r1, r2, r3, r4, r5

=============================================================================
