--------------------------- MODULE MCNodeThreads ---------------------------
(* NodeThreads with periods of 2 and 4 ticks, a queue of 2, and payloads   *)
(* that set each, wrap around to the shorter one, or give 0.               *)
EXTENDS NodeThreads

DefaultPeriods == [t \in Timers |-> IF t = "epoch" THEN 4 ELSE 2]

=============================================================================
