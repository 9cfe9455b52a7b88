---------------------------- MODULE MCEpochClock ----------------------------
(* EpochClock with seconds of 3 ms and a counter of 10 ms, which is, like  *)
(* 2^32 of 1000, not a whole number of seconds.                            *)
EXTENDS EpochClock

=============================================================================
