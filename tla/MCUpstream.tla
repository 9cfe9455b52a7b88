----------------------------- MODULE MCUpstream -----------------------------
(* Upstream with one forwarded request and the program's MAX_RETRANSMIT;   *)
(* requests meet in nothing but the listener, which any of them can hold.  *)
EXTENDS Upstream

CONSTANT x1

=============================================================================
