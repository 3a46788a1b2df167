------------------------------ MODULE MCKeepalive ------------------------------
(* Keepalive for TLC.  The two ends are alike. *)
EXTENDS Keepalive, TLC

Alike == Permutations(Ends)
==============================================================================
