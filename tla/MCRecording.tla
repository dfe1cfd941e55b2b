----------------------------- MODULE MCRecording -----------------------------
(* Instances of Recording for TLC. *)
EXTENDS Recording

CONSTANTS t1, r1, r2

OneTab == [r \in Recordings |-> t1]
=============================================================================
