---------------------------- MODULE MCPageScripts ----------------------------
(* Instances of PageScripts for TLC. *)
EXTENDS PageScripts

CONSTANT t1

OneTab == [c \in Calls |-> t1]
\* A script or a start first, then anything.
MCKinds == <<{"javascript", "start"},
             {"javascript", "start", "capture", "stop"},
             {"javascript", "start", "capture", "stop"}>>
=============================================================================
