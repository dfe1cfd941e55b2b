------------------------- MODULE MCDebuggerSessions --------------------------
(* Instances of DebuggerSessions for TLC. *)
EXTENDS DebuggerSessions, TLC

CONSTANTS t1, u1, u2, u3, u4

OneTab == [u \in Users |-> t1]
Symmetry == Permutations(Users)
=============================================================================
