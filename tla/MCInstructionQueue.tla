------------------------- MODULE MCInstructionQueue -------------------------
(* A small server: two browsers, a few request threads, a few instructions. *)
EXTENDS InstructionQueue, TLC

CONSTANTS b1, b2, r1, r2, r3

MCBids == {b1, b2}
TwoRequests == {r1, r2}
ThreeRequests == {r1, r2, r3}
MCCaptures == {1}

\* Browsers and threads are interchangeable.
SymmetryTwo == Permutations(TwoRequests)
SymmetryThree == Permutations(MCBids) \cup Permutations(ThreeRequests)
=============================================================================
