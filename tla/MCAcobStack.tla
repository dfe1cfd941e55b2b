---------------------------- MODULE MCAcobStack ----------------------------
(* Two browsers, a few instructions, at most one reinstall and a few faults. *)
EXTENDS AcobStack, TLC

CONSTANTS w1, w2
MCBrowsers == {w1, w2}
Symmetry == Permutations(MCBrowsers)
=============================================================================
