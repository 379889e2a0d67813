------------------------- MODULE MCPasteboardMonitor -------------------------
(***************************************************************************)
(* Constants of the TLC runs of PasteboardMonitor.                         *)
(***************************************************************************)
EXTENDS PasteboardMonitor, TLC

CONSTANTS a, b, c3

Two == {a, b}
Three == {a, b, c3}

Symmetry == Permutations(Client)
=============================================================================
