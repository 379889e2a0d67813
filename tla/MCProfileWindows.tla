-------------------------- MODULE MCProfileWindows --------------------------
(***************************************************************************)
(* Constants of the TLC run of ProfileWindows.                             *)
(***************************************************************************)
EXTENDS ProfileWindows

CONSTANTS k1, k2, k3

MCKeys  == {k1, k2, k3}
MCSaved == {k2, k3}

\* A dictionary lists its keys in the order k1, k2, k3.
MCAllKeys == [S \in SUBSET MCKeys |-> SelectSeq(<<k1, k2, k3>>, LAMBDA k : k \in S)]
=============================================================================
