-------------------------- MODULE MCPlasterSession --------------------------
(***************************************************************************)
(* Constants of the TLC runs of PlasterSession.                            *)
(***************************************************************************)
EXTENDS PlasterSession, TLC

CONSTANTS a, b, c3

Two == {a, b}
Three == {a, b, c3}

\* Every device has a name of its own, and none occurs in another.
OwnName == [d \in Client |-> d]
Unrelated == {<<d, d>> : d \in Client}

\* The name of a occurs in the name of b ("mac", "mac mini").
AInB == Unrelated \cup {<<a, b>>}

Symmetry == Permutations(Client)
=============================================================================
