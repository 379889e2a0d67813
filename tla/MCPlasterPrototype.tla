------------------------- MODULE MCPlasterPrototype -------------------------
(***************************************************************************)
(* Constants of the TLC run of PlasterPrototype.                           *)
(***************************************************************************)
EXTENDS PlasterPrototype, TLC

CONSTANTS a, b, i1, i2, i3

TwoClients == {a, b}
Three      == {i1, i2, i3}

\* Clients are alike, and session ids are UUIDs that nothing tells from each other.
Alike == {f @@ g : f \in Permutations(TwoClients), g \in Permutations(Three)}
=============================================================================
