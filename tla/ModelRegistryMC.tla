-------------------------- MODULE ModelRegistryMC --------------------------
(***************************************************************************)
(* Small models of ModelRegistry.                                          *)
(***************************************************************************)
EXTENDS ModelRegistry, TLC

CONSTANTS a, b, u1, u2, b1, b2, p1, p2

\* One input and two outputs; distinct names.
Distinct == {[inputs |-> <<a>>, outputs |-> <<a, b>>]}

\* A name comes twice.
Repeated == {[inputs |-> <<a, a>>, outputs |-> <<b>>], [inputs |-> <<a>>, outputs |-> <<b, b>>]}

Symmetry == Permutations(Blocks) \cup Permutations(Uuids)
=============================================================================
