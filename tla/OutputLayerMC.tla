--------------------------- MODULE OutputLayerMC ---------------------------
(***************************************************************************)
(* Small models of OutputLayer. Floats have two bits, the four of them are *)
(* -1.0, 0.5, 3.0 and 12.0: a negative one, one between two integers, one  *)
(* that fits an int output of three bits, one that does not.               *)
(***************************************************************************)
EXTENDS OutputLayer, TLC

CONSTANTS b1, b2

Bits == (-8 :> 3) @@ (4 :> 0) @@ (24 :> 1) @@ (96 :> 2)

\* A block pushes a neuron down by more than another one pushes it up.
Pushes == {-4, 3}

\* All numbers; and a list that grows or shrinks the output.
Some    == {<<v>> : v \in Numbers} \cup {<<24, 4>>}
Growing == {<<24>>, <<24, 4>>}
Single  == {<<24>>}
=============================================================================
