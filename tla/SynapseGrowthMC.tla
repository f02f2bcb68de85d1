-------------------------- MODULE SynapseGrowthMC --------------------------
(***************************************************************************)
(* Small models of SynapseGrowth: sections of two synapses. The potentials *)
(* are chosen such that a pass stays within the first synapse (2, 3), fills*)
(* a section (12), or overflows every section of a chain (100).            *)
(***************************************************************************)
EXTENDS SynapseGrowth

Potentials(a, b, c, d) == [x \in Axons |-> <<a, b, c, d>>[x + 1]]

\* Both input sections are connected.
TwoInputs == {Potentials(100, 100, 100, 100), Potentials(12, 3, 2, -1),
              Potentials(2, 12, 0, 6)}

\* Only one input section is connected, the axons of the other stay silent.
OneInput == {Potentials(100, 100, 0, 0), Potentials(3, 12, 0, 0)}
\* With one connected input section the used sections never reach 90 percent:
\* the block is never widened and no continuation of a chain is ever served
\* (check_and_resize_block, search_free_connection).
ChainsCut == outs = 1 /\ \A i \in Connections : conn[i].next # None => conn[i].next \notin Sections
=============================================================================
