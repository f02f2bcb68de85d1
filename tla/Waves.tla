-------------------------------- MODULE Waves --------------------------------
(***************************************************************************)
(* What a call on a model promises, without threads, tasks, locks and      *)
(* counters: a wave runs from the inputs through the blocks, which are     *)
(* connected while it passes, and, when the call trains, back again. It    *)
(* takes every block once and none before the blocks it depends on, and    *)
(* the call returns when the wave has ended everywhere                     *)
(* (model_interface.rs, train and request; docs/core/core.md, Processing). *)
(***************************************************************************)
CONSTANTS Nodes, Sources     \* the blocks, and those of them that are inputs

VARIABLES kind,              \* the call at work, "none" between two calls
          forwarded, returned,  \* the blocks the wave has passed, there and back
          succ               \* the blocks a block sends to

vars == <<kind, forwarded, returned, succ>>

Pred(b) == {a \in Nodes : b \in succ[a]}

\* Between two calls, on a network of any shape that nothing enters at its inputs.
Init ==
    /\ kind = "none"
    /\ forwarded = {} /\ returned = {}
    /\ succ \in [Nodes -> SUBSET (Nodes \ Sources)]

Begin ==
    /\ kind = "none"
    /\ kind' \in {"train", "request", "checkpoint"}
    /\ forwarded' = {} /\ returned' = {}
    /\ UNCHANGED succ

\* An input is passed by itself, another block after all that send to it.
Forward(b) ==
    /\ kind \in {"train", "request"}
    /\ b \notin forwarded
    /\ b \in Sources \/ (Pred(b) # {} /\ Pred(b) \subseteq forwarded)
    /\ forwarded' = forwarded \cup {b}
    /\ UNCHANGED <<kind, returned, succ>>

\* A block the wave has passed gets another one to send to, to which it has not
\* come yet.
Connect(a, b) ==
    /\ a \in forwarded \ returned /\ b \notin forwarded \cup Sources
    /\ succ' = [succ EXCEPT ![a] = @ \cup {b}]
    /\ UNCHANGED <<kind, forwarded, returned>>

Backward(b) ==
    /\ kind = "train"
    /\ b \in forwarded \ returned
    /\ succ[b] \subseteq returned
    /\ returned' = returned \cup {b}
    /\ UNCHANGED <<kind, forwarded, succ>>

\* The wave has come to all blocks that can be reached, and back.
Passed == Sources \subseteq forwarded /\ \A b \in forwarded : succ[b] \subseteq forwarded

End ==
    /\ kind # "none"
    /\ kind \in {"train", "request"} => Passed
    /\ kind = "train" => returned = forwarded
    /\ kind' = "none"
    /\ UNCHANGED <<forwarded, returned, succ>>

Next ==
    \/ Begin \/ End
    \/ \E b \in Nodes : Forward(b) \/ Backward(b) \/ \E a \in Nodes : Connect(a, b)

Spec == Init /\ [][Next]_vars

-----------------------------------------------------------------------------
TypeOK ==
    /\ kind \in {"none", "train", "request", "checkpoint"}
    /\ forwarded \subseteq Nodes /\ returned \subseteq Nodes
    /\ succ \in [Nodes -> SUBSET Nodes]

\* The order of the network is kept, although it grows under the wave: a block
\* was passed after all that send to it, the wave comes back only to blocks it
\* has passed, and to all that a block sends to before it comes to the block.
Ordered ==
    /\ \A b \in forwarded \ Sources : Pred(b) # {} /\ Pred(b) \subseteq forwarded
    /\ returned \subseteq forwarded
    /\ \A b \in returned : succ[b] \subseteq returned
=============================================================================
