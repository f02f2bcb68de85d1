---------------------------- MODULE PropagationMC ----------------------------
(***************************************************************************)
(* Small models for TLC: the blocks and hexagons of each run are model     *)
(* values, the shapes and the calls are chosen in the .cfg by name.        *)
(***************************************************************************)
EXTENDS PropagationProperties, TLC

CONSTANTS i1, i2, c1, c2, c3, o1, o2, o3,      \* blocks
          hi1, hi2, hc1, hc2, ho,              \* hexagons
          out,                                 \* output buffer
          nil, unknown

AllHex == (i1 :> hi1) @@ (i2 :> hi2) @@ (c1 :> hc1) @@ (c2 :> hc2) @@ (c3 :> hc2)
          @@ (o1 :> ho) @@ (o2 :> ho) @@ (o3 :> ho)
HexMap == [b \in Blocks |-> AllHex[b]]
OutMap == [o \in Outputs |-> out]

\* Two separate chains into one output hexagon; with i1 only, one chain.
Chains == (hi1 :> {hc1}) @@ (hi2 :> {hc2}) @@ (hc1 :> {ho}) @@ (hc2 :> {ho}) @@ (ho :> {})

\* Two inputs that send into the same core hexagon.
Merge  == (hi1 :> {hc2}) @@ (hi2 :> {hc2}) @@ (hc1 :> {ho}) @@ (hc2 :> {ho}) @@ (ho :> {})

\* The second input reaches the core of the first one over another core.
Uneven == (hi1 :> {hc2}) @@ (hi2 :> {hc1}) @@ (hc1 :> {hc2}) @@ (hc2 :> {ho}) @@ (ho :> {})

\* Where calls start from a network that has grown before.
NewModel == {}
Wire(a, b, pos) == [src |-> a, spos |-> 1, tgt |-> b, tpos |-> pos]
MergeGrown  == {Wire(i1, c2, 1), Wire(i2, c2, 2), Wire(c2, o1, 1)}
UnevenGrown == {Wire(i1, c2, 1), Wire(i2, c1, 1), Wire(c1, c2, 2), Wire(c2, o1, 1)}

\* Calls on a new model never leave behind what the grown networks start with:
\* refuted, so these starts are states the program gets into.
Links == UNION {{[src |-> b, spos |-> j, tgt |-> io[b].outs[j].tgt, tpos |-> io[b].outs[j].tpos] :
                    j \in SectionsOf(b)} : b \in registered}
NeverGrown ==
    ~ /\ Returned("train") /\ Links \in {MergeGrown, UnevenGrown}
      /\ queue = <<>> /\ \A w \in Workers : pc[w] = "idle"
      /\ \A b \in registered : io[b].inCount = 0 /\ io[b].outCount = 0

\* The workers are interchangeable; used where no liveness is checked.
WorkerSymmetry == Permutations(Workers)

\* Two inputs that send into one core hexagon; some positions have no hexagon.
MergeGaps == (hi1 :> {hc2, nil}) @@ (hi2 :> {hc2}) @@ (hc1 :> {}) @@ (hc2 :> {ho, nil}) @@ (ho :> {})

Narrow == [i \in Inputs |-> 1]
Wide   == [i \in Inputs |-> 2]

Train      == [kind |-> "train", ins |-> Inputs, outs |-> Buffers]
Request    == [kind |-> "request", ins |-> Inputs, outs |-> Buffers]
Checkpoint == [kind |-> "checkpoint", ins |-> {}, outs |-> {}]

TrainOf(ins, outs)   == [kind |-> "train", ins |-> ins, outs |-> outs]
RequestOf(ins, outs) == [kind |-> "request", ins |-> ins, outs |-> outs]

\* Calls that end early because they name what the model does not have: at the
\* outputs, after all inputs have run, and at the inputs.
WrongNames == <<TrainOf({i1, i2}, {out, unknown}), RequestOf({i1}, {out, unknown}),
                TrainOf({i2, unknown}, {out})>>

\* A call that ends early, with the worker still on its way, and a checkpoint.
ErrorThenSave == <<TrainOf({i1, unknown}, {out}), Checkpoint>>

TrainRequestTrain == <<Train, Request, Train>>
ThreeTrains       == <<Train, Train, Train>>
TrainTwice        == <<Train, Train>>
TrainThenRequest  == <<Train, Request>>
JustRequest       == <<Request>>
TrainSaveRequest  == <<Train, Checkpoint, Request, Train>>

\* The network and the calls of `join' are such as the promises are proved for.
ASSUME JoinIsSeparate == Calls = TrainSaveRequest => SeparateChains
=============================================================================
