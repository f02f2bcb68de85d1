----------------------------- MODULE OutputLayer -----------------------------
(***************************************************************************)
(* One output of a model (output_buffer.rs, output_block.rs): what a       *)
(* number given to train becomes in the output neurons, how the output     *)
(* blocks grow with the buffer, add up their results and take the          *)
(* gradients, and what a request hands out.                                *)
(*                                                                         *)
(* The calls of the client and the tasks of the output blocks alternate in *)
(* any order; a task is cut where it lets go of the buffer. When the task  *)
(* of a block is due is decided in Propagation; here every call reaches    *)
(* every output block, and those of a request that ended without them are  *)
(* still to come. Numbers are integers, in eighths.                        *)
(***************************************************************************)
EXTENDS Integers, Sequences, FiniteSets

CONSTANTS Blocks,       \* the output blocks of the hexagon
          Types,        \* types the output may have
          IntBits,      \* neurons of an int output (64 in the code)
          FloatBits,    \* neurons of a float output (32 in the code)
          Mantissa,     \* bits of the mantissa of a float (24 in the code)
          BitsOf,       \* the bits of each float a caller may use
          Lists,        \* what a train may give for the output
          Additions,    \* what a block may add to a neuron
          MaxCalls      \* bound: calls

One     == 8
Numbers == DOMAIN BitsOf
AllTypes == {"plain", "bool", "int", "float"}

ASSUME WidthAssumption  == IntBits \in Nat \ {0} /\ FloatBits \in Nat \ {0} /\ Mantissa \in Nat \ {0}
ASSUME NumberAssumption == /\ Numbers \subseteq Int
                           /\ BitsOf \in [Numbers -> 0 .. 2^FloatBits - 1]
                           /\ \A n \in 0 .. 2^FloatBits - 1 : \E v \in Numbers : BitsOf[v] = n
                           /\ \A v, u \in Numbers : BitsOf[v] = BitsOf[u] => v = u
\* An int output is wider than the mantissa of the floats it is given in; a
\* number that is not negative has Mantissa bits from its lowest one on.
ASSUME FloatAssumption ==
    /\ Mantissa < IntBits
    /\ \A v \in Numbers : v >= 0 => \E e \in 0 .. v : v % 2^e = 0 /\ v < 2^Mantissa * 2^e
ASSUME ListAssumption   == Lists \subseteq Seq(Numbers)
ASSUME OtherAssumption  == Types \subseteq AllTypes /\ Additions \subseteq Int /\ MaxCalls \in Nat

VARIABLES
    type,                  \* output_type
    size, neurons,         \* output_size, output_neurons
    finalized, connected,  \* already_finalized, number_of_connected_blocks
    local, unfinished,     \* local_finish_counter, unfinished_blocks
    linked, attached,      \* blocks that hold a reference to the buffer; that ever did
    outs, rows,            \* block_outputs of a block, neurons its weights are for
    todo,                  \* the tasks of each block
    stale,                 \* process tasks of requests that ended without them
    kind, given, taught,   \* the call at work, what it gave; what the last train gave
    reports,               \* reports of this output to the finish counter
    answer, calls          \* what the last request handed out; number of calls

bufferVars == <<size, neurons, finalized, local, unfinished>>
blockVars  == <<connected, linked, attached, outs, rows>>
callVars   == <<kind, given, taught, answer, calls>>
vars       == <<type, bufferVars, blockVars, todo, stale, reports, callVars>>

-----------------------------------------------------------------------------
(* Numbers and neurons.                                                    *)

WidthOf == CASE type = "int" -> IntBits [] type = "float" -> FloatBits [] OTHER -> 1

\* Bit k of n, the highest one first.
Bit(n, k, width) == (n \div 2^(width - k)) % 2

\* A conversion to an unsigned integer of IntBits bits: cut off towards zero
\* and saturating.
AsUnsigned(v) ==
    IF v < 0 THEN 0 ELSE IF v \div One >= 2^IntBits THEN 2^IntBits - 1 ELSE v \div One

\* A conversion back: the nearest number of Mantissa bits, the even one of two.
AsFloat(n) ==
    LET ulp  == CHOOSE s \in {2^e : e \in 0 .. IntBits} :
                    n < 2^Mantissa * s /\ (s = 1 \/ 2 * n >= 2^Mantissa * s)
        down == n \div ulp
        rest == n % ulp
        up   == 2 * rest > ulp \/ (2 * rest = ulp /\ down % 2 = 1)
    IN  One * ulp * (IF up THEN down + 1 ELSE down)

FromBits(n) == CHOOSE v \in Numbers : BitsOf[v] = n

IsHigh(v) == 2 * v >= One

\* The targets of the neurons of one value.
\* (faulty variant: the lowest bit first)
TargetsOf_Reversed(v) ==
    CASE type = "plain" -> <<v>>
      [] type = "bool"  -> <<IF IsHigh(v) THEN One ELSE 0>>
      [] type = "int"   -> [k \in 1 .. IntBits |-> One * Bit(AsUnsigned(v), IntBits + 1 - k, IntBits)]
      [] type = "float" -> [k \in 1 .. FloatBits |-> One * Bit(BitsOf[v], FloatBits + 1 - k, FloatBits)]

TargetsOf(v) ==
    CASE type = "plain" -> <<v>>
      [] type = "bool"  -> <<IF IsHigh(v) THEN One ELSE 0>>
      [] type = "int"   -> [k \in 1 .. IntBits |-> One * Bit(AsUnsigned(v), k, IntBits)]
      [] type = "float" -> [k \in 1 .. FloatBits |-> One * Bit(BitsOf[v], k, FloatBits)]

\* The numbers the first k of a sequence of neurons stand for, and all of them.
Packing(values) ==
    LET UpTo[k \in 0 .. Len(values)] ==
            IF k = 0 THEN 0 ELSE 2 * UpTo[k - 1] + (IF IsHigh(values[k]) THEN 1 ELSE 0)
    IN  UpTo

Packed(values) == Packing(values)[Len(values)]

ValueOf(values) ==
    CASE type = "plain" -> values[1]
      [] type = "bool"  -> One * Packed(values)
      [] type = "int"   -> AsFloat(Packed(values))
      [] type = "float" -> FromBits(Packed(values))

NewNeuron == [value |-> 0, target |-> 0, gradient |-> FALSE, call |-> 0]

\* The neurons of value i, and the number of whole values.
Group(i)     == SubSeq(neurons, (i - 1) * WidthOf + 1, i * WidthOf)
ValueCount   == Len(neurons) \div WidthOf
ValuesIn(ns) == [k \in DOMAIN ns |-> ns[k].value]

\* 1 / (1 + e^-x), to a quarter: one half for a number around zero, nothing for
\* zero itself, which is left out.
Sigmoid(x) == IF x = 0 THEN 0 ELSE IF x < -1 THEN 2 ELSE IF x > 1 THEN 6 ELSE 4

-----------------------------------------------------------------------------
Init ==
    /\ type \in Types
    /\ size = 0 /\ neurons = <<>>
    /\ finalized = FALSE /\ connected = 0
    /\ local = 0 /\ unfinished = {}
    /\ linked = {} /\ attached = {}
    /\ outs = [b \in Blocks |-> 0] /\ rows = [b \in Blocks |-> 0]
    /\ todo = [b \in Blocks |-> {}] /\ stale = [b \in Blocks |-> 0]
    /\ kind = "none" /\ given = <<>> /\ taught = <<>>
    /\ reports = 0 /\ answer = <<>> /\ calls = 0

-----------------------------------------------------------------------------
(* The calls of the client.                                                *)

Quiet == \A b \in Blocks : todo[b] = {} /\ stale[b] = 0

\* A task that waits is the block in unfinished_blocks: it gets its gradients
\* from the one that completes the output, or never.
TrainTasks   == {"train", "joined", "sized", "waits", "gradient", "backward"}
RequestTasks == {"process", "asked"}

Begin(k) ==
    /\ kind = "none" /\ calls < MaxCalls
    /\ kind' = k /\ calls' = calls + 1
    /\ reports' = 0
    /\ LET t == IF k = "train" THEN "train" ELSE "process"
       IN  todo' = [b \in Blocks |-> todo[b] \cup {t}]
    /\ UNCHANGED stale

Cleared(ns) == [k \in DOMAIN ns |-> [ns[k] EXCEPT !.value = 0]]

\* update_buffer: one value more than there were makes neurons for all of them.
Updated(ns, n) ==
    IF size < n
    THEN [k \in 1 .. n * WidthOf |-> IF k \in DOMAIN ns THEN ns[k] ELSE NewNeuron]
    ELSE ns

\* The targets of the values in the list; the others stay as they are.
\* (faulty variant: a value is taken for one neuron)
Expected_Narrow(ns, list, c) ==
    [k \in DOMAIN ns |->
        IF k \in DOMAIN list
        THEN [ns[k] EXCEPT !.target = TargetsOf(list[k])[1], !.gradient = FALSE, !.call = c]
        ELSE ns[k]]

Expected(ns, list, c) ==
    [k \in DOMAIN ns |->
        LET i == (k - 1) \div WidthOf + 1
        IN  IF i \in DOMAIN list
            THEN [ns[k] EXCEPT !.target = TargetsOf(list[i])[((k - 1) % WidthOf) + 1],
                               !.gradient = FALSE, !.call = c]
            ELSE ns[k]]

TrainCall(list) ==
    /\ Begin("train")
    /\ neurons' = Expected(Updated(Cleared(neurons), Len(list)), list, calls')
    /\ size' = IF size < Len(list) THEN Len(list) ELSE size
    /\ finalized' = FALSE /\ local' = 0
    /\ given' = list /\ taught' = list
    /\ UNCHANGED <<type, unfinished, blockVars, answer>>

RequestCall ==
    /\ Begin("request")
    /\ neurons' = Cleared(neurons) /\ local' = 0
    /\ given' = <<>>
    /\ UNCHANGED <<type, size, finalized, unfinished, blockVars, taught, answer>>

\* The blocks of a train have all sent their gradients back: the input blocks
\* report only then. Tasks of a request before it may be left.
EndTrain ==
    /\ kind = "train" /\ \A b \in Blocks : todo[b] \cap TrainTasks = {}
    /\ kind' = "none"
    /\ UNCHANGED <<type, bufferVars, blockVars, todo, stale, reports, given, taught, answer, calls>>

\* Process tasks nobody waits for any longer.
LeaveTasks ==
    /\ stale' = [b \in Blocks |-> stale[b] + (IF "process" \in todo[b] THEN 1 ELSE 0)]
    /\ todo'  = [b \in Blocks |-> todo[b] \ {"process"}]

\* convert_output_to_buffer. One report of the output is enough for the counter
\* of a request.
EndRequest ==
    /\ kind = "request" /\ reports > 0
    /\ kind' = "none"
    /\ answer' = [i \in 1 .. ValueCount |-> ValueOf(ValuesIn(Group(i)))]
    /\ finalized' = FALSE
    /\ LeaveTasks
    /\ UNCHANGED <<type, size, neurons, local, unfinished, blockVars, reports,
                   given, taught, calls>>

\* What is not in the order of the calls: a call that ends before its tasks, by
\* an error or its timeout.
EndEarly ==
    /\ kind # "none"
    /\ kind' = "none"
    /\ LeaveTasks
    /\ UNCHANGED <<type, bufferVars, blockVars, reports, given, taught, answer, calls>>

\* The model is saved and restored from the checkpoint, possibly by another
\* process, while none of its tasks is left. References are not saved, flags and
\* counters are. To restore it later is to go back to a state it has been in.
SaveAndRestore ==
    /\ kind = "none" /\ Quiet
    /\ linked # {}
    /\ linked' = {} /\ unfinished' = {}
    /\ UNCHANGED <<type, size, neurons, finalized, local, connected, attached, outs, rows,
                   todo, stale, reports, callVars>>

-----------------------------------------------------------------------------
(* The tasks of an output block. From its first step to its last a block   *)
(* is locked.                                                              *)

Locked(b) == {"joined", "sized", "asked", "gradient"} \cap todo[b] # {}
Did(b, t) == todo' = [todo EXCEPT ![b] = @ \ {t}]
GoesOn(b, t, next) == todo' = [todo EXCEPT ![b] = (@ \ {t}) \cup {next}]

\* connect_output_buffer: a block is counted when it is linked for the first
\* time, not when a restored one is linked again.
\* (faulty variants: a restored block counts, too; the blocks are counted down)
Attach_Relinked(b) ==
    /\ linked' = linked \cup {b} /\ attached' = attached \cup {b}
    /\ connected' = IF b \in linked THEN connected ELSE connected + 1

Attach_Down(b) ==
    /\ linked' = linked \cup {b} /\ attached' = attached \cup {b}
    /\ connected' = IF b \in attached THEN connected ELSE connected - 1

Attach(b) ==
    /\ linked' = linked \cup {b} /\ attached' = attached \cup {b}
    /\ connected' = IF b \in attached THEN connected ELSE connected + 1

\* A process task is taken from the queue, of this request or one before it.
Taken(b, next) ==
    \/ /\ "process" \in todo[b]
       /\ todo' = [todo EXCEPT ![b] = (@ \ {"process"}) \cup next]
       /\ UNCHANGED stale
    \/ /\ stale[b] > 0
       /\ stale' = [stale EXCEPT ![b] = @ - 1]
       /\ todo' = [todo EXCEPT ![b] = @ \cup next]

\* A task of a block that is not linked links it first, and lets go of the buffer.
Connect(b) ==
    /\ b \notin linked /\ ~Locked(b)
    /\ Attach(b)
    /\ \/ "train" \in todo[b] /\ GoesOn(b, "train", "joined") /\ UNCHANGED stale
       \/ Taken(b, {"asked"})
    /\ UNCHANGED <<type, bufferVars, outs, rows, reports, callVars>>

\* The block gets an output and weights for every neuron of the buffer.
\* (faulty variant: the weights are only made once)
NewRows_Once(b) == IF rows[b] = 0 THEN Len(neurons) ELSE rows[b]
NewRows(b) == Len(neurons)

SizeBlock(b) ==
    /\ \/ "joined" \in todo[b] /\ GoesOn(b, "joined", "sized")
       \/ "train" \in todo[b] /\ b \in linked /\ ~Locked(b) /\ GoesOn(b, "train", "sized")
    /\ outs' = [outs EXCEPT ![b] = Len(neurons)]
    /\ rows' = [rows EXCEPT ![b] = NewRows(b)]
    /\ UNCHANGED <<type, bufferVars, connected, linked, attached, stale, reports, callVars>>

Added(ns, sums) ==
    [k \in DOMAIN ns |-> IF k \in DOMAIN sums THEN [ns[k] EXCEPT !.value = @ + sums[k]] ELSE ns[k]]

\* update_finish_counter, after the block was attached.
\* (faulty variant: the first block is enough)
CompletedBy_First(n) == local = 0
CompletedBy(n) == local + 1 >= n

Squashed(ns) == [k \in DOMAIN ns |-> [ns[k] EXCEPT !.value = Sigmoid(@)]]

\* The error of a neuron takes the place of its target.
\* (faulty variant: the first neuron is left out)
Gradients_Later(ns) == [k \in DOMAIN ns |-> IF k = 1 THEN ns[k] ELSE [ns[k] EXCEPT !.gradient = TRUE]]
Gradients(ns) == [k \in DOMAIN ns |-> [ns[k] EXCEPT !.gradient = TRUE]]

Sums(n) == [1 .. n -> Additions]

\* The block that completes the output finalizes it, and its gradients send the
\* blocks that came before back to work.
TrainBlock(b) ==
    /\ "sized" \in todo[b]
    /\ \E sums \in Sums(outs[b]) :
          LET ns == Added(neurons, sums)
          IN  \/ /\ finalized
                 /\ neurons' = ns
                 /\ GoesOn(b, "sized", "gradient")
                 /\ UNCHANGED <<finalized, local, unfinished, reports>>
              \/ /\ ~finalized /\ CompletedBy(connected)
                 /\ neurons' = Gradients(Squashed(ns))
                 /\ finalized' = TRUE /\ local' = local + 1 /\ unfinished' = {}
                 /\ reports' = reports + 1
                 /\ todo' = [c \in Blocks |->
                                IF c = b THEN (todo[c] \ {"sized"}) \cup {"gradient"}
                                ELSE IF c \in unfinished THEN (todo[c] \ {"waits"}) \cup {"backward"}
                                ELSE todo[c]]
              \/ /\ ~finalized /\ ~CompletedBy(connected)
                 /\ neurons' = ns
                 /\ local' = local + 1 /\ unfinished' = unfinished \cup {b}
                 /\ GoesOn(b, "sized", "waits")
                 /\ UNCHANGED <<finalized, reports>>
    /\ UNCHANGED <<type, size, blockVars, stale, callVars>>

\* A request does not size the block, and does not ask whether the output was
\* completed before.
ProcessBlock(b) ==
    /\ \/ "asked" \in todo[b] /\ Did(b, "asked") /\ UNCHANGED stale
       \/ b \in linked /\ ~Locked(b) /\ Taken(b, {})
    /\ local' = local + 1
    /\ \E sums \in Sums(outs[b]) :
          LET ns == Added(neurons, sums)
          IN  IF CompletedBy(connected)
              THEN /\ neurons' = Squashed(ns)
                   /\ finalized' = TRUE /\ unfinished' = {}
                   /\ reports' = reports + 1
              ELSE /\ neurons' = ns
                   /\ UNCHANGED <<finalized, unfinished, reports>>
    /\ UNCHANGED <<type, size, blockVars, callVars>>

\* The block takes over the gradients, for the neurons there are by now; the
\* weights stay as many as they are.
TakeGradients(b, t) ==
    /\ outs' = [outs EXCEPT ![b] = Len(neurons)]
    /\ Did(b, t)
    /\ UNCHANGED <<type, bufferVars, connected, linked, attached, rows, stale, reports, callVars>>

BackpropagateBlock(b) ==
    \/ "gradient" \in todo[b] /\ TakeGradients(b, "gradient")
    \/ "backward" \in todo[b] /\ ~Locked(b) /\ TakeGradients(b, "backward")

-----------------------------------------------------------------------------
\* A request comes after a train, which has linked every block to the buffer.
Next ==
    \/ \E list \in Lists : TrainCall(list)
    \/ attached = Blocks /\ RequestCall
    \/ EndTrain \/ EndRequest \/ SaveAndRestore
    \/ \E b \in Blocks : \/ Connect(b) \/ SizeBlock(b) \/ TrainBlock(b)
                         \/ ProcessBlock(b) \/ BackpropagateBlock(b)

Spec == Init /\ [][Next]_vars

\* Requests to models that were never trained, and calls that end early.
UntrainedSpec == Init /\ [][Next \/ RequestCall]_vars
EarlySpec   == Init /\ [][Next \/ EndEarly]_vars

-----------------------------------------------------------------------------
(* Properties.                                                             *)

\* Type invariant.
TypeOK ==
    /\ type \in Types /\ size \in Nat
    /\ neurons \in Seq([value : Int, target : Int, gradient : BOOLEAN, call : 0 .. MaxCalls])
    /\ finalized \in BOOLEAN /\ connected \in Nat /\ local \in Nat /\ reports \in Nat
    /\ unfinished \subseteq Blocks /\ linked \subseteq attached /\ attached \subseteq Blocks
    /\ outs \in [Blocks -> Nat] /\ rows \in [Blocks -> Nat]
    /\ todo \in [Blocks -> SUBSET (TrainTasks \cup RequestTasks)] /\ stale \in [Blocks -> Nat]
    /\ kind \in {"none", "train", "request"} /\ calls \in 0 .. MaxCalls
    /\ given \in Seq(Numbers) /\ taught \in Seq(Numbers) /\ answer \in Seq(Int)

\* No index runs past its end: a block has weights for each of its outputs, and
\* the buffer a neuron, although the block takes its size from the buffer in two
\* places and the weights in one (train and backpropagate of OutputBlock).
Covered ==
    /\ Len(neurons) = size * WidthOf
    /\ \A b \in Blocks : outs[b] <= rows[b] /\ rows[b] <= Len(neurons)

\* What the last train gave comes back: where each neuron of a value ended on
\* the side of one half its target was on, the request answers with the value,
\* as far as the type can hold it: an int loses sign and fraction and ends at
\* 2^IntBits (convert_buffer_to_expected, convert_output_to_buffer).
Held(v) ==
    CASE type = "bool" -> IF IsHigh(v) THEN One ELSE 0
      [] type = "int"  -> IF v < 0 THEN 0
                          ELSE IF v >= 2^IntBits * One THEN 2^IntBits * One ELSE v - (v % One)
      [] OTHER         -> v

Agrees(i) == \A k \in 1 .. WidthOf :
                 IsHigh(Group(i)[k].value) <=> IsHigh(TargetsOf(taught[i])[k])

Answered == kind = "none" /\ answer # <<>> /\ calls > 0 /\ given = <<>>

Delivered ==
    Answered => \A i \in DOMAIN taught :
        /\ i \in DOMAIN answer
        /\ Agrees(i) /\ type # "plain" => answer[i] = Held(taught[i])

\* The outgoing values are normalized (docs/core/core.md:248), also when several
\* blocks add to them: nothing is added after the activation.
Normalized ==
    Answered /\ type = "plain" => \A i \in DOMAIN answer : answer[i] \in 0 .. One

\* No call waits in vain: once every task of its blocks is done or waits for
\* another block, the output has reported to the finish counter, also in a model
\* that was restored (update_finish_counter, connect_output_buffer).
Reported ==
    calls > 0 /\ (\A b \in Blocks : todo[b] \subseteq {"waits"} /\ stale[b] = 0) => reports > 0

\* The gradients of the values a train gives are computed from the targets of
\* this train (backpropagate of OutputBuffer).
Completes == ~finalized /\ finalized' /\ kind = "train"
IsFresh(n) == ~n.gradient /\ n.call = calls

CoveredFresh ==
    [][Completes => \A k \in 1 .. Len(given) * WidthOf : IsFresh(neurons[k])]_vars

\* So are the gradients of all the other neurons.
AllFresh == [][Completes => \A k \in DOMAIN neurons : IsFresh(neurons[k])]_vars

\* A block adjusts its weights by gradients, never by targets: a backpropagation
\* does not overtake the block that completes the output.
GradientsUsed ==
    [][\A b \in Blocks : BackpropagateBlock(b) => \A k \in DOMAIN neurons : neurons[k].gradient]_vars
=============================================================================
