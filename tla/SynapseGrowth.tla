--------------------------- MODULE SynapseGrowth ---------------------------
(***************************************************************************)
(* What happens inside a core block (core_block.rs): the synapse sections, *)
(* the connections that chain the sections of one input axon, and one of   *)
(* the neurons. A training pass grows the block, a request walks what was  *)
(* trained, a backpropagation adjusts it.                                  *)
(*                                                                         *)
(* A pass runs with the mutex of the block held. It is taken apart here    *)
(* into its loop steps, one per section and one per synapse, because what  *)
(* an earlier section does decides what a later one finds. Potentials and  *)
(* borders are integers; weights, deltas and the neuron a synapse leads to *)
(* are left out. How a pass moves data between blocks is in Propagation.   *)
(***************************************************************************)
EXTENDS Integers, Sequences, FiniteSets

CONSTANTS Dim,            \* BLOCK_DIM: axons of a section, synapses of a section
          FreshBorder,    \* border of the synapse a fresh section starts with (1.0)
          CreateBorder,   \* ABSOLUTE_CREATE_BORDER (0.1)
          RefractoryTime, \* setting of the model
          Patterns,       \* potentials the input axons may have in a pass
          MaxPasses,      \* bound: passes
          None            \* UNINIT_STATE_16

Axons       == 0 .. 2 * Dim - 1
Connections == 0 .. 6 * Dim - 1
Positions   == 0 .. Dim - 1

ASSUME DimAssumption     == Dim \in Nat \ {0}
ASSUME BorderAssumption  == /\ FreshBorder \in Nat \ {0}
                            /\ CreateBorder \in Nat \ {0}
ASSUME TimeAssumption    == RefractoryTime \in Nat /\ MaxPasses \in Nat
ASSUME PatternAssumption == Patterns \subseteq [Axons -> Int]
ASSUME NoneAssumption    == None \notin Int

VARIABLES
    outs,     \* length of output_buffer: 1 to 3 sections
    border,   \* border of every synapse, 0: no synapse
    conn,     \* connections: lower bound, source axon, next section, used
    counter,  \* section_counter
    axon,     \* potentials of the input axons
    task,     \* the pass that runs, or "idle"
    at,       \* the section the pass is at
    inside,   \* is the section being walked?
    pos,      \* the synapse the walk is at
    rest,     \* potential that is left
    walked,   \* the synapses the pass has walked
    trained,  \* the last training pass: its potentials, the synapses it walked,
              \* and whether no pass has begun since
    neuron,   \* refractory time of a neuron; what the last pass did to it
    count     \* number of passes

where == <<task, at, inside, pos, rest>>
vars  == <<outs, border, conn, counter, axon, where, walked, trained, neuron, count>>

SectionsOf(n) == 0 .. 2 * Dim * n - 1
Sections      == SectionsOf(outs)
Tasks         == {"train", "process", "backpropagate"}

\* (faulty variant: the first synapse is missing)
FreshSection_Empty == [p \in Positions |-> 0]
FreshSection == [p \in Positions |-> IF p = 0 THEN FreshBorder ELSE 0]
FreeConnection ==
    [low |-> 0, source |-> None, next |-> None, used |-> FALSE]

Init ==
    /\ outs = 1
    /\ border = [s \in SectionsOf(1) |-> FreshSection]
    /\ conn = [i \in Connections |-> IF i \in Axons THEN [FreeConnection EXCEPT !.source = i]
                                                    ELSE FreeConnection]
    /\ counter = 0
    /\ axon = [a \in Axons |-> 0]
    /\ task = "idle" /\ at = 0 /\ inside = FALSE /\ pos = 0 /\ rest = 0
    /\ walked = {}
    /\ trained = [axon |-> axon, walked |-> {}, fresh |-> FALSE]
    /\ neuron = [refractory |-> 0, since |-> RefractoryTime, input |-> FALSE, triggered |-> FALSE]
    /\ count = 0

-----------------------------------------------------------------------------
(* The start of a pass. Training and requests first widen a block whose    *)
(* sections are used to 90 percent; one call may widen it twice.           *)

Filled(n) == 10 * counter >= 9 * (2 * Dim * n)
\* (faulty variant: the size is not looked at)
WidenedTo_Any(n) == IF Filled(n) THEN n + 1 ELSE n
WidenedTo(n) == IF n = 1 /\ Filled(1)
                THEN IF Filled(2) THEN 3 ELSE 2
                ELSE IF n = 2 /\ Filled(2) THEN 3 ELSE n

Begin(kind, potentials) ==
    /\ task = "idle"
    /\ count < MaxPasses
    /\ task' = kind
    /\ at' = 0
    /\ axon' = potentials
    /\ walked' = {}
    /\ trained' = [trained EXCEPT !.fresh = FALSE]
    /\ count' = count + 1
    /\ UNCHANGED <<inside, pos, rest, conn, counter, neuron>>

BeginForward ==
    \E kind \in {"train", "process"}, potentials \in Patterns :
        /\ Begin(kind, potentials)
        /\ outs' = WidenedTo(outs)
        /\ border' = [s \in SectionsOf(WidenedTo(outs)) |->
                         IF s \in Sections THEN border[s] ELSE FreshSection]

\* The deltas of a call come back on the potentials it trained with.
BeginBackward ==
    /\ trained.fresh
    /\ Begin("backpropagate", axon)
    /\ UNCHANGED <<outs, border>>

-----------------------------------------------------------------------------
(* Choosing the sections a pass works on.                                  *)

\* (faulty variant: a request takes sections that were never trained, too)
Awake_Unused(i) ==
    /\ conn[i].source # None
    /\ IF task = "backpropagate" THEN axon[conn[i].source] > 0 ELSE axon[conn[i].source] # 0
Awake(i) ==
    /\ conn[i].source # None
    /\ CASE task = "train"         -> axon[conn[i].source] # 0
         [] task = "process"       -> axon[conn[i].source] # 0 /\ conn[i].used
         [] task = "backpropagate" -> axon[conn[i].source] > 0

NextSection ==
    /\ task # "idle" /\ ~inside /\ at \in Sections
    /\ ~Awake(at)
    /\ at' = at + 1
    /\ UNCHANGED <<outs, border, conn, counter, axon, task, inside, pos, rest,
                   walked, trained, neuron, count>>

\* The first training pass of a section marks and counts it.
\* (faulty variant: every pass counts)
FirstUse_Every(i) == task = "train"
FirstUse(i) == task = "train" /\ ~conn[i].used

EnterSection ==
    /\ task # "idle" /\ ~inside /\ at \in Sections
    /\ Awake(at)
    /\ inside' = TRUE
    /\ pos' = 0
    /\ rest' = axon[conn[at].source] - conn[at].low
    /\ IF FirstUse(at)
       THEN /\ counter' = counter + 1
            /\ conn' = [conn EXCEPT ![at].used = TRUE]
       ELSE UNCHANGED <<counter, conn>>
    /\ UNCHANGED <<outs, border, axon, task, at, walked, trained, neuron, count>>

-----------------------------------------------------------------------------
(* The walk through a section.                                             *)

\* A missing synapse gets twice the border of the one before it.
Grown ==
    IF border[at][pos] = 0 THEN 2 * border[at][pos - 1] ELSE border[at][pos]

\* The border is halved when the potential is well inside of it.
Adapted(b) ==
    IF /\ 10 * rest < 9 * b
       /\ 10 * rest > b
       /\ rest < b - CreateBorder
       /\ rest > CreateBorder
    THEN b \div 2
    ELSE b

More == pos \in Positions /\ rest > 0

TrainSynapse ==
    /\ task = "train" /\ inside /\ More
    /\ border' = [border EXCEPT ![at][pos] = Adapted(Grown)]
    /\ rest' = rest - Adapted(Grown)
    /\ walked' = walked \cup {<<at, pos>>}
    /\ pos' = pos + 1
    /\ UNCHANGED <<outs, conn, counter, axon, task, at, inside, trained, neuron, count>>

PassSynapse ==
    /\ task # "train" /\ inside /\ More
    /\ border[at][pos] # 0
    /\ rest' = rest - border[at][pos]
    /\ walked' = walked \cup {<<at, pos>>}
    /\ pos' = pos + 1
    /\ UNCHANGED <<outs, border, conn, counter, axon, task, at, inside, trained, neuron, count>>

Stops == More => task # "train" /\ border[at][pos] = 0

FreeConnections == {i \in Connections : conn[i].source = None}
\* (faulty variant: a connection without a next section counts as free)
FirstFree_Last(i) == /\ conn[i].next = None
                     /\ \A j \in Connections : conn[j].next = None => i <= j
FirstFree(i) == i \in FreeConnections /\ \A j \in FreeConnections : i <= j

\* The bound the next section gets: what this one used of the potential.
\* (faulty variant: what is left of the potential)
Used_Rest == rest
Used == (axon[conn[at].source] - conn[at].low) - rest

LinkNext ==
    /\ conn[at].next = None
    /\ \/ \E free \in Connections :
             /\ FirstFree(free)
             /\ conn' = [conn EXCEPT ![at].next = free,
                                     ![free].source = conn[at].source]
       \/ FreeConnections = {} /\ UNCHANGED conn

RaiseBound ==
    /\ conn[at].next # None
    /\ IF conn[conn[at].next].low < Used
       THEN conn' = [conn EXCEPT ![conn[at].next].low = Used]
       ELSE UNCHANGED conn

LeaveSection ==
    /\ inside
    /\ Stops
    /\ IF task = "train" /\ rest > 0 THEN LinkNext \/ RaiseBound ELSE UNCHANGED conn
    /\ inside' = FALSE
    /\ pos' = 0
    /\ rest' = 0
    /\ at' = at + 1
    /\ UNCHANGED <<outs, border, counter, axon, task, walked, trained, neuron, count>>

-----------------------------------------------------------------------------
(* The end of a pass. A neuron whose refractory time is over hands its     *)
(* input on and starts a new refractory time.                              *)

Over == neuron.refractory \div 2 = 0

Applied(input) ==
    [refractory |-> IF Over THEN RefractoryTime ELSE neuron.refractory \div 2,
     since      |-> IF input /\ Over THEN 1
                    ELSE IF neuron.since < RefractoryTime THEN neuron.since + 1
                                                          ELSE neuron.since,
     input      |-> input,
     triggered  |-> input /\ Over]

EndPass ==
    /\ task # "idle" /\ ~inside /\ at \notin Sections
    /\ task' = "idle"
    /\ at' = 0
    /\ trained' = IF task = "train"
                  THEN [axon |-> axon, walked |-> walked, fresh |-> TRUE]
                  ELSE trained
    /\ IF task = "backpropagate"
       THEN UNCHANGED neuron
       ELSE \E input \in IF walked = {} THEN {FALSE} ELSE BOOLEAN :
                neuron' = Applied(input)
    /\ UNCHANGED <<outs, border, conn, counter, axon, inside, pos, rest, walked, count>>

Next ==
    \/ BeginForward
    \/ BeginBackward
    \/ NextSection
    \/ EnterSection
    \/ TrainSynapse
    \/ PassSynapse
    \/ LeaveSection
    \/ EndPass

Spec == Init /\ [][Next]_vars

-----------------------------------------------------------------------------
(* Properties.                                                             *)

\* Type invariant: in particular, a block has at most three output sections.
TypeOK ==
    /\ outs \in 1 .. 3
    /\ border \in [Sections -> [Positions -> Nat]]
    /\ conn \in [Connections -> [low : Int, source : Axons \cup {None},
                                 next : Connections \cup {None}, used : BOOLEAN]]
    /\ counter \in Nat
    /\ axon \in [Axons -> Int]
    /\ task \in Tasks \cup {"idle"}
    /\ at \in 0 .. 2 * Dim * outs
    /\ inside \in BOOLEAN
    /\ pos \in 0 .. Dim
    /\ rest \in Int
    /\ walked \subseteq Sections \X Positions
    /\ trained \in [axon : [Axons -> Int], walked : SUBSET (Connections \X Positions),
                    fresh : BOOLEAN]
    /\ neuron \in [refractory : Nat, since : Nat, input : BOOLEAN, triggered : BOOLEAN]
    /\ count \in 0 .. MaxPasses

\* The connections are chains, one per input axon. The first sections belong
\* to the axon of their own number; every other section in use continues
\* exactly one section before it, of the same axon, and sections are handed
\* out from the front (CoreBlock::train, search_free_connection).
Allocated == {i \in Connections : conn[i].source # None}

ChainLinks ==
    \A i \in Connections : conn[i].next # None =>
        /\ conn[i].next > i
        /\ conn[i].next \notin Axons
        /\ conn[conn[i].next].source = conn[i].source
        /\ \A j \in Connections : conn[j].next = conn[i].next => i = j

Chains ==
    /\ ChainLinks
    /\ \A i \in Axons : conn[i].source = i
    /\ \A i \in Allocated \ Axons : \E j \in Allocated : conn[j].next = i
    /\ \A i \in Connections \ Allocated :
           /\ conn[i] = FreeConnection
           /\ \A j \in Connections : i < j => j \notin Allocated

\* The counter that decides about widening counts the sections that were
\* trained, each once, and only sections the block has
\* (CoreBlock::train, check_and_resize_block).
Counted ==
    /\ counter = Cardinality({i \in Connections : conn[i].used})
    /\ \A i \in Connections : conn[i].used => i \in Sections /\ i \in Allocated

\* The synapses of a section are a prefix of it, the first is always there
\* and every border is positive: the assertion of train_section holds, and a
\* walk that goes on uses up potential.
FilledPrefix ==
    \A s \in Sections :
        /\ border[s][0] > 0
        /\ \A p \in Positions \ {0} : border[s][p] > 0 => border[s][p - 1] > 0

\* The deltas of a call go through exactly the synapses its training pass
\* went through, and a request with the potentials of the last training
\* pass recalls these synapses as well, although the pass linked further
\* sections and the request may have widened the block in between
\* (process_section, backpropagate_section, CoreBlock::process).
Recalled ==
    task \in {"process", "backpropagate"} /\ at \notin Sections /\ axon = trained.axon
        => walked = trained.walked

\* A section whose bound was set never works on the part of the potential
\* that the section before it can take, both counted from the start of that
\* section: borders only shrink once a section is full (train_section).
Taken(b) ==   \* by the first p of the borders b, for every p
    LET Sum[p \in 0 .. Dim] == IF p = 0 THEN 0 ELSE Sum[p - 1] + b[p - 1]
    IN  Sum
Capacity(s) == Taken(border[s])[Dim]

BoundsBehindPredecessor ==
    \A i \in Sections : conn[i].next # None /\ conn[conn[i].next].low # 0
        => conn[conn[i].next].low >= Capacity(i)

\* A section that continues another one and is used has its bound: it does not
\* work on the part of the potential that the section before it takes.
ContinuesAbove ==
    \A i \in Sections :
        LET j == conn[i].next
        IN  task = "idle" /\ j \in Sections /\ conn[j].used => conn[j].low > 0

\* Where one section of a chain ends, the next one begins: a section whose bound
\* was set starts above everything the section before it can take.
NoOverlap ==
    \A i \in Sections :
        LET j == conn[i].next
        IN  task = "idle" /\ j \in Sections /\ conn[j].used /\ conn[j].low # 0
                => conn[j].low >= conn[i].low + Capacity(i)

\* A neuron that got input is triggered if it has not been triggered within
\* the last RefractoryTime passes, and only then (CoreBlock::apply_output).
RefractoryTimeKept ==
    [][EndPass /\ neuron'.input => (neuron'.triggered <=> neuron.since >= RefractoryTime)]_vars
=============================================================================
