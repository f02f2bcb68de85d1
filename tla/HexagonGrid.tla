---------------------------- MODULE HexagonGrid -----------------------------
(***************************************************************************)
(* How a model template becomes a network of hexagons (model_parser.rs,    *)
(* init_model, with get_neighbor_pos of functions.rs): axons are resolved, *)
(* neighbours connected, and for every hexagon random walks over the       *)
(* neighbours draw the hexagons its blocks may send to. Propagation takes  *)
(* the outcome as its constant Possible.                                   *)
(*                                                                         *)
(* The code is sequential; hexagons are handled in the order of a hash     *)
(* map, which is any order, and the walks are random.                      *)
(***************************************************************************)
EXTENDS Integers, Sequences

CONSTANTS Hexagons,
          Templates,    \* the templates that may be given, see TemplatesAssumption
          Limit,        \* numbers are numbers modulo Limit (2^32 in the code)
          UninitPoint,  \* UNINIT_POINT_32: a coordinate that counts as no position
          NumberOfNext, \* NUMBER_OF_POSSIBLE_NEXT, 86 in the code
          Checked,      \* does overflow panic (debug build) or wrap (release)?
          Nil

Coordinates == 0 .. Limit - 1                   \* u32, as the distance is
Positions   == [x : Coordinates, y : Coordinates, z : Coordinates]

ASSUME LimitAssumption == /\ Limit \in Nat /\ Limit > 2 /\ Limit % 2 = 0
                          /\ UninitPoint \in Coordinates
                          /\ NumberOfNext \in Nat \ {0}
                          /\ Checked \in BOOLEAN
                          /\ Nil \notin Hexagons

TemplateType == [position : [Hexagons -> Positions],
                 axons    : Seq([from : Positions, to : Positions]),
                 inputs   : Seq(Positions),
                 outputs  : Seq(Positions),
                 distance : Coordinates]
ASSUME TemplatesAssumption == \A t \in Templates : t \in TemplateType

VARIABLES template, phase,
          index,        \* next entry of the list a phase walks through
          axonTarget, neighbors, targets, isInput, isOutput,
          todo,         \* hexagons the phase has still to handle
          walk          \* the loop inside a phase, or Nil between two hexagons

vars == <<template, phase, index, axonTarget, neighbors, targets, isInput, isOutput, todo, walk>>

Pos(h)  == template.position[h]
At(p)   == {h \in Hexagons : Pos(h) = p}
Found(p) == CHOOSE h \in At(p) : TRUE          \* search_hexagon: the first in the map
Sides   == 0 .. 11
Chances == 1 .. NumberOfNext

-----------------------------------------------------------------------------
(* The neighbour on a side. Odd rows are shifted by half a hexagon: the    *)
(* western neighbours in the rows above and below have the same x in odd   *)
(* rows, the eastern ones in even rows.                                    *)

ShiftX(p, side) ==
    CASE side \in {0, 6, 8, 10} -> (p.y % 2) - 1
      [] side \in {1, 3, 5, 11} -> p.y % 2
      [] side = 4               -> 1
      [] side = 7               -> -1
      [] side \in {2, 9}        -> 0
ShiftY(side) == IF side \in {0, 1, 3, 6} THEN -1 ELSE IF side \in {5, 8, 10, 11} THEN 1 ELSE 0
ShiftZ(side) == IF side \in {0, 1, 2} THEN -1 ELSE IF side \in {9, 10, 11} THEN 1 ELSE 0

\* (faulty variant: the shift of odd rows is forgotten on side 8)
NeighborPos_Unshifted(p, side) ==
    [x |-> (p.x + IF side = 8 THEN 0 ELSE ShiftX(p, side)) % Limit,
     y |-> (p.y + ShiftY(side)) % Limit, z |-> (p.z + ShiftZ(side)) % Limit]
NeighborPos(p, side) ==
    [x |-> (p.x + ShiftX(p, side)) % Limit,
     y |-> (p.y + ShiftY(side)) % Limit,
     z |-> (p.z + ShiftZ(side)) % Limit]

Overflows(p, side) == \/ p.x + ShiftX(p, side) \notin Coordinates
                      \/ p.y + ShiftY(side) \notin Coordinates
                      \/ p.z + ShiftZ(side) \notin Coordinates

IsValid(p) == UninitPoint \notin {p.x, p.y, p.z}

\* The sides a walk may take: east, and straight up or down.
\* (faulty variant: a western side among them)
ForwardSides_West == {9, 3, 1, 4, 11, 5, 2, 7}
ForwardSides == {9, 3, 1, 4, 11, 5, 2}

-----------------------------------------------------------------------------
Init ==
    /\ template \in Templates
    /\ phase = "axons"
    /\ index = 1
    /\ axonTarget = [h \in Hexagons |-> h]
    /\ neighbors = [h \in Hexagons |-> [s \in Sides |-> Nil]]
    /\ targets = [h \in Hexagons |-> [c \in Chances |-> Nil]]
    /\ isInput = [h \in Hexagons |-> FALSE]
    /\ isOutput = [h \in Hexagons |-> FALSE]
    /\ todo = Hexagons
    /\ walk = Nil

Entry(list) == index \in 1 .. Len(list)

EnterPhase(p) ==
    /\ phase' = p
    /\ index' = 1
    /\ todo' = Hexagons
    /\ UNCHANGED walk

NextEntry == index' = index + 1 /\ UNCHANGED <<phase, todo, walk>>

Fail == phase' = "error" /\ UNCHANGED <<index, todo, walk>>

\* update_axons, which init_model calls twice.
UpdateAxons ==
    /\ phase \in {"axons", "axons again"}
    /\ IF Entry(template.axons)
       THEN LET axon == template.axons[index]
            IN  \/ /\ At(axon.from) # {} /\ At(axon.to) # {}
                   /\ axonTarget' = [axonTarget EXCEPT ![Found(axon.from)] = Found(axon.to)]
                   /\ NextEntry
                \/ (At(axon.from) = {} \/ At(axon.to) = {}) /\ Fail /\ UNCHANGED axonTarget
       ELSE /\ EnterPhase(IF phase = "axons" THEN "connect" ELSE "inputs")
            /\ UNCHANGED axonTarget
    /\ UNCHANGED <<template, neighbors, targets, isInput, isOutput>>

-----------------------------------------------------------------------------
(* connect_all_hexagons: one step per side of a hexagon.                   *)

StartConnect ==
    /\ phase = "connect"
    /\ walk = Nil
    /\ IF todo = {}
       THEN EnterPhase("targets")
       ELSE /\ \E h \in todo : /\ walk' = [source |-> h, side |-> 0]
                               /\ todo' = todo \ {h}
            /\ UNCHANGED <<phase, index>>
    /\ UNCHANGED <<template, axonTarget, neighbors, targets, isInput, isOutput>>

\* Both hexagons learn of each other; of several at one position, the source
\* remembers the last.
\* (faulty variant: the opposite side is taken for 12 - side)
Connected_Twelve(source, side, others, last) ==
    [h \in Hexagons |-> [s \in Sides |->
        IF h = source /\ s = side /\ others # {} THEN last
        ELSE IF h \in others /\ s = 12 - side THEN source
        ELSE neighbors[h][s]]]
Connected(source, side, others, last) ==
    [h \in Hexagons |-> [s \in Sides |->
        IF h = source /\ s = side /\ others # {} THEN last
        ELSE IF h \in others /\ s = 11 - side THEN source
        ELSE neighbors[h][s]]]

\* (faulty variant: one side too many)
LastSide_OneMore == 12
LastSide == 11

ConnectHexagon ==
    /\ phase = "connect"
    /\ walk # Nil
    /\ LET h      == walk.source
           next   == NeighborPos(Pos(h), walk.side)
           others == IF IsValid(next) THEN At(next) ELSE {}
       IN  IF Checked /\ Overflows(Pos(h), walk.side)
           THEN phase' = "panicked" /\ UNCHANGED <<neighbors, walk>>
           ELSE /\ \E last \in (IF others = {} THEN {Nil} ELSE others) :
                       neighbors' = Connected(h, walk.side, others, last)
                /\ walk' = IF walk.side = LastSide THEN Nil ELSE [walk EXCEPT !.side = @ + 1]
                /\ UNCHANGED phase
    /\ UNCHANGED <<template, index, axonTarget, targets, isInput, isOutput, todo>>

-----------------------------------------------------------------------------
(* initialize_target_hexagon_list and go_to_next_hexagon: one step per     *)
(* hexagon of a random walk.                                               *)

\* The steps a walk from h may take; a hexagon with an axon starts at its end,
\* which costs one. The distance is taken for a signed number: of the upper half
\* of the distances only the lowest is a long way, because it wraps when the first
\* step is taken off; the others end a walk where it begins.
Half == Limit \div 2
PathLength(h) ==
    LET length == (IF axonTarget[h] = h THEN template.distance ELSE template.distance - 1) % Limit
    IN  IF length <= Half THEN length ELSE 0

\* The lowest number is where a step is taken off.
LengthOverflows(h) ==
    template.distance = Half \/ (template.distance = Half + 1 /\ axonTarget[h] # h)

NewWalk(h, c) == [source |-> h, chance |-> c, at |-> axonTarget[h], left |-> PathLength(h)]

StartWalk ==
    /\ phase = "targets"
    /\ walk = Nil
    /\ IF todo = {}
       THEN EnterPhase("axons again")
       ELSE \E h \in todo :
                IF Checked /\ LengthOverflows(h)
                THEN phase' = "panicked" /\ UNCHANGED <<index, todo, walk>>
                ELSE /\ walk' = NewWalk(h, 1)
                     /\ todo' = todo \ {h}
                     /\ UNCHANGED <<phase, index>>
    /\ UNCHANGED <<template, axonTarget, neighbors, targets, isInput, isOutput>>

Ahead(h) == {neighbors[h][s] : s \in ForwardSides} \ {Nil}

\* The walk goes on to any hexagon ahead while there are steps left.
\* (faulty variant: the steps are not counted)
GoOn_Uncounted == /\ walk.left > 0
                  /\ \E h \in Ahead(walk.at) : walk' = [walk EXCEPT !.at = h]
                  /\ UNCHANGED targets
GoOn == /\ walk.left > 0
        /\ \E h \in Ahead(walk.at) : walk' = [walk EXCEPT !.at = h, !.left = @ - 1]
        /\ UNCHANGED targets

\* It ends without steps left, without a hexagon ahead, or, away from its
\* source, by chance. A hexagon is not its own target.
\* (faulty variant: the source is not sorted out)
Settle_Self == [targets EXCEPT ![walk.source][walk.chance] = walk.at]
Settle == [targets EXCEPT ![walk.source][walk.chance] =
               IF walk.at = walk.source THEN Nil ELSE walk.at]

Stop == /\ \/ walk.left = 0
           \/ Ahead(walk.at) = {}
           \/ walk.at # walk.source
        /\ targets' = Settle
        /\ walk' = IF walk.chance = NumberOfNext THEN Nil
                   ELSE NewWalk(walk.source, walk.chance + 1)

GoToNextHexagon ==
    /\ phase = "targets"
    /\ walk # Nil
    /\ GoOn \/ Stop
    /\ UNCHANGED <<template, phase, index, axonTarget, neighbors, isInput, isOutput, todo>>

-----------------------------------------------------------------------------
InitializeInputs ==
    /\ phase = "inputs"
    /\ IF Entry(template.inputs)
       THEN LET p == template.inputs[index]
            IN  \/ At(p) # {} /\ isInput' = [isInput EXCEPT ![Found(p)] = TRUE] /\ NextEntry
                \/ At(p) = {} /\ Fail /\ UNCHANGED isInput
       ELSE EnterPhase("outputs") /\ UNCHANGED isInput
    /\ UNCHANGED <<template, axonTarget, neighbors, targets, isOutput>>

InitializeOutputs ==
    /\ phase = "outputs"
    /\ IF Entry(template.outputs)
       THEN LET p == template.outputs[index]
            IN  \/ At(p) # {} /\ isOutput' = [isOutput EXCEPT ![Found(p)] = TRUE] /\ NextEntry
                \/ At(p) = {} /\ Fail /\ UNCHANGED isOutput
       ELSE EnterPhase("done") /\ UNCHANGED isOutput
    /\ UNCHANGED <<template, axonTarget, neighbors, targets, isInput>>

Next == \/ UpdateAxons
        \/ StartConnect
        \/ ConnectHexagon
        \/ StartWalk
        \/ GoToNextHexagon
        \/ InitializeInputs
        \/ InitializeOutputs

Spec == Init /\ [][Next]_vars

\* The thread that parses the template goes on until it is through.
FairSpec == Spec /\ WF_vars(Next)

-----------------------------------------------------------------------------
Phases == {"axons", "connect", "targets", "axons again", "inputs", "outputs", "done",
           "error", "panicked"}
ConnectLoops == [source : Hexagons, side : Sides]
Walks        == [source : Hexagons, chance : Chances, at : Hexagons, left : Nat]

\* Every variable has its type, and each phase the loop it needs.
TypeOK ==
    /\ template \in TemplateType
    /\ phase \in Phases
    /\ index \in Nat
    /\ axonTarget \in [Hexagons -> Hexagons]
    /\ neighbors \in [Hexagons -> [Sides -> Hexagons \cup {Nil}]]
    /\ targets \in [Hexagons -> [Chances -> Hexagons \cup {Nil}]]
    /\ isInput \in [Hexagons -> BOOLEAN]
    /\ isOutput \in [Hexagons -> BOOLEAN]
    /\ todo \subseteq Hexagons
    /\ walk # Nil => \/ phase \in {"connect", "panicked"} /\ walk \in ConnectLoops
                     \/ phase = "targets" /\ walk \in Walks

DistinctPositions == \A g, h \in Hexagons : Pos(g) = Pos(h) => g = h

\* A hexagon is a neighbour of its neighbours, on the opposite side, as long as
\* a position is given once (model_parser.rs:386-391 writes both directions,
\* once from each of the two hexagons: the two writes must agree).
NeighborsMutual ==
    DistinctPositions =>
        \A g, h \in Hexagons, s \in Sides : neighbors[g][s] = h <=> neighbors[h][11 - s] = g

Edges == {e \in Hexagons \X Hexagons : \E c \in Chances : targets[e[1]][c] = e[2]}

\* The targets of the hexagons never lead back to where they came from ("avoid
\* cycles", docs/core/core.md:315): every set of hexagons has one that sends to
\* none of the set. A cycle would wait for its own output.
NoCycles ==
    \A S \in SUBSET Hexagons \ {{}} : \E g \in S : \A h \in S : <<g, h>> \notin Edges

\* Twice the distance to the western border, in a plane of hexagons.
Eastward(h) == 2 * Pos(h).x + (Pos(h).y % 2)

\* A template away from the far border, where coordinates wrap.
Inland == \A h \in Hexagons : Limit - 1 \notin {Pos(h).x, Pos(h).y, Pos(h).z}

\* One in one layer, without axons.
Flat ==
    /\ Inland
    /\ template.axons = <<>>
    /\ \A g, h \in Hexagons : Pos(g).z = Pos(h).z

\* In such a template all targets lie further east: this is why a line of
\* hexagons is a classical layer structure (README.md:50).
TargetsEast == Flat => \A g, h \in Hexagons : <<g, h>> \in Edges => Eastward(g) < Eastward(h)

Abs(n) == IF n < 0 THEN -n ELSE n

\* A hexagon that n steps lead to, in rows, in the plane and in layers.
Reach(base, h, n) ==
    LET rows == Abs(Pos(h).y - Pos(base).y)
    IN  /\ rows <= n
        /\ rows + Abs(Eastward(h) - Eastward(base)) <= 2 * n
        /\ Abs(Pos(h).z - Pos(base).z) <= n

\* No target is further than max_connection_distance from where the walk began
\* (docs/core/core.md:299). The second update_axons passes through the earlier
\* ends of a hexagon that has several axons, on which no walk began.
WithinDistance ==
    Inland /\ phase # "axons again" =>
        \A g, h \in Hexagons : <<g, h>> \in Edges =>
            Reach(axonTarget[g], h, PathLength(g)) /\ PathLength(g) <= template.distance

\* Parsing comes to an end.
Ends == <>(phase \in {"done", "error", "panicked"})

-----------------------------------------------------------------------------
(* What the documentation says, and the code does not always keep.         *)

\* "search a traces from input- to output-hexagons" (docs/core/core.md:314):
\* from every target there is a way to an output hexagon. A set of hexagons
\* without output and without a target outside of it is a dead end.
TracesToOutput ==
    phase = "done" =>
        \A S \in SUBSET {h \in Hexagons : ~isOutput[h]} :
            (\A e \in Edges : e[1] \in S => e[2] \in S) =>
                \A e \in Edges : e[2] \notin S

\* parse_model_template returns "The parsed model or an error if parsing fails"
\* (model_parser.rs:44): it does not panic.
NeverPanics == phase # "panicked"
=============================================================================
