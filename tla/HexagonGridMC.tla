--------------------------- MODULE HexagonGridMC ----------------------------
(***************************************************************************)
(* Small templates for HexagonGrid.                                        *)
(***************************************************************************)
EXTENDS HexagonGrid

CONSTANTS h1, h2, h3

P(x, y, z) == [x |-> x, y |-> y, z |-> z]

TemplateOf(layout, axons, inputs, outputs, distance) ==
    [position |-> layout, axons |-> axons, inputs |-> inputs, outputs |-> outputs,
     distance |-> distance]

Layout(p1, p2, p3) == [h \in Hexagons |-> CASE h = h1 -> p1 [] h = h2 -> p2 [] h = h3 -> p3]

\* All ways to place the hexagons in two rows of one layer; two of them may
\* share a position.
Plane   == {P(x, y, 1) : x \in 0 .. 2, y \in 2 .. 3}
Layouts == {Layout(P(1, 2, 1), p, q) : p \in Plane, q \in Plane}

\* Axons lead east, two of them from the same hexagon, or from or to a position
\* without hexagon.
Axons(layout) ==
    {<<>>, <<[from |-> P(5, 5, 5), to |-> layout[h1]]>>}
    \cup {<<[from |-> layout[h1], to |-> p]>> : p \in {P(2, 2, 1), P(2, 3, 1)}}
    \cup {<<[from |-> layout[h1], to |-> layout[h2]], [from |-> layout[h1], to |-> layout[h3]]>>}

FlatTemplates ==
    UNION {{TemplateOf(l, a, <<l[h1]>>, o, d) :
                a \in Axons(l), o \in {<<l[h2]>>, <<l[h3], P(0, 0, 0)>>}, d \in 0 .. 2} :
           l \in Layouts}

\* All ways to place the hexagons in a cube, with axons anywhere; the distances
\* reach into the upper half of the numbers.
Cube == {P(x, y, z) : x \in 1 .. 2, y \in 1 .. 2, z \in 1 .. 2}

CubeTemplates ==
    UNION {{TemplateOf(l, a, <<l[h1]>>, <<l[h2]>>, d) :
                a \in {<<>>, <<[from |-> l[h3], to |-> l[h1]]>>}, d \in {0, 1, 3, 4, 5}} :
           l \in {Layout(P(1, 1, 1), p, q) : p \in Cube, q \in Cube}}

AllTemplates == FlatTemplates \cup CubeTemplates

\* Two layers on top of each other.
Stacked == {TemplateOf(Layout(P(1, 1, 1), P(2, 1, 1), P(2, 1, 2)), <<>>,
                       <<P(1, 1, 1)>>, <<P(2, 1, 2)>>, 1)}

\* A hexagon beside the way from the input to the output.
Branched == {TemplateOf(Layout(P(1, 2, 1), P(1, 1, 1), P(1, 3, 1)), <<>>,
                        <<P(1, 2, 1)>>, <<P(1, 1, 1)>>, d) : d \in 1 .. 2}

\* A line that begins at the border.
AtBorder == {TemplateOf(Layout(P(0, 0, 0), P(1, 0, 0), P(2, 0, 0)), <<>>,
                        <<P(0, 0, 0)>>, <<P(2, 0, 0)>>, 1)}
=============================================================================
