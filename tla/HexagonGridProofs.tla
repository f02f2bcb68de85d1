------------------------- MODULE HexagonGridProofs --------------------------
(***************************************************************************)
(* Proofs about HexagonGrid, for every set of templates and every width of *)
(* the coordinates: neighbours are mutual, and the targets of a flat       *)
(* template without axons lie east of their sources.                       *)
(***************************************************************************)
EXTENDS HexagonGrid, TLAPS

\* What a side says about positions: every neighbour is where its side points.
Exact == \A g, h \in Hexagons, s \in Sides :
             neighbors[g][s] = h => Pos(h) = NeighborPos(Pos(g), s)

\* In a flat template a walk has gone east, or not at all.
WalksEast == Flat => /\ \A h \in Hexagons : axonTarget[h] = h
                     /\ phase = "targets" /\ walk # Nil =>
                            \/ walk.at = walk.source
                            \/ Eastward(walk.source) < Eastward(walk.at)

IInv == TypeOK /\ Exact /\ NeighborsMutual /\ WalksEast /\ TargetsEast

-----------------------------------------------------------------------------
(* The geometry.                                                           *)

\* Coordinates wrap: one step and back again.
LEMMA Wrap ==
    ASSUME NEW c \in Coordinates, NEW d \in {-1, 0, 1}
    PROVE  /\ (c + d) % Limit \in Coordinates
           /\ (((c + d) % Limit) - d) % Limit = c
           /\ ((c + d) % Limit) % 2 = (c + d) % 2
           /\ d # 0 => (c + d) % Limit # c
           /\ c # Limit - 1 /\ d # -1 => (c + d) % Limit = c + d
<1>1. Limit \in Nat /\ Limit > 2 /\ Limit % 2 = 0 /\ c \in Nat /\ c <= Limit - 1
  BY LimitAssumption DEF Coordinates
<1>2. \A n \in 0 .. Limit - 1 : n % Limit = n
  BY <1>1, SMTT(30)
<1>3. (-1) % Limit = Limit - 1 /\ Limit % Limit = 0
  BY <1>1, SMTT(30)
<1>4. CASE d = 0
  BY <1>1, <1>2, <1>4 DEF Coordinates
<1>5. CASE d = 1
  <2>1. CASE c = Limit - 1
    BY <1>1, <1>2, <1>3, <1>5, <2>1 DEF Coordinates
  <2>2. CASE c # Limit - 1
    BY <1>1, <1>2, <1>5, <2>2 DEF Coordinates
  <2> QED BY <2>1, <2>2
<1>6. CASE d = -1
  <2>1. CASE c = 0
    <3>1. (c + d) % Limit = Limit - 1 /\ Limit - 1 - d = Limit
      BY <1>1, <1>3, <1>6, <2>1
    <3>2. (Limit - 1) % 2 = 1
      <4>1. Limit = 2 * (Limit \div 2) /\ Limit \div 2 \in Int
        BY <1>1
      <4> QED BY <1>1, <4>1
    <3>3. (c + d) % 2 = 1
      <4>1. PICK k \in Int : c + d = 2 * k + 1
        BY <1>6, <2>1
      <4>2. (2 * k + 1) % 2 = 1
        OBVIOUS
      <4> QED BY <4>1, <4>2
    <3> QED BY <1>1, <1>3, <1>6, <2>1, <3>1, <3>2, <3>3 DEF Coordinates
  <2>2. CASE c # 0
    BY <1>1, <1>2, <1>6, <2>2 DEF Coordinates
  <2> QED BY <2>1, <2>2
<1> QED BY <1>4, <1>5, <1>6

\* A neighbour is one step away in each coordinate at most, and the opposite
\* side takes the same steps back.
LEMMA Shifts ==
    ASSUME NEW p \in Positions, NEW side \in Sides
    PROVE  /\ ShiftX(p, side) \in {-1, 0, 1}
           /\ ShiftY(side) \in {-1, 0, 1}
           /\ ShiftZ(side) \in {-1, 0, 1}
           /\ 11 - side \in Sides
           /\ ShiftY(11 - side) = -ShiftY(side)
           /\ ShiftZ(11 - side) = -ShiftZ(side)
           /\ \A q \in Positions : q.y % 2 = (p.y + ShiftY(side)) % 2 =>
                  ShiftX(q, 11 - side) = -ShiftX(p, side)
<1>1. p.y \in Nat /\ p.y % 2 \in {0, 1} /\ \A q \in Positions : q.y \in Nat
  BY LimitAssumption DEF Positions, Coordinates
<1>2. side \in {0, 1, 2, 3, 4, 5, 6, 7, 8, 9, 10, 11}
  BY DEF Sides
<1>3. /\ ShiftY(side) \in {-1, 0, 1} /\ ShiftZ(side) \in {-1, 0, 1} /\ 11 - side \in Sides
      /\ ShiftY(11 - side) = -ShiftY(side) /\ ShiftZ(11 - side) = -ShiftZ(side)
  BY <1>2 DEF ShiftY, ShiftZ, Sides
<1>4. ShiftX(p, side) \in {-1, 0, 1}
  BY <1>1, <1>2 DEF ShiftX
<1>5. ASSUME NEW q \in Positions, q.y % 2 = (p.y + ShiftY(side)) % 2
      PROVE  ShiftX(q, 11 - side) = -ShiftX(p, side)
  <2>1. CASE side \in {0, 6, 8, 10}
    BY <1>1, <1>5, <2>1 DEF ShiftX, ShiftY
  <2>2. CASE side \in {1, 3, 5, 11}
    BY <1>1, <1>5, <2>2 DEF ShiftX, ShiftY
  <2>3. CASE side \in {2, 4, 7, 9}
    BY <2>3 DEF ShiftX
  <2> QED BY <1>2, <2>1, <2>2, <2>3
<1> QED BY <1>3, <1>4, <1>5

\* The neighbour of a neighbour on the opposite side is the hexagon itself.
LEMMA Opposite ==
    ASSUME NEW p \in Positions, NEW side \in Sides
    PROVE  /\ NeighborPos(p, side) \in Positions
           /\ NeighborPos(NeighborPos(p, side), 11 - side) = p
<1> DEFINE q == NeighborPos(p, side)
           b == NeighborPos(q, 11 - side)
<1>1. p = [x |-> p.x, y |-> p.y, z |-> p.z]
      /\ p.x \in Coordinates /\ p.y \in Coordinates /\ p.z \in Coordinates
  BY DEF Positions
<1>2. /\ q.x = (p.x + ShiftX(p, side)) % Limit
      /\ q.y = (p.y + ShiftY(side)) % Limit
      /\ q.z = (p.z + ShiftZ(side)) % Limit
  BY DEF NeighborPos
<1>3. /\ ShiftX(p, side) \in {-1, 0, 1}
      /\ ShiftY(side) \in {-1, 0, 1}
      /\ ShiftZ(side) \in {-1, 0, 1}
  BY Shifts
<1>4. q \in Positions
  BY <1>1, <1>3, Wrap DEF NeighborPos, Positions
<1>5. q.y % 2 = (p.y + ShiftY(side)) % 2
  BY <1>1, <1>2, <1>3, Wrap
<1>6. /\ ShiftX(q, 11 - side) = -ShiftX(p, side)
      /\ ShiftY(11 - side) = -ShiftY(side)
      /\ ShiftZ(11 - side) = -ShiftZ(side)
  BY <1>4, <1>5, Shifts
<1>7. q.x \in Int /\ q.y \in Int /\ q.z \in Int
  BY <1>4, LimitAssumption DEF Positions, Coordinates
<1>8. /\ (q.x - ShiftX(p, side)) % Limit = p.x
      /\ (q.y - ShiftY(side)) % Limit = p.y
      /\ (q.z - ShiftZ(side)) % Limit = p.z
  BY <1>1, <1>2, <1>3, Wrap
<1>9. b = [x |-> (q.x + ShiftX(q, 11 - side)) % Limit,
           y |-> (q.y + ShiftY(11 - side)) % Limit,
           z |-> (q.z + ShiftZ(11 - side)) % Limit]
  BY DEF NeighborPos
<1> HIDE DEF q, b
<1>10. b = p
  <2>1. /\ q.x + ShiftX(q, 11 - side) = q.x - ShiftX(p, side)
        /\ q.y + ShiftY(11 - side) = q.y - ShiftY(side)
        /\ q.z + ShiftZ(11 - side) = q.z - ShiftZ(side)
    BY <1>3, <1>6, <1>7
  <2> QED BY <1>1, <1>8, <1>9, <2>1
<1> QED BY <1>4, <1>10 DEF q, b

\* A forward side within a layer leads east, if nothing wraps.
LEMMA ForwardIsEast ==
    ASSUME NEW p \in Positions, NEW side \in ForwardSides,
           p.x # Limit - 1, NeighborPos(p, side).z = p.z
    PROVE  2 * p.x + (p.y % 2) < 2 * NeighborPos(p, side).x + (NeighborPos(p, side).y % 2)
<1> DEFINE q == NeighborPos(p, side)
<1>1. /\ p.x \in Coordinates /\ p.y \in Coordinates /\ p.z \in Coordinates
      /\ p.x \in Nat /\ p.y \in Nat /\ p.y % 2 \in {0, 1}
  BY LimitAssumption DEF Positions, Coordinates
<1>2. /\ q.x = (p.x + ShiftX(p, side)) % Limit
      /\ q.y = (p.y + ShiftY(side)) % Limit
      /\ q.z = (p.z + ShiftZ(side)) % Limit
  BY DEF NeighborPos
<1>3. q.z = p.z
  OBVIOUS
<1> HIDE DEF q
<1>4. side \in Sides
  BY DEF ForwardSides, Sides
<1>5. ShiftY(side) \in {-1, 0, 1} /\ ShiftZ(side) \in {-1, 0, 1}
  BY <1>4, Shifts
<1>6. ShiftZ(side) = 0
  <2>1. ShiftZ(side) # 0 => (p.z + ShiftZ(side)) % Limit # p.z
    <3> DEFINE d == ShiftZ(side)
    <3>1. p.z \in Coordinates /\ d \in {-1, 0, 1}
      BY <1>1, <1>5
    <3> HIDE DEF d
    <3>2. d # 0 => (p.z + d) % Limit # p.z
      BY <3>1, Wrap
    <3> QED BY <3>2 DEF d
  <2> QED BY <1>2, <1>3, <2>1
<1>7. side \in {3, 4, 5}
  BY <1>6 DEF ForwardSides, ShiftZ
<1>8. ShiftX(p, side) \in {0, 1} /\ ShiftX(p, side) = IF side = 4 THEN 1 ELSE p.y % 2
  BY <1>1, <1>7 DEF ShiftX
<1>9. q.x = p.x + ShiftX(p, side)
  <2>1. ShiftX(p, side) \in {-1, 0, 1} /\ ShiftX(p, side) # -1
    BY <1>8
  <2> QED BY <1>1, <1>2, <2>1, Wrap
<1>10. q.y % 2 = (p.y + ShiftY(side)) % 2
  <2>1. ((p.y + ShiftY(side)) % Limit) % 2 = (p.y + ShiftY(side)) % 2
    <3> DEFINE d == ShiftY(side)
    <3>1. p.y \in Coordinates /\ d \in {-1, 0, 1}
      BY <1>1, <1>5
    <3> HIDE DEF d
    <3>2. ((p.y + d) % Limit) % 2 = (p.y + d) % 2
      BY <3>1, Wrap
    <3> QED BY <3>2 DEF d
  <2> QED BY <1>2, <2>1
<1>11. ASSUME side = 4
       PROVE  2 * p.x + (p.y % 2) < 2 * q.x + (q.y % 2)
  <2>1. q.x = p.x + 1 /\ q.y % 2 = p.y % 2
    BY <1>1, <1>8, <1>9, <1>10, <1>11 DEF ShiftY
  <2> QED BY <1>1, <2>1
<1>12. ASSUME side \in {3, 5}
       PROVE  2 * p.x + (p.y % 2) < 2 * q.x + (q.y % 2)
  <2>1. q.x = p.x + (p.y % 2) /\ q.y % 2 = 1 - (p.y % 2)
    BY <1>1, <1>8, <1>9, <1>10, <1>12 DEF ShiftY
  <2> QED BY <1>1, <2>1
<1>13. 2 * p.x + (p.y % 2) < 2 * q.x + (q.y % 2)
  BY <1>7, <1>11, <1>12
<1> QED BY <1>13 DEF q

\* So in a flat template the hexagons ahead are further east.
LEMMA AheadIsEast ==
    ASSUME TypeOK, Exact, Flat, NEW g \in Hexagons, NEW h \in Ahead(g)
    PROVE  h \in Hexagons /\ Eastward(g) < Eastward(h)
<1>1. PICK side \in ForwardSides : h = neighbors[g][side] /\ h # Nil
  BY DEF Ahead
<1>2. side \in Sides /\ h \in Hexagons
  BY <1>1 DEF ForwardSides, Sides, TypeOK
<1>3. Pos(h) = NeighborPos(Pos(g), side)
  BY <1>1, <1>2 DEF Exact
<1>4. Pos(g) \in Positions
  BY DEF TypeOK, TemplateType, Pos
<1>5. Pos(g).x # Limit - 1 /\ Pos(h).z = Pos(g).z
  BY <1>2 DEF Flat, Inland
<1> QED BY <1>2, <1>3, <1>4, <1>5, ForwardIsEast DEF Eastward

\* Eastward is a number.
LEMMA EastwardType == ASSUME TypeOK, NEW h \in Hexagons PROVE Eastward(h) \in Nat
<1>1. Pos(h) \in Positions
  BY DEF TypeOK, TemplateType, Pos
<1>2. Pos(h).x \in Nat /\ Pos(h).y \in Nat
  BY <1>1, LimitAssumption DEF Positions, Coordinates
<1> QED BY <1>2 DEF Eastward

-----------------------------------------------------------------------------
(* The steps.                                                              *)

\* Facts about positions stay as long as the template does.
LEMMA SameTemplate ==
    ASSUME template' = template
    PROVE  /\ \A h : Pos(h)' = Pos(h)
           /\ \A h : Eastward(h)' = Eastward(h)
           /\ DistinctPositions' = DistinctPositions
           /\ Inland' = Inland
           /\ Flat' = Flat
BY DEF Pos, Eastward, DistinctPositions, Flat, Inland

\* A hexagon and the ones on one of its sides learn of each other.
LEMMA ConnectStep ==
    ASSUME TypeOK, Exact, NeighborsMutual, ConnectHexagon
    PROVE  /\ neighbors' \in [Hexagons -> [Sides -> Hexagons \cup {Nil}]]
           /\ Exact'
           /\ NeighborsMutual'
<1>0. template' = template
  BY DEF ConnectHexagon
<1> DEFINE src    == walk.source
           side   == walk.side
           next   == NeighborPos(Pos(src), side)
           others == IF IsValid(next) THEN At(next) ELSE {}
<1>1. src \in Hexagons /\ side \in Sides /\ 11 - side \in Sides
  BY DEF TypeOK, ConnectHexagon, ConnectLoops, Sides
<1>2. others \subseteq Hexagons /\ \A h \in others : Pos(h) = next
  BY DEF At
<1>3. \A h \in Hexagons : Pos(h) \in Positions
  BY DEF TypeOK, TemplateType, Pos
<1>4. NeighborPos(next, 11 - side) = Pos(src)
  BY <1>1, <1>3, Opposite
<1>5. CASE UNCHANGED neighbors
  BY <1>0, <1>5, SameTemplate DEF TypeOK, Exact, NeighborsMutual
<1>6. ASSUME NEW last \in (IF others = {} THEN {Nil} ELSE others),
             neighbors' = Connected(src, side, others, last)
      PROVE  /\ neighbors' \in [Hexagons -> [Sides -> Hexagons \cup {Nil}]]
             /\ Exact'
             /\ NeighborsMutual'
  <2> HIDE DEF src, side, next, others
  <2>1. \A h \in Hexagons, s \in Sides :
            neighbors'[h][s] = IF h = src /\ s = side /\ others # {} THEN last
                               ELSE IF h \in others /\ s = 11 - side THEN src
                               ELSE neighbors[h][s]
    BY <1>6 DEF Connected
  <2>2. neighbors' \in [Hexagons -> [Sides -> Hexagons \cup {Nil}]]
    BY <1>1, <1>2, <1>6 DEF Connected, TypeOK
  <2>3. Exact'
    <3> SUFFICES ASSUME NEW g \in Hexagons, NEW h \in Hexagons, NEW s \in Sides,
                        neighbors'[g][s] = h
                 PROVE  Pos(h) = NeighborPos(Pos(g), s)
      BY <1>0, SameTemplate DEF Exact
    <3>1. CASE g = src /\ s = side /\ others # {}
      <4>1. h \in others
        BY <1>6, <2>1, <3>1
      <4> QED BY <1>2, <3>1, <4>1 DEF next
    <3>2. CASE ~ (g = src /\ s = side /\ others # {}) /\ g \in others /\ s = 11 - side
      BY <1>2, <1>4, <2>1, <3>2
    <3>3. CASE ~ (g = src /\ s = side /\ others # {}) /\ ~ (g \in others /\ s = 11 - side)
      BY <2>1, <3>3 DEF Exact
    <3> QED BY <3>1, <3>2, <3>3
  <2>4. NeighborsMutual'
    <3> DEFINE Mutual(g, s, h) == neighbors'[g][s] = h => neighbors'[h][11 - s] = g
    <3> SUFFICES ASSUME DistinctPositions,
                        NEW g \in Hexagons, NEW h \in Hexagons, NEW s \in Sides,
                        neighbors'[g][s] = h
                 PROVE  neighbors'[h][11 - s] = g
      <4>1. \A s \in Sides : 11 - s \in Sides /\ 11 - (11 - s) = s
        BY DEF Sides
      <4>2. ASSUME \A g, h \in Hexagons, s \in Sides : Mutual(g, s, h),
                   NEW g \in Hexagons, NEW h \in Hexagons, NEW s \in Sides
            PROVE  neighbors'[g][s] = h <=> neighbors'[h][11 - s] = g
        <5>1. Mutual(g, s, h) /\ Mutual(h, 11 - s, g)
          BY <4>1, <4>2
        <5> QED BY <4>1, <5>1
      <4>3. DistinctPositions' = DistinctPositions
        BY <1>0, SameTemplate
      <4> QED BY <4>2, <4>3 DEF NeighborsMutual
    <3>1. 11 - s \in Sides /\ 11 - (11 - s) = s /\ 11 - (11 - side) = side
      BY <1>1 DEF Sides
    <3>2. Pos(h) = NeighborPos(Pos(g), s) /\ Pos(g) = NeighborPos(Pos(h), 11 - s)
      <4>1. Pos(h) = NeighborPos(Pos(g), s)
        BY <1>0, <2>3, SameTemplate DEF Exact
      <4> QED BY <1>3, <4>1, Opposite
    <3>3. CASE g = src /\ s = side /\ others # {}
      <4>1. h \in others
        BY <1>6, <2>1, <3>3
      <4>2. ~ (h = src /\ 11 - s = side)
        <5>1. side # 11 - side
          BY <1>1 DEF Sides
        <5> QED BY <3>3, <5>1
      <4> QED BY <2>1, <3>1, <3>3, <4>1, <4>2
    <3>4. CASE ~ (g = src /\ s = side /\ others # {}) /\ g \in others /\ s = 11 - side
      <4>1. h = src /\ others # {} /\ 11 - s = side
        BY <2>1, <3>1, <3>4
      <4>2. neighbors'[h][11 - s] = last /\ last \in others
        BY <1>6, <2>1, <3>1, <4>1
      <4> QED BY <1>2, <3>4, <4>2 DEF DistinctPositions
    <3>5. CASE ~ (g = src /\ s = side /\ others # {}) /\ ~ (g \in others /\ s = 11 - side)
      <4>1. neighbors[g][s] = h
        BY <2>1, <3>5
      <4>2. neighbors[h][11 - s] = g
        BY <4>1 DEF NeighborsMutual
      <4>3. CASE h = src /\ 11 - s = side /\ others # {}
        <5>1. Pos(g) = next
          BY <3>2, <4>3 DEF next
        <5>2. last \in others /\ Pos(last) = next /\ last \in Hexagons
          BY <1>2, <1>6, <4>3
        <5>3. last = g
          BY <5>1, <5>2 DEF DistinctPositions
        <5> QED BY <2>1, <3>1, <4>3, <5>3
      <4>4. CASE h \in others /\ 11 - s = 11 - side
        <5>1. s = side
          BY <1>1, <4>4 DEF Sides
        <5>2. Pos(g) = Pos(src)
          BY <1>2, <1>4, <3>2, <4>4
        <5>3. g = src
          BY <1>1, <5>2 DEF DistinctPositions
        <5> QED BY <3>5, <4>4, <5>1, <5>3
      <4> QED BY <2>1, <3>1, <4>2, <4>3, <4>4
    <3> QED BY <3>3, <3>4, <3>5
  <2> QED BY <2>2, <2>3, <2>4
<1> QED BY <1>5, <1>6 DEF ConnectHexagon

\* The hexagon that is found for a position that is taken.
LEMMA FoundHexagon == ASSUME NEW p, At(p) # {} PROVE Found(p) \in Hexagons
BY DEF Found, At

\* A walk from g whose axon ends at b has no negative number of steps, and not more
\* than the distance of the template.
Length(g, b) ==
    LET length == (IF b = g THEN template.distance ELSE template.distance - 1) % Limit
    IN  IF length <= Half THEN length ELSE 0

LEMMA LengthBound ==
    ASSUME TypeOK, NEW g, NEW b
    PROVE  Length(g, b) \in Nat /\ Length(g, b) <= template.distance
<1> DEFINE d == template.distance
           n == IF b = g THEN d ELSE d - 1
<1>1. /\ Limit \in Nat /\ Limit > 2 /\ Half \in Int /\ Limit = 2 * Half
      /\ d \in Int /\ 0 <= d /\ d <= Limit - 1
  BY LimitAssumption DEF TypeOK, TemplateType, Coordinates, Half
<1>2. Length(g, b) = IF n % Limit <= Half THEN n % Limit ELSE 0
  BY DEF Length
<1> HIDE DEF d
<1>3. CASE n = -1
  <2>1. (-1) % Limit = Limit - 1
    BY <1>1
  <2> QED BY <1>1, <1>2, <1>3, <2>1 DEF d
<1>4. CASE n # -1
  <2>1. n \in 0 .. Limit - 1 /\ n <= d
    BY <1>1, <1>4
  <2>2. n % Limit = n
    <3> HIDE DEF n
    <3> QED BY <1>1, <2>1
  <2> HIDE DEF n
  <2> QED BY <1>1, <1>2, <2>1, <2>2 DEF d
<1> QED BY <1>3, <1>4

\* A walk begins with its type.
LEMMA NewWalkType ==
    ASSUME TypeOK, NEW h \in Hexagons, NEW c \in Chances PROVE NewWalk(h, c) \in Walks
<1>1. axonTarget[h] \in Hexagons
  BY DEF TypeOK
<1>2. PathLength(h) \in Nat
  <2>1. PathLength(h) = Length(h, axonTarget[h])
    BY DEF PathLength, Length
  <2> QED BY <2>1, LengthBound
<1> QED BY <1>1, <1>2 DEF NewWalk, Walks

\* What an action that neither connects nor walks leaves alone.
LEMMA OtherStep ==
    ASSUME IInv, UNCHANGED <<template, neighbors, targets>>,
           Flat => UNCHANGED axonTarget,
           phase' = "targets" => walk' = Nil
    PROVE  Exact' /\ NeighborsMutual' /\ WalksEast' /\ TargetsEast'
<1>1. Exact' /\ NeighborsMutual'
  BY SameTemplate DEF IInv, Exact, NeighborsMutual
<1>2. WalksEast'
  BY SameTemplate DEF IInv, WalksEast
<1>3. Edges' = Edges
  BY DEF Edges
<1>4. TargetsEast'
  BY <1>3, SameTemplate DEF IInv, TargetsEast
<1> QED BY <1>1, <1>2, <1>4

\* The axons of a template are resolved, before and after the walks.
LEMMA AxonsStep == ASSUME IInv, UpdateAxons PROVE IInv'
<1>1. walk = Nil /\ index \in Nat /\ axonTarget \in [Hexagons -> Hexagons]
  BY DEF IInv, TypeOK, UpdateAxons, ConnectLoops, Walks
<1>2. axonTarget' \in [Hexagons -> Hexagons]
  BY <1>1, FoundHexagon DEF UpdateAxons
<1>3. walk' = Nil /\ index' \in Nat /\ todo' \subseteq Hexagons /\ phase' \in Phases
      /\ phase' # "targets"
  <2>1. todo \subseteq Hexagons /\ phase \in Phases /\ phase # "targets"
    BY DEF UpdateAxons, IInv, TypeOK
  <2>2. \/ EnterPhase("connect")
        \/ EnterPhase("inputs")
        \/ NextEntry
        \/ Fail
    BY DEF UpdateAxons
  <2>3. ASSUME NEW p \in {"connect", "inputs"}, EnterPhase(p)
        PROVE  walk' = Nil /\ index' \in Nat /\ todo' \subseteq Hexagons /\ phase' \in Phases
               /\ phase' # "targets"
    BY <1>1, <2>3 DEF EnterPhase, Phases
  <2>4. CASE NextEntry
    <3>1. index' \in Nat
      BY <1>1, <2>4 DEF NextEntry
    <3> QED BY <1>1, <2>1, <2>4, <3>1 DEF NextEntry
  <2>5. CASE Fail
    <3>1. phase' \in Phases /\ phase' # "targets"
      BY <2>5 DEF Fail, Phases
    <3> QED BY <1>1, <2>1, <2>5, <3>1 DEF Fail
  <2> QED BY <2>2, <2>3, <2>4, <2>5
<1>4. UNCHANGED <<template, neighbors, targets, isInput, isOutput>>
  BY DEF UpdateAxons
<1>5. Flat => UNCHANGED axonTarget
  <2> SUFFICES ASSUME Flat PROVE UNCHANGED axonTarget
    OBVIOUS
  <2>1. template.axons = <<>> /\ index \notin 1 .. 0
    BY <1>1 DEF Flat
  <2>2. ~ Entry(template.axons)
    BY <2>1 DEF Entry
  <2> QED BY <2>2 DEF UpdateAxons
<1>6. TypeOK'
  BY <1>2, <1>3, <1>4 DEF IInv, TypeOK
<1> QED BY <1>3, <1>4, <1>5, <1>6, OtherStep DEF IInv

\* The next hexagon is taken up, for its neighbours or for its walks.
LEMMA StartStep == ASSUME IInv, StartConnect \/ StartWalk PROVE IInv'
<1>1. UNCHANGED <<template, axonTarget, neighbors, targets, isInput, isOutput>>
  BY DEF StartConnect, StartWalk
<1>2. index' \in Nat /\ todo' \subseteq Hexagons /\ phase' \in Phases
  <2>1. index \in Nat /\ todo \subseteq Hexagons /\ phase \in Phases
    BY DEF IInv, TypeOK
  <2>2. ASSUME NEW p \in {"targets", "axons again"}, EnterPhase(p)
        PROVE  index' \in Nat /\ todo' \subseteq Hexagons /\ phase' \in Phases
    BY <2>2 DEF EnterPhase, Phases
  <2>3. CASE UNCHANGED <<phase, index>> /\ todo' \subseteq todo
    BY <2>1, <2>3
  <2>4. StartConnect => \/ EnterPhase("targets")
                        \/ UNCHANGED <<phase, index>> /\ todo' \subseteq todo
    BY DEF StartConnect
  <2>5. StartWalk => \/ EnterPhase("axons again")
                     \/ UNCHANGED <<phase, index>> /\ todo' \subseteq todo
                     \/ phase' = "panicked" /\ UNCHANGED <<index, todo>>
    BY DEF StartWalk
  <2>6. CASE phase' = "panicked" /\ UNCHANGED <<index, todo>>
    BY <2>1, <2>6 DEF Phases
  <2> QED BY <2>2, <2>3, <2>4, <2>5, <2>6
<1>3. CASE StartConnect
  <2>1. walk' # Nil => phase' = "connect" /\ walk' \in ConnectLoops
    BY <1>3 DEF StartConnect, EnterPhase, IInv, TypeOK, ConnectLoops, Sides
  <2>2. TypeOK'
    BY <1>1, <1>2, <2>1 DEF IInv, TypeOK
  <2>3. phase' = "targets" => walk' = Nil
    BY <2>1
  <2> QED BY <1>1, <2>2, <2>3, OtherStep DEF IInv
<1>4. CASE StartWalk
  <2>1. CASE todo = {}
    <3>1. walk' = Nil /\ phase' # "targets"
      BY <1>4, <2>1 DEF StartWalk, EnterPhase
    <3>2. TypeOK'
      BY <1>1, <1>2, <3>1 DEF IInv, TypeOK
    <3> QED BY <1>1, <3>1, <3>2, OtherStep DEF IInv
  <2>2. CASE todo # {} /\ phase' = "panicked"
    <3>1. walk' = Nil
      BY <1>4, <2>2 DEF StartWalk
    <3>2. TypeOK'
      BY <1>1, <1>2, <3>1 DEF IInv, TypeOK
    <3> QED BY <1>1, <2>2, <3>1, <3>2, OtherStep DEF IInv
  <2>3. CASE todo # {} /\ phase' # "panicked"
    <3>1. PICK h \in todo : walk' = NewWalk(h, 1) /\ phase' = phase
      BY <1>4, <2>3 DEF StartWalk
    <3>2. phase' = "targets" /\ h \in Hexagons
      BY <1>4, <3>1 DEF StartWalk, IInv, TypeOK
    <3>3. walk' \in Walks
      <4>1. 1 \in Chances
        BY LimitAssumption DEF Chances
      <4> QED BY <3>1, <3>2, <4>1, NewWalkType DEF IInv
    <3>4. TypeOK'
      BY <1>1, <1>2, <3>2, <3>3 DEF IInv, TypeOK
    <3>5. WalksEast'
      BY <1>1, <3>1, <3>2, SameTemplate DEF IInv, WalksEast, NewWalk
    <3>6. Exact' /\ NeighborsMutual' /\ TargetsEast'
      BY <1>1, SameTemplate DEF IInv, Exact, NeighborsMutual, TargetsEast, Edges
    <3> QED BY <3>4, <3>5, <3>6 DEF IInv
  <2> QED BY <2>1, <2>2, <2>3
<1> QED BY <1>3, <1>4

\* A hexagon learns of the one on its next side, or the parser panics there.
LEMMA NeighborStep == ASSUME IInv, ConnectHexagon PROVE IInv'
<1>1. /\ neighbors' \in [Hexagons -> [Sides -> Hexagons \cup {Nil}]]
      /\ Exact'
      /\ NeighborsMutual'
  BY ConnectStep DEF IInv
<1>2. walk \in ConnectLoops /\ phase' \in {"connect", "panicked"}
  BY DEF ConnectHexagon, IInv, TypeOK
<1>3. walk' # Nil => walk' \in ConnectLoops
  BY <1>2 DEF ConnectHexagon, ConnectLoops, Sides, LastSide
<1>4. UNCHANGED <<template, index, axonTarget, targets, isInput, isOutput, todo>>
  BY DEF ConnectHexagon
<1>5. TypeOK'
  BY <1>1, <1>2, <1>3, <1>4 DEF IInv, TypeOK, Phases
<1>6. WalksEast' /\ TargetsEast'
  BY <1>2, <1>4, SameTemplate DEF IInv, WalksEast, TargetsEast, Edges
<1> QED BY <1>1, <1>5, <1>6 DEF IInv

\* A walk moves one hexagon further, or settles and the next one begins.
LEMMA WalkStep == ASSUME IInv, GoToNextHexagon PROVE IInv'
<1>1. UNCHANGED <<template, phase, index, axonTarget, neighbors, isInput, isOutput, todo>>
      /\ phase = "targets" /\ walk \in Walks
  BY DEF GoToNextHexagon, IInv, TypeOK
<1>2. walk.source \in Hexagons /\ walk.at \in Hexagons /\ walk.chance \in Chances
      /\ walk.left \in Nat
  BY <1>1 DEF Walks
<1>3. Exact' /\ NeighborsMutual'
  BY <1>1, SameTemplate DEF IInv, Exact, NeighborsMutual
<1>4. Flat => \/ walk.at = walk.source
              \/ Eastward(walk.source) < Eastward(walk.at)
  BY <1>1 DEF IInv, WalksEast, GoToNextHexagon
<1>5. CASE GoOn
  <2>1. PICK h \in Ahead(walk.at) : walk' = [walk EXCEPT !.at = h, !.left = @ - 1]
    BY <1>5 DEF GoOn
  <2>2. h \in Hexagons
    BY <1>2 DEF Ahead, IInv, TypeOK, ForwardSides, Sides
  <2>3. walk' \in Walks /\ walk'.source = walk.source /\ walk'.at = h
    <3>1. walk = [source |-> walk.source, chance |-> walk.chance,
                  at |-> walk.at, left |-> walk.left]
      BY <1>1 DEF Walks
    <3>2. walk' = [source |-> walk.source, chance |-> walk.chance,
                   at |-> h, left |-> walk.left - 1]
      BY <2>1, <3>1
    <3>3. walk.left - 1 \in Nat
      BY <1>2, <1>5 DEF GoOn
    <3> QED BY <1>2, <2>2, <3>2, <3>3 DEF Walks
  <2>4. targets' = targets
    BY <1>5 DEF GoOn
  <2>5. TypeOK'
    BY <1>1, <2>3, <2>4 DEF IInv, TypeOK
  <2>6. Flat => Eastward(walk.source) < Eastward(h)
    <3> SUFFICES ASSUME Flat PROVE Eastward(walk.source) < Eastward(h)
      OBVIOUS
    <3>1. Eastward(walk.at) < Eastward(h)
      BY <1>2, AheadIsEast DEF IInv
    <3>2. Eastward(walk.source) \in Nat /\ Eastward(walk.at) \in Nat /\ Eastward(h) \in Nat
      BY <1>2, <2>2, EastwardType DEF IInv
    <3> QED BY <1>4, <3>1, <3>2
  <2>7. WalksEast'
    BY <1>1, <2>3, <2>6, SameTemplate DEF IInv, WalksEast
  <2>8. TargetsEast'
    BY <1>1, <2>4, SameTemplate DEF IInv, TargetsEast, Edges
  <2> QED BY <1>3, <2>5, <2>7, <2>8 DEF IInv
<1>6. CASE Stop
  <2>1. targets' = Settle
    BY <1>6 DEF Stop
  <2>2. targets' \in [Hexagons -> [Chances -> Hexagons \cup {Nil}]]
    BY <1>2, <2>1 DEF Settle, IInv, TypeOK
  <2>3. walk' = Nil \/ (walk.chance + 1 \in Chances
                        /\ walk' = NewWalk(walk.source, walk.chance + 1))
    BY <1>2, <1>6, LimitAssumption DEF Stop, Chances
  <2>4. walk' # Nil => walk' \in Walks
    BY <1>2, <2>3, NewWalkType DEF IInv
  <2>5. TypeOK'
    BY <1>1, <2>2, <2>4 DEF IInv, TypeOK
  <2>6. WalksEast'
    <3> SUFFICES ASSUME Flat
                 PROVE  /\ \A h \in Hexagons : axonTarget'[h] = h
                        /\ walk' # Nil => walk'.at = walk'.source
      BY <1>1, SameTemplate DEF WalksEast
    <3>1. \A h \in Hexagons : axonTarget[h] = h
      BY DEF IInv, WalksEast
    <3>2. walk' # Nil => walk'.source = walk.source /\ walk'.at = axonTarget[walk.source]
      BY <2>3 DEF NewWalk
    <3> QED BY <1>1, <1>2, <3>1, <3>2
  <2>7. TargetsEast'
    <3> SUFFICES ASSUME Flat, NEW g \in Hexagons, NEW h \in Hexagons, <<g, h>> \in Edges'
                 PROVE  Eastward(g) < Eastward(h)
      BY <1>1, SameTemplate DEF TargetsEast
    <3>1. PICK c \in Chances : targets'[g][c] = h
      BY DEF Edges
    <3>2. CASE g = walk.source /\ c = walk.chance
      <4>1. h = IF walk.at = walk.source THEN Nil ELSE walk.at
        BY <1>2, <2>1, <3>1, <3>2 DEF Settle, IInv, TypeOK
      <4>2. h = walk.at /\ walk.at # walk.source
        BY <4>1, LimitAssumption
      <4> QED BY <1>4, <3>2, <4>2
    <3>3. CASE ~ (g = walk.source /\ c = walk.chance)
      <4>1. targets[g][c] = h
        BY <1>2, <2>1, <3>1, <3>3 DEF Settle, IInv, TypeOK
      <4>2. <<g, h>> \in Edges
        BY <4>1 DEF Edges
      <4> QED BY <4>2 DEF IInv, TargetsEast
    <3> QED BY <3>2, <3>3
  <2> QED BY <1>3, <2>5, <2>6, <2>7 DEF IInv
<1> QED BY <1>5, <1>6 DEF GoToNextHexagon

\* The hexagons of the inputs and the outputs are marked.
LEMMA MarkStep == ASSUME IInv, InitializeInputs \/ InitializeOutputs PROVE IInv'
<1>1. walk = Nil /\ index \in Nat
  BY DEF IInv, TypeOK, InitializeInputs, InitializeOutputs
<1>2. walk' = Nil /\ index' \in Nat /\ todo' \subseteq Hexagons /\ phase' \in Phases
      /\ phase' # "targets"
  <2>1. todo \subseteq Hexagons /\ phase \in Phases /\ phase # "targets"
    BY DEF InitializeInputs, InitializeOutputs, IInv, TypeOK
  <2>2. EnterPhase("outputs") \/ EnterPhase("done") \/ NextEntry \/ Fail
    BY DEF InitializeInputs, InitializeOutputs
  <2>3. ASSUME NEW p \in {"outputs", "done"}, EnterPhase(p)
        PROVE  walk' = Nil /\ index' \in Nat /\ todo' \subseteq Hexagons /\ phase' \in Phases
               /\ phase' # "targets"
    BY <1>1, <2>3 DEF EnterPhase, Phases
  <2>4. CASE NextEntry
    <3>1. index' \in Nat
      BY <1>1, <2>4 DEF NextEntry
    <3> QED BY <1>1, <2>1, <2>4, <3>1 DEF NextEntry
  <2>5. CASE Fail
    <3>1. phase' \in Phases /\ phase' # "targets"
      BY <2>5 DEF Fail, Phases
    <3> QED BY <1>1, <2>1, <2>5, <3>1 DEF Fail
  <2> QED BY <2>2, <2>3, <2>4, <2>5
<1>3. isInput' \in [Hexagons -> BOOLEAN] /\ isOutput' \in [Hexagons -> BOOLEAN]
  BY DEF InitializeInputs, InitializeOutputs, IInv, TypeOK
<1>4. UNCHANGED <<template, axonTarget, neighbors, targets>>
  BY DEF InitializeInputs, InitializeOutputs
<1>5. TypeOK'
  BY <1>2, <1>3, <1>4 DEF IInv, TypeOK
<1> QED BY <1>2, <1>4, <1>5, OtherStep DEF IInv

-----------------------------------------------------------------------------
(* The theorems.                                                           *)

\* The inductive invariant: sides are exact, neighbours mutual, walks and
\* targets lead east.
THEOREM GridInvariance == Spec => []IInv
<1>1. Init => IInv
  <2> SUFFICES ASSUME Init PROVE IInv
    OBVIOUS
  <2>1. TypeOK
    BY TemplatesAssumption DEF Init, TypeOK, Phases
  <2>2. \A g \in Hexagons, s \in Sides : neighbors[g][s] \notin Hexagons
    BY LimitAssumption DEF Init
  <2>3. Exact /\ NeighborsMutual
    <3>1. \A s \in Sides : 11 - s \in Sides
      BY DEF Sides
    <3> QED BY <2>2, <3>1 DEF Exact, NeighborsMutual
  <2>4. WalksEast
    BY DEF Init, WalksEast
  <2>5. TargetsEast
    BY LimitAssumption DEF Init, TargetsEast, Edges
  <2> QED BY <2>1, <2>3, <2>4, <2>5 DEF IInv
<1>2. IInv /\ [Next]_vars => IInv'
  <2> SUFFICES ASSUME IInv, [Next]_vars PROVE IInv'
    OBVIOUS
  <2>1. CASE UNCHANGED vars
    BY <2>1, SameTemplate
    DEF vars, IInv, TypeOK, Exact, NeighborsMutual, WalksEast, TargetsEast, Edges
  <2> QED BY <2>1, AxonsStep, StartStep, NeighborStep, WalkStep, MarkStep DEF Next
<1> QED BY <1>1, <1>2, PTL DEF Spec

\* Every variable has its type, and each phase the loop it needs.
THEOREM GridTypeCorrect == Spec => []TypeOK
<1>1. IInv => TypeOK
  BY DEF IInv
<1> QED BY <1>1, GridInvariance, PTL

\* A hexagon is a neighbour of its neighbours, on the opposite side.
THEOREM MutualNeighbors == Spec => []NeighborsMutual
<1>1. IInv => NeighborsMutual
  BY DEF IInv
<1> QED BY <1>1, GridInvariance, PTL

\* In a flat template without axons every target lies further east.
THEOREM EastwardTargets == Spec => []TargetsEast
<1>1. IInv => TargetsEast
  BY DEF IInv
<1> QED BY <1>1, GridInvariance, PTL

-----------------------------------------------------------------------------
(* How far the targets are. A walk starts where the axon of its source     *)
(* ends, so the proof has to follow the axons as well: update_axons runs   *)
(* twice, and when it is done the second time each axon ends where it did  *)
(* when the walks began.                                                   *)

Count   == Len(template.axons)
From(j) == Found(template.axons[j].from)
To(j)   == Found(template.axons[j].to)

\* Among the first n entries the last one from h leads to g.
Leads(h, n, g) == \E j \in 1 .. n : /\ From(j) = h
                                   /\ To(j) = g
                                   /\ \A k \in j + 1 .. n : From(k) # h

\* None of them is from h.
Untouched(h, n) == \A j \in 1 .. n : From(j) # h

\* What the first n entries make of the axon of h, and what all of them do.
EndsAt(h, n, g) == Leads(h, n, g) \/ (Untouched(h, n) /\ g = h)
Resolved        == \A h \in Hexagons : EndsAt(h, Count, axonTarget[h])

\* The first n entries name hexagons.
Valid(n) == \A j \in 1 .. n : At(template.axons[j].from) # {} /\ At(template.axons[j].to) # {}

\* The axons, phase by phase.
AxonsInv ==
    /\ phase = "axons" => /\ Edges = {}
                          /\ index \in 1 .. Count + 1
                          /\ Valid(index - 1)
                          /\ \A h \in Hexagons : EndsAt(h, index - 1, axonTarget[h])
    /\ phase = "axons again" =>
          /\ index \in 1 .. Count + 1
          /\ \A h \in Hexagons : \/ Leads(h, index - 1, axonTarget[h])
                                 \/ /\ Untouched(h, index - 1)
                                    /\ EndsAt(h, Count, axonTarget[h])
    /\ phase \notin {"axons", "error"} => Valid(Count)
    /\ phase \notin {"axons", "axons again", "error"} => Resolved
    /\ phase = "error" => Edges = {} \/ Resolved

\* A walk is as far from its start as it has taken steps.
WalkNear ==
    Inland /\ phase = "targets" /\ walk # Nil =>
        /\ PathLength(walk.source) - walk.left \in Nat
        /\ Reach(axonTarget[walk.source], walk.at, PathLength(walk.source) - walk.left)

\* The targets are near the end the axon has once all entries are applied.
TargetsNear ==
    Inland => \A g, h, b \in Hexagons :
        <<g, h>> \in Edges /\ EndsAt(g, Count, b) => Reach(b, h, Length(g, b))

NearInv == IInv /\ AxonsInv /\ WalkNear /\ TargetsNear

-----------------------------------------------------------------------------
(* Distances.                                                              *)

\* Away from the far border a coordinate does not wrap, back or forth.
LEMMA Unwrapped ==
    ASSUME NEW c \in Coordinates, NEW d \in {-1, 0, 1},
           c # Limit - 1, (c + d) % Limit # Limit - 1
    PROVE  (c + d) % Limit = c + d
<1>1. c \in Int /\ Limit \in Int
  BY LimitAssumption DEF Coordinates
<1>2. CASE d # -1
  BY <1>2, Wrap
<1>3. CASE d = -1
  <2> DEFINE b == (c + d) % Limit
  <2>1. b \in Coordinates /\ (b - d) % Limit = c
    BY Wrap
  <2>2. b # Limit - 1 /\ b \in Int
    BY <2>1, LimitAssumption DEF Coordinates
  <2> HIDE DEF b
  <2>3. (b + 1) % Limit = b + 1
    <3>1. 1 \in {-1, 0, 1} /\ 1 # -1
      OBVIOUS
    <3> QED BY <2>1, <2>2, <3>1, Wrap
  <2>4. b - d = b + 1
    BY <1>3, <2>2
  <2>5. b + 1 = c
    BY <2>1, <2>3, <2>4
  <2>6. b = c + d
    BY <1>1, <1>3, <2>2, <2>5
  <2> QED BY <2>6 DEF b
<1> QED BY <1>2, <1>3

\* A forward side leads at most one row and one layer on, and as far to the
\* east as a step within the plane does, or not at all.
LEMMA ForwardSteps ==
    ASSUME NEW p \in Positions, NEW side \in ForwardSides,
           Limit - 1 \notin {p.x, p.y, p.z},
           NEW q, q = NeighborPos(p, side), Limit - 1 \notin {q.x, q.y, q.z}
    PROVE  /\ q.y - p.y \in {-1, 0, 1}
           /\ q.z - p.z \in {-1, 0, 1}
           /\ (2 * q.x + (q.y % 2)) - (2 * p.x + (p.y % 2))
                  \in (IF q.y = p.y THEN {0, 2} ELSE {1})
<1>1. /\ p.x \in Coordinates /\ p.y \in Coordinates /\ p.z \in Coordinates
      /\ p.x \in Nat /\ p.y \in Nat /\ p.z \in Nat /\ p.y % 2 \in {0, 1}
  BY LimitAssumption DEF Positions, Coordinates
<1>2. /\ q.x = (p.x + ShiftX(p, side)) % Limit
      /\ q.y = (p.y + ShiftY(side)) % Limit
      /\ q.z = (p.z + ShiftZ(side)) % Limit
  BY DEF NeighborPos
<1>3. side \in Sides
  BY DEF ForwardSides, Sides
<1>4. /\ ShiftX(p, side) \in {-1, 0, 1}
      /\ ShiftY(side) \in {-1, 0, 1}
      /\ ShiftZ(side) \in {-1, 0, 1}
  BY <1>3, Shifts
<1>5. /\ q.x = p.x + ShiftX(p, side)
      /\ q.y = p.y + ShiftY(side)
      /\ q.z = p.z + ShiftZ(side)
  <2>1. q.x = p.x + ShiftX(p, side)
    BY <1>1, <1>2, <1>4, Unwrapped
  <2>2. q.y = p.y + ShiftY(side)
    BY <1>1, <1>2, <1>4, Unwrapped
  <2>3. q.z = p.z + ShiftZ(side)
    BY <1>1, <1>2, <1>4, Unwrapped
  <2> QED BY <2>1, <2>2, <2>3
<1>6. CASE side \in {1, 3, 5, 11}
  <2>1. ShiftX(p, side) = p.y % 2 /\ ShiftY(side) \in {-1, 1}
    BY <1>6 DEF ShiftX, ShiftY
  <2>2. q.y % 2 = 1 - (p.y % 2)
    BY <1>1, <1>5, <2>1
  <2>3. q.x = p.x + (p.y % 2) /\ q.y # p.y
    BY <1>1, <1>5, <2>1
  <2> QED BY <1>1, <1>4, <1>5, <2>2, <2>3
<1>7. CASE side \in {2, 4, 9}
  <2>1. ShiftX(p, side) \in {0, 1} /\ ShiftY(side) = 0
    BY <1>7 DEF ShiftX, ShiftY
  <2> QED BY <1>1, <1>4, <1>5, <2>1
<1> QED BY <1>6, <1>7 DEF ForwardSides

\* What the coordinates of a hexagon are.
LEMMA PlaceType ==
    ASSUME TypeOK, NEW h \in Hexagons
    PROVE  Pos(h) \in Positions /\ Pos(h).y \in Int /\ Pos(h).z \in Int /\ Eastward(h) \in Int
<1>1. Pos(h) \in Positions
  BY DEF TypeOK, TemplateType, Pos
<1>2. Pos(h).x \in Nat /\ Pos(h).y \in Nat /\ Pos(h).z \in Nat
  BY <1>1, LimitAssumption DEF Positions, Coordinates
<1> QED BY <1>1, <1>2 DEF Eastward

\* A hexagon ahead is one step away.
LEMMA AheadIsNear ==
    ASSUME TypeOK, Exact, Inland, NEW g \in Hexagons, NEW h \in Ahead(g)
    PROVE  h \in Hexagons /\ Reach(g, h, 1)
<1>1. PICK side \in ForwardSides : h = neighbors[g][side] /\ h # Nil
  BY DEF Ahead
<1>2. side \in Sides /\ h \in Hexagons
  BY <1>1 DEF ForwardSides, Sides, TypeOK
<1>3. Pos(h) = NeighborPos(Pos(g), side)
  BY <1>1, <1>2 DEF Exact
<1>4. Pos(g) \in Positions
  BY PlaceType
<1>5. Limit - 1 \notin {Pos(g).x, Pos(g).y, Pos(g).z}
      /\ Limit - 1 \notin {Pos(h).x, Pos(h).y, Pos(h).z}
  BY <1>2 DEF Inland
<1>6. /\ Pos(h).y - Pos(g).y \in {-1, 0, 1}
      /\ Pos(h).z - Pos(g).z \in {-1, 0, 1}
      /\ Eastward(h) - Eastward(g) \in (IF Pos(h).y = Pos(g).y THEN {0, 2} ELSE {1})
  BY <1>3, <1>4, <1>5, ForwardSteps DEF Eastward
<1>7. /\ Pos(g).y \in Int /\ Pos(g).z \in Int /\ Eastward(g) \in Int
      /\ Pos(h).y \in Int /\ Pos(h).z \in Int /\ Eastward(h) \in Int
  BY <1>2, PlaceType
<1> QED BY <1>2, <1>6, <1>7 DEF Reach, Abs

\* A hexagon is no step away from itself.
LEMMA ReachSelf == ASSUME TypeOK, NEW h \in Hexagons PROVE Reach(h, h, 0)
BY PlaceType DEF Reach, Abs

\* Steps add up.
LEMMA ReachOn ==
    ASSUME TypeOK, NEW b \in Hexagons, NEW g \in Hexagons, NEW h \in Hexagons,
           NEW m \in Nat, NEW n \in Nat, Reach(b, g, m), Reach(g, h, n)
    PROVE  Reach(b, h, m + n)
<1>1. /\ Pos(b).y \in Int /\ Pos(b).z \in Int /\ Eastward(b) \in Int
      /\ Pos(g).y \in Int /\ Pos(g).z \in Int /\ Eastward(g) \in Int
      /\ Pos(h).y \in Int /\ Pos(h).z \in Int /\ Eastward(h) \in Int
  BY PlaceType
<1>2. \A i, j, k \in Int : Abs(k - i) <= Abs(j - i) + Abs(k - j)
  BY DEF Abs
<1>3. \A i, k \in Int : Abs(k - i) \in Int
  BY DEF Abs
<1> DEFINE rows(x, y)   == Abs(Pos(y).y - Pos(x).y)
           east(x, y)   == Abs(Eastward(y) - Eastward(x))
           layers(x, y) == Abs(Pos(y).z - Pos(x).z)
<1>4. /\ rows(b, g) \in Int /\ rows(g, h) \in Int /\ rows(b, h) \in Int
      /\ east(b, g) \in Int /\ east(g, h) \in Int /\ east(b, h) \in Int
      /\ layers(b, g) \in Int /\ layers(g, h) \in Int /\ layers(b, h) \in Int
  BY <1>1, <1>3
<1>5. /\ rows(b, h) <= rows(b, g) + rows(g, h)
      /\ east(b, h) <= east(b, g) + east(g, h)
      /\ layers(b, h) <= layers(b, g) + layers(g, h)
  BY <1>1, <1>2
<1>6. /\ rows(b, g) <= m /\ rows(b, g) + east(b, g) <= 2 * m /\ layers(b, g) <= m
      /\ rows(g, h) <= n /\ rows(g, h) + east(g, h) <= 2 * n /\ layers(g, h) <= n
  BY DEF Reach
<1> HIDE DEF rows, east, layers
<1>7. /\ rows(b, h) <= m + n
      /\ rows(b, h) + east(b, h) <= 2 * (m + n)
      /\ layers(b, h) <= m + n
  BY <1>4, <1>5, <1>6
<1> QED BY <1>7 DEF Reach, rows, east, layers

\* What can be reached in some steps can be reached in more.
LEMMA ReachMore ==
    ASSUME TypeOK, NEW b \in Hexagons, NEW h \in Hexagons,
           NEW m \in Nat, NEW n \in Nat, m <= n, Reach(b, h, m)
    PROVE  Reach(b, h, n)
<1>1. /\ Pos(b).y \in Int /\ Pos(b).z \in Int /\ Eastward(b) \in Int
      /\ Pos(h).y \in Int /\ Pos(h).z \in Int /\ Eastward(h) \in Int
  BY PlaceType
<1>2. \A i, k \in Int : Abs(k - i) \in Int
  BY DEF Abs
<1> DEFINE rows   == Abs(Pos(h).y - Pos(b).y)
           east   == Abs(Eastward(h) - Eastward(b))
           layers == Abs(Pos(h).z - Pos(b).z)
<1>3. rows \in Int /\ east \in Int /\ layers \in Int
  BY <1>1, <1>2
<1>4. rows <= m /\ rows + east <= 2 * m /\ layers <= m
  BY DEF Reach
<1> HIDE DEF rows, east, layers
<1>5. rows <= n /\ rows + east <= 2 * n /\ layers <= n
  BY <1>3, <1>4
<1> QED BY <1>5 DEF Reach, rows, east, layers

-----------------------------------------------------------------------------
(* The axons.                                                              *)

\* What is said of entries stays as long as the template does.
LEMMA SameEntries ==
    ASSUME template' = template
    PROVE  /\ Count' = Count
           /\ \A j : From(j)' = From(j) /\ To(j)' = To(j)
           /\ \A n : Valid(n)' = Valid(n)
           /\ \A h, n, g : Leads(h, n, g)' = Leads(h, n, g)
           /\ \A h, n : Untouched(h, n)' = Untouched(h, n)
           /\ \A h, n, g : EndsAt(h, n, g)' = EndsAt(h, n, g)
           /\ \A b, h, n : Reach(b, h, n)' = Reach(b, h, n)
           /\ \A g, b : Length(g, b)' = Length(g, b)
<1>1. Count' = Count
  BY DEF Count
<1>2. \A q : At(q)' = At(q)
  BY DEF At, Pos
<1>3. \A j : From(j)' = From(j) /\ To(j)' = To(j)
  BY DEF From, To, Found, At, Pos
<1>4. \A n : Valid(n)' = Valid(n)
  BY <1>2 DEF Valid, At, Pos
<1>5. \A h, n, g : Leads(h, n, g)' = Leads(h, n, g)
  BY <1>3 DEF Leads
<1>6. \A h, n : Untouched(h, n)' = Untouched(h, n)
  BY <1>3 DEF Untouched
<1>7. \A h, n, g : EndsAt(h, n, g)' = EndsAt(h, n, g)
  BY <1>5, <1>6 DEF EndsAt
<1>8. \A b, h, n : Reach(b, h, n)' = Reach(b, h, n)
  BY DEF Reach, Eastward, Pos, Abs
<1>9. \A g, b : Length(g, b)' = Length(g, b)
  BY DEF Length
<1> QED BY <1>1, <1>3, <1>4, <1>5, <1>6, <1>7, <1>8, <1>9

\* One more entry: it counts for the hexagon it is from, and for no other.
LEMMA OneMoreEntry ==
    ASSUME NEW n \in Nat, NEW h, NEW g
    PROVE  /\ From(n + 1) # h /\ Leads(h, n, g) => Leads(h, n + 1, g)
           /\ From(n + 1) # h /\ Untouched(h, n) => Untouched(h, n + 1)
           /\ From(n + 1) = h => Leads(h, n + 1, To(n + 1))
<1>1. ASSUME From(n + 1) # h, Leads(h, n, g) PROVE Leads(h, n + 1, g)
  <2>1. PICK j \in 1 .. n : From(j) = h /\ To(j) = g /\ \A k \in j + 1 .. n : From(k) # h
    BY <1>1 DEF Leads
  <2>2. j \in 1 .. n + 1 /\ \A k \in j + 1 .. n + 1 : k = n + 1 \/ k \in j + 1 .. n
    OBVIOUS
  <2> QED BY <1>1, <2>1, <2>2 DEF Leads
<1>2. ASSUME From(n + 1) # h, Untouched(h, n) PROVE Untouched(h, n + 1)
  <2>1. \A k \in 1 .. n + 1 : k = n + 1 \/ k \in 1 .. n
    OBVIOUS
  <2> QED BY <1>2, <2>1 DEF Untouched
<1>3. ASSUME From(n + 1) = h PROVE Leads(h, n + 1, To(n + 1))
  <2>1. n + 1 \in 1 .. n + 1 /\ \A k \in (n + 1) + 1 .. n + 1 : FALSE
    OBVIOUS
  <2> QED BY <1>3, <2>1 DEF Leads
<1> QED BY <1>1, <1>2, <1>3

\* An axon has one end.
LEMMA OneEnd ==
    ASSUME NEW n \in Nat, NEW h, NEW f, NEW g, EndsAt(h, n, f), EndsAt(h, n, g)
    PROVE  f = g
<1>1. CASE Untouched(h, n)
  BY <1>1 DEF EndsAt, Leads, Untouched
<1>2. CASE ~ Untouched(h, n)
  <2>1. PICK i \in 1 .. n : From(i) = h /\ To(i) = f /\ \A k \in i + 1 .. n : From(k) # h
    BY <1>2 DEF EndsAt, Leads
  <2>2. PICK j \in 1 .. n : From(j) = h /\ To(j) = g /\ \A k \in j + 1 .. n : From(k) # h
    BY <1>2 DEF EndsAt, Leads
  <2>3. i = j
    <3>1. ~ i < j
      BY <2>1, <2>2
    <3>2. ~ j < i
      BY <2>1, <2>2
    <3> QED BY <3>1, <3>2
  <2> QED BY <2>1, <2>2, <2>3
<1> QED BY <1>1, <1>2

\* The number of entries is a number.
LEMMA CountType == ASSUME TypeOK PROVE Count \in Nat
<1>1. template.axons \in Seq([from : Positions, to : Positions])
  BY DEF TypeOK, TemplateType
<1>2. \A S, q : q \in Seq(S) => Len(q) \in Nat
  OBVIOUS
<1> QED BY <1>1, <1>2, Zenon DEF Count

\* A pass over the entries begins with none.
LEMMA FirstEntry ==
    ASSUME NEW n \in Nat, NEW i, i = 1
    PROVE  i \in 1 .. n + 1 /\ \A h : Untouched(h, i - 1)
<1>1. i \in 1 .. n + 1 /\ \A j \in 1 .. i - 1 : FALSE
  OBVIOUS
<1> QED BY <1>1, Zenon DEF Untouched

\* Between the two passes over the axons nothing happens to them.
LEMMA AxonsRest ==
    ASSUME AxonsInv, Count \in Nat, UNCHANGED <<template, axonTarget>>,
           phase \notin {"axons", "axons again", "error"},
           phase' # "axons", phase' = "axons again" => index' = 1
    PROVE  AxonsInv'
<1>1. Resolved' /\ Valid(Count)'
  BY SameEntries DEF AxonsInv, Resolved
<1>2. ASSUME phase' = "axons again"
      PROVE  /\ index' \in 1 .. Count' + 1
             /\ \A h \in Hexagons : /\ Untouched(h, index - 1)'
                                    /\ EndsAt(h, Count, axonTarget[h])'
  <2>1. index' = 1
    BY <1>2
  <2>2. Count' \in Nat
    BY SameEntries
  <2>3. index' \in 1 .. Count' + 1 /\ \A h : Untouched(h, index' - 1)
    BY <2>1, <2>2, FirstEntry
  <2>4. \A h : Untouched(h, index - 1)'
    BY <2>3, SameEntries
  <2> QED BY <1>1, <2>3, <2>4 DEF Resolved
<1>3. phase' = "axons again" =>
          \A h \in Hexagons : \/ Leads(h, index - 1, axonTarget[h])'
                              \/ /\ Untouched(h, index - 1)'
                                 /\ EndsAt(h, Count, axonTarget[h])'
  BY <1>2
<1> QED BY <1>1, <1>2, <1>3 DEF AxonsInv

\* The places in a list, one after the other.
LEMMA Indices ==
    ASSUME NEW c \in Nat
    PROVE  /\ \A i \in 1 .. c : /\ i - 1 \in Nat
                                /\ (i - 1) + 1 = i
                                /\ (i + 1) - 1 = i
                                /\ i + 1 \in 1 .. c + 1
                                /\ \A j \in 1 .. i : j = i \/ j \in 1 .. i - 1
           /\ \A i \in 1 .. c + 1 : i \notin 1 .. c => i - 1 = c
OBVIOUS

\* An entry that names hexagons is applied.
LEMMA EntryApplied ==
    ASSUME TypeOK, AxonsInv, phase \in {"axons", "axons again"}, index \in 1 .. Count,
           At(template.axons[index].from) # {}, At(template.axons[index].to) # {},
           axonTarget' = [axonTarget EXCEPT ![From(index)] = To(index)],
           UNCHANGED <<template, phase, targets>>, index' = index + 1
    PROVE  AxonsInv'
<1> DEFINE n == index - 1
<1>1. Count \in Nat /\ Count' = Count
  BY CountType, SameEntries
<1>2. n \in Nat /\ n + 1 = index /\ index' - 1 = index
  BY <1>1, Indices
<1>3. index' \in 1 .. Count' + 1
  BY <1>1, Indices
<1>4. \A h \in Hexagons :
          axonTarget'[h] = IF From(index) = h THEN To(index) ELSE axonTarget[h]
  BY DEF TypeOK
<1>5. /\ Edges' = Edges
      /\ \A k : Valid(k)' = Valid(k)
      /\ \A h, k, g : Leads(h, k, g)' = Leads(h, k, g)
      /\ \A h, k : Untouched(h, k)' = Untouched(h, k)
      /\ \A h, k, g : EndsAt(h, k, g)' = EndsAt(h, k, g)
  BY SameEntries DEF Edges
<1> HIDE DEF n
<1>6. /\ \A h, g : From(index) # h /\ Leads(h, n, g) => Leads(h, index, g)
      /\ \A h : From(index) # h /\ Untouched(h, n) => Untouched(h, index)
      /\ \A h : From(index) = h => Leads(h, index, To(index))
  BY <1>2, OneMoreEntry
<1>7. CASE phase = "axons"
  <2>1. Edges = {} /\ Valid(n) /\ \A h \in Hexagons : EndsAt(h, n, axonTarget[h])
    BY <1>7 DEF AxonsInv, n
  <2>2. Valid(index)
    <3>1. \A j \in 1 .. index : j = index \/ j \in 1 .. n
      BY <1>1, Indices DEF n
    <3> QED BY <2>1, <3>1 DEF Valid
  <2>3. \A h \in Hexagons : EndsAt(h, index, axonTarget'[h])
    BY <1>4, <1>6, <2>1 DEF EndsAt
  <2>4. Valid(index - 1)' /\ \A h \in Hexagons : EndsAt(h, index - 1, axonTarget[h])'
    BY <1>2, <1>5, <2>2, <2>3
  <2> QED BY <1>3, <1>5, <1>7, <2>1, <2>4 DEF AxonsInv
<1>8. CASE phase = "axons again"
  <2>1. Valid(Count) /\ \A h \in Hexagons : \/ Leads(h, n, axonTarget[h])
                                            \/ /\ Untouched(h, n)
                                               /\ EndsAt(h, Count, axonTarget[h])
    BY <1>8 DEF AxonsInv, n
  <2>2. \A h \in Hexagons : \/ Leads(h, index, axonTarget'[h])
                            \/ /\ Untouched(h, index)
                               /\ EndsAt(h, Count, axonTarget'[h])
    BY <1>4, <1>6, <2>1
  <2>3. \A h \in Hexagons : \/ Leads(h, index - 1, axonTarget[h])'
                            \/ /\ Untouched(h, index - 1)'
                               /\ EndsAt(h, Count, axonTarget[h])'
    BY <1>1, <1>2, <1>5, <2>2
  <2>4. Valid(Count)'
    BY <1>1, <1>5, <2>1
  <2> QED BY <1>3, <1>8, <2>3, <2>4 DEF AxonsInv
<1> QED BY <1>7, <1>8

\* An entry that names no hexagon ends the parsing in the first pass; there is
\* none in the second.
LEMMA EntryRefused ==
    ASSUME TypeOK, AxonsInv, phase \in {"axons", "axons again"}, index \in 1 .. Count,
           At(template.axons[index].from) = {} \/ At(template.axons[index].to) = {},
           UNCHANGED <<template, targets>>, phase' = "error"
    PROVE  AxonsInv'
<1>1. phase # "axons again"
  BY DEF AxonsInv, Valid
<1>2. Edges' = {}
  BY <1>1 DEF AxonsInv, Edges
<1> QED BY <1>2 DEF AxonsInv

\* After the last entry the axons are resolved, in both passes.
LEMMA EntriesDone ==
    ASSUME TypeOK, AxonsInv, phase \in {"axons", "axons again"}, index \notin 1 .. Count,
           UNCHANGED <<template, axonTarget, targets>>, phase' \in {"connect", "inputs"}
    PROVE  AxonsInv'
<1>1. index - 1 = Count
  <2>1. index \in 1 .. Count + 1
    BY DEF AxonsInv
  <2>2. Count \in Nat
    BY CountType
  <2> QED BY <2>1, <2>2, Indices
<1>2. Resolved /\ Valid(Count)
  BY <1>1 DEF AxonsInv, Resolved, EndsAt
<1>3. Resolved' /\ Valid(Count)'
  BY <1>2, SameEntries DEF Resolved
<1> QED BY <1>3 DEF AxonsInv

\* One step of update_axons.
LEMMA EntriesStep == ASSUME TypeOK, AxonsInv, UpdateAxons PROVE AxonsInv'
<1>1. phase \in {"axons", "axons again"} /\ UNCHANGED <<template, targets>>
  BY DEF UpdateAxons
<1>2. CASE Entry(template.axons)
  <2>1. index \in 1 .. Count
    BY <1>2 DEF Entry, Count
  <2>2. \/ /\ At(template.axons[index].from) # {}
           /\ At(template.axons[index].to) # {}
           /\ axonTarget' = [axonTarget EXCEPT ![From(index)] = To(index)]
           /\ phase' = phase /\ index' = index + 1
        \/ /\ At(template.axons[index].from) = {} \/ At(template.axons[index].to) = {}
           /\ phase' = "error"
    BY <1>2 DEF UpdateAxons, NextEntry, Fail, From, To
  <2> QED BY <1>1, <2>1, <2>2, EntryApplied, EntryRefused
<1>3. CASE ~ Entry(template.axons)
  <2>1. index \notin 1 .. Count
    BY <1>3 DEF Entry, Count
  <2>2. UNCHANGED axonTarget /\ phase' \in {"connect", "inputs"}
    BY <1>3 DEF UpdateAxons, EnterPhase
  <2> QED BY <1>1, <2>1, <2>2, EntriesDone
<1> QED BY <1>2, <1>3

-----------------------------------------------------------------------------
(* The walks.                                                              *)

\* The steps of a walk from g, as the model counts them.
LEMMA LengthType ==
    ASSUME TypeOK, NEW g \in Hexagons
    PROVE  /\ PathLength(g) \in Nat /\ PathLength(g) <= template.distance
           /\ PathLength(g) = Length(g, axonTarget[g])
           /\ axonTarget[g] \in Hexagons
<1>1. axonTarget[g] \in Hexagons
  BY DEF TypeOK
<1>2. PathLength(g) = Length(g, axonTarget[g])
  BY DEF PathLength, Length
<1> QED BY <1>1, <1>2, LengthBound

\* A step that begins no walk and settles none leaves the distances alone.
LEMMA NearRest ==
    ASSUME WalkNear, TargetsNear, UNCHANGED <<template, targets>>,
           phase' = "targets" => walk' = Nil
    PROVE  WalkNear' /\ TargetsNear'
<1>1. WalkNear'
  BY DEF WalkNear
<1>2. Edges' = Edges /\ Inland' = Inland
  BY SameTemplate DEF Edges
<1>3. TargetsNear'
  BY <1>2, SameEntries DEF TargetsNear
<1> QED BY <1>1, <1>3

\* A walk begins where it is no step away.
LEMMA NearStart ==
    ASSUME TypeOK, WalkNear, TargetsNear, UNCHANGED <<template, axonTarget, targets>>,
           NEW h \in Hexagons, NEW c, walk' = NewWalk(h, c)
    PROVE  WalkNear' /\ TargetsNear'
<1>1. /\ walk'.source = h
      /\ walk'.at = axonTarget[h]
      /\ walk'.left = PathLength(h)
  BY DEF NewWalk
<1>2. PathLength(h)' = PathLength(h)
  BY DEF PathLength
<1>3. PathLength(h) \in Nat /\ axonTarget[h] \in Hexagons
  BY LengthType
<1>4. PathLength(walk.source)' = PathLength(h)
  BY <1>1, <1>2 DEF PathLength
<1>5. PathLength(walk.source)' - walk'.left = 0
  BY <1>1, <1>3, <1>4
<1>6. Reach(axonTarget[walk.source], walk.at, 0)'
  <2>1. Reach(axonTarget[h], axonTarget[h], 0)
    BY <1>3, ReachSelf
  <2> QED BY <1>1, <2>1, SameEntries
<1>7. WalkNear'
  BY <1>1, <1>4, <1>5, <1>6 DEF WalkNear
<1>8. Edges' = Edges /\ Inland' = Inland
  BY SameTemplate DEF Edges
<1>9. TargetsNear'
  BY <1>8, SameEntries DEF TargetsNear
<1> QED BY <1>7, <1>9

\* A walk that goes on is one step further away, and has one step less.
LEMMA NearOn ==
    ASSUME IInv, WalkNear, TargetsNear, GoToNextHexagon, GoOn
    PROVE  WalkNear' /\ TargetsNear'
<1> DEFINE src  == walk.source
           used == PathLength(src) - walk.left
<1>1. /\ UNCHANGED <<template, axonTarget, targets>>
      /\ phase = "targets" /\ walk \in Walks /\ walk # Nil /\ walk.left > 0
  BY DEF GoToNextHexagon, GoOn, IInv, TypeOK
<1>2. src \in Hexagons /\ walk.at \in Hexagons /\ walk.left \in Nat
  BY <1>1 DEF Walks
<1>3. PICK h \in Ahead(walk.at) : walk' = [walk EXCEPT !.at = h, !.left = @ - 1]
  BY DEF GoOn
<1>4. walk'.source = src /\ walk'.at = h /\ walk'.left = walk.left - 1
  BY <1>1, <1>3 DEF Walks
<1>5. PathLength(src) \in Nat /\ axonTarget[src] \in Hexagons
  BY <1>2, LengthType DEF IInv
<1>6. PathLength(walk.source)' = PathLength(src)
  BY <1>1, <1>4 DEF PathLength
<1>7. ASSUME Inland
      PROVE  /\ used \in Nat /\ used + 1 \in Nat
             /\ PathLength(src) - walk'.left = used + 1
             /\ Reach(axonTarget[src], h, used + 1)
  <2>1. used \in Nat /\ Reach(axonTarget[src], walk.at, used)
    BY <1>1, <1>7 DEF WalkNear
  <2>2. h \in Hexagons /\ Reach(walk.at, h, 1)
    BY <1>2, <1>7, AheadIsNear DEF IInv
  <2>3. Reach(axonTarget[src], h, used + 1)
    <3> HIDE DEF used, src
    <3>1. 1 \in Nat
      OBVIOUS
    <3> QED BY <1>2, <1>5, <2>1, <2>2, <3>1, ReachOn DEF IInv
  <2>4. PathLength(src) - walk'.left = used + 1
    BY <1>1, <1>2, <1>4, <1>5
  <2>5. used + 1 \in Nat
    BY <2>1
  <2> QED BY <2>1, <2>3, <2>4, <2>5
<1>8. Inland' = Inland /\ Edges' = Edges
  BY <1>1, SameTemplate DEF Edges
<1>9. WalkNear'
  <2> SUFFICES ASSUME Inland
               PROVE  /\ PathLength(walk.source)' - walk'.left \in Nat
                      /\ Reach(axonTarget[walk.source], walk.at,
                               PathLength(walk.source) - walk.left)'
    BY <1>8 DEF WalkNear
  <2>1. PathLength(walk.source)' - walk'.left = used + 1
    BY <1>6, <1>7
  <2>2. Reach(axonTarget[walk.source], walk.at, PathLength(walk.source) - walk.left)'
    <3> HIDE DEF used
    <3> QED BY <1>1, <1>4, <1>7, <2>1, SameEntries
  <2> QED BY <1>7, <2>1, <2>2
<1>10. TargetsNear'
  BY <1>1, <1>8, SameEntries DEF TargetsNear
<1> QED BY <1>9, <1>10

\* A walk that settles took no more steps than it had.
LEMMA NearSettled ==
    ASSUME IInv, Resolved, WalkNear, TargetsNear, GoToNextHexagon, Stop
    PROVE  WalkNear' /\ TargetsNear'
<1> DEFINE src  == walk.source
           base == axonTarget[src]
           used == PathLength(src) - walk.left
<1>1. /\ UNCHANGED <<template, axonTarget>>
      /\ phase = "targets" /\ walk \in Walks /\ walk # Nil
      /\ targets' = Settle
  BY DEF GoToNextHexagon, Stop, IInv, TypeOK
<1>2. src \in Hexagons /\ walk.at \in Hexagons /\ walk.left \in Nat /\ walk.chance \in Chances
  BY <1>1 DEF Walks
<1>3. PathLength(src) \in Nat /\ base \in Hexagons /\ Length(src, base) = PathLength(src)
  BY <1>2, LengthType DEF IInv
<1>4. Inland' = Inland
  BY <1>1, SameTemplate
<1>5. ASSUME Inland PROVE Reach(base, walk.at, Length(src, base))
  <2>1. used \in Nat /\ Reach(base, walk.at, used)
    BY <1>1, <1>5 DEF WalkNear
  <2>2. Length(src, base) \in Nat /\ used <= Length(src, base)
    BY <1>2, <1>3, <2>1
  <2> HIDE DEF used, base, src
  <2> QED BY <1>2, <1>3, <2>1, <2>2, ReachMore DEF IInv
<1>6. TargetsNear'
  <2> SUFFICES ASSUME Inland, NEW g \in Hexagons, NEW h \in Hexagons, NEW b \in Hexagons,
                      <<g, h>> \in Edges', EndsAt(g, Count, b)
               PROVE  Reach(b, h, Length(g, b))
    BY <1>1, <1>4, SameEntries DEF TargetsNear
  <2>1. PICK c \in Chances : targets'[g][c] = h
    BY DEF Edges
  <2>2. CASE g = src /\ c = walk.chance
    <3>1. h = IF walk.at = src THEN Nil ELSE walk.at
      BY <1>1, <1>2, <2>1, <2>2 DEF Settle, IInv, TypeOK
    <3>2. h = walk.at
      BY <3>1, LimitAssumption
    <3>3. b = base
      <4>1. EndsAt(src, Count, base)
        BY <1>2 DEF Resolved
      <4>2. Count \in Nat
        BY CountType DEF IInv
      <4> QED BY <2>2, <4>1, <4>2, OneEnd
    <3> QED BY <1>5, <2>2, <3>2, <3>3
  <2>3. CASE ~ (g = src /\ c = walk.chance)
    <3>1. targets[g][c] = h
      BY <1>1, <1>2, <2>1, <2>3 DEF Settle, IInv, TypeOK
    <3>2. <<g, h>> \in Edges
      BY <3>1 DEF Edges
    <3> QED BY <3>2 DEF TargetsNear
  <2> QED BY <2>2, <2>3
<1>7. CASE walk' = Nil
  BY <1>6, <1>7 DEF WalkNear
<1>8. CASE walk' = NewWalk(src, walk.chance + 1)
  <2>1. /\ walk'.source = src
        /\ walk'.at = base
        /\ walk'.left = PathLength(src)
    BY <1>8 DEF NewWalk
  <2>2. PathLength(walk.source)' = PathLength(src)
    BY <1>1, <2>1 DEF PathLength
  <2>3. PathLength(walk.source)' - walk'.left = 0
    BY <1>3, <2>1, <2>2
  <2>4. Reach(axonTarget[walk.source], walk.at, 0)'
    <3>1. Reach(base, base, 0)
      BY <1>3, ReachSelf DEF IInv
    <3> QED BY <1>1, <2>1, <3>1, SameEntries
  <2>5. WalkNear'
    BY <2>1, <2>2, <2>3, <2>4 DEF WalkNear
  <2> QED BY <1>6, <2>5
<1> QED BY <1>7, <1>8 DEF Stop

\* Axons, walks and targets, step by step.
LEMMA NearStep == ASSUME NearInv, Next PROVE AxonsInv' /\ WalkNear' /\ TargetsNear'
<1>1. IInv /\ AxonsInv /\ WalkNear /\ TargetsNear /\ TypeOK /\ Count \in Nat
  BY CountType DEF NearInv, IInv
<1>2. CASE UpdateAxons
  <2>1. UNCHANGED <<template, targets>> /\ phase' # "targets"
    BY <1>2 DEF UpdateAxons, EnterPhase, NextEntry, Fail
  <2> QED BY <1>1, <1>2, <2>1, EntriesStep, NearRest
<1>3. CASE StartConnect
  <2>1. /\ UNCHANGED <<template, axonTarget, targets>>
        /\ phase = "connect" /\ phase' \in {"connect", "targets"}
        /\ phase' = "targets" => walk' = Nil
    BY <1>3 DEF StartConnect, EnterPhase
  <2> QED BY <1>1, <2>1, AxonsRest, NearRest
<1>4. CASE ConnectHexagon
  <2>1. /\ UNCHANGED <<template, axonTarget, targets>>
        /\ phase = "connect" /\ phase' \in {"connect", "panicked"}
    BY <1>4 DEF ConnectHexagon
  <2> QED BY <1>1, <2>1, AxonsRest, NearRest
<1>5. CASE StartWalk
  <2>1. UNCHANGED <<template, axonTarget, targets>> /\ phase = "targets"
    BY <1>5 DEF StartWalk
  <2>2. CASE todo = {}
    <3>1. phase' = "axons again" /\ index' = 1
      BY <1>5, <2>2 DEF StartWalk, EnterPhase
    <3> QED BY <1>1, <2>1, <3>1, AxonsRest, NearRest
  <2>3. CASE todo # {} /\ phase' = "panicked"
    <3>1. walk' = Nil
      BY <1>5, <2>3 DEF StartWalk
    <3> QED BY <1>1, <2>1, <2>3, <3>1, AxonsRest, NearRest
  <2>4. CASE todo # {} /\ phase' # "panicked"
    <3>1. PICK h \in todo : walk' = NewWalk(h, 1) /\ phase' = phase
      BY <1>5, <2>4 DEF StartWalk
    <3>2. h \in Hexagons /\ phase' = "targets"
      BY <1>1, <1>5, <3>1 DEF StartWalk, TypeOK
    <3>3. AxonsInv'
      BY <1>1, <2>1, <3>2, AxonsRest
    <3> QED BY <1>1, <2>1, <3>1, <3>2, <3>3, NearStart
  <2> QED BY <2>2, <2>3, <2>4
<1>6. CASE GoToNextHexagon
  <2>1. UNCHANGED <<template, axonTarget, phase>> /\ phase = "targets"
    BY <1>6 DEF GoToNextHexagon
  <2>2. AxonsInv'
    BY <1>1, <2>1, AxonsRest
  <2>3. Resolved
    BY <1>1, <2>1 DEF AxonsInv
  <2> QED BY <1>1, <1>6, <2>2, <2>3, NearOn, NearSettled DEF GoToNextHexagon
<1>7. CASE InitializeInputs \/ InitializeOutputs
  <2>1. /\ UNCHANGED <<template, axonTarget, targets>>
        /\ phase \in {"inputs", "outputs"}
        /\ phase' \in {"inputs", "outputs", "done", "error"}
    BY <1>7 DEF InitializeInputs, InitializeOutputs, EnterPhase, NextEntry, Fail
  <2> QED BY <1>1, <2>1, AxonsRest, NearRest
<1> QED BY <1>2, <1>3, <1>4, <1>5, <1>6, <1>7 DEF Next

\* Before the first step no axon is applied and no target drawn.
LEMMA NearInit == Init => AxonsInv /\ WalkNear /\ TargetsNear
<1> SUFFICES ASSUME Init PROVE AxonsInv /\ WalkNear /\ TargetsNear
  OBVIOUS
<1>1. Edges = {}
  BY LimitAssumption DEF Init, Edges
<1>2. TypeOK
  BY TemplatesAssumption DEF Init, TypeOK, Phases
<1>3. Count \in Nat /\ index = 1 /\ phase = "axons" /\ \A h \in Hexagons : axonTarget[h] = h
  BY <1>2, CountType DEF Init
<1>4. index \in 1 .. Count + 1 /\ (\A h : Untouched(h, index - 1)) /\ Valid(index - 1)
  <2>1. index \in 1 .. Count + 1 /\ \A h : Untouched(h, index - 1)
    BY <1>3, FirstEntry
  <2>2. \A j \in 1 .. index - 1 : FALSE
    BY <1>3
  <2> QED BY <2>1, <2>2, Zenon DEF Valid
<1> QED BY <1>1, <1>3, <1>4 DEF AxonsInv, WalkNear, TargetsNear, EndsAt

\* The inductive invariant of the distances.
THEOREM NearInvariance == Spec => []NearInv
<1>1. Init => AxonsInv /\ WalkNear /\ TargetsNear
  BY NearInit
<1>2. NearInv /\ [Next]_vars => (AxonsInv /\ WalkNear /\ TargetsNear)'
  <2> SUFFICES ASSUME NearInv, [Next]_vars PROVE AxonsInv' /\ WalkNear' /\ TargetsNear'
    OBVIOUS
  <2>1. CASE UNCHANGED vars
    <3>1. UNCHANGED <<template, phase, index, axonTarget, targets, walk>>
      BY <2>1 DEF vars
    <3>2. Edges' = Edges /\ Inland' = Inland
      BY <3>1, SameTemplate DEF Edges
    <3>3. AxonsInv'
      <4>1. Count' = Count /\ Valid(Count)' = Valid(Count) /\ Resolved' = Resolved
        BY <3>1, SameEntries DEF Resolved
      <4>2. /\ Valid(index - 1)' = Valid(index - 1)
            /\ \A h : Leads(h, index - 1, axonTarget[h])' = Leads(h, index - 1, axonTarget[h])
            /\ \A h : Untouched(h, index - 1)' = Untouched(h, index - 1)
            /\ \A h : EndsAt(h, index - 1, axonTarget[h])' = EndsAt(h, index - 1, axonTarget[h])
            /\ \A h : EndsAt(h, Count, axonTarget[h])' = EndsAt(h, Count, axonTarget[h])
        BY <3>1, <4>1, SameEntries
      <4> QED BY <3>1, <3>2, <4>1, <4>2 DEF NearInv, AxonsInv
    <3>4. WalkNear'
      BY <3>1, <3>2, SameEntries DEF NearInv, WalkNear, PathLength
    <3>5. TargetsNear'
      BY <3>1, <3>2, SameEntries DEF NearInv, TargetsNear
    <3> QED BY <3>3, <3>4, <3>5
  <2> QED BY <2>1, NearStep
<1>3. IInv /\ AxonsInv /\ WalkNear /\ TargetsNear <=> NearInv
  BY DEF NearInv
<1> QED BY <1>1, <1>2, <1>3, GridInvariance, PTL DEF Spec

\* No target is further than max_connection_distance from where the walk began,
\* away from the border where coordinates wrap.
THEOREM TargetsWithinDistance == Spec => []WithinDistance
<1>1. NearInv => WithinDistance
  <2> SUFFICES ASSUME NearInv, Inland, phase # "axons again",
                      NEW g \in Hexagons, NEW h \in Hexagons, <<g, h>> \in Edges
               PROVE  Reach(axonTarget[g], h, PathLength(g)) /\ PathLength(g) <= template.distance
    BY DEF WithinDistance
  <2>1. TypeOK /\ AxonsInv /\ TargetsNear
    BY DEF NearInv, IInv
  <2>2. Resolved
    BY <2>1 DEF AxonsInv
  <2>3. Reach(axonTarget[g], h, Length(g, axonTarget[g]))
    BY <2>1, <2>2, LengthType DEF Resolved, TargetsNear
  <2> QED BY <2>1, <2>3, LengthType
<1> QED BY <1>1, NearInvariance, PTL

=============================================================================
