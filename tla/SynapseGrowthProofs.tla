------------------------ MODULE SynapseGrowthProofs ------------------------
(***************************************************************************)
(* Proofs about SynapseGrowth: for every size of a section, every border   *)
(* and every sequence of passes, the connections form chains, the synapses *)
(* of a section are a prefix of it, the counter that decides about         *)
(* widening is exact, no section works on the part of the potential its    *)
(* predecessor can take, and a block remembers what it was trained with.   *)
(***************************************************************************)
EXTENDS SynapseGrowth, Integers, FiniteSetTheorems, WellFoundedInduction, TLAPS

-----------------------------------------------------------------------------
(* Induction. The library states it for an operator; for a set it follows  *)
(* from the least element of its complement.                               *)

Below == {ss \in Nat \X Nat : ss[1] < ss[2]}

\* A set of numbers that is not empty has a least element.
LEMMA LeastNumber ==
    ASSUME NEW T, T \subseteq Nat, T # {}
    PROVE  \E k \in T : \A m \in T : k <= m
<1>1. IsWellFoundedOn(Below, Nat)
  BY NatLessThanWellFounded DEF OpToRel, Below
<1>2. PICK k \in T : \A m \in T : <<m, k>> \notin Below
  BY <1>1, WFMin
<1>3. ASSUME NEW m \in T PROVE k <= m
  <2>1. m \in Nat /\ k \in Nat
    OBVIOUS
  <2>2. ~ (m < k)
    BY <1>2, <2>1 DEF Below
  <2> QED BY <2>1, <2>2
<1> QED BY <1>3

\* A set with 0 that holds the successor of each of its elements up to n holds
\* all numbers up to n.
LEMMA InductionUpTo ==
    ASSUME NEW n \in Nat, NEW S, 0 \in S, \A k \in 0 .. n - 1 : k \in S => k + 1 \in S
    PROVE  0 .. n \subseteq S
<1> DEFINE T == (0 .. n) \ S
<1> SUFFICES ASSUME T # {} PROVE FALSE
  OBVIOUS
<1>1. PICK k \in T : \A m \in T : k <= m
  <2>1. T \subseteq Nat
    OBVIOUS
  <2> HIDE DEF T
  <2> QED BY <2>1, LeastNumber
<1>2. k \in 0 .. n /\ k \notin S /\ k # 0
  BY <1>1
<1>3. k - 1 \in 0 .. n /\ k - 1 \in 0 .. n - 1 /\ k - 1 < k /\ (k - 1) + 1 = k
  BY <1>2
<1>4. k - 1 \in S
  BY <1>1, <1>2, <1>3
<1> QED BY <1>2, <1>3, <1>4

-----------------------------------------------------------------------------
(* The inductive invariant.                                                *)

\* A walk is in a section of the block that belongs to an axon, and has only
\* synapses behind it.
InWalk ==
    inside => /\ task # "idle"
              /\ at \in Sections
              /\ conn[at].source # None
              /\ \A p \in Positions : p < pos => border[at][p] > 0

IInv == TypeOK /\ Chains /\ Counted /\ FilledPrefix /\ InWalk

ConnectionOf == [low : Int, source : Axons \cup {None}, next : Connections \cup {None},
                 used : BOOLEAN]

-----------------------------------------------------------------------------
(* Sizes.                                                                  *)

\* Every section of a block has its connection, and the first sections are
\* always there.
LEMMA SectionsInside ==
    ASSUME NEW n \in 1 .. 3
    PROVE  /\ SectionsOf(n) \subseteq Connections /\ Axons \subseteq SectionsOf(n)
           /\ 2 * Dim * n \in Nat
<1>1. Dim \in Nat \ {0}
  BY DimAssumption
<1>2. n = 1 \/ n = 2 \/ n = 3
  OBVIOUS
<1>3. 2 * Dim <= 2 * Dim * n /\ 2 * Dim * n <= 6 * Dim
  <2>1. CASE n = 1
    BY <1>1, <2>1
  <2>2. CASE n = 2
    BY <1>1, <2>2
  <2>3. CASE n = 3
    BY <1>1, <2>3
  <2> QED BY <1>2, <2>1, <2>2, <2>3
<1>4. 2 * Dim * n \in Nat
  BY <1>1, <1>2
<1> HIDE DEF SectionsOf
<1> QED BY <1>1, <1>3, <1>4 DEF SectionsOf, Connections, Axons

\* Widening leads to at most three output sections, and never to fewer.
LEMMA WideningBounds ==
    ASSUME NEW n \in 1 .. 3
    PROVE  WidenedTo(n) \in 1 .. 3 /\ n <= WidenedTo(n)
           /\ SectionsOf(n) \subseteq SectionsOf(WidenedTo(n))
<1>1. WidenedTo(n) \in 1 .. 3 /\ n <= WidenedTo(n)
  BY DEF WidenedTo
<1>2. Dim \in Nat
  BY DimAssumption
<1>3. ASSUME NEW k \in 1 .. 3, n <= k
      PROVE  SectionsOf(n) \subseteq SectionsOf(k)
  <2>1. 2 * Dim * n <= 2 * Dim * k
    <3>1. /\ k = 1 \/ k = 2 \/ k = 3
          /\ n = 1 \/ n = 2 \/ n = 3
      OBVIOUS
    <3>2. CASE k = 1
      BY <1>2, <1>3, <3>2
    <3>3. CASE k = 2
      BY <1>2, <1>3, <3>1, <3>3
    <3>4. CASE k = 3
      BY <1>2, <1>3, <3>1, <3>4
    <3> QED BY <3>1, <3>2, <3>3, <3>4
  <2>2. 2 * Dim * n \in Int /\ 2 * Dim * k \in Int
    BY <1>2
  <2> QED BY <2>1, <2>2 DEF SectionsOf
<1> QED BY <1>1, <1>3

\* A fresh section has a synapse at its first position and nothing behind it.
LEMMA FreshPrefix ==
    /\ FreshSection \in [Positions -> Nat]
    /\ FreshSection[0] > 0
    /\ \A p \in Positions \ {0} : FreshSection[p] = 0
<1> QED BY DimAssumption, BorderAssumption DEF FreshSection, Positions

\* A border that is adapted stays positive: it is only halved when it is
\* above the potential by more than CreateBorder.
LEMMA AdaptedPositive ==
    ASSUME NEW b \in Nat \ {0}, rest \in Int, rest > 0
    PROVE  Adapted(b) \in Nat \ {0}
<1>1. CASE b >= 2
  <2>1. b \div 2 \in Nat \ {0}
    BY <1>1, SMTT(30)
  <2> QED BY <2>1 DEF Adapted
<1>2. CASE b = 1
  <2>1. ~ (rest < b - CreateBorder)
    BY <1>2, BorderAssumption
  <2> QED BY <1>2, <2>1 DEF Adapted
<1> QED BY <1>1, <1>2

-----------------------------------------------------------------------------
(* Linking a section.                                                      *)

LinkTo(i, free) == conn' = [conn EXCEPT ![i].next = free, ![free].source = conn[i].source]

\* What linking changes: the next section of one connection, and the source
\* of the first free one.
LEMMA LinkShape ==
    ASSUME conn \in [Connections -> ConnectionOf], NEW i \in Connections, NEW free \in Connections,
           i # free, LinkTo(i, free)
    PROVE  /\ conn' \in [Connections -> ConnectionOf]
           /\ \A k \in Connections :
                  /\ conn'[k].low = conn[k].low
                  /\ conn'[k].used = conn[k].used
                  /\ conn'[k].source = IF k = free THEN conn[i].source ELSE conn[k].source
                  /\ conn'[k].next = IF k = i THEN free ELSE conn[k].next
                  /\ k # i /\ k # free => conn'[k] = conn[k]
<1>1. \A k \in Connections : conn[k] \in ConnectionOf
  OBVIOUS
<1>2. conn' = [[conn EXCEPT ![i] = [conn[i] EXCEPT !.next = free]]
                   EXCEPT ![free] = [conn[free] EXCEPT !.source = conn[i].source]]
  BY <1>1 DEF LinkTo
<1>3. conn'[i] = [conn[i] EXCEPT !.next = free]
  BY <1>2
<1>4. conn'[free] = [conn[free] EXCEPT !.source = conn[i].source]
  BY <1>2
<1>5. \A k \in Connections : k # i /\ k # free => conn'[k] = conn[k]
  BY <1>2
<1>6. conn'[i] \in ConnectionOf /\ conn'[free] \in ConnectionOf
  BY <1>1, <1>3, <1>4 DEF ConnectionOf
<1>7. DOMAIN conn' = Connections
  BY <1>2
<1>8. conn' \in [Connections -> ConnectionOf]
  <2>1. \A k \in Connections : conn'[k] \in ConnectionOf
    BY <1>1, <1>5, <1>6
  <2>2. conn' = [k \in Connections |-> conn'[k]]
    BY <1>2
  <2> QED BY <2>1, <2>2
<1> QED BY <1>1, <1>3, <1>4, <1>5, <1>8 DEF ConnectionOf

\* Linking continues a chain that had ended, with a section nobody has.
LEMMA LinkKeepsChains ==
    ASSUME conn \in [Connections -> ConnectionOf], Chains,
           NEW i \in Connections, conn[i].source # None, conn[i].next = None,
           NEW free \in Connections, FirstFree(free), LinkTo(i, free)
    PROVE  Chains'
<1> USE NoneAssumption
<1>1. conn[free].source = None /\ i # free
  BY DEF FirstFree, FreeConnections
<1>2. /\ \A k \in Connections :
             /\ conn'[k].source = IF k = free THEN conn[i].source ELSE conn[k].source
             /\ conn'[k].next = IF k = i THEN free ELSE conn[k].next
             /\ k # i /\ k # free => conn'[k] = conn[k]
      /\ \A k \in Connections : conn[k] \in ConnectionOf
  <2>1. \A k \in Connections :
             /\ conn'[k].source = IF k = free THEN conn[i].source ELSE conn[k].source
             /\ conn'[k].next = IF k = i THEN free ELSE conn[k].next
             /\ k # i /\ k # free => conn'[k] = conn[k]
    BY <1>1, LinkShape
  <2> QED BY <2>1
<1>3. free \notin Axons /\ Axons \subseteq Connections
  <2>1. Axons \subseteq Connections
    BY DimAssumption DEF Axons, Connections
  <2> QED BY <1>1, <2>1 DEF Chains, Axons
<1>4. i < free
  <2>1. free < i => conn[i].source = None
    BY <1>1 DEF Chains, Allocated
  <2> QED BY <1>1, <2>1 DEF Connections
<1>5. \A k \in Connections : conn[k].next # free
  <2> SUFFICES ASSUME NEW k \in Connections, conn[k].next = free
               PROVE  FALSE
    OBVIOUS
  <2>1. conn[free].source = conn[k].source /\ conn[k].next # None
    BY DEF Chains, ChainLinks, Connections
  <2>2. conn[k] = FreeConnection
    BY <1>1, <2>1 DEF Chains, Allocated
  <2> QED BY <2>1, <2>2 DEF FreeConnection
<1>6. conn[free].next = None
  BY <1>1 DEF Chains, Allocated, FreeConnection
<1>7. ChainLinks'
  <2> SUFFICES ASSUME NEW k \in Connections, conn'[k].next # None
               PROVE  /\ conn'[k].next > k
                      /\ conn'[k].next \notin Axons
                      /\ conn'[conn'[k].next].source = conn'[k].source
                      /\ \A j \in Connections : conn'[j].next = conn'[k].next => k = j
    BY DEF ChainLinks
  <2>1. CASE k = i
    <3>1. conn'[k].next = free /\ conn'[k].source = conn[i].source
      BY <1>1, <1>2, <2>1
    <3>2. \A j \in Connections : conn'[j].next = free => k = j
      BY <1>2, <1>5, <2>1
    <3> QED BY <1>2, <1>3, <1>4, <2>1, <3>1, <3>2
  <2>2. CASE k # i
    <3>1. conn'[k].next = conn[k].next /\ k # free
      BY <1>2, <1>6, <2>2
    <3>2. conn[k].next \in Connections
      BY <1>2, <3>1 DEF ConnectionOf
    <3>3. /\ conn[k].next > k /\ conn[k].next \notin Axons
          /\ conn[conn[k].next].source = conn[k].source
          /\ \A j \in Connections : conn[j].next = conn[k].next => k = j
      BY <3>1 DEF Chains, ChainLinks
    <3>4. conn[k].next # free
      BY <1>5
    <3>5. conn'[conn'[k].next].source = conn'[k].source
      BY <1>2, <3>1, <3>2, <3>3, <3>4
    <3>6. \A j \in Connections : conn'[j].next = conn'[k].next => k = j
      BY <1>2, <3>1, <3>3, <3>4
    <3> QED BY <3>1, <3>3, <3>5, <3>6
  <2> QED BY <2>1, <2>2
<1>8. \A k \in Axons : conn'[k].source = k
  <2> TAKE k \in Axons
  <2>1. k \in Connections /\ k # free /\ conn[k].source = k
    BY <1>3 DEF Chains
  <2> QED BY <1>2, <2>1
<1>9. Allocated' = Allocated \cup {free}
  <2>1. \A k \in Connections : conn'[k].source # None <=> conn[k].source # None \/ k = free
    BY <1>1, <1>2
  <2> QED BY <2>1 DEF Allocated
<1>10. \A k \in Allocated' \ Axons : \E j \in Allocated' : conn'[j].next = k
  <2> TAKE k \in Allocated' \ Axons
  <2>1. CASE k = free
    <3>1. i \in Allocated' /\ conn'[i].next = free
      BY <1>2, <1>9 DEF Allocated
    <3> QED BY <2>1, <3>1
  <2>2. CASE k # free
    <3>1. PICK j \in Allocated : conn[j].next = k
      BY <1>9, <2>2 DEF Chains
    <3>2. j # i /\ j \in Connections
      BY <3>1, <1>9 DEF Allocated, Connections
    <3>3. conn'[j].next = k
      BY <1>2, <3>1, <3>2
    <3> QED BY <1>9, <3>1, <3>3
  <2> QED BY <2>1, <2>2
<1>11. \A k \in Connections \ Allocated' :
           /\ conn'[k] = FreeConnection
           /\ \A j \in Connections : k < j => j \notin Allocated'
  <2> TAKE k \in Connections \ Allocated'
  <2>1. k \notin Allocated /\ k # free /\ k # i
    BY <1>9 DEF Allocated
  <2>2. conn'[k] = FreeConnection
    BY <1>2, <2>1 DEF Chains
  <2>3. free < k
    BY <2>1 DEF FirstFree, FreeConnections, Allocated, Connections
  <2>4. \A j \in Connections : k < j => j \notin Allocated'
    BY <1>9, <2>1, <2>3 DEF Chains, Connections
  <2> QED BY <2>2, <2>4
<1> QED BY <1>7, <1>8, <1>10, <1>11 DEF Chains

-----------------------------------------------------------------------------
(* The steps, one lemma per action.                                        *)

\* The first pass of a section marks it, and the counter goes up by one.
LEMMA MarkCounts ==
    ASSUME conn \in [Connections -> ConnectionOf], Counted, counter \in Nat,
           NEW i \in Connections, ~conn[i].used,
           conn' = [conn EXCEPT ![i].used = TRUE], counter' = counter + 1
    PROVE  counter' = Cardinality({k \in Connections : conn'[k].used})
<1> DEFINE S == {k \in Connections : conn[k].used}
<1>1. IsFiniteSet(S)
  <2>1. 0 \in Int /\ 6 * Dim - 1 \in Int
    BY DimAssumption
  <2>2. IsFiniteSet(Connections)
    BY <2>1, FS_Interval DEF Connections
  <2> QED BY <2>2, FS_Subset
<1>2. {k \in Connections : conn'[k].used} = S \cup {i}
  OBVIOUS
<1>3. Cardinality(S \cup {i}) = Cardinality(S) + 1
  BY <1>1, FS_AddElement
<1> QED BY <1>2, <1>3 DEF Counted

LEMMA BeginStep ==
    ASSUME IInv, BeginForward \/ BeginBackward
    PROVE  IInv'
<1> USE DEF IInv, where
<1>1. outs' \in 1 .. 3 /\ SectionsOf(outs) \subseteq SectionsOf(outs')
  BY WideningBounds DEF TypeOK, BeginForward, BeginBackward
<1>2. outs \in 1 .. 3 /\ 2 * Dim * outs' \in Nat
  BY <1>1, SectionsInside DEF TypeOK
<1>3. border' \in [Sections' -> [Positions -> Nat]]
  <2>1. CASE BeginForward
    <3>1. border' = [s \in SectionsOf(outs') |-> IF s \in Sections THEN border[s] ELSE FreshSection]
      BY <2>1 DEF BeginForward
    <3> QED BY <3>1, FreshPrefix DEF TypeOK, Sections
  <2>2. CASE BeginBackward
    BY <2>2 DEF BeginBackward, TypeOK, Sections
  <2> QED BY <2>1, <2>2
<1>4. axon' \in [Axons -> Int]
  BY PatternAssumption DEF TypeOK, BeginForward, BeginBackward, Begin
<1>5. TypeOK'
  <2>1. count' \in 0 .. MaxPasses
    BY TimeAssumption DEF TypeOK, BeginForward, BeginBackward, Begin
  <2>2. task' \in Tasks \cup {"idle"} /\ at' = 0 /\ walked' = {}
        /\ trained' \in [axon : [Axons -> Int], walked : SUBSET (Connections \X Positions),
                         fresh : BOOLEAN]
        /\ UNCHANGED <<inside, pos, rest, conn, counter, neuron>>
    BY DEF TypeOK, BeginForward, BeginBackward, Begin, Tasks
  <2> QED BY <1>1, <1>2, <1>3, <1>4, <2>1, <2>2 DEF TypeOK
<1>6. UNCHANGED <<conn, counter>> /\ ~inside'
  BY DEF BeginForward, BeginBackward, Begin, InWalk
<1>7. Chains'
  BY <1>6 DEF Chains, ChainLinks, Allocated
<1>8. Counted'
  BY <1>1, <1>6 DEF Counted, Allocated, Sections
<1>9. FilledPrefix'
  <2>1. CASE BeginForward
    <3>1. border' = [s \in SectionsOf(outs') |-> IF s \in Sections THEN border[s] ELSE FreshSection]
      BY <2>1 DEF BeginForward
    <3>2. ASSUME NEW s \in Sections'
          PROVE  /\ border'[s][0] > 0
                 /\ \A p \in Positions \ {0} : border'[s][p] > 0 => border'[s][p - 1] > 0
      <4>1. CASE s \in Sections
        BY <3>1, <3>2, <4>1 DEF FilledPrefix, Sections
      <4>2. CASE s \notin Sections
        BY <3>1, <3>2, <4>2, FreshPrefix DEF Sections
      <4> QED BY <4>1, <4>2
    <3> QED BY <3>2 DEF FilledPrefix
  <2>2. CASE BeginBackward
    BY <2>2 DEF BeginBackward, FilledPrefix, Sections
  <2> QED BY <2>1, <2>2
<1> QED BY <1>5, <1>6, <1>7, <1>8, <1>9 DEF InWalk

LEMMA SectionStep ==
    ASSUME IInv, NextSection \/ EnterSection
    PROVE  IInv'
<1> USE DEF IInv, where
<1>1. /\ UNCHANGED <<outs, border, axon, task, walked, trained, neuron, count>>
      /\ at \in Sections /\ task # "idle"
  BY DEF NextSection, EnterSection
<1>2. outs \in 1 .. 3 /\ 2 * Dim * outs \in Nat /\ at \in Connections
  BY <1>1, DimAssumption, SectionsInside DEF TypeOK, Sections
<1>3. FilledPrefix'
  BY <1>1 DEF FilledPrefix, Sections
<1>4. CASE NextSection
  <2>1. at' \in 0 .. 2 * Dim * outs
    BY <1>1, <1>2, <1>4 DEF NextSection, Sections, SectionsOf
  <2>2. TypeOK'
    BY <1>1, <1>4, <2>1 DEF NextSection, TypeOK, Sections
  <2>3. Chains' /\ Counted' /\ InWalk'
    BY <1>1, <1>4 DEF NextSection, Chains, ChainLinks, Allocated, Counted, Sections, InWalk
  <2> QED BY <1>3, <2>2, <2>3
<1>5. CASE EnterSection
  <2>1. conn[at].source # None /\ conn[at] \in ConnectionOf
    BY <1>2, <1>5 DEF EnterSection, Awake, TypeOK, ConnectionOf
  <2>2. conn \in [Connections -> ConnectionOf]
    BY DEF TypeOK, ConnectionOf
  <2>3. /\ conn' \in [Connections -> ConnectionOf]
        /\ counter' \in Nat
        /\ \A k \in Connections : /\ conn'[k].source = conn[k].source
                                  /\ conn'[k].next = conn[k].next
                                  /\ k # at => conn'[k] = conn[k]
    <3>1. CASE UNCHANGED <<conn, counter>>
      BY <2>2, <3>1 DEF TypeOK
    <3>2. CASE conn' = [conn EXCEPT ![at].used = TRUE] /\ counter' = counter + 1
      <4>1. conn' = [conn EXCEPT ![at] = [conn[at] EXCEPT !.used = TRUE]]
        BY <3>2
      <4>2. [conn[at] EXCEPT !.used = TRUE] \in ConnectionOf
        BY <2>1 DEF ConnectionOf
      <4> QED BY <1>2, <2>1, <2>2, <3>2, <4>1, <4>2 DEF TypeOK, ConnectionOf
    <3> QED BY <1>5, <3>1, <3>2 DEF EnterSection
  <2>4. rest' \in Int /\ pos' = 0 /\ inside' = TRUE /\ at' = at
    <3>1. axon[conn[at].source] \in Int /\ conn[at].low \in Int
      BY <2>1 DEF TypeOK, ConnectionOf
    <3> QED BY <1>5, <3>1 DEF EnterSection
  <2>5. TypeOK'
    BY <1>1, <2>3, <2>4, DimAssumption DEF TypeOK, ConnectionOf, Sections
  <2>6. Allocated' = Allocated
    BY <2>3 DEF Allocated
  <2>7. Chains'
    <3>1. ChainLinks'
      <4> SUFFICES ASSUME NEW i \in Connections, conn'[i].next # None
                   PROVE  /\ conn'[i].next > i
                          /\ conn'[i].next \notin Axons
                          /\ conn'[conn'[i].next].source = conn'[i].source
                          /\ \A j \in Connections : conn'[j].next = conn'[i].next => i = j
        BY DEF ChainLinks
      <4>1. conn[i].next # None /\ conn[i].next \in Connections
        BY <2>2, <2>3 DEF ConnectionOf
      <4> QED BY <2>3, <4>1 DEF Chains, ChainLinks
    <3>2. \A i \in Axons : conn'[i].source = i
      <4>1. Axons \subseteq Connections
        BY DimAssumption DEF Axons, Connections
      <4> QED BY <2>3, <4>1 DEF Chains
    <3>3. \A i \in Allocated' \ Axons : \E j \in Allocated' : conn'[j].next = i
      BY <2>3, <2>6 DEF Chains, Allocated
    <3>4. \A i \in Connections \ Allocated' :
              /\ conn'[i] = FreeConnection
              /\ \A j \in Connections : i < j => j \notin Allocated'
      BY <2>1, <2>3, <2>6 DEF Chains, Allocated
    <3> QED BY <3>1, <3>2, <3>3, <3>4 DEF Chains
  <2>8. Counted'
    <3>1. CASE FirstUse(at)
      <4>1. /\ conn' = [conn EXCEPT ![at].used = TRUE]
            /\ counter' = counter + 1 /\ ~conn[at].used
        BY <1>5, <3>1 DEF EnterSection, FirstUse
      <4>2. counter' = Cardinality({k \in Connections : conn'[k].used})
        BY <1>2, <2>2, <4>1, MarkCounts DEF TypeOK
      <4>3. \A k \in Connections : conn'[k].used => k \in Sections' /\ k \in Allocated'
        BY <1>1, <1>2, <2>1, <2>3, <2>6 DEF Counted, Allocated, Sections
      <4> QED BY <4>2, <4>3 DEF Counted
    <3>2. CASE ~FirstUse(at)
      BY <1>1, <1>5, <2>6, <3>2 DEF EnterSection, Counted, Sections
    <3> QED BY <3>1, <3>2
  <2>9. InWalk'
    BY <1>1, <1>2, <2>1, <2>3, <2>4 DEF InWalk, Sections, Positions
  <2> QED BY <1>3, <2>5, <2>7, <2>8, <2>9
<1> QED BY <1>4, <1>5

LEMMA SynapseStep ==
    ASSUME IInv, TrainSynapse \/ PassSynapse
    PROVE  IInv'
<1> USE DEF IInv, where
<1>1. /\ UNCHANGED <<outs, conn, counter, axon, task, at, inside, trained, neuron, count>>
      /\ inside /\ pos \in Positions /\ rest > 0 /\ pos' = pos + 1
      /\ walked' = walked \cup {<<at, pos>>}
  BY DEF TrainSynapse, PassSynapse, More
<1>2. at \in Sections /\ task # "idle" /\ conn[at].source # None
      /\ \A p \in Positions : p < pos => border[at][p] > 0
  BY <1>1 DEF InWalk
<1>3. pos' \in 0 .. Dim /\ rest \in Int /\ walked' \subseteq Sections \X Positions
  <2>1. pos' \in 0 .. Dim
    BY <1>1, DimAssumption DEF Positions
  <2>2. rest \in Int /\ walked \subseteq Sections \X Positions
    BY DEF TypeOK
  <2>3. walked' = walked \cup {<<at, pos>>} /\ at \in Sections /\ pos \in Positions
    BY <1>1, <1>2
  <2> QED BY <2>1, <2>2, <2>3
<1>4. border[at] \in [Positions -> Nat]
  BY <1>2 DEF TypeOK
<1>5. /\ rest' \in Int
      /\ border' \in [Sections -> [Positions -> Nat]]
      /\ border'[at][pos] > 0
      /\ \A s \in Sections, p \in Positions :
             (s # at \/ p # pos) => border'[s][p] = border[s][p]
  <2>1. CASE TrainSynapse
    <3> DEFINE b == Adapted(Grown)
    <3>1. Grown \in Nat \ {0}
      <4>1. CASE border[at][pos] # 0
        BY <1>1, <1>4, <4>1 DEF Grown
      <4>2. CASE border[at][pos] = 0
        <5>1. pos # 0
          BY <1>2, <4>2 DEF FilledPrefix
        <5>2. pos - 1 \in Positions /\ pos - 1 < pos
          BY <1>1, <5>1, DimAssumption DEF Positions
        <5>3. border[at][pos - 1] \in Nat /\ border[at][pos - 1] > 0
          BY <1>2, <1>4, <5>2
        <5> QED BY <4>2, <5>3 DEF Grown
      <4> QED BY <4>1, <4>2
    <3>2. b \in Nat \ {0}
      BY <1>1, <1>3, <3>1, AdaptedPositive
    <3>3. border' = [border EXCEPT ![at][pos] = b] /\ rest' = rest - b
      BY <2>1 DEF TrainSynapse
    <3> HIDE DEF b
    <3>4. border' = [border EXCEPT ![at] = [border[at] EXCEPT ![pos] = b]]
      BY <3>3
    <3>5. [border[at] EXCEPT ![pos] = b] \in [Positions -> Nat]
      BY <1>1, <1>4, <3>2
    <3> QED BY <1>1, <1>2, <1>3, <1>4, <3>2, <3>3, <3>4, <3>5 DEF TypeOK
  <2>2. CASE PassSynapse
    BY <1>1, <1>2, <1>3, <1>4, <2>2 DEF PassSynapse, TypeOK
  <2> QED BY <2>1, <2>2
<1>6. TypeOK'
  BY <1>1, <1>3, <1>5 DEF TypeOK, Sections
<1>7. Chains' /\ Counted'
  BY <1>1 DEF Chains, ChainLinks, Allocated, Counted, Sections
<1>8. InWalk'
  <2>1. \A p \in Positions : p < pos' => border'[at][p] > 0
    BY <1>1, <1>2, <1>5 DEF Positions
  <2> QED BY <1>1, <1>2, <2>1 DEF InWalk, Sections
<1>9. FilledPrefix'
  <2> SUFFICES ASSUME NEW s \in Sections
               PROVE  /\ border'[s][0] > 0
                      /\ \A p \in Positions \ {0} : border'[s][p] > 0 => border'[s][p - 1] > 0
    BY <1>1 DEF FilledPrefix, Sections
  <2>1. \A p \in Positions : border[s][p] > 0 => border'[s][p] > 0
    BY <1>5
  <2>2. 0 \in Positions /\ \A p \in Positions \ {0} : p - 1 \in Positions /\ p - 1 < p
    BY DimAssumption DEF Positions
  <2>3. ASSUME NEW p \in Positions \ {0}, border'[s][p] > 0
        PROVE  border'[s][p - 1] > 0
    <3>1. CASE s = at /\ p = pos
      <4>1. border[s][p - 1] > 0
        BY <1>2, <2>2, <3>1
      <4> QED BY <2>1, <2>2, <4>1
    <3>2. CASE s # at \/ p # pos
      <4>1. border[s][p - 1] > 0
        BY <1>5, <2>3, <3>2 DEF FilledPrefix
      <4> QED BY <2>1, <2>2, <4>1
    <3> QED BY <3>1, <3>2
  <2> QED BY <2>1, <2>2, <2>3 DEF FilledPrefix
<1> QED BY <1>6, <1>7, <1>8, <1>9

LEMMA LeaveStep ==
    ASSUME IInv, LeaveSection
    PROVE  IInv'
<1> USE DEF IInv, where
<1>1. /\ UNCHANGED <<outs, border, counter, axon, task, walked, trained, neuron, count>>
      /\ inside' = FALSE /\ pos' = 0 /\ rest' = 0 /\ at' = at + 1
      /\ at \in Sections /\ conn[at].source # None
  BY DEF LeaveSection, InWalk
<1>2. outs \in 1 .. 3 /\ at \in Connections /\ at' \in 0 .. 2 * Dim * outs
  <2>1. outs \in 1 .. 3
    BY DEF TypeOK
  <2>2. 2 * Dim * outs \in Nat /\ SectionsOf(outs) \subseteq Connections
    BY <2>1, SectionsInside
  <2> QED BY <1>1, <2>1, <2>2 DEF Sections, SectionsOf
<1>3. conn \in [Connections -> ConnectionOf] /\ conn[at] \in ConnectionOf
  BY <1>2 DEF TypeOK, ConnectionOf
<1>4. FilledPrefix' /\ InWalk'
  BY <1>1 DEF FilledPrefix, Sections, InWalk
<1>5. ASSUME conn' \in [Connections -> ConnectionOf]
      PROVE  TypeOK'
  <2>0. outs' = outs
    BY <1>1
  <2>1. /\ inside' \in BOOLEAN /\ pos' \in 0 .. Dim /\ rest' \in Int
        /\ at' \in 0 .. 2 * Dim * outs'
    <3>1. at' \in 0 .. 2 * Dim * outs'
      BY <1>2, <2>0, Zenon
    <3>2. inside' \in BOOLEAN /\ pos' \in 0 .. Dim /\ rest' \in Int
      <4>1. inside' = FALSE /\ pos' = 0 /\ rest' = 0
        BY <1>1, Zenon
      <4>2. 0 \in 0 .. Dim /\ 0 \in Int
        BY DimAssumption
      <4> QED BY <4>1, <4>2, Zenon
    <3> QED BY <3>1, <3>2, Zenon
  <2>2. Sections' = Sections
    BY <1>1 DEF Sections
  <2>3. /\ outs' \in 1 .. 3 /\ border' \in [Sections' -> [Positions -> Nat]]
        /\ counter' \in Nat /\ axon' \in [Axons -> Int] /\ task' \in Tasks \cup {"idle"}
        /\ walked' \subseteq Sections' \X Positions
        /\ trained' \in [axon : [Axons -> Int], walked : SUBSET (Connections \X Positions),
                         fresh : BOOLEAN]
        /\ neuron' \in [refractory : Nat, since : Nat, input : BOOLEAN, triggered : BOOLEAN]
        /\ count' \in 0 .. MaxPasses
    BY <1>1, <2>2 DEF TypeOK
  <2> QED BY <1>5, <2>1, <2>3 DEF TypeOK, ConnectionOf
<1>6. ASSUME Allocated \subseteq Allocated',
             \A k \in Connections : conn'[k].used = conn[k].used
      PROVE  Counted'
  <2>1. {k \in Connections : conn'[k].used} = {k \in Connections : conn[k].used}
    BY <1>6
  <2> QED BY <1>1, <1>6, <2>1 DEF Counted, Sections
<1>7. CASE UNCHANGED conn
  <2>1. Chains'
    BY <1>7 DEF Chains, ChainLinks, Allocated
  <2>2. Counted'
    BY <1>6, <1>7 DEF Allocated
  <2> QED BY <1>3, <1>4, <1>5, <1>7, <2>1, <2>2
<1>8. CASE LinkNext /\ conn' # conn
  <2>1. PICK free \in Connections : FirstFree(free) /\ LinkTo(at, free)
    BY <1>8 DEF LinkNext, LinkTo
  <2>2. conn[at].next = None /\ at # free
    BY <1>1, <1>8, <2>1 DEF LinkNext, FirstFree, FreeConnections
  <2>3. /\ conn' \in [Connections -> ConnectionOf]
        /\ \A k \in Connections :
               /\ conn'[k].used = conn[k].used
               /\ conn'[k].source = IF k = free THEN conn[at].source ELSE conn[k].source
    BY <1>2, <1>3, <2>1, <2>2, LinkShape
  <2>4. Chains'
    BY <1>1, <1>2, <1>3, <2>1, <2>2, LinkKeepsChains
  <2>5. Allocated \subseteq Allocated'
    BY <1>1, <2>3 DEF Allocated
  <2>6. Counted'
    BY <1>6, <2>3, <2>5
  <2> QED BY <1>4, <1>5, <2>3, <2>4, <2>6
<1>9. CASE RaiseBound /\ conn' # conn
  <2> DEFINE next == conn[at].next
  <2>1. next \in Connections /\ conn[next] \in ConnectionOf /\ Used \in Int
    <3>1. next \in Connections
      BY <1>3, <1>9 DEF RaiseBound, ConnectionOf
    <3>2. axon[conn[at].source] \in Int /\ conn[at].low \in Int /\ rest \in Int
      BY <1>1, <1>3 DEF TypeOK, ConnectionOf
    <3> QED BY <1>3, <3>1, <3>2 DEF Used
  <2>2. conn' = [conn EXCEPT ![next] = [conn[next] EXCEPT !.low = Used]]
    BY <1>9 DEF RaiseBound
  <2>3. [conn[next] EXCEPT !.low = Used] \in ConnectionOf
    BY <2>1 DEF ConnectionOf
  <2>4. /\ conn' \in [Connections -> ConnectionOf]
        /\ \A k \in Connections : /\ conn'[k].source = conn[k].source
                                  /\ conn'[k].next = conn[k].next
                                  /\ conn'[k].used = conn[k].used
                                  /\ k # next => conn'[k] = conn[k]
    BY <1>3, <2>1, <2>2, <2>3 DEF ConnectionOf
  <2>5. Allocated' = Allocated /\ next \in Allocated
    <3>1. conn[next].source = conn[at].source
      BY <1>2, <1>9 DEF RaiseBound, Chains, ChainLinks
    <3> QED BY <1>1, <2>1, <2>4, <3>1 DEF Allocated
  <2>6. Chains'
    <3>1. ChainLinks'
      <4> SUFFICES ASSUME NEW i \in Connections, conn'[i].next # None
                   PROVE  /\ conn'[i].next > i
                          /\ conn'[i].next \notin Axons
                          /\ conn'[conn'[i].next].source = conn'[i].source
                          /\ \A j \in Connections : conn'[j].next = conn'[i].next => i = j
        BY DEF ChainLinks
      <4>1. conn[i].next # None /\ conn[i].next \in Connections
        BY <1>3, <2>4 DEF ConnectionOf
      <4> QED BY <2>4, <4>1 DEF Chains, ChainLinks
    <3>2. \A i \in Axons : conn'[i].source = i
      <4>1. Axons \subseteq Connections
        BY DimAssumption DEF Axons, Connections
      <4> QED BY <2>4, <4>1 DEF Chains
    <3>3. \A i \in Allocated' \ Axons : \E j \in Allocated' : conn'[j].next = i
      BY <2>4, <2>5 DEF Chains, Allocated
    <3>4. \A i \in Connections \ Allocated' :
              /\ conn'[i] = FreeConnection
              /\ \A j \in Connections : i < j => j \notin Allocated'
      BY <2>4, <2>5 DEF Chains
    <3> QED BY <3>1, <3>2, <3>3, <3>4 DEF Chains
  <2>7. Counted'
    BY <1>6, <2>4, <2>5
  <2> QED BY <1>4, <1>5, <2>4, <2>6, <2>7
<1> QED BY <1>7, <1>8, <1>9 DEF LeaveSection

LEMMA EndStep ==
    ASSUME IInv, EndPass
    PROVE  IInv'
<1> USE DEF IInv, where
<1>1. /\ UNCHANGED <<outs, border, conn, counter, axon, inside, pos, rest, walked, count>>
      /\ task' = "idle" /\ at' = 0 /\ ~inside
  BY DEF EndPass
<1>2. outs \in 1 .. 3 /\ Sections \subseteq Connections /\ 2 * Dim * outs \in Nat
  BY SectionsInside DEF TypeOK, Sections
<1>3. trained' \in [axon : [Axons -> Int], walked : SUBSET (Connections \X Positions),
                    fresh : BOOLEAN]
  <2>1. walked \subseteq Connections \X Positions /\ axon \in [Axons -> Int]
    BY <1>2 DEF TypeOK
  <2> QED BY <2>1 DEF EndPass, TypeOK
<1>4. neuron' \in [refractory : Nat, since : Nat, input : BOOLEAN, triggered : BOOLEAN]
  <2>1. neuron.refractory \div 2 \in Nat
    <3>1. \A n \in Nat : n \div 2 \in Nat
      BY SMTT(30)
    <3> QED BY <3>1 DEF TypeOK
  <2>2. ASSUME NEW input \in BOOLEAN
        PROVE  Applied(input) \in [refractory : Nat, since : Nat, input : BOOLEAN,
                                   triggered : BOOLEAN]
    <3>1. (input /\ Over) \in BOOLEAN
      OBVIOUS
    <3>2. (IF Over THEN RefractoryTime ELSE neuron.refractory \div 2) \in Nat
      BY <2>1, TimeAssumption
    <3>3. (IF input /\ Over THEN 1
           ELSE IF neuron.since < RefractoryTime THEN neuron.since + 1 ELSE neuron.since) \in Nat
      BY DEF TypeOK
    <3> QED BY <3>1, <3>2, <3>3 DEF Applied
  <2>3. CASE task = "backpropagate"
    BY <2>3 DEF EndPass, TypeOK
  <2>4. CASE task # "backpropagate"
    BY <2>2, <2>4 DEF EndPass
  <2> QED BY <2>3, <2>4
<1>5. TypeOK'
  BY <1>1, <1>2, <1>3, <1>4 DEF TypeOK, Sections
<1>6. Chains' /\ Counted' /\ FilledPrefix' /\ InWalk'
  BY <1>1 DEF Chains, ChainLinks, Allocated, Counted, FilledPrefix, InWalk, Sections
<1> QED BY <1>5, <1>6

-----------------------------------------------------------------------------
(* The theorems.                                                           *)

LEMMA InitiallyTrue == Init => IInv
<1> SUFFICES ASSUME Init
             PROVE  IInv
  OBVIOUS
<1> USE DEF Init, where
<1>1. Sections = SectionsOf(1) /\ 2 * Dim * 1 \in Nat /\ Axons \subseteq Connections
  BY SectionsInside DEF Sections
<1>2. \A i \in Connections :
          /\ conn[i] \in ConnectionOf
          /\ i \in Axons => conn[i].source = i
          /\ i \notin Axons => conn[i] = FreeConnection
          /\ conn[i].next = None /\ ~conn[i].used
  <2> TAKE i \in Connections
  <2>1. CASE i \in Axons
    <3>1. conn[i] = [low |-> 0, source |-> i, next |-> None, used |-> FALSE]
      BY <2>1 DEF FreeConnection
    <3>2. [low |-> 0, source |-> i, next |-> None, used |-> FALSE] \in ConnectionOf
      BY <2>1 DEF ConnectionOf
    <3> QED BY <2>1, <3>1, <3>2
  <2>2. CASE i \notin Axons
    <3>1. conn[i] = FreeConnection
      BY <2>2
    <3>2. FreeConnection \in ConnectionOf /\ FreeConnection.next = None /\ ~FreeConnection.used
      BY DEF ConnectionOf, FreeConnection
    <3> QED BY <2>2, <3>1, <3>2
  <2> QED BY <2>1, <2>2
<1>3. TypeOK
  <2>1. conn \in [Connections -> ConnectionOf]
    BY <1>2
  <2>2. neuron \in [refractory : Nat, since : Nat, input : BOOLEAN, triggered : BOOLEAN]
    BY TimeAssumption
  <2>3. border \in [Sections -> [Positions -> Nat]]
    BY <1>1, FreshPrefix
  <2>4. /\ outs \in 1 .. 3 /\ counter \in Nat /\ axon \in [Axons -> Int]
        /\ task \in Tasks \cup {"idle"} /\ at \in 0 .. 2 * Dim * outs
        /\ inside \in BOOLEAN /\ pos \in 0 .. Dim /\ rest \in Int
        /\ walked \subseteq Sections \X Positions /\ count \in 0 .. MaxPasses
    <3>1. 0 \in 0 .. Dim /\ 0 \in 0 .. 2 * Dim * 1 /\ 0 \in 0 .. MaxPasses
      BY DimAssumption, TimeAssumption
    <3>2. at \in 0 .. 2 * Dim * outs
      BY <3>1, Zenon
    <3>3. outs \in 1 .. 3 /\ counter \in Nat /\ rest \in Int /\ axon \in [Axons -> Int]
      OBVIOUS
    <3>4. /\ task \in Tasks \cup {"idle"} /\ inside \in BOOLEAN /\ pos \in 0 .. Dim
          /\ walked \subseteq Sections \X Positions /\ count \in 0 .. MaxPasses
      BY <3>1, Zenon
    <3> QED BY <3>2, <3>3, <3>4, Zenon
  <2>5. trained \in [axon : [Axons -> Int], walked : SUBSET (Connections \X Positions),
                    fresh : BOOLEAN]
    BY <2>4
  <2> QED BY <2>1, <2>2, <2>3, <2>4, <2>5 DEF TypeOK, ConnectionOf
<1>4. Allocated = Axons
  BY <1>1, <1>2, NoneAssumption DEF Allocated, FreeConnection, Axons
<1>5. Chains
  <2>1. \A i \in Connections \ Axons : \A j \in Connections : i < j => j \notin Axons
    BY DimAssumption DEF Connections, Axons
  <2> QED BY <1>1, <1>2, <1>4, <2>1 DEF Chains, ChainLinks
<1>6. Counted
  <2>1. {i \in Connections : conn[i].used} = {}
    BY <1>2
  <2> QED BY <1>2, <2>1, FS_EmptySet DEF Counted
<1>7. FilledPrefix /\ InWalk
  BY <1>1, FreshPrefix DEF FilledPrefix, InWalk
<1> QED BY <1>3, <1>5, <1>6, <1>7 DEF IInv

\* The inductive invariant: types, chains, the exact counter, prefixes, and
\* where a walk can be.
THEOREM GrowthInvariance == Spec => []IInv
<1>1. Init => IInv
  BY InitiallyTrue
<1>2. IInv /\ [Next]_vars => IInv'
  <2> SUFFICES ASSUME IInv, [Next]_vars
               PROVE  IInv'
    OBVIOUS
  <2>1. CASE UNCHANGED vars
    BY <2>1 DEF vars, where, IInv, TypeOK, Chains, ChainLinks, Allocated, Counted,
                FilledPrefix, InWalk, Sections
  <2> QED BY <2>1, BeginStep, SectionStep, SynapseStep, LeaveStep, EndStep DEF Next
<1> QED BY <1>1, <1>2, PTL DEF Spec

\* A block never has more than three output sections, and everything has its type.
THEOREM GrowthTypes == Spec => []TypeOK
<1>1. IInv => TypeOK
  BY DEF IInv
<1> QED BY <1>1, GrowthInvariance, PTL

\* The sections of an axon form one chain that nobody else is part of.
THEOREM ChainsKept == Spec => []Chains
<1>1. IInv => Chains
  BY DEF IInv
<1> QED BY <1>1, GrowthInvariance, PTL

\* The counter that widens the block is the number of trained sections.
THEOREM CounterExact == Spec => []Counted
<1>1. IInv => Counted
  BY DEF IInv
<1> QED BY <1>1, GrowthInvariance, PTL

\* Synapses are created from the front: the assertion of train_section holds.
THEOREM PrefixKept == Spec => []FilledPrefix
<1>1. IInv => FilledPrefix
  BY DEF IInv
<1> QED BY <1>1, GrowthInvariance, PTL

-----------------------------------------------------------------------------
(* Sums. What a section takes from a potential is defined by recursion, so *)
(* facts about it are proved by induction (InductionUpTo).                 *)

\* The recursion has a solution, so Taken satisfies it.
LEMMA TakenEquation ==
    ASSUME NEW b \in [Positions -> Nat]
    PROVE  Taken(b) = [p \in 0 .. Dim |-> IF p = 0 THEN 0 ELSE Taken(b)[p - 1] + b[p - 1]]
<1>0. Dim \in Nat
  BY DimAssumption
<1> DEFINE Sums(g, n) == g[0] = 0 /\ \A p \in 1 .. n : g[p] = g[p - 1] + b[p - 1]
           S == {n \in 0 .. Dim : \E g \in [0 .. Dim -> Int] : Sums(g, n)}
<1>1. 0 \in S
  <2> DEFINE g == [p \in 0 .. Dim |-> 0]
  <2>1. g \in [0 .. Dim -> Int] /\ Sums(g, 0) /\ 0 \in 0 .. Dim
    BY <1>0
  <2> HIDE DEF g, Sums
  <2> QED BY <2>1
<1>2. ASSUME NEW n \in 0 .. Dim - 1, n \in S PROVE n + 1 \in S
  <2>1. PICK g \in [0 .. Dim -> Int] : Sums(g, n)
    BY <1>2
  <2> DEFINE h == [g EXCEPT ![n + 1] = g[n] + b[n]]
  <2>2. n \in Positions /\ n + 1 \in 0 .. Dim /\ n \in 0 .. Dim /\ b[n] \in Int
    BY <1>0, <1>2 DEF Positions
  <2>3. h \in [0 .. Dim -> Int]
    BY <2>2
  <2>4. Sums(h, n + 1)
    <3>1. h[0] = 0
      BY <1>0, <2>1, <2>2
    <3>2. ASSUME NEW p \in 1 .. n + 1 PROVE h[p] = h[p - 1] + b[p - 1]
      <4>1. p \in 0 .. Dim /\ p - 1 \in 0 .. Dim /\ p - 1 # n + 1
        <5>1. n \in Int /\ n + 1 <= Dim /\ p \in Int /\ 1 <= p /\ p <= n + 1
          BY <1>0, <1>2, <3>2
        <5> QED BY <1>0, <5>1
      <4>2. CASE p = n + 1
        <5>1. h[p] = g[n] + b[n] /\ h[p - 1] = g[n] /\ p - 1 = n
          BY <2>2, <4>1, <4>2
        <5> QED BY <5>1
      <4>3. CASE p # n + 1
        <5>1. p \in 1 .. n
          BY <3>2, <4>3
        <5>2. h[p] = g[p] /\ h[p - 1] = g[p - 1]
          BY <4>1, <4>3
        <5> QED BY <2>1, <5>1, <5>2
      <4> QED BY <4>2, <4>3
    <3> QED BY <3>1, <3>2
  <2> HIDE DEF h, Sums
  <2> QED BY <2>2, <2>3, <2>4
<1>3. Dim \in S
  <2> HIDE DEF S
  <2>1. 0 .. Dim \subseteq S
    BY <1>0, <1>1, <1>2, InductionUpTo
  <2> QED BY <1>0, <2>1
<1>4. PICK g \in [0 .. Dim -> Int] : Sums(g, Dim)
  BY <1>3
<1>5. g = [p \in 0 .. Dim |-> IF p = 0 THEN 0 ELSE g[p - 1] + b[p - 1]]
  <2>1. \A p \in 0 .. Dim : g[p] = IF p = 0 THEN 0 ELSE g[p - 1] + b[p - 1]
    BY <1>0, <1>4
  <2> QED BY <2>1
<1> QED BY <1>5 DEF Taken

\* So a section takes nothing before its first synapse, and at every synapse
\* its border more.
LEMMA TakenSteps ==
    ASSUME NEW b \in [Positions -> Nat]
    PROVE  /\ \A p \in 0 .. Dim : Taken(b)[p] \in Nat
           /\ Taken(b)[0] = 0
           /\ \A p \in Positions : Taken(b)[p + 1] = Taken(b)[p] + b[p]
<1>0. Dim \in Nat
  BY DimAssumption
<1>1. Taken(b)[0] = 0
  BY <1>0, TakenEquation
<1>2. ASSUME NEW p \in Positions PROVE Taken(b)[p + 1] = Taken(b)[p] + b[p]
  <2>1. p + 1 \in 0 .. Dim /\ p + 1 # 0 /\ (p + 1) - 1 = p
    BY <1>0, <1>2 DEF Positions
  <2> DEFINE T == Taken(b)
  <2>2. T = [k \in 0 .. Dim |-> IF k = 0 THEN 0 ELSE T[k - 1] + b[k - 1]]
    BY TakenEquation
  <2> HIDE DEF T
  <2>3. T[p + 1] = T[(p + 1) - 1] + b[(p + 1) - 1]
    BY <2>1, <2>2
  <2> QED BY <2>1, <2>3 DEF T
<1> DEFINE S == {p \in 0 .. Dim : Taken(b)[p] \in Nat}
<1>3. 0 \in S
  BY <1>0, <1>1
<1>4. ASSUME NEW p \in 0 .. Dim - 1, p \in S PROVE p + 1 \in S
  <2>1. p \in Positions /\ p + 1 \in 0 .. Dim /\ b[p] \in Nat
    BY <1>0, <1>4 DEF Positions
  <2> QED BY <1>2, <1>4, <2>1
<1>5. 0 .. Dim \subseteq S
  <2> HIDE DEF S
  <2> QED BY <1>0, <1>3, <1>4, InductionUpTo
<1> QED BY <1>1, <1>2, <1>5

\* The sums of two sections compare as their borders do.
LEMMA TakenLess ==
    ASSUME NEW b \in [Positions -> Nat], NEW c \in [Positions -> Nat], NEW n \in 0 .. Dim,
           \A p \in Positions : p < n => c[p] <= b[p]
    PROVE  \A p \in 0 .. n : Taken(c)[p] <= Taken(b)[p]
<1>0. Dim \in Nat /\ n \in Nat /\ 0 .. n \subseteq 0 .. Dim
  BY DimAssumption
<1> DEFINE S == {p \in 0 .. n : Taken(c)[p] <= Taken(b)[p]}
<1>1. 0 \in S
  BY <1>0, TakenSteps
<1>2. ASSUME NEW p \in 0 .. n - 1, p \in S PROVE p + 1 \in S
  <2>1. p \in Positions /\ p < n /\ p + 1 \in 0 .. n /\ p \in 0 .. Dim
    BY <1>0, <1>2 DEF Positions
  <2>2. /\ Taken(b)[p + 1] = Taken(b)[p] + b[p] /\ Taken(b)[p] \in Nat
        /\ Taken(c)[p + 1] = Taken(c)[p] + c[p] /\ Taken(c)[p] \in Nat
    BY <2>1, TakenSteps
  <2>3. b[p] \in Nat /\ c[p] \in Nat /\ c[p] <= b[p] /\ Taken(c)[p] <= Taken(b)[p]
    BY <1>2, <2>1
  <2>4. Taken(c)[p + 1] <= Taken(b)[p + 1]
    BY <2>2, <2>3
  <2> QED BY <2>1, <2>4
<1>3. 0 .. n \subseteq S
  <2> HIDE DEF S
  <2> QED BY <1>0, <1>1, <1>2, InductionUpTo
<1> QED BY <1>3

\* Two sections that begin alike take the same there.
LEMMA TakenSame ==
    ASSUME NEW b \in [Positions -> Nat], NEW c \in [Positions -> Nat], NEW n \in 0 .. Dim,
           \A p \in Positions : p < n => c[p] = b[p]
    PROVE  \A p \in 0 .. n : Taken(c)[p] = Taken(b)[p]
<1>1. \A p \in Positions : b[p] \in Nat /\ c[p] \in Nat
  OBVIOUS
<1>2. \A p \in 0 .. n : Taken(c)[p] <= Taken(b)[p]
  BY <1>1, TakenLess
<1>3. \A p \in 0 .. n : Taken(b)[p] <= Taken(c)[p]
  BY <1>1, TakenLess
<1>4. \A p \in 0 .. n : Taken(b)[p] \in Nat /\ Taken(c)[p] \in Nat
  <2>1. 0 .. n \subseteq 0 .. Dim
    BY DimAssumption
  <2> QED BY <2>1, TakenSteps
<1> QED BY <1>2, <1>3, <1>4

\* Later synapses are reached with less.
LEMMA TakenGrows ==
    ASSUME NEW b \in [Positions -> Nat], NEW p \in 0 .. Dim, NEW q \in 0 .. Dim, p <= q
    PROVE  Taken(b)[p] <= Taken(b)[q]
<1>0. Dim \in Nat /\ p \in Nat /\ q \in Nat
  BY DimAssumption
<1> DEFINE S == {k \in 0 .. Dim : p <= k => Taken(b)[p] <= Taken(b)[k]}
<1>1. 0 \in S
  BY <1>0, TakenSteps
<1>2. ASSUME NEW k \in 0 .. Dim - 1, k \in S PROVE k + 1 \in S
  <2>1. k \in Positions /\ k + 1 \in 0 .. Dim /\ k \in 0 .. Dim /\ b[k] \in Nat
    BY <1>0, <1>2 DEF Positions
  <2>2. /\ Taken(b)[k + 1] = Taken(b)[k] + b[k] /\ Taken(b)[k] \in Nat
        /\ Taken(b)[k + 1] \in Nat /\ Taken(b)[p] \in Nat
    BY <2>1, TakenSteps
  <2>3. CASE p <= k
    <3>1. Taken(b)[p] <= Taken(b)[k]
      BY <1>2, <2>3
    <3>2. Taken(b)[p] <= Taken(b)[k + 1]
      BY <2>1, <2>2, <3>1
    <3> QED BY <2>1, <3>2
  <2>4. CASE ~ (p <= k)
    <3>1. p <= k + 1 => p = k + 1
      BY <1>0, <2>1, <2>4
    <3> QED BY <2>1, <2>2, <3>1
  <2> QED BY <2>3, <2>4
<1>3. 0 .. Dim \subseteq S
  <2> HIDE DEF S
  <2> QED BY <1>0, <1>1, <1>2, InductionUpTo
<1> QED BY <1>3

\* Behind a synapse that is missing all are.
LEMMA NothingBehind ==
    ASSUME TypeOK, FilledPrefix, NEW s \in Sections, NEW p \in Positions, border[s][p] = 0,
           NEW q \in Positions, p <= q
    PROVE  border[s][q] = 0
<1>0. Dim \in Nat \ {0} /\ Dim - 1 \in Nat /\ Positions = 0 .. Dim - 1 /\ p \in Nat /\ q \in Nat
  BY DimAssumption DEF Positions
<1>1. \A k \in Positions : border[s][k] \in Nat
  BY DEF TypeOK
<1> DEFINE S == {k \in Positions : p <= k => border[s][k] = 0}
<1>2. 0 \in S
  <2>1. 0 \in Positions /\ (p <= 0 => p = 0)
    BY <1>0
  <2> QED BY <2>1
<1>3. ASSUME NEW k \in 0 .. (Dim - 1) - 1, k \in S PROVE k + 1 \in S
  <2>1. k \in Positions /\ k + 1 \in Positions /\ k + 1 \in Positions \ {0} /\ (k + 1) - 1 = k
        /\ k \in Nat
    BY <1>0, <1>3
  <2>2. border[s][k + 1] > 0 => border[s][k] > 0
    BY <2>1 DEF FilledPrefix
  <2>3. CASE p <= k
    <3>1. border[s][k] = 0
      BY <1>3, <2>3
    <3>2. border[s][k + 1] = 0
      BY <1>1, <2>1, <2>2, <3>1
    <3> QED BY <2>1, <3>2
  <2>4. CASE ~ (p <= k)
    <3>1. p <= k + 1 => p = k + 1
      BY <1>0, <2>1, <2>4
    <3> QED BY <2>1, <3>1
  <2> QED BY <2>3, <2>4
<1>4. 0 .. Dim - 1 \subseteq S
  <2> HIDE DEF S
  <2> QED BY <1>0, <1>2, <1>3, InductionUpTo
<1> QED BY <1>0, <1>4

-----------------------------------------------------------------------------
(* What a pass goes through. The synapses a pass with the potentials a     *)
(* walks in a section s are those that the part of the potential the       *)
(* section gets is not used up before: they depend on the connection and   *)
(* the borders of the section alone, so a pass that walked them is         *)
(* remembered by the block as long as it is not trained again.             *)

Part(s, a)    == a[conn[s].source] - conn[s].low
Takes(s, a)   == conn[s].source # None /\ conn[s].used /\ a[conn[s].source] # 0
Goes(s, p, a) == Takes(s, a) /\ border[s][p] > 0 /\ Taken(border[s])[p] < Part(s, a)

\* A section whose successor has a bound is full and takes no more than it.
Bounds ==
    /\ \A i \in Connections : conn[i].low >= 0
    /\ \A i \in Connections : conn[i].next # None =>
           /\ i \in Sections
           /\ conn[conn[i].next].low # 0 =>
                  /\ \A p \in Positions : border[i][p] > 0
                  /\ conn[conn[i].next].low >= Capacity(i)

\* A walk has used what the synapses behind it take, and was not out of
\* potential at any of them.
Walking ==
    inside => /\ Takes(at, axon)
              /\ rest = Part(at, axon) - Taken(border[at])[pos]
              /\ \A p \in Positions : p < pos => Taken(border[at])[p] < Part(at, axon)

\* A pass has walked what it goes through in the sections behind it.
Walked ==
    task # "idle" => \A s \in Sections, p \in Positions :
        <<s, p>> \in walked <=> \/ s < at /\ Goes(s, p, axon)
                                \/ inside /\ s = at /\ p < pos

\* The deltas of a call find the sections it trained marked.
Marked ==
    /\ trained.fresh \/ task = "backpropagate" => axon = trained.axon
    /\ trained.fresh => task = "idle"
    /\ \A s \in Sections :
           /\ conn[s].source # None
           /\ axon[conn[s].source] # 0
           /\ trained.fresh \/ task = "backpropagate" \/ (task = "train" /\ s < at)
           => conn[s].used

\* Between two training passes the block remembers what the first one walked.
Memory ==
    task # "train" =>
        /\ trained.walked \subseteq Sections \X Positions
        /\ \A s \in Sections, p \in Positions :
               <<s, p>> \in trained.walked <=> Goes(s, p, trained.axon)

MInv == IInv /\ Bounds /\ Walking /\ Walked /\ Marked /\ Memory

\* Types of what a walk computes with.
LEMMA WalkTypes ==
    ASSUME TypeOK
    PROVE  /\ Sections \subseteq Connections /\ Dim \in Nat \ {0}
           /\ \A s \in Sections : border[s] \in [Positions -> Nat]
           /\ \A s \in Connections :
                  /\ conn[s].low \in Int /\ conn[s].source \in Axons \cup {None}
                  /\ conn[s].next \in Connections \cup {None} /\ conn[s].used \in BOOLEAN
           /\ \A s \in Connections : conn[s].source # None =>
                  Part(s, axon) \in Int /\ axon[conn[s].source] \in Int
           /\ at \in Sections => at \in Nat /\ at + 1 \in 0 .. 2 * Dim * outs
<1>1. Sections \subseteq Connections /\ 2 * Dim * outs \in Nat
  BY SectionsInside DEF TypeOK, Sections
<1>2. \A s \in Connections :
          /\ conn[s].low \in Int /\ conn[s].source \in Axons \cup {None}
          /\ conn[s].next \in Connections \cup {None} /\ conn[s].used \in BOOLEAN
  BY DEF TypeOK
<1>3. ASSUME NEW s \in Connections, conn[s].source # None
      PROVE  Part(s, axon) \in Int /\ axon[conn[s].source] \in Int
  <2>1. conn[s].source \in Axons /\ conn[s].low \in Int
    BY <1>2, <1>3
  <2>2. axon[conn[s].source] \in Int
    BY <2>1 DEF TypeOK
  <2> QED BY <2>1, <2>2 DEF Part
<1>4. \A s \in Sections : border[s] \in [Positions -> Nat]
  BY DEF TypeOK
<1>5. at \in Sections => at \in Nat /\ at + 1 \in 0 .. 2 * Dim * outs
  BY <1>1 DEF Sections, SectionsOf
<1> QED BY <1>1, <1>2, <1>3, <1>4, <1>5, DimAssumption

\* A section whose connection and borders stay the same takes the same.
LEMMA GoesSame ==
    ASSUME NEW s, NEW p, NEW a, conn'[s].source = conn[s].source, conn'[s].low = conn[s].low,
           conn'[s].used = conn[s].used, border'[s] = border[s]
    PROVE  Goes(s, p, a)' <=> Goes(s, p, a)
<1> QED BY DEF Goes, Takes, Part

\* Nothing was trained, and nothing is remembered.
LEMMA MemoryInitially == Init => MInv
<1> SUFFICES ASSUME Init PROVE MInv
  OBVIOUS
<1> USE DEF Init, where
<1>1. IInv
  BY InitiallyTrue
<1>2. \A i \in Connections : conn[i].next = None /\ conn[i].low = 0 /\ ~conn[i].used
  BY DEF FreeConnection
<1>3. Sections \subseteq Connections
  BY <1>1, WalkTypes DEF IInv
<1>4. Bounds
  BY <1>2 DEF Bounds
<1>5. Walking /\ Walked
  BY DEF Walking, Walked
<1>6. \A s \in Sections : axon[conn[s].source] # 0 => conn[s].source = None
  <2>1. \A s \in Connections : conn[s].source \in Axons \cup {None}
    BY <1>1, WalkTypes DEF IInv
  <2> QED BY <1>3, <2>1
<1>7. Marked
  BY <1>6 DEF Marked
<1>8. Memory
  BY <1>2, <1>3 DEF Memory, Goes, Takes
<1> QED BY <1>1, <1>4, <1>5, <1>7, <1>8 DEF MInv

\* A pass begins with nothing behind it. Sections a request adds to the block are
\* not used, so they do not belong to what it goes through.
LEMMA MemoryBegin ==
    ASSUME MInv, BeginForward \/ BeginBackward
    PROVE  MInv'
<1>1. IInv'
  BY BeginStep DEF MInv
<1>2. /\ UNCHANGED <<inside, pos, rest, conn>> /\ task = "idle" /\ at' = 0 /\ walked' = {}
      /\ trained' = [trained EXCEPT !.fresh = FALSE] /\ ~inside
  BY DEF BeginForward, BeginBackward, Begin, MInv, IInv, InWalk
<1>3. Sections \subseteq Sections' /\ \A s \in Sections : border'[s] = border[s]
  <2>1. outs \in 1 .. 3
    BY DEF MInv, IInv, TypeOK
  <2>2. CASE BeginForward
    BY <2>1, <2>2, WideningBounds DEF BeginForward, Sections
  <2>3. CASE BeginBackward
    BY <2>3 DEF BeginBackward, Sections
  <2> QED BY <2>2, <2>3
<1>4. /\ TypeOK /\ TypeOK' /\ Counted
      /\ trained'.axon = trained.axon /\ trained'.walked = trained.walked /\ trained'.fresh = FALSE
  BY <1>1, <1>2 DEF MInv, IInv, TypeOK
<1>5. Bounds'
  BY <1>2, <1>3 DEF Bounds, MInv, Capacity
<1>6. Walking'
  BY <1>2 DEF Walking
<1>7. Sections' \subseteq Nat
  BY <1>4, SectionsInside DEF TypeOK, Sections, SectionsOf
<1>8. Walked'
  <2>1. \A s \in Sections' : ~ (s < at')
    BY <1>2, <1>7
  <2> QED BY <1>2, <2>1 DEF Walked
<1>9. Marked'
  <2>1. CASE BeginForward
    <3>1. task' \in {"train", "process"}
      BY <2>1 DEF BeginForward, Begin
    <3>2. \A s \in Sections' : ~ (s < at')
      BY <1>2, <1>7
    <3> QED BY <1>4, <3>1, <3>2 DEF Marked
  <2>2. CASE BeginBackward
    <3>1. /\ task' = "backpropagate" /\ axon' = axon /\ trained.fresh
          /\ Sections' = Sections
      BY <2>2 DEF BeginBackward, Begin, Sections
    <3>2. axon = trained.axon
          /\ \A s \in Sections : conn[s].source # None /\ axon[conn[s].source] # 0 => conn[s].used
      BY <3>1 DEF MInv, Marked
    <3> QED BY <1>2, <1>4, <3>1, <3>2 DEF Marked
  <2> QED BY <2>1, <2>2
<1>10. Memory'
  <2> SUFFICES ASSUME task' # "train" PROVE
          /\ trained'.walked \subseteq Sections' \X Positions
          /\ \A s \in Sections', p \in Positions :
               <<s, p>> \in trained'.walked <=> Goes(s, p, trained.axon)'
    BY <1>4 DEF Memory
  <2>1. /\ trained.walked \subseteq Sections \X Positions
        /\ \A s \in Sections, p \in Positions :
               <<s, p>> \in trained.walked <=> Goes(s, p, trained.axon)
    BY <1>2 DEF MInv, Memory
  <2> SUFFICES ASSUME NEW s \in Sections', NEW p \in Positions
               PROVE  <<s, p>> \in trained.walked <=> Goes(s, p, trained.axon)'
    BY <1>3, <1>4, <2>1
  <2>2. CASE s \in Sections
    <3>1. Goes(s, p, trained.axon)' <=> Goes(s, p, trained.axon)
      BY <1>2, <1>3, <1>4, <2>2 DEF Goes, Takes, Part
    <3> QED BY <2>1, <2>2, <3>1
  <2>3. CASE s \notin Sections
    <3>1. s \in Connections
      BY <1>4, WalkTypes, SectionsInside DEF TypeOK, Sections
    <3>2. ~conn'[s].used
      BY <1>2, <1>4, <2>3, <3>1 DEF Counted
    <3> QED BY <2>1, <2>3, <3>2 DEF Goes, Takes
  <2> QED BY <2>2, <2>3
<1> QED BY <1>1, <1>5, <1>6, <1>8, <1>9, <1>10 DEF MInv

\* A section that is passed over takes nothing, and one that is entered gets its
\* part of the potential.
LEMMA MemorySection ==
    ASSUME MInv, NextSection \/ EnterSection
    PROVE  MInv'
<1>1. IInv'
  BY SectionStep DEF MInv
<1>2. /\ UNCHANGED <<outs, border, axon, task, walked, trained>>
      /\ at \in Sections /\ task # "idle" /\ ~inside
  BY DEF NextSection, EnterSection
<1>3. TypeOK /\ Sections' = Sections /\ at \in Connections /\ at \in Nat
      /\ trained.fresh = FALSE
  <2>1. TypeOK /\ Sections' = Sections
    BY <1>2 DEF MInv, IInv, Sections
  <2>2. trained.fresh \in BOOLEAN /\ (trained.fresh => task = "idle")
    BY <2>1 DEF TypeOK, MInv, Marked
  <2> QED BY <1>2, <2>1, <2>2, WalkTypes
<1>4. CASE NextSection
  <2>1. UNCHANGED <<conn, inside>> /\ at' = at + 1
    BY <1>4 DEF NextSection
  <2>2. Bounds' /\ Walking' /\ Memory'
    BY <1>2, <1>3, <2>1 DEF MInv, Bounds, Walking, Memory, Goes, Takes, Part, Capacity
  <2>3. ASSUME NEW p \in Positions PROVE ~Goes(at, p, axon)
    <3> SUFFICES ASSUME Takes(at, axon), Taken(border[at])[p] < Part(at, axon) PROVE FALSE
      BY DEF Goes
    <3>1. task = "backpropagate" /\ ~ (axon[conn[at].source] > 0)
      BY <1>2, <1>3, <1>4 DEF NextSection, Awake, Takes, TypeOK, Tasks
    <3>2. axon[conn[at].source] \in Int /\ conn[at].low \in Int /\ conn[at].low >= 0
      BY <1>3, WalkTypes DEF Takes, MInv, Bounds
    <3>3. Taken(border[at])[p] \in Nat
      <4>1. p \in 0 .. Dim
        BY DimAssumption DEF Positions
      <4> QED BY <1>2, <1>3, <4>1, WalkTypes, TakenSteps
    <3> QED BY <3>1, <3>2, <3>3 DEF Part
  <2>4. Walked'
    <3> SUFFICES ASSUME NEW s \in Sections, NEW p \in Positions
                 PROVE  <<s, p>> \in walked <=> s < at + 1 /\ Goes(s, p, axon)'
      BY <1>2, <1>3, <2>1 DEF Walked
    <3>1. Goes(s, p, axon)' <=> Goes(s, p, axon)
      BY <1>2, <2>1 DEF Goes, Takes, Part
    <3>2. <<s, p>> \in walked <=> s < at /\ Goes(s, p, axon)
      BY <1>2 DEF MInv, Walked
    <3>3. s \in Nat
      BY <1>3, WalkTypes DEF Connections
    <3>4. s < at + 1 <=> s < at \/ s = at
      BY <1>3, <3>3
    <3> QED BY <2>3, <3>1, <3>2, <3>4
  <2>5. Marked'
    <3>1. ASSUME NEW s \in Sections, conn[s].source # None, axon[conn[s].source] # 0,
                 task = "backpropagate" \/ (task = "train" /\ s < at + 1)
          PROVE  conn[s].used
      <4>1. s \in Nat
        BY <1>3, WalkTypes DEF Connections
      <4>2. CASE task = "backpropagate" \/ s < at
        BY <3>1, <4>2 DEF MInv, Marked
      <4>3. CASE task = "train" /\ s = at
        BY <1>4, <3>1, <4>3 DEF NextSection, Awake
      <4> QED BY <1>3, <3>1, <4>1, <4>2, <4>3
    <3> QED BY <1>2, <1>3, <2>1, <3>1 DEF MInv, Marked
  <2> QED BY <1>1, <2>2, <2>4, <2>5 DEF MInv
<1>5. CASE EnterSection
  <2>1. /\ inside' = TRUE /\ pos' = 0 /\ rest' = Part(at, axon) /\ at' = at
        /\ Awake(at) /\ conn[at].source # None
    BY <1>5 DEF EnterSection, Part, Awake
  <2>2. /\ \A k \in Connections : /\ conn'[k].source = conn[k].source
                                  /\ conn'[k].next = conn[k].next
                                  /\ conn'[k].low = conn[k].low
                                  /\ k # at => conn'[k].used = conn[k].used
        /\ FirstUse(at) => conn'[at].used
        /\ ~FirstUse(at) => conn' = conn
    <3>1. CASE FirstUse(at)
      <4>1. conn' = [conn EXCEPT ![at] = [conn[at] EXCEPT !.used = TRUE]]
        BY <1>5, <3>1 DEF EnterSection
      <4> QED BY <1>3, <3>1, <4>1 DEF TypeOK
    <3>2. CASE ~FirstUse(at)
      BY <1>5, <3>2 DEF EnterSection
    <3> QED BY <3>1, <3>2
  <2>3. Sections \subseteq Connections /\ \A i \in Connections : conn[i].next \in Connections \cup {None}
    BY <1>3, WalkTypes
  <2>4. Bounds'
    <3>1. \A i \in Connections : conn'[i].low >= 0
      BY <2>2 DEF MInv, Bounds
    <3>2. ASSUME NEW i \in Connections, conn'[i].next # None
          PROVE  /\ i \in Sections
                 /\ conn'[conn'[i].next].low # 0 =>
                        /\ \A p \in Positions : border'[i][p] > 0
                        /\ conn'[conn'[i].next].low >= Capacity(i)'
      <4>1. conn[i].next # None /\ conn'[conn'[i].next].low = conn[conn[i].next].low
        BY <2>2, <2>3, <3>2
      <4> QED BY <1>2, <4>1 DEF MInv, Bounds, Capacity
    <3> QED BY <1>3, <3>1, <3>2 DEF Bounds
  <2>5. axon[conn[at].source] # 0 /\ conn'[at].used
    <3>0. task = "train" \/ task = "process" \/ task = "backpropagate"
      BY <1>2, <1>3 DEF TypeOK, Tasks
    <3>1. axon[conn[at].source] # 0
      <4>1. axon[conn[at].source] \in Int
        BY <1>3, <2>1, WalkTypes
      <4> DEFINE potential == axon[conn[at].source]
      <4>2. potential # 0 \/ potential > 0
        BY <2>1, <3>0 DEF Awake
      <4> HIDE DEF potential
      <4>3. potential \in Int
        BY <4>1 DEF potential
      <4>4. potential # 0
        BY <4>2, <4>3
      <4> QED BY <4>4 DEF potential
    <3>2. CASE task = "train"
      BY <2>1, <2>2, <3>1, <3>2 DEF FirstUse
    <3>3. CASE task = "process"
      BY <2>1, <2>2, <3>1, <3>3 DEF FirstUse, Awake
    <3>4. CASE task = "backpropagate"
      BY <1>2, <2>1, <2>2, <3>1, <3>4 DEF FirstUse, MInv, Marked
    <3> QED BY <3>0, <3>1, <3>2, <3>3, <3>4
  <2>6. Walking'
    <3>1. Takes(at, axon)' /\ Part(at, axon)' = Part(at, axon)
      BY <1>2, <1>3, <2>1, <2>2, <2>5 DEF Takes, Part
    <3>2. Taken(border[at])[0] = 0 /\ Part(at, axon) \in Int
      BY <1>2, <1>3, <2>1, WalkTypes, TakenSteps
    <3>3. \A p \in Positions : ~ (p < 0)
      BY DEF Positions
    <3>4. rest' = Part(at, axon) - Taken(border[at])[0]
      BY <2>1, <3>2
    <3> QED BY <1>2, <2>1, <3>1, <3>3, <3>4 DEF Walking
  <2>7. Walked'
    <3> SUFFICES ASSUME NEW s \in Sections, NEW p \in Positions
                 PROVE  <<s, p>> \in walked <=> s < at /\ Goes(s, p, axon)'
      <4>1. \A p \in Positions : ~ (p < 0)
        BY DEF Positions
      <4> QED BY <1>2, <1>3, <2>1, <4>1 DEF Walked
    <3>1. <<s, p>> \in walked <=> s < at /\ Goes(s, p, axon)
      BY <1>2 DEF MInv, Walked
    <3>2. s < at => s # at
      BY <1>3
    <3>3. s < at => (Goes(s, p, axon)' <=> Goes(s, p, axon))
      BY <1>2, <2>2, <2>3, <3>2 DEF Goes, Takes, Part
    <3> QED BY <3>1, <3>3
  <2>8. Marked'
    <3>1. \A s \in Sections : conn[s].used => conn'[s].used
      BY <2>2, <2>3, <2>5
    <3> QED BY <1>2, <1>3, <2>1, <2>2, <2>3, <3>1 DEF MInv, Marked
  <2>9. Memory'
    <3> SUFFICES ASSUME task # "train" PROVE Memory'
      BY <1>2 DEF Memory
    <3>1. conn' = conn
      BY <2>2 DEF FirstUse
    <3> QED BY <1>2, <1>3, <3>1 DEF MInv, Memory, Goes, Takes, Part
  <2> QED BY <1>1, <2>4, <2>6, <2>7, <2>8, <2>9 DEF MInv
<1> QED BY <1>4, <1>5

\* Adapting a border never raises it.
LEMMA AdaptedShrinks ==
    ASSUME NEW b \in Nat
    PROVE  Adapted(b) <= b
<1>1. b \div 2 <= b
  BY SMTT(30)
<1> QED BY <1>1 DEF Adapted

\* A synapse takes its border; a training pass may shrink the border, which only
\* leaves more room below the bound of the next section.
LEMMA MemorySynapse ==
    ASSUME MInv, TrainSynapse \/ PassSynapse
    PROVE  MInv'
<1>1. IInv'
  BY SynapseStep DEF MInv
<1>2. /\ UNCHANGED <<outs, conn, axon, task, at, inside, trained>>
      /\ inside /\ pos \in Positions /\ rest > 0 /\ pos' = pos + 1
      /\ walked' = walked \cup {<<at, pos>>}
  BY DEF TrainSynapse, PassSynapse, More
<1>3. /\ TypeOK /\ TypeOK' /\ Sections' = Sections /\ at \in Sections /\ at \in Connections
      /\ at \in Nat /\ task # "idle" /\ border[at] \in [Positions -> Nat]
      /\ \A p \in Positions : p < pos => border[at][p] > 0
  BY <1>1, <1>2, WalkTypes DEF MInv, IInv, InWalk, Sections
<1>4. /\ border' \in [Sections -> [Positions -> Nat]]
      /\ rest' = rest - border'[at][pos]
      /\ \A s \in Sections, p \in Positions :
             (s # at \/ p # pos) => border'[s][p] = border[s][p]
      /\ \A s \in Sections : s # at => border'[s] = border[s]
      /\ border[at][pos] # 0 => border'[at][pos] <= border[at][pos]
      /\ task # "train" => border' = border
  <2>0. border' \in [Sections -> [Positions -> Nat]]
    BY <1>1, <1>3 DEF IInv, TypeOK
  <2>1. CASE TrainSynapse
    <3> DEFINE b == Adapted(Grown)
    <3>1. border' = [border EXCEPT ![at][pos] = b] /\ rest' = rest - b /\ task = "train"
      BY <2>1 DEF TrainSynapse
    <3>2. border[at][pos] # 0 => b <= border[at][pos]
      <4>1. border[at][pos] # 0 => Grown = border[at][pos]
        BY DEF Grown
      <4>2. border[at][pos] \in Nat
        BY <1>2, <1>3
      <4>3. Adapted(border[at][pos]) <= border[at][pos]
        BY <4>2, AdaptedShrinks
      <4> QED BY <4>1, <4>3
    <3> HIDE DEF b
    <3>3. border' = [border EXCEPT ![at] = [border[at] EXCEPT ![pos] = b]]
      BY <3>1
    <3>4. /\ border'[at] = [border[at] EXCEPT ![pos] = b]
          /\ \A s \in Sections : s # at => border'[s] = border[s]
      BY <1>3, <3>3 DEF TypeOK
    <3>5. border'[at][pos] = b /\ \A p \in Positions : p # pos => border'[at][p] = border[at][p]
      BY <1>2, <1>3, <3>4
    <3> QED BY <2>0, <3>1, <3>2, <3>4, <3>5
  <2>2. CASE PassSynapse
    <3>1. border' = border /\ rest' = rest - border[at][pos]
      BY <2>2 DEF PassSynapse
    <3>2. border[at][pos] \in Nat
      BY <1>2, <1>3
    <3> QED BY <2>0, <3>1, <3>2
  <2> QED BY <2>1, <2>2
<1>5. border'[at] \in [Positions -> Nat] /\ pos \in 0 .. Dim /\ pos \in Nat /\ Dim \in Nat
      /\ pos + 1 \in 0 .. Dim /\ \A p \in Positions : p < pos => p \in 0 .. pos
  BY <1>2, <1>3, <1>4, DimAssumption DEF Positions
<1>6. \A p \in 0 .. pos : Taken(border'[at])[p] = Taken(border[at])[p]
  <2>1. \A p \in Positions : p < pos => border'[at][p] = border[at][p]
    <3>1. \A p \in Positions : p < pos => p # pos
      BY <1>5 DEF Positions
    <3> QED BY <1>3, <1>4, <3>1
  <2> QED BY <1>3, <1>5, <2>1, TakenSame
<1>7. Bounds'
  <2> SUFFICES ASSUME NEW i \in Connections, conn[i].next # None, conn[conn[i].next].low # 0,
                      i \in Sections, \A p \in Positions : border[i][p] > 0,
                      conn[conn[i].next].low >= Capacity(i)
               PROVE  /\ \A p \in Positions : border'[i][p] > 0
                      /\ conn[conn[i].next].low >= Capacity(i)'
    BY <1>2, <1>3 DEF MInv, Bounds
  <2>1. CASE i # at
    BY <1>4, <2>1 DEF Capacity
  <2>2. CASE i = at
    <3>1. border[at][pos] # 0 /\ border'[at][pos] <= border[at][pos]
      BY <1>2, <1>4, <2>2
    <3>2. \A p \in Positions : border'[at][p] <= border[at][p]
      <4>1. \A p \in Positions : border[at][p] \in Nat
        BY <1>3
      <4> QED BY <1>3, <1>4, <3>1, <4>1
    <3>3. Taken(border'[at])[Dim] <= Taken(border[at])[Dim]
      <4>1. \A p \in 0 .. Dim : Taken(border'[at])[p] <= Taken(border[at])[p]
        <5>1. Dim \in 0 .. Dim
          BY <1>5
        <5> QED BY <1>3, <1>5, <3>2, <5>1, TakenLess
      <4> QED BY <1>5, <4>1
    <3>4. Taken(border[at])[Dim] \in Nat /\ Taken(border'[at])[Dim] \in Nat
      BY <1>3, <1>5, TakenSteps
    <3>5. conn[conn[at].next].low \in Int
      BY <1>3, <2>2, WalkTypes
    <3>6. \A p \in Positions : border'[at][p] > 0
      <4>1. border'[at][pos] > 0
        <5>1. pos < pos' /\ inside'
          BY <1>2, <1>5
        <5> QED BY <1>1, <1>2, <5>1 DEF IInv, InWalk
      <4>2. \A p \in Positions : p # pos => border'[at][p] = border[at][p]
        BY <1>3, <1>4
      <4> QED BY <2>2, <4>1, <4>2
    <3>7. Capacity(i)' = Taken(border'[at])[Dim] /\ Capacity(i) = Taken(border[at])[Dim]
      BY <1>2, <2>2 DEF Capacity
    <3>8. conn[conn[at].next].low >= Taken(border[at])[Dim]
      BY <2>2, <3>7
    <3>9. conn[conn[at].next].low >= Taken(border'[at])[Dim]
      BY <3>3, <3>4, <3>5, <3>8
    <3> QED BY <2>2, <3>6, <3>7, <3>9
  <2> QED BY <2>1, <2>2
<1>8. Walking'
  <2>1. /\ Takes(at, axon) /\ rest = Part(at, axon) - Taken(border[at])[pos]
        /\ \A p \in Positions : p < pos => Taken(border[at])[p] < Part(at, axon)
    BY <1>2 DEF MInv, Walking
  <2>2. Takes(at, axon)' /\ Part(at, axon)' = Part(at, axon) /\ Part(at, axon) \in Int
    BY <1>2, <1>3, <2>1, WalkTypes DEF Takes, Part
  <2>3. /\ Taken(border'[at])[pos + 1] = Taken(border'[at])[pos] + border'[at][pos]
        /\ Taken(border'[at])[pos] = Taken(border[at])[pos]
        /\ Taken(border[at])[pos] \in Nat /\ border'[at][pos] \in Nat
    BY <1>2, <1>3, <1>5, <1>6, TakenSteps
  <2> DEFINE part == Part(at, axon)
             old  == Taken(border[at])[pos]
             new  == Taken(border'[at])[pos + 1]
             b    == border'[at][pos]
  <2>4. part \in Int /\ old \in Nat /\ b \in Nat /\ new = old + b /\ rest = part - old
        /\ rest' = rest - b /\ rest > 0
    BY <1>2, <1>4, <2>1, <2>2, <2>3
  <2>5. rest' = part - new /\ old < part
    <3> HIDE DEF part, old, new, b
    <3> QED BY <2>4
  <2>6. \A p \in Positions : p < pos + 1 => Taken(border'[at])[p] < Part(at, axon)
    <3> SUFFICES ASSUME NEW p \in Positions, p < pos + 1
                 PROVE  Taken(border'[at])[p] < Part(at, axon)
      OBVIOUS
    <3>1. p < pos \/ p = pos
      BY <1>5 DEF Positions
    <3>2. CASE p < pos
      BY <1>5, <1>6, <2>1, <3>2
    <3>3. CASE p = pos
      BY <2>3, <2>5, <3>3
    <3> QED BY <3>1, <3>2, <3>3
  <2> QED BY <1>2, <2>2, <2>5, <2>6 DEF Walking
<1>9. Walked'
  <2> SUFFICES ASSUME NEW s \in Sections, NEW p \in Positions
               PROVE  <<s, p>> \in walked' <=> \/ s < at /\ Goes(s, p, axon)'
                                               \/ s = at /\ p < pos + 1
    BY <1>2, <1>3 DEF Walked
  <2>1. <<s, p>> \in walked <=> \/ s < at /\ Goes(s, p, axon)
                                \/ s = at /\ p < pos
    BY <1>2, <1>3 DEF MInv, Walked
  <2>2. s < at => s # at
    BY <1>3
  <2>3. s # at => (Goes(s, p, axon)' <=> Goes(s, p, axon))
    BY <1>2, <1>4 DEF Goes, Takes, Part
  <2>4. p < pos + 1 <=> p < pos \/ p = pos
    BY <1>5 DEF Positions
  <2>5. <<s, p>> \in walked' <=> <<s, p>> \in walked \/ (s = at /\ p = pos)
    BY <1>2
  <2> QED BY <2>1, <2>2, <2>3, <2>4, <2>5
<1>10. Marked'
  BY <1>2, <1>3 DEF MInv, Marked
<1>11. Memory'
  <2> SUFFICES ASSUME task # "train" PROVE Memory'
    BY <1>2 DEF Memory
  <2>1. border' = border
    BY <1>4
  <2> QED BY <1>2, <1>3, <2>1 DEF MInv, Memory, Goes, Takes, Part
<1> QED BY <1>1, <1>7, <1>8, <1>9, <1>10, <1>11 DEF MInv

\* What leaving a section changes in the connections: the bound and the source
\* of sections behind it, and where its own chain goes on.
LEMMA LeaveShape ==
    ASSUME MInv, LeaveSection
    PROVE  /\ \A k \in Connections : k <= at =>
                  /\ conn'[k].low = conn[k].low /\ conn'[k].used = conn[k].used
                  /\ conn'[k].source = conn[k].source
           /\ Bounds'
<1>1. /\ TypeOK /\ TypeOK' /\ Chains /\ InWalk /\ inside /\ at \in Sections /\ Stops
      /\ outs' = outs /\ border' = border /\ Sections' = Sections
      /\ conn[at].source # None /\ task # "idle"
      /\ \A p \in Positions : p < pos => border[at][p] > 0
  BY LeaveStep DEF MInv, IInv, InWalk, LeaveSection, Sections
<1>2. /\ Sections \subseteq Connections /\ at \in Connections /\ at \in Int
      /\ conn \in [Connections -> ConnectionOf] /\ Connections \subseteq Int
      /\ border[at] \in [Positions -> Nat] /\ Dim \in Nat \ {0} /\ pos \in 0 .. Dim /\ rest \in Int
  <2>1. Connections \subseteq Int
    BY DEF Connections
  <2> QED BY <1>1, <2>1, WalkTypes DEF TypeOK, ConnectionOf
<1>3. CASE UNCHANGED conn
  BY <1>1, <1>3 DEF MInv, Bounds, Capacity
<1>4. CASE LinkNext /\ conn' # conn
  <2>1. PICK free \in Connections : FirstFree(free) /\ LinkTo(at, free)
    BY <1>4 DEF LinkNext, LinkTo
  <2>2. at # free /\ conn[free].source = None
    BY <1>1, <2>1 DEF FirstFree, FreeConnections
  <2>3. \A k \in Connections :
             /\ conn'[k].low = conn[k].low
             /\ conn'[k].used = conn[k].used
             /\ conn'[k].source = IF k = free THEN conn[at].source ELSE conn[k].source
             /\ conn'[k].next = IF k = at THEN free ELSE conn[k].next
    BY <1>2, <2>1, <2>2, LinkShape
  <2>4. free > at /\ conn[free].low = 0
    <3>1. free \in Connections \ Allocated
      BY <2>2 DEF Allocated
    <3>2. conn[free] = FreeConnection /\ ~ (free < at)
      BY <1>1, <1>2, <3>1 DEF Chains, Allocated
    <3> QED BY <1>2, <2>2, <3>2 DEF FreeConnection
  <2>5. Bounds'
    <3>1. ASSUME NEW i \in Connections, conn'[i].next # None
          PROVE  /\ i \in Sections
                 /\ conn'[conn'[i].next].low # 0 =>
                        /\ \A p \in Positions : border'[i][p] > 0
                        /\ conn'[conn'[i].next].low >= Capacity(i)'
      <4>1. CASE i = at
        BY <1>1, <2>3, <2>4, <4>1
      <4>2. CASE i # at
        <5>1. conn'[i].next = conn[i].next
          BY <2>3, <4>2
        <5>2. conn[i].next \in Connections
          BY <1>2, <3>1, <5>1 DEF ConnectionOf
        <5>3. conn'[conn'[i].next].low = conn[conn[i].next].low
          BY <2>3, <5>1, <5>2
        <5> QED BY <1>1, <3>1, <5>1, <5>3 DEF MInv, Bounds, Capacity
      <4> QED BY <4>1, <4>2
    <3>2. \A i \in Connections : conn'[i].low >= 0
      BY <2>3 DEF MInv, Bounds
    <3> QED BY <1>1, <3>1, <3>2 DEF Bounds
  <2>6. \A k \in Connections : k <= at => k # free
    BY <1>2, <2>4
  <2> QED BY <2>3, <2>5, <2>6
<1>5. CASE RaiseBound /\ conn' # conn
  <2> DEFINE next == conn[at].next
  <2>1. /\ next \in Connections /\ next > at
        /\ \A j \in Connections : conn[j].next = next => j = at
    BY <1>1, <1>2, <1>5 DEF RaiseBound, ConnectionOf, Chains, ChainLinks
  <2>2. conn' = [conn EXCEPT ![next] = [conn[next] EXCEPT !.low = Used]]
    BY <1>5 DEF RaiseBound
  <2>3. /\ \A k \in Connections : /\ conn'[k].source = conn[k].source
                                  /\ conn'[k].next = conn[k].next
                                  /\ conn'[k].used = conn[k].used
                                  /\ k # next => conn'[k].low = conn[k].low
        /\ conn'[next].low = Used
    BY <1>2, <2>1, <2>2 DEF ConnectionOf
  <2>4. pos = Dim
    <3>1. task = "train" /\ rest > 0
      BY <1>5 DEF LeaveSection
    <3>2. pos \notin Positions
      BY <1>1, <3>1 DEF Stops, More
    <3> QED BY <1>2, <3>2 DEF Positions
  <2>5. Used = Capacity(at)
    <3>1. rest = Part(at, axon) - Taken(border[at])[pos] /\ Part(at, axon) \in Int
      BY <1>1, <1>2, WalkTypes DEF MInv, Walking
    <3>2. Taken(border[at])[pos] \in Nat
      BY <1>2, TakenSteps
    <3>3. Used = Part(at, axon) - rest
      BY DEF Used, Part
    <3>4. Used = Taken(border[at])[pos]
      BY <3>1, <3>2, <3>3
    <3> QED BY <2>4, <3>4 DEF Capacity
  <2>6. Capacity(at) \in Nat
    <3>1. Dim \in 0 .. Dim
      BY <1>2
    <3> QED BY <1>2, <3>1, TakenSteps DEF Capacity
  <2>7. \A p \in Positions : border[at][p] > 0
    <3>1. \A p \in Positions : p < pos
      BY <1>2, <2>4 DEF Positions
    <3> QED BY <1>1, <3>1
  <2>8. Bounds'
    <3>1. \A i \in Connections : conn'[i].low >= 0
      BY <2>3, <2>5, <2>6 DEF MInv, Bounds
    <3>2. ASSUME NEW i \in Connections, conn'[i].next # None
          PROVE  /\ i \in Sections
                 /\ conn'[conn'[i].next].low # 0 =>
                        /\ \A p \in Positions : border'[i][p] > 0
                        /\ conn'[conn'[i].next].low >= Capacity(i)'
      <4>1. Capacity(i)' = Capacity(i)
        BY <1>1 DEF Capacity
      <4>2. CASE i = at
        <5>1. conn'[conn'[i].next].low = Capacity(at)
          BY <2>1, <2>3, <2>5, <4>2
        <5> QED BY <1>1, <2>6, <2>7, <4>1, <4>2, <5>1
      <4>3. CASE i # at
        <5>1. conn'[i].next = conn[i].next /\ conn[i].next # next
          BY <2>1, <2>3, <4>3
        <5>2. conn[i].next \in Connections
          BY <1>2, <3>2, <5>1 DEF ConnectionOf
        <5>3. conn'[conn'[i].next].low = conn[conn[i].next].low
          BY <2>3, <5>1, <5>2
        <5> QED BY <1>1, <3>2, <4>1, <5>1, <5>3 DEF MInv, Bounds
      <4> QED BY <4>2, <4>3
    <3> QED BY <1>1, <3>1, <3>2 DEF Bounds
  <2>9. \A k \in Connections : k <= at => k # next
    BY <1>2, <2>1
  <2> QED BY <2>3, <2>8, <2>9
<1> QED BY <1>3, <1>4, <1>5 DEF LeaveSection

\* A walk that stops has gone through everything the pass goes through in the
\* section.
LEMMA WalkComplete ==
    ASSUME MInv, inside, Stops, NEW p \in Positions
    PROVE  Goes(at, p, axon) <=> p < pos
<1>1. /\ TypeOK /\ FilledPrefix /\ at \in Sections /\ Takes(at, axon)
      /\ \A q \in Positions : q < pos => border[at][q] > 0
      /\ rest = Part(at, axon) - Taken(border[at])[pos]
      /\ \A q \in Positions : q < pos => Taken(border[at])[q] < Part(at, axon)
  BY DEF MInv, IInv, InWalk, Walking
<1>2. /\ border[at] \in [Positions -> Nat] /\ Dim \in Nat /\ pos \in 0 .. Dim
      /\ p \in 0 .. Dim /\ p \in Int /\ p < Dim /\ Part(at, axon) \in Int
  <2>1. Dim \in Nat /\ border[at] \in [Positions -> Nat] /\ Part(at, axon) \in Int
    BY <1>1, WalkTypes DEF Takes
  <2> QED BY <1>1, <2>1 DEF TypeOK, Positions
<1>3. CASE p < pos
  BY <1>1, <1>3 DEF Goes
<1>4. CASE ~ (p < pos)
  <2>1. pos \in Positions /\ pos <= p
    BY <1>2, <1>4 DEF Positions
  <2>2. CASE ~ (rest > 0)
    <3>1. Taken(border[at])[pos] <= Taken(border[at])[p]
      BY <1>2, <2>1, TakenGrows
    <3>2. Taken(border[at])[pos] \in Nat /\ Taken(border[at])[p] \in Nat
      BY <1>2, TakenSteps
    <3>3. ~ (Taken(border[at])[p] < Part(at, axon))
      BY <1>1, <1>2, <2>2, <3>1, <3>2
    <3> QED BY <1>4, <3>3 DEF Goes
  <2>3. CASE rest > 0
    <3>1. border[at][pos] = 0
      BY <2>1, <2>3 DEF Stops, More
    <3>2. border[at][p] = 0
      BY <1>1, <2>1, <3>1, NothingBehind
    <3> QED BY <1>4, <3>2 DEF Goes
  <2> QED BY <2>2, <2>3
<1> QED BY <1>3, <1>4

\* Leaving a section changes the chain behind it, where the pass has not been.
LEMMA MemoryLeave ==
    ASSUME MInv, LeaveSection
    PROVE  MInv'
<1>1. IInv' /\ Bounds'
  BY LeaveStep, LeaveShape DEF MInv
<1>2. /\ UNCHANGED <<outs, border, axon, task, walked, trained>>
      /\ inside /\ inside' = FALSE /\ at' = at + 1 /\ Stops
      /\ task # "train" => conn' = conn
  BY DEF LeaveSection
<1>3. /\ TypeOK /\ Sections' = Sections /\ at \in Sections /\ at \in Nat /\ task # "idle"
      /\ Sections \subseteq Connections /\ \A s \in Sections : s \in Nat
      /\ trained.fresh = FALSE
  <2>1. TypeOK /\ Sections' = Sections /\ at \in Sections /\ task # "idle"
    BY <1>2 DEF MInv, IInv, InWalk, Sections
  <2>2. trained.fresh \in BOOLEAN /\ (trained.fresh => task = "idle")
    BY <2>1 DEF TypeOK, MInv, Marked
  <2> QED BY <2>1, <2>2, WalkTypes DEF Connections
<1>4. \A s \in Sections : s <= at =>
          /\ conn'[s].low = conn[s].low /\ conn'[s].used = conn[s].used
          /\ conn'[s].source = conn[s].source
  BY <1>3, LeaveShape
<1>5. Walking'
  BY <1>2 DEF Walking
<1>6. Walked'
  <2> SUFFICES ASSUME NEW s \in Sections, NEW p \in Positions
               PROVE  <<s, p>> \in walked <=> s < at + 1 /\ Goes(s, p, axon)'
    BY <1>2, <1>3 DEF Walked
  <2>1. <<s, p>> \in walked <=> \/ s < at /\ Goes(s, p, axon)
                                \/ s = at /\ p < pos
    BY <1>2, <1>3 DEF MInv, Walked
  <2>2. s < at + 1 <=> s < at \/ s = at
    BY <1>3
  <2>3. s < at + 1 => (Goes(s, p, axon)' <=> Goes(s, p, axon))
    <3>1. s < at + 1 => s <= at
      BY <1>3
    <3> QED BY <1>2, <1>4, <3>1 DEF Goes, Takes, Part
  <2>4. Goes(at, p, axon) <=> p < pos
    BY <1>2, WalkComplete
  <2>5. s < at => s # at
    BY <1>3
  <2> QED BY <2>1, <2>2, <2>3, <2>4, <2>5
<1>7. Marked'
  <2>1. ASSUME NEW s \in Sections, conn'[s].source # None, axon[conn'[s].source] # 0,
               task = "backpropagate" \/ (task = "train" /\ s < at + 1)
        PROVE  conn'[s].used
    <3>1. CASE task = "backpropagate"
      BY <1>2, <2>1, <3>1 DEF MInv, Marked
    <3>2. CASE task = "train" /\ s < at
      <4>1. s <= at
        BY <1>3, <3>2
      <4> QED BY <1>4, <2>1, <3>2, <4>1 DEF MInv, Marked
    <3>3. CASE s = at
      <4>1. s <= at /\ conn[s].used
        BY <1>2, <1>3, <3>3 DEF MInv, Walking, Takes
      <4> QED BY <1>4, <4>1
    <3>4. s < at + 1 => s < at \/ s = at
      BY <1>3
    <3> QED BY <2>1, <3>1, <3>2, <3>3, <3>4
  <2> QED BY <1>2, <1>3, <2>1 DEF MInv, Marked
<1>8. Memory'
  BY <1>2, <1>3 DEF MInv, Memory, Goes, Takes, Part
<1> QED BY <1>1, <1>5, <1>6, <1>7, <1>8 DEF MInv

\* A pass that has seen all sections has walked exactly what it goes through.
LEMMA PassComplete ==
    ASSUME MInv, task # "idle", at \notin Sections
    PROVE  /\ ~inside /\ \A s \in Sections : s < at
           /\ \A s \in Sections, p \in Positions : <<s, p>> \in walked <=> Goes(s, p, axon)
<1>1. ~inside
  BY DEF MInv, IInv, InWalk
<1>2. \A s \in Sections : s < at
  <2>1. at \in 0 .. 2 * Dim * outs /\ 2 * Dim * outs \in Nat
    BY SectionsInside DEF MInv, IInv, TypeOK
  <2>2. 2 * Dim * outs \in Nat /\ Sections = 0 .. 2 * Dim * outs - 1
    BY <2>1 DEF Sections, SectionsOf
  <2> DEFINE size == 2 * Dim * outs
  <2>3. at \in 0 .. size /\ size \in Nat /\ Sections = 0 .. size - 1
    BY <2>1, <2>2
  <2> HIDE DEF size
  <2> QED BY <2>3
<1> QED BY <1>1, <1>2 DEF MInv, Walked

\* The end of a training pass is what the block remembers from then on.
LEMMA MemoryEnd ==
    ASSUME MInv, EndPass
    PROVE  MInv'
<1>1. IInv'
  BY EndStep DEF MInv
<1>2. /\ UNCHANGED <<outs, border, conn, axon, inside, walked>>
      /\ task' = "idle" /\ task # "idle" /\ at \notin Sections /\ Sections' = Sections
  BY DEF EndPass, Sections
<1>3. /\ ~inside /\ (\A s \in Sections : s < at)
      /\ \A s \in Sections, p \in Positions : <<s, p>> \in walked <=> Goes(s, p, axon)
  BY <1>2, PassComplete
<1>4. Bounds' /\ Walking' /\ Walked'
  BY <1>2, <1>3 DEF MInv, Bounds, Walking, Walked, Capacity
<1>5. TypeOK /\ trained.fresh = FALSE
  <2>1. TypeOK
    BY DEF MInv, IInv
  <2>2. trained.fresh \in BOOLEAN /\ (trained.fresh => task = "idle")
    BY <2>1 DEF TypeOK, MInv, Marked
  <2> QED BY <1>2, <2>1, <2>2
<1>6. CASE task = "train"
  <2>1. trained'.axon = axon /\ trained'.walked = walked
    BY <1>6 DEF EndPass
  <2>2. Marked'
    BY <1>2, <1>3, <1>6, <2>1 DEF MInv, Marked
  <2>3. Memory'
    <3>1. walked \subseteq Sections \X Positions
      BY <1>5 DEF TypeOK
    <3>2. ASSUME NEW s \in Sections, NEW p \in Positions
          PROVE  Goes(s, p, trained.axon)' <=> Goes(s, p, axon)
      BY <1>2, <2>1 DEF Goes, Takes, Part
    <3> QED BY <1>2, <1>3, <2>1, <3>1, <3>2 DEF Memory
  <2> QED BY <1>1, <1>4, <2>2, <2>3 DEF MInv
<1>7. CASE task # "train"
  <2>1. trained' = trained
    BY <1>7 DEF EndPass
  <2>2. Marked'
    BY <1>2, <1>5, <2>1 DEF MInv, Marked
  <2>3. Memory'
    BY <1>2, <1>7, <2>1 DEF MInv, Memory, Goes, Takes, Part
  <2> QED BY <1>1, <1>4, <2>2, <2>3 DEF MInv
<1> QED BY <1>6, <1>7

\* The inductive invariant about what the block remembers.
THEOREM MemoryInvariance == Spec => []MInv
<1>1. MInv /\ [Next]_vars => MInv'
  <2> SUFFICES ASSUME MInv, [Next]_vars
               PROVE  MInv'
    OBVIOUS
  <2>1. CASE UNCHANGED vars
    <3>1. IInv'
      BY <2>1 DEF MInv, vars, where, IInv, TypeOK, Chains, ChainLinks, Allocated, Counted,
                  FilledPrefix, InWalk, Sections
    <3>2. Bounds' /\ Walking'
      BY <2>1 DEF MInv, vars, where, Bounds, Walking, Capacity, Takes, Part, Sections
    <3>3. Walked' /\ Marked' /\ Memory'
      BY <2>1 DEF MInv, vars, where, Walked, Marked, Memory, Goes, Takes, Part, Sections
    <3> QED BY <3>1, <3>2, <3>3 DEF MInv
  <2> QED BY <2>1, MemoryBegin, MemorySection, MemorySynapse, MemoryLeave, MemoryEnd DEF Next
<1> QED BY <1>1, MemoryInitially, PTL DEF Spec

\* A section whose bound is set never works on the part of the potential the
\* section before it can take.
THEOREM BoundsKept == Spec => []BoundsBehindPredecessor
<1>1. MInv => BoundsBehindPredecessor
  <2> SUFFICES ASSUME MInv PROVE BoundsBehindPredecessor
    OBVIOUS
  <2>1. Sections \subseteq Connections
    BY WalkTypes DEF MInv, IInv
  <2> QED BY <2>1 DEF MInv, Bounds, BoundsBehindPredecessor
<1> QED BY <1>1, MemoryInvariance, PTL

\* The deltas of a call go through exactly the synapses of its training pass,
\* and so does a request with the potentials of the last one.
THEOREM RecalledExactly == Spec => []Recalled
<1>1. MInv => Recalled
  <2> SUFFICES ASSUME MInv, task \in {"process", "backpropagate"}, at \notin Sections,
                      axon = trained.axon
               PROVE  walked = trained.walked
    BY DEF Recalled
  <2>1. \A s \in Sections, p \in Positions : <<s, p>> \in walked <=> Goes(s, p, axon)
    BY PassComplete
  <2>2. /\ trained.walked \subseteq Sections \X Positions
        /\ \A s \in Sections, p \in Positions : <<s, p>> \in trained.walked <=> Goes(s, p, axon)
    BY DEF MInv, Memory
  <2>3. walked \subseteq Sections \X Positions
    BY DEF MInv, IInv, TypeOK
  <2> QED BY <2>1, <2>2, <2>3
<1> QED BY <1>1, MemoryInvariance, PTL

=============================================================================
