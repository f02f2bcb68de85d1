-------------------------- MODULE InputLinksProofs --------------------------
(***************************************************************************)
(* Proofs about InputLinks: the links of an input block are distinct and   *)
(* inside its sections, and positive numbers are shown, for every size of  *)
(* a section, every set of numbers and every number of calls.              *)
(***************************************************************************)
EXTENDS InputLinks, FiniteSetTheorems, TLAPS

IInv == TypeOK /\ LinksDistinct /\ LinksInside /\ PositiveShown

-----------------------------------------------------------------------------
\* The numbers below a member of a finite set of positions: the further a
\* position, the more of them, and always less than the set has.
LEMMA Ranks ==
    ASSUME NEW n \in Nat, NEW S \in SUBSET (1 .. n)
    PROVE  /\ Cardinality(S) \in Nat
           /\ \A i \in S : /\ Cardinality({j \in S : j < i}) \in Nat
                           /\ Cardinality({j \in S : j < i}) < Cardinality(S)
           /\ \A i, k \in S : i < k =>
                  Cardinality({j \in S : j < i}) < Cardinality({j \in S : j < k})
<1> DEFINE Below(i) == {j \in S : j < i}
<1>1. IsFiniteSet(S) /\ Cardinality(S) \in Nat
  <2>1. IsFiniteSet(1 .. n)
    BY FS_Interval
  <2>2. IsFiniteSet(S)
    BY <2>1, FS_Subset
  <2> QED BY <2>2, FS_CardinalityType
<1>2. ASSUME NEW i \in S
      PROVE  IsFiniteSet(Below(i)) /\ Cardinality(Below(i)) \in Nat
                                   /\ Cardinality(Below(i)) < Cardinality(S)
  <2>1. Below(i) \in SUBSET S /\ Below(i) # S
    OBVIOUS
  <2>2. IsFiniteSet(Below(i)) /\ Cardinality(Below(i)) <= Cardinality(S)
                              /\ Cardinality(Below(i)) # Cardinality(S)
    BY <1>1, <2>1, FS_Subset
  <2> QED BY <1>1, <2>2, FS_CardinalityType
<1>3. ASSUME NEW i \in S, NEW k \in S, i < k
      PROVE  Cardinality(Below(i)) < Cardinality(Below(k))
  <2>1. Below(i) \in SUBSET Below(k) /\ Below(i) # Below(k)
    <3>1. i \in Below(k) /\ i \notin Below(i)
      BY <1>3
    <3>2. \A j \in Below(i) : j \in Below(k)
      BY <1>3
    <3> QED BY <3>1, <3>2
  <2>2. IsFiniteSet(Below(k)) /\ Cardinality(Below(i)) \in Nat /\ Cardinality(Below(k)) \in Nat
    BY <1>2
  <2>3. Cardinality(Below(i)) <= Cardinality(Below(k)) /\ Cardinality(Below(i)) # Cardinality(Below(k))
    BY <2>1, <2>2, FS_Subset
  <2> QED BY <2>2, <2>3
<1> QED BY <1>1, <1>2, <1>3

\* An input is a sequence of numbers.
LEMMA InputType ==
    ASSUME NEW in \in Inputs
    PROVE  in \in Seq(Int) /\ DOMAIN in = 1 .. Len(in) /\ Len(in) \in Nat
<1>1. PICK n \in 0 .. MaxValues : in \in [1 .. n -> Values]
  BY DEF Inputs
<1>2. n \in Nat
  BY SizesAssumption
<1>3. \A i \in 1 .. n : in[i] \in Int
  BY <1>1, ValuesAssumption
<1>4. in \in [1 .. n -> Int]
  BY <1>1, <1>3
<1>5. in \in Seq(Int) /\ DOMAIN in = 1 .. n /\ Len(in) = n
  BY <1>2, <1>4
<1> QED BY <1>2, <1>5

\* Widening: there are enough sections, and never fewer than before.
LEMMA WidenedEnough ==
    ASSUME NEW n \in Nat, sections \in Nat
    PROVE  Widened(n) \in Nat /\ Widened(n) >= sections /\ n <= Widened(n) * BlockDim
<1> DEFINE needed == (n + BlockDim - 1) \div BlockDim
           rest   == (n + BlockDim - 1) % BlockDim
<1>1. BlockDim \in Nat \ {0}
  BY SizesAssumption
<1>2. needed \in Nat /\ n + BlockDim - 1 = BlockDim * needed + rest
  BY <1>1, SMTT(30)
<1>3. rest \in Int /\ rest <= BlockDim - 1
  BY <1>1, SMTT(30)
<1>4. n <= needed * BlockDim
  <2> HIDE DEF needed, rest
  <2> QED BY <1>1, <1>2, <1>3
<1>5. CASE needed > sections
  <2>1. Widened(n) = needed
    BY <1>5 DEF Widened
  <2> HIDE DEF needed
  <2> QED BY <1>2, <1>4, <1>5, <2>1
<1>6. CASE ~ (needed > sections)
  <2>1. Widened(n) = sections
    BY <1>6 DEF Widened
  <2> HIDE DEF needed, rest
  <2>2. needed * BlockDim <= sections * BlockDim
    BY <1>1, <1>2, <1>6, SMTT(30)
  <2> QED BY <1>1, <1>2, <1>4, <2>1, <2>2
<1> QED BY <1>5, <1>6

-----------------------------------------------------------------------------
\* The links after the resize: the old ones, then values without links.
LEMMA ResizedKeeps ==
    ASSUME TypeOK, NEW in \in Inputs
    PROVE  /\ Resized(in) \in Seq([Signs -> LinkOf])
           /\ Len(in) <= Len(Resized(in)) /\ Len(links) <= Len(Resized(in))
           /\ \A i \in 1 .. Len(links) : Resized(in)[i] = links[i]
           /\ \A i \in 1 .. Len(Resized(in)) : i \notin 1 .. Len(links) =>
                  \A s \in Signs : Resized(in)[i][s] = Unlinked
<1> DEFINE n == IF Len(in) > Len(links) THEN Len(in) ELSE Len(links)
<1>1. Len(in) \in Nat /\ Len(links) \in Nat /\ links \in Seq([Signs -> LinkOf])
  BY InputType DEF TypeOK
<1>2. NoLink \in [Signs -> LinkOf] /\ \A s \in Signs : NoLink[s] = Unlinked
  BY DEF NoLink, LinkOf
<1>3. n \in Nat /\ n >= Len(in) /\ n >= Len(links)
  BY <1>1
<1>4. Resized(in) = [i \in 1 .. n |-> IF i <= Len(links) THEN links[i] ELSE NoLink]
  BY DEF Resized
<1> HIDE DEF n
<1>5. Resized(in) \in [1 .. n -> [Signs -> LinkOf]]
  BY <1>1, <1>2, <1>3, <1>4
<1>6. Resized(in) \in Seq([Signs -> LinkOf]) /\ Len(Resized(in)) = n
  BY <1>3, <1>5
<1> QED BY <1>1, <1>2, <1>3, <1>4, <1>6

\* Resizing gives no link away.
LEMMA ResizedDistinct ==
    ASSUME TypeOK, LinksDistinct, NEW in \in Inputs
    PROVE  \A i, j \in 1 .. Len(Resized(in)) : \A s, t \in Signs :
               Resized(in)[i][s] # Unlinked =>
                   /\ Resized(in)[i][s] < fill
                   /\ Resized(in)[i][s] = Resized(in)[j][t] => i = j /\ s = t
<1> SUFFICES ASSUME NEW i \in 1 .. Len(Resized(in)), NEW j \in 1 .. Len(Resized(in)),
                    NEW s \in Signs, NEW t \in Signs,
                    Resized(in)[i][s] # Unlinked
             PROVE  /\ Resized(in)[i][s] < fill
                    /\ Resized(in)[i][s] = Resized(in)[j][t] => i = j /\ s = t
  OBVIOUS
<1>1. i \in 1 .. Len(links) /\ Resized(in)[i] = links[i]
  BY ResizedKeeps
<1>2. Resized(in)[i][s] = Resized(in)[j][t] =>
          j \in 1 .. Len(links) /\ Resized(in)[j] = links[j]
  BY ResizedKeeps
<1> QED BY <1>1, <1>2 DEF LinksDistinct

-----------------------------------------------------------------------------
\* The links after a training: those of NewLinks(in) have one new axon each.
LEMMA LinkedShape ==
    ASSUME TypeOK, NEW in \in Inputs
    PROVE  /\ NewLinks(in) \in SUBSET (1 .. Len(in))
           /\ Linked(in) \in Seq([Signs -> LinkOf])
           /\ Len(Linked(in)) = Len(Resized(in))
           /\ \A i \in 1 .. Len(Linked(in)), s \in Signs :
                  IF i \in NewLinks(in) /\ s = SignOf(in[i])
                  THEN Linked(in)[i][s] = NextAxon(NewLinks(in), i)
                  ELSE Linked(in)[i][s] = Resized(in)[i][s]
<1> DEFINE R == Resized(in)
           N == NewLinks(in)
<1>1. R \in Seq([Signs -> LinkOf]) /\ Len(in) <= Len(R) /\ DOMAIN R = 1 .. Len(R)
  BY ResizedKeeps
<1>2. N \in SUBSET (1 .. Len(in)) /\ Len(in) \in Nat
  BY InputType DEF NewLinks
<1>3. \A i \in 1 .. Len(R) : R[i] \in [Signs -> LinkOf]
  BY <1>1
<1>4. \A i \in N : NextAxon(N, i) \in LinkOf /\ SignOf(in[i]) \in Signs
  <2> TAKE i \in N
  <2>1. Cardinality({j \in N : j < i}) \in Nat
    BY <1>2, Ranks
  <2>2. fill \in Nat
    BY DEF TypeOK
  <2> QED BY <2>1, <2>2 DEF NextAxon, LinkOf, SignOf, Signs
<1>5. Linked(in) = [i \in 1 .. Len(R) |->
                        IF i \in N THEN [R[i] EXCEPT ![SignOf(in[i])] = NextAxon(N, i)]
                                   ELSE R[i]]
  BY <1>1 DEF Linked
<1> HIDE DEF R, N
<1>6. \A i \in 1 .. Len(R) : Linked(in)[i] \in [Signs -> LinkOf]
  BY <1>3, <1>4, <1>5
<1>7. Linked(in) \in Seq([Signs -> LinkOf]) /\ Len(Linked(in)) = Len(R)
  <2>1. Linked(in) \in [1 .. Len(R) -> [Signs -> LinkOf]] /\ Len(R) \in Nat
    BY <1>1, <1>5, <1>6
  <2> QED BY <2>1
<1>8. ASSUME NEW i \in 1 .. Len(R), NEW s \in Signs
      PROVE  IF i \in N /\ s = SignOf(in[i]) THEN Linked(in)[i][s] = NextAxon(N, i)
                                             ELSE Linked(in)[i][s] = R[i][s]
  BY <1>3, <1>5
<1> QED BY <1>2, <1>7, <1>8 DEF R, N

\* A training hands out as many axons as it makes links, each once.
LEMMA LinkedDistinct ==
    ASSUME TypeOK, LinksDistinct, NEW in \in Inputs
    PROVE  /\ fill + Cardinality(NewLinks(in)) \in Nat
           /\ \A i, j \in 1 .. Len(Linked(in)) : \A s, t \in Signs :
                  Linked(in)[i][s] # Unlinked =>
                      /\ Linked(in)[i][s] < fill + Cardinality(NewLinks(in))
                      /\ Linked(in)[i][s] = Linked(in)[j][t] => i = j /\ s = t
<1> DEFINE L == Linked(in)
           N == NewLinks(in)
           R == Resized(in)
           Rank(i) == Cardinality({j \in N : j < i})
           Fresh(i, s) == i \in N /\ s = SignOf(in[i])
<1>1. N \in SUBSET (1 .. Len(in)) /\ Len(in) \in Nat /\ Len(L) = Len(R) /\ fill \in Nat
  BY LinkedShape, InputType DEF TypeOK
<1>2. Cardinality(N) \in Nat
  BY <1>1, Ranks
<1>3. \A i \in N : Rank(i) \in Nat /\ Rank(i) < Cardinality(N)
  BY <1>1, Ranks
<1>4. \A i, j \in N : Rank(i) = Rank(j) => i = j
  <2>1. ASSUME NEW i \in N, NEW j \in N, i < j
        PROVE  Rank(i) < Rank(j)
    BY <1>1, <2>1, Ranks
  <2> SUFFICES ASSUME NEW i \in N, NEW j \in N, i # j
               PROVE  Rank(i) # Rank(j)
    OBVIOUS
  <2>2. i \in Nat /\ j \in Nat /\ Rank(i) \in Nat /\ Rank(j) \in Nat
    BY <1>1, <1>3
  <2> HIDE DEF Rank
  <2>3. CASE i < j
    BY <2>1, <2>2, <2>3
  <2>4. CASE j < i
    BY <2>1, <2>2, <2>4
  <2> QED BY <2>2, <2>3, <2>4
<1>5. \A i \in 1 .. Len(L), s \in Signs :
          /\ Fresh(i, s) => L[i][s] = fill + Rank(i)
          /\ ~ Fresh(i, s) => L[i][s] = R[i][s]
  BY LinkedShape DEF NextAxon
<1>6. \A i, j \in 1 .. Len(L) : \A s, t \in Signs :
          R[i][s] # Unlinked => /\ R[i][s] \in Nat /\ R[i][s] < fill
                                /\ R[i][s] = R[j][t] => i = j /\ s = t
  <2>1. R \in Seq([Signs -> LinkOf])
    BY ResizedKeeps
  <2>2. \A i \in 1 .. Len(R), s \in Signs : R[i][s] # Unlinked => R[i][s] \in Nat
    BY <2>1 DEF LinkOf
  <2> QED BY <1>1, <2>2, ResizedDistinct
<1> HIDE DEF L, N, R, Rank
<1>7. ASSUME NEW i \in 1 .. Len(L), NEW j \in 1 .. Len(L), NEW s \in Signs, NEW t \in Signs,
             L[i][s] # Unlinked
      PROVE  /\ L[i][s] < fill + Cardinality(N)
             /\ L[i][s] = L[j][t] => i = j /\ s = t
  <2>1. CASE Fresh(i, s) /\ Fresh(j, t)
    <3>1. /\ i \in N /\ Rank(i) \in Nat /\ Rank(i) < Cardinality(N)
          /\ j \in N /\ Rank(j) \in Nat
      BY <1>3, <2>1
    <3>2. L[i][s] = fill + Rank(i) /\ L[j][t] = fill + Rank(j)
      BY <1>5, <2>1
    <3>3. L[i][s] = L[j][t] => Rank(i) = Rank(j)
      BY <1>1, <3>1, <3>2
    <3>4. L[i][s] = L[j][t] => i = j /\ s = t
      BY <1>4, <2>1, <3>1, <3>3
    <3> QED BY <1>1, <1>2, <3>1, <3>2, <3>4
  <2>2. CASE Fresh(i, s) /\ ~ Fresh(j, t)
    <3>1. L[i][s] = fill + Rank(i) /\ Rank(i) \in Nat /\ Rank(i) < Cardinality(N)
      BY <1>3, <1>5, <2>2
    <3>2. L[j][t] = R[j][t] /\ (R[j][t] # Unlinked => R[j][t] \in Nat /\ R[j][t] < fill)
      BY <1>5, <1>6, <2>2
    <3>3. L[i][s] # L[j][t]
      BY <1>1, <1>7, <3>1, <3>2
    <3> QED BY <1>1, <1>2, <3>1, <3>3
  <2>3. CASE ~ Fresh(i, s) /\ Fresh(j, t)
    <3>1. L[j][t] = fill + Rank(j) /\ Rank(j) \in Nat
      BY <1>3, <1>5, <2>3
    <3>2. L[i][s] = R[i][s] /\ R[i][s] \in Nat /\ R[i][s] < fill
      BY <1>5, <1>6, <1>7, <2>3
    <3>3. L[i][s] # L[j][t]
      BY <1>1, <3>1, <3>2
    <3> QED BY <1>1, <1>2, <3>2, <3>3
  <2>4. CASE ~ Fresh(i, s) /\ ~ Fresh(j, t)
    BY <1>1, <1>2, <1>5, <1>6, <1>7, <2>4
  <2> QED BY <2>1, <2>2, <2>3, <2>4
<1> QED BY <1>1, <1>2, <1>7 DEF L, N

-----------------------------------------------------------------------------
(* The steps.                                                              *)

\* The links stay typed, distinct and inside the sections.
LEMMA LinksStep ==
    ASSUME TypeOK, LinksDistinct, LinksInside, NEW in \in Inputs,
           ApplyTrain(in) \/ ApplyRequest(in)
    PROVE  /\ links' \in Seq([Signs -> LinkOf])
           /\ fill' \in Nat
           /\ sections' \in Nat
           /\ LinksDistinct'
           /\ LinksInside'
<1>1. CASE ApplyTrain(in)
  <2>1. links' = Linked(in) /\ fill' = fill + Cardinality(NewLinks(in))
        /\ sections' = Widened(fill')
    BY <1>1 DEF ApplyTrain
  <2>2. fill' \in Nat /\ sections \in Nat
    BY <2>1, LinkedDistinct DEF TypeOK
  <2>3. sections' \in Nat /\ fill' <= sections' * BlockDim
    BY <2>1, <2>2, WidenedEnough
  <2>4. LinksDistinct'
    BY <2>1, LinkedDistinct DEF LinksDistinct
  <2> QED BY <2>1, <2>2, <2>3, <2>4, LinkedShape DEF LinksInside
<1>2. CASE ApplyRequest(in)
  <2>1. links' = Resized(in) /\ fill' = fill /\ sections' = sections
    BY <1>2 DEF ApplyRequest
  <2>2. LinksDistinct'
    BY <2>1, ResizedDistinct DEF LinksDistinct
  <2> QED BY <2>1, <2>2, ResizedKeeps DEF TypeOK, LinksInside
<1> QED BY <1>1, <1>2

\* What a call with distinct links leaves at the axon of one of its numbers is
\* the magnitude of that number.
LEMMA AppliedShows ==
    ASSUME NEW in \in Seq(Int), NEW ln, NEW n \in Nat, NEW i \in DOMAIN in,
           ln[i][SignOf(in[i])] \in AxonsOf(n),
           \A j \in DOMAIN in : ln[j][SignOf(in[j])] = ln[i][SignOf(in[i])] => j = i
    PROVE  Applied(in, ln, n)[ln[i][SignOf(in[i])]] = Magnitude(in[i])
<1> DEFINE Target(j) == ln[j][SignOf(in[j])]
           a == Target(i)
<1>1. (CHOOSE j \in DOMAIN in : Target(j) = a) = i
  OBVIOUS
<1>2. NewPotential(in, ln, a) = Magnitude(in[i])
  BY <1>1 DEF NewPotential
<1> QED BY <1>2 DEF Applied

\* Positive numbers are shown at once.
LEMMA ShownStep ==
    ASSUME TypeOK, LinksDistinct, LinksInside, NEW in \in Inputs,
           \/ Train(in)
           \/ Request(in)
    PROVE  PositiveShown'
<1> SUFFICES ASSUME NEW i \in DOMAIN in, in[i] >= 0
             PROVE  /\ last'.kind = "train" /\ in[i] > 0 => links'[i]["pos"] # Unlinked
                    /\ links'[i]["pos"] # Unlinked =>
                           /\ links'[i]["pos"] \in Axons'
                           /\ potential'[links'[i]["pos"]] = in[i]
  BY DEF PositiveShown, Train, Request, Call
<1>1. ApplyTrain(in) \/ ApplyRequest(in)
  BY DEF Train, Request
<1>2. /\ links' \in Seq([Signs -> LinkOf]) /\ fill' \in Nat /\ sections' \in Nat
      /\ LinksDistinct' /\ LinksInside'
  BY <1>1, LinksStep
<1>3. in \in Seq(Int) /\ in[i] \in Int /\ i \in 1 .. Len(in) /\ Len(in) \in Nat
  BY InputType
<1>4. Len(in) <= Len(links') /\ Len(links') \in Nat
  BY <1>1, <1>2, <1>3, ResizedKeeps, LinkedShape DEF ApplyTrain, ApplyRequest
<1>5. SignOf(in[i]) = "pos" /\ Magnitude(in[i]) = in[i] /\ "pos" \in Signs
  BY <1>3 DEF SignOf, Magnitude, Signs
<1>6. ASSUME last'.kind = "train", in[i] > 0
      PROVE  links'[i]["pos"] # Unlinked
  <2>1. links' = Linked(in)
    BY <1>6 DEF Train, Request, Call, ApplyTrain
  <2>2. CASE i \in NewLinks(in)
    <3>1. links'[i]["pos"] = fill + Cardinality({j \in NewLinks(in) : j < i})
      <4>1. links'[i]["pos"] = NextAxon(NewLinks(in), i)
        BY <1>3, <1>4, <1>5, <2>1, <2>2, LinkedShape
      <4> QED BY <4>1 DEF NextAxon
    <3>2. Cardinality({j \in NewLinks(in) : j < i}) \in Nat /\ fill \in Nat
      BY <1>3, <2>2, LinkedShape, Ranks DEF TypeOK
    <3> QED BY <3>1, <3>2, UnlinkedAssumption
  <2>3. CASE i \notin NewLinks(in)
    <3>1. Resized(in)[i]["pos"] # Unlinked
      BY <1>3, <1>6, <2>3 DEF NewLinks
    <3>2. links'[i]["pos"] = Resized(in)[i]["pos"]
      BY <1>3, <1>4, <1>5, <2>1, <2>3, LinkedShape
    <3> QED BY <3>1, <3>2
  <2> QED BY <2>2, <2>3
<1>7. ASSUME links'[i]["pos"] # Unlinked
      PROVE  links'[i]["pos"] \in Axons' /\ potential'[links'[i]["pos"]] = in[i]
  <2>1. i \in 1 .. Len(links') /\ links'[i]["pos"] \in Nat /\ links'[i]["pos"] < fill'
    <3>1. i \in 1 .. Len(links')
      BY <1>3, <1>4
    <3>2. links'[i]["pos"] \in LinkOf
      BY <1>2, <1>5, <3>1
    <3> QED BY <1>2, <1>5, <1>7, <3>1, <3>2 DEF LinkOf, LinksDistinct
  <2>2. links'[i]["pos"] \in AxonsOf(sections')
    <3>1. sections' * BlockDim \in Nat
      <4>1. \A m \in Nat : m * BlockDim \in Nat
        BY SizesAssumption
      <4> QED BY <1>2, <4>1
    <3> QED BY <1>2, <2>1, <3>1 DEF LinksInside, AxonsOf
  <2>3. \A j \in DOMAIN in : links'[j][SignOf(in[j])] = links'[i]["pos"] => j = i
    <3> TAKE j \in DOMAIN in
    <3>1. j \in 1 .. Len(links') /\ SignOf(in[j]) \in Signs
      BY <1>3, <1>4 DEF SignOf, Signs
    <3> QED BY <1>2, <1>5, <1>7, <2>1, <3>1 DEF LinksDistinct
  <2>4. potential' = Applied(in, links', sections')
    BY <1>1 DEF ApplyTrain, ApplyRequest
  <2>5. potential'[links'[i]["pos"]] = in[i]
    BY <1>2, <1>3, <1>5, <2>2, <2>3, <2>4, AppliedShows
  <2> QED BY <2>2, <2>5 DEF Axons, AxonsOf
<1> QED BY <1>6, <1>7

-----------------------------------------------------------------------------
\* The inductive invariant: types, distinct links inside the sections, and what
\* the last call shows.
THEOREM LinksInvariance == Spec => []IInv
<1>1. Init => IInv
  <2> SUFFICES ASSUME Init
               PROVE  IInv
    OBVIOUS
  <2> USE DEF Init
  <2>1. <<>> \in Inputs
    <3>1. 0 \in 0 .. MaxValues /\ <<>> \in [1 .. 0 -> Values]
      BY SizesAssumption
    <3> QED BY <3>1 DEF Inputs
  <2>2. TypeOK
    BY <2>1, SizesAssumption DEF TypeOK
  <2>3. LinksDistinct /\ PositiveShown
    BY DEF LinksDistinct, PositiveShown
  <2>4. LinksInside
    BY SizesAssumption DEF LinksInside
  <2> QED BY <2>2, <2>3, <2>4 DEF IInv
<1>2. IInv /\ [Next]_vars => IInv'
  <2> SUFFICES ASSUME IInv, [Next]_vars
               PROVE  IInv'
    OBVIOUS
  <2>1. ASSUME NEW in \in Inputs, Train(in) \/ Request(in)
        PROVE  IInv'
    <3>1. ApplyTrain(in) \/ ApplyRequest(in)
      BY <2>1 DEF Train, Request
    <3>2. /\ links' \in Seq([Signs -> LinkOf]) /\ fill' \in Nat /\ sections' \in Nat
          /\ LinksDistinct' /\ LinksInside'
      BY <3>1, LinksStep DEF IInv
    <3>3. PositiveShown'
      BY <2>1, ShownStep DEF IInv
    <3>4. DOMAIN potential' = Axons'
      <4>1. potential' = Applied(in, links', sections')
        BY <3>1 DEF ApplyTrain, ApplyRequest
      <4> QED BY <4>1 DEF Applied, Axons, AxonsOf
    <3>5. last' \in [kind : {"none", "train", "request"}, in : Inputs] /\ count' \in 0 .. MaxCalls
      BY <2>1, SizesAssumption DEF Train, Request, Call, IInv, TypeOK
    <3> QED BY <3>2, <3>3, <3>4, <3>5 DEF IInv, TypeOK
  <2>2. CASE UNCHANGED vars
    BY <2>2 DEF IInv, TypeOK, LinksDistinct, LinksInside, PositiveShown, vars, Axons, AxonsOf
  <2> QED BY <2>1, <2>2 DEF Next
<1> QED BY <1>1, <1>2, PTL DEF Spec

\* Every variable has its type: the potentials cover the sections after every
\* widening.
THEOREM LinksTypeCorrect == Spec => []TypeOK
<1>1. IInv => TypeOK
  BY DEF IInv
<1> QED BY <1>1, LinksInvariance, PTL

\* No two numbers of an input share an axon, ever.
THEOREM DistinctLinks == Spec => []LinksDistinct
<1>1. IInv => LinksDistinct
  BY DEF IInv
<1> QED BY <1>1, LinksInvariance, PTL

\* There is a section for every axon that was handed out.
THEOREM InsideSections == Spec => []LinksInside
<1>1. IInv => LinksInside
  BY DEF IInv
<1> QED BY <1>1, LinksInvariance, PTL

\* A positive number is what the network sees of it.
THEOREM PositiveNumbersShown == Spec => []PositiveShown
<1>1. IInv => PositiveShown
  BY DEF IInv
<1> QED BY <1>1, LinksInvariance, PTL

\* The axon of a positive number is never taken away from it.
THEOREM PositiveLinksKept == Spec => PositiveLinksPersist
<1> DEFINE Kept == \A i \in 1 .. Len(links) : links[i]["pos"] # Unlinked =>
                       /\ i \in 1 .. Len(links')
                       /\ links'[i]["pos"] = links[i]["pos"]
<1>1. IInv /\ [Next]_vars => [Kept]_vars
  <2> SUFFICES ASSUME IInv, NEW in \in Inputs, Train(in) \/ Request(in),
                      NEW i \in 1 .. Len(links), links[i]["pos"] # Unlinked
               PROVE  i \in 1 .. Len(links') /\ links'[i]["pos"] = links[i]["pos"]
    BY DEF Next
  <2>1. TypeOK /\ links \in Seq([Signs -> LinkOf]) /\ Len(links) \in Nat /\ "pos" \in Signs
    BY DEF IInv, TypeOK, Signs
  <2>2. Resized(in) \in Seq([Signs -> LinkOf]) /\ i \in 1 .. Len(Resized(in))
        /\ Resized(in)[i]["pos"] = links[i]["pos"]
    BY <2>1, ResizedKeeps
  <2>3. CASE ApplyTrain(in)
    <3>1. i \notin NewLinks(in)
      BY <2>2 DEF NewLinks
    <3>2. Linked(in)[i]["pos"] = Resized(in)[i]["pos"] /\ Len(Linked(in)) = Len(Resized(in))
      <4>1. /\ Len(Linked(in)) = Len(Resized(in))
            /\ \A k \in 1 .. Len(Linked(in)), s \in Signs :
                   k \notin NewLinks(in) => Linked(in)[k][s] = Resized(in)[k][s]
        BY <2>1, LinkedShape
      <4> QED BY <2>1, <2>2, <3>1, <4>1
    <3> QED BY <2>2, <2>3, <3>2 DEF ApplyTrain
  <2>4. CASE ApplyRequest(in)
    BY <2>2, <2>4 DEF ApplyRequest
  <2> QED BY <2>3, <2>4 DEF Train, Request
<1> QED BY <1>1, LinksInvariance, PTL DEF Spec, PositiveLinksPersist
=============================================================================
