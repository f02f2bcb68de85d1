------------------------- MODULE OutputLayerProofs -------------------------
(***************************************************************************)
(* Proofs about OutputLayer: the output blocks and the buffer stay as long *)
(* as each other, the block that completes an output does so once the      *)
(* targets of its train are in, no block learns from a target, and a       *)
(* request hands out activated values, for any blocks, widths, lists and   *)
(* numbers.                                                                *)
(***************************************************************************)
EXTENDS OutputLayer, Integers, FiniteSetTheorems, WellFoundedInduction, TLAPS

-----------------------------------------------------------------------------
(* Induction. The library states it for an operator; for a set it follows  *)
(* from the least element of its complement.                               *)

Below == {ss \in Nat \X Nat : ss[1] < ss[2]}

\* A set of numbers that is not empty has a least element.
LEMMA LeastNumber ==
    ASSUME NEW T, T \subseteq Nat, T # {}
    PROVE  \E k \in T : \A m \in T : k <= m
<1>1. IsWellFoundedOn(Below, Nat)
  BY NatLessThanWellFounded DEF OpToRel, Below
<1>2. PICK k \in T : \A m \in T : <<m, k>> \notin Below
  BY <1>1, WFMin
<1>3. ASSUME NEW m \in T PROVE k <= m
  <2>1. m \in Nat /\ k \in Nat
    OBVIOUS
  <2>2. ~ (m < k)
    BY <1>2, <2>1 DEF Below
  <2> QED BY <2>1, <2>2
<1> QED BY <1>3

\* A set with 0 that holds the successor of each of its elements up to n holds
\* all numbers up to n.
LEMMA InductionUpTo ==
    ASSUME NEW n \in Nat, NEW S, 0 \in S, \A k \in 0 .. n - 1 : k \in S => k + 1 \in S
    PROVE  0 .. n \subseteq S
<1> DEFINE T == (0 .. n) \ S
<1> SUFFICES ASSUME T # {} PROVE FALSE
  OBVIOUS
<1>1. PICK k \in T : \A m \in T : k <= m
  <2>1. T \subseteq Nat
    OBVIOUS
  <2> HIDE DEF T
  <2> QED BY <2>1, LeastNumber
<1>2. k \in 0 .. n /\ k \notin S /\ k # 0
  BY <1>1
<1>3. k - 1 \in 0 .. n /\ k - 1 \in 0 .. n - 1 /\ k - 1 < k /\ (k - 1) + 1 = k
  BY <1>2
<1>4. k - 1 \in S
  BY <1>1, <1>2, <1>3
<1> QED BY <1>2, <1>3, <1>4

-----------------------------------------------------------------------------
(* Division. The provers know that a quotient and a remainder exist; that  *)
(* there is only one of each is what division by unknowns needs.           *)

\* A number is its quotient times the divisor and the remainder.
LEMMA DivisionParts ==
    ASSUME NEW n \in Nat, NEW d \in Nat \ {0}
    PROVE  /\ n \div d \in Nat /\ n % d \in Nat /\ n % d < d
           /\ n = d * (n \div d) + (n % d)
<1>1. n \div d \in Int /\ n % d \in 0 .. d - 1 /\ n = d * (n \div d) + (n % d)
  OBVIOUS
<1> DEFINE q == n \div d
           r == n % d
<1>2. q \in Int /\ r \in 0 .. d - 1 /\ n = d * q + r
  BY <1>1
<1> HIDE DEF q, r
<1>3. q >= 0
  <2> SUFFICES ASSUME q <= -1 PROVE FALSE
    BY <1>2
  <2>1. d * q <= d * (-1)
    BY <1>2
  <2> QED BY <1>2, <2>1
<1> QED BY <1>2, <1>3 DEF q, r

\* There is no other quotient.
LEMMA OneQuotient ==
    ASSUME NEW n \in Nat, NEW d \in Nat \ {0}, NEW q \in Nat, NEW r \in Nat,
           r < d, n = d * q + r
    PROVE  n \div d = q /\ n % d = r
<1> DEFINE p == n \div d
           s == n % d
<1>1. p \in Nat /\ s \in Nat /\ s < d /\ n = d * p + s
  BY DivisionParts
<1> HIDE DEF p, s
<1>2. ~ (p < q)
  <2> SUFFICES ASSUME p + 1 <= q PROVE FALSE
    BY <1>1
  <2>1. d * (p + 1) <= d * q
    BY <1>1
  <2>2. d * (p + 1) = d * p + d
    BY <1>1
  <2> DEFINE x == d * p
             y == d * q
  <2>3. x \in Int /\ y \in Int /\ n = x + s /\ n = y + r /\ x + d <= y
    BY <1>1, <2>1, <2>2
  <2> HIDE DEF x, y
  <2> QED BY <1>1, <2>3
<1>3. ~ (q < p)
  <2> SUFFICES ASSUME q + 1 <= p PROVE FALSE
    BY <1>1
  <2>1. d * (q + 1) <= d * p
    BY <1>1
  <2>2. d * (q + 1) = d * q + d
    BY <1>1
  <2> DEFINE x == d * p
             y == d * q
  <2>3. x \in Int /\ y \in Int /\ n = x + s /\ n = y + r /\ y + d <= x
    BY <1>1, <2>1, <2>2
  <2> HIDE DEF x, y
  <2> QED BY <1>1, <2>3
<1>4. p = q
  BY <1>1, <1>2, <1>3
<1>5. s = r
  <2> DEFINE x == d * q
  <2>1. x \in Int /\ n = x + s /\ n = x + r
    BY <1>1, <1>4
  <2> HIDE DEF x
  <2> QED BY <1>1, <2>1
<1> QED BY <1>4, <1>5 DEF p, s

\* To divide by twice as much is to divide and to halve: the bit at the end of
\* the larger quotient is what the smaller one leaves out.
LEMMA Halved ==
    ASSUME NEW n \in Nat, NEW d \in Nat \ {0}
    PROVE  n \div d = 2 * (n \div (2 * d)) + ((n \div d) % 2)
<1> DEFINE q == n \div d
           r == n % d
           h == q \div 2
           b == q % 2
<1>1. q \in Nat /\ r \in Nat /\ r < d /\ n = d * q + r
  BY DivisionParts
<1> HIDE DEF q, r
<1>2. h \in Nat /\ b \in {0, 1} /\ q = 2 * h + b
  BY <1>1
<1> HIDE DEF h, b
<1>3. n = (2 * d) * h + (d * b + r) /\ d * b + r \in Nat /\ d * b + r < 2 * d /\ 2 * d \in Nat \ {0}
  <2>1. d * q = d * (2 * h + b) /\ d * (2 * h + b) = (2 * d) * h + d * b
    BY <1>2
  <2>2. d * b = 0 \/ d * b = d
    BY <1>2
  <2> DEFINE x == (2 * d) * h
             y == d * b
             z == d * q
  <2>3. x \in Int /\ y \in Int /\ z \in Int /\ z = x + y /\ n = z + r /\ (y = 0 \/ y = d)
    BY <1>1, <1>2, <2>1, <2>2
  <2> HIDE DEF x, y, z
  <2>4. n = x + (y + r) /\ y + r \in Nat /\ y + r < 2 * d
    BY <1>1, <2>3
  <2> QED BY <2>4 DEF x, y
<1>4. n \div (2 * d) = h
  <2> DEFINE e == 2 * d
             s == d * b + r
  <2>1. e \in Nat \ {0} /\ s \in Nat /\ s < e /\ n = e * h + s
    BY <1>3
  <2> HIDE DEF e, s
  <2>2. n \div e = h
    BY <1>2, <2>1, OneQuotient
  <2> QED BY <2>2 DEF e
<1> QED BY <1>2, <1>4 DEF q, h, b

-----------------------------------------------------------------------------
(* Powers of two. The provers have no rule for them; what they need follows *)
(* from the number of the subsets of 1 .. n, which is 2^n.                  *)

\* One number more has twice as many subsets: each with and without it.
LEMMA PowerStep ==
    ASSUME NEW k \in Nat
    PROVE  2^(k + 1) = 2 * 2^k /\ 2^k \in Int /\ 2^(k + 1) \in Int
<1> DEFINE S == 1 .. k
           T == 1 .. k + 1
           A == SUBSET S
           B == {a \cup {k + 1} : a \in A}
<1>1. IsFiniteSet(S) /\ Cardinality(S) = k /\ IsFiniteSet(T) /\ Cardinality(T) = k + 1
  <2>1. 1 \in Int /\ k \in Int /\ k + 1 \in Int /\ ~ (1 > k + 1) /\ (1 > k => k = 0)
    OBVIOUS
  <2>2. Cardinality(S) = (IF 1 > k THEN 0 ELSE k - 1 + 1) /\ IsFiniteSet(S)
    BY <2>1, FS_Interval
  <2>3. Cardinality(T) = (IF 1 > k + 1 THEN 0 ELSE (k + 1) - 1 + 1) /\ IsFiniteSet(T)
    BY <2>1, FS_Interval
  <2> QED BY <2>1, <2>2, <2>3
<1>2. /\ IsFiniteSet(A) /\ Cardinality(A) = 2^k
      /\ IsFiniteSet(SUBSET T) /\ Cardinality(SUBSET T) = 2^(k + 1)
  <2> HIDE DEF S, T
  <2> QED BY <1>1, FS_SUBSET
<1>3. T = S \cup {k + 1} /\ k + 1 \notin S
  OBVIOUS
<1>4. IsFiniteSet(B) /\ Cardinality(B) = Cardinality(A)
  <2> DEFINE f == [a \in A |-> a \cup {k + 1}]
  <2>1. f \in Bijection(A, B)
    <3>1. f \in [A -> B]
      OBVIOUS
    <3>2. \A a, b \in A : f[a] = f[b] => a = b
      BY <1>3
    <3>3. \A c \in B : \E a \in A : f[a] = c
      OBVIOUS
    <3> QED BY <3>1, <3>2, <3>3 DEF Bijection, Injection, Surjection, IsInjective
  <2>2. ExistsBijection(A, B)
    BY <2>1 DEF ExistsBijection
  <2> HIDE DEF A, B
  <2> QED BY <1>2, <2>2, FS_Bijection
<1>5. SUBSET T = A \cup B /\ A \cap B = {}
  <2>1. ASSUME NEW c \in SUBSET T PROVE c \in A \cup B
    <3>1. CASE k + 1 \in c
      <4>1. c = (c \ {k + 1}) \cup {k + 1} /\ c \ {k + 1} \in A
        BY <1>3, <3>1
      <4> QED BY <4>1
    <3>2. CASE k + 1 \notin c
      BY <1>3, <3>2
    <3> QED BY <3>1, <3>2
  <2>2. A \cup B \subseteq SUBSET T
    BY <1>3
  <2>3. A \cap B = {}
    BY <1>3
  <2> QED BY <2>1, <2>2, <2>3
<1>6. Cardinality(A \cup B) = Cardinality(A) + Cardinality(B) - Cardinality(A \cap B)
  <2> HIDE DEF A, B
  <2> QED BY <1>2, <1>4, FS_Union
<1>7. Cardinality({}) = 0 /\ Cardinality(A) \in Nat /\ Cardinality(SUBSET T) \in Nat
  <2> HIDE DEF A, T
  <2> QED BY <1>2, FS_EmptySet, FS_CardinalityType
<1> DEFINE x == 2^k
           y == 2^(k + 1)
           a == Cardinality(A)
           b == Cardinality(B)
           c == Cardinality(SUBSET T)
<1>8. a = x /\ c = y /\ b = a /\ c = a + b - 0 /\ a \in Nat /\ c \in Nat
  BY <1>2, <1>4, <1>5, <1>6, <1>7
<1> HIDE DEF a, b, c, x, y
<1>9. y = 2 * x /\ x \in Int /\ y \in Int
  BY <1>8
<1> QED BY <1>9 DEF x, y

\* The powers are positive.
LEMMA PowerPositive ==
    ASSUME NEW n \in Nat
    PROVE  2^n \in Nat \ {0}
<1> DEFINE S == {k \in 0 .. n : 2^k \in Nat \ {0}}
<1>1. 0 \in S
  <2>1. 2^0 = 1
    OBVIOUS
  <2> QED BY <2>1
<1>2. ASSUME NEW k \in 0 .. n - 1, k \in S PROVE k + 1 \in S
  <2> DEFINE x == 2^k
             y == 2^(k + 1)
  <2>1. y = 2 * x /\ x \in Nat \ {0}
    BY <1>2, PowerStep
  <2> HIDE DEF x, y
  <2>2. y \in Nat \ {0}
    BY <2>1
  <2> QED BY <1>2, <2>2 DEF y
<1> HIDE DEF S
<1>3. 0 .. n \subseteq S
  BY <1>1, <1>2, InductionUpTo
<1> QED BY <1>3 DEF S

\* The exponents of a product add up.
LEMMA PowerSum ==
    ASSUME NEW m \in Nat, NEW n \in Nat
    PROVE  2^(m + n) = 2^m * 2^n
<1> DEFINE S == {k \in 0 .. n : 2^(m + k) = 2^m * 2^k}
<1>1. 0 \in S
  <2>1. 2^0 = 1 /\ m + 0 = m /\ 2^m \in Int
    BY PowerPositive
  <2> QED BY <2>1
<1>2. ASSUME NEW k \in 0 .. n - 1, k \in S PROVE k + 1 \in S
  <2>1. k \in Nat /\ m + k \in Nat /\ m + (k + 1) = (m + k) + 1
    BY <1>2
  <2>2. 2^(k + 1) = 2 * 2^k /\ 2^((m + k) + 1) = 2 * 2^(m + k)
    BY <2>1, PowerStep
  <2>3. 2^m \in Int /\ 2^k \in Int /\ 2^(m + k) = 2^m * 2^k
    BY <1>2, <2>1, PowerPositive
  <2> DEFINE x == 2^m
             y == 2^k
  <2>4. x \in Int /\ y \in Int
    BY <2>3
  <2>5. 2^(m + (k + 1)) = 2 * (x * y) /\ 2^(k + 1) = 2 * y
    BY <2>1, <2>2, <2>3
  <2>6. 2 * (x * y) = x * (2 * y)
    <3> HIDE DEF x, y
    <3> QED BY <2>4
  <2>7. 2^(m + (k + 1)) = 2^m * 2^(k + 1)
    BY <2>5, <2>6
  <2> QED BY <1>2, <2>7
<1> HIDE DEF S
<1>3. 0 .. n \subseteq S
  BY <1>1, <1>2, InductionUpTo
<1> QED BY <1>3 DEF S

\* A larger exponent gives a multiple.
LEMMA PowerOrder ==
    ASSUME NEW m \in Nat, NEW n \in Nat, m <= n
    PROVE  2^n = 2^m * 2^(n - m) /\ 2^m <= 2^n /\ (m < n => 2 * 2^m <= 2^n)
<1>1. n - m \in Nat /\ n = m + (n - m)
  OBVIOUS
<1>2. 2^n = 2^m * 2^(n - m)
  BY <1>1, PowerSum
<1>3. 2^m \in Nat \ {0} /\ 2^(n - m) \in Nat \ {0}
  BY <1>1, PowerPositive
<1>4. m < n => \E z \in Nat \ {0} : 2^(n - m) = 2 * z
  <2> SUFFICES ASSUME m < n PROVE \E z \in Nat \ {0} : 2^(n - m) = 2 * z
    OBVIOUS
  <2>1. (n - m) - 1 \in Nat /\ n - m = ((n - m) - 1) + 1
    OBVIOUS
  <2>2. 2^(n - m) = 2 * 2^((n - m) - 1) /\ 2^((n - m) - 1) \in Nat \ {0}
    BY <2>1, PowerStep, PowerPositive
  <2> QED BY <2>2
<1> DEFINE x == 2^m
           y == 2^(n - m)
           w == 2^n
<1>5. x \in Nat \ {0} /\ y \in Nat \ {0} /\ w = x * y
      /\ (m < n => \E z \in Nat \ {0} : y = 2 * z)
  BY <1>2, <1>3, <1>4
<1> HIDE DEF x, y, w
<1>6. x <= w
  BY <1>5
<1>7. m < n => 2 * x <= w
  <2> SUFFICES ASSUME m < n PROVE 2 * x <= w
    OBVIOUS
  <2>1. PICK z \in Nat \ {0} : y = 2 * z
    BY <1>5
  <2>2. w = (2 * x) * z
    BY <1>5, <2>1
  <2> DEFINE u == 2 * x
  <2>3. u \in Nat /\ w = u * z
    BY <1>5, <2>2
  <2> HIDE DEF u
  <2>4. u <= w
    BY <2>1, <2>3
  <2> QED BY <2>4 DEF u
<1> QED BY <1>2, <1>6, <1>7 DEF x, w

-----------------------------------------------------------------------------
(* The inductive invariant.                                                *)

Fields == {"value", "target", "gradient", "call"}
Tasks  == {"train", "joined", "sized", "waits", "gradient", "backward", "process", "asked"}
NoneStale == [b \in Blocks |-> 0]

\* The lengths of the buffer and of the blocks.
Sizes ==
    /\ type \in Types /\ size \in Nat
    /\ DOMAIN neurons = 1 .. size * WidthOf
    /\ \A k \in DOMAIN neurons : DOMAIN neurons[k] = Fields
    /\ outs \in [Blocks -> Nat] /\ rows \in [Blocks -> Nat]
    /\ \A b \in Blocks : outs[b] <= rows[b] /\ rows[b] <= size * WidthOf

\* The counters, and the sets of blocks they stand for.
Numbered ==
    /\ finalized \in BOOLEAN /\ connected \in Nat /\ local \in Nat
    /\ reports \in Nat /\ calls \in Nat
    /\ linked \subseteq attached /\ attached \subseteq Blocks
    /\ IsFiniteSet(attached) /\ connected = Cardinality(attached)
    /\ unfinished \subseteq Blocks /\ IsFiniteSet(unfinished)
    /\ todo \in [Blocks -> SUBSET Tasks] /\ stale = NoneStale
    /\ kind \in {"none", "train", "request"}

\* Between the calls nothing is left of them.
Idle ==
    kind = "none" =>
        /\ unfinished = {} /\ \A b \in Blocks : todo[b] = {}
        /\ calls > 0 /\ Blocks # {} => reports > 0

AllGradients == \A k \in DOMAIN neurons : neurons[k].gradient

\* The points on the way of a block through a train, and what holds there.
Way == {{"train"}, {"joined"}, {"sized"}, {"waits"}, {"gradient"}, {"backward"}, {}}

OnWay(b) ==
    /\ todo[b] \in Way
    /\ todo[b] # {"train"} => b \in attached
    /\ todo[b] \notin {{"train"}, {"joined"}} => rows[b] = size * WidthOf
    /\ todo[b] \in {{"gradient"}, {"backward"}, {}} => finalized
    /\ todo[b] = {"waits"} <=> b \in unfinished

\* A train: every block is at one point of its way; until one of them completes
\* the output, the blocks that wait are fewer than those that are connected.
Training ==
    kind = "train" =>
        /\ \A b \in Blocks : OnWay(b)
        /\ finalized => unfinished = {} /\ reports > 0 /\ AllGradients
        /\ ~finalized =>
               /\ local = Cardinality(unfinished)
               /\ unfinished # {} => local < connected
               /\ \A k \in 1 .. Len(given) * WidthOf : k \in DOMAIN neurons /\ IsFresh(neurons[k])

Done == {b \in Blocks : todo[b] = {}}

Activated(ns) == \A k \in DOMAIN ns : ns[k].value \in 0 .. One

\* A request to a model that was trained: all blocks are counted, so that only
\* the last one that adds to the neurons reports, and activates them.
Requesting ==
    kind = "request" =>
        /\ unfinished = {} /\ attached = Blocks
        /\ \A b \in Blocks : todo[b] \in {{"process"}, {"asked"}, {}}
        /\ IsFiniteSet(Done) /\ local = Cardinality(Done)
        /\ reports = 0 /\ Done # {} => local < connected
        /\ reports > 0 => Done = Blocks /\ Activated(neurons)

AnswerInv == type = "plain" => \A i \in DOMAIN answer : answer[i] \in 0 .. One

Inv == Sizes /\ Numbered /\ Idle /\ Training /\ Requesting /\ AnswerInv

-----------------------------------------------------------------------------
(* Lengths.                                                                *)

\* A value has at least one neuron.
LEMMA WidthType ==
    ASSUME type \in Types
    PROVE  WidthOf \in Nat \ {0} /\ (type = "plain" => WidthOf = 1)
BY WidthAssumption, OtherAssumption DEF WidthOf, AllTypes

\* A neuron belongs to one of the values it was made for.
LEMMA NeuronValue ==
    ASSUME NEW w \in Nat \ {0}, NEW n \in Nat, NEW k \in 1 .. n * w
    PROVE  (k - 1) \div w + 1 \in 1 .. n /\ ((k - 1) % w) + 1 \in 1 .. w
OBVIOUS

\* More values, more neurons.
LEMMA MoreValues ==
    ASSUME NEW w \in Nat \ {0}, NEW m \in Nat, NEW n \in Nat, m <= n
    PROVE  m * w <= n * w /\ m * w \in Nat /\ n * w \in Nat
BY SMTT(30)

\* Clearing, adding and activating keep the neurons and all but their values.
LEMMA ClearedNeurons ==
    ASSUME NEW ns, \A k \in DOMAIN ns : DOMAIN ns[k] = Fields
    PROVE  /\ DOMAIN Cleared(ns) = DOMAIN ns
           /\ \A k \in DOMAIN ns : DOMAIN Cleared(ns)[k] = Fields
BY DEF Cleared

LEMMA AddedNeurons ==
    ASSUME NEW ns, NEW sums, \A k \in DOMAIN ns : DOMAIN ns[k] = Fields
    PROVE  /\ DOMAIN Added(ns, sums) = DOMAIN ns
           /\ \A k \in DOMAIN ns : /\ DOMAIN Added(ns, sums)[k] = Fields
                                   /\ Added(ns, sums)[k].gradient = ns[k].gradient
                                   /\ Added(ns, sums)[k].call = ns[k].call
BY DEF Added, Fields

LEMMA SquashedNeurons ==
    ASSUME NEW ns, \A k \in DOMAIN ns : DOMAIN ns[k] = Fields
    PROVE  /\ DOMAIN Squashed(ns) = DOMAIN ns
           /\ \A k \in DOMAIN ns : DOMAIN Squashed(ns)[k] = Fields
           /\ Activated(Squashed(ns))
<1>1. DOMAIN Squashed(ns) = DOMAIN ns /\ \A k \in DOMAIN ns : DOMAIN Squashed(ns)[k] = Fields
  BY DEF Squashed
<1>2. ASSUME NEW k \in DOMAIN ns PROVE Squashed(ns)[k].value \in 0 .. One
  <2>1. Squashed(ns)[k].value = Sigmoid(ns[k].value)
    BY DEF Squashed, Fields
  <2>2. Sigmoid(ns[k].value) \in {0, 2, 4, 6}
    BY DEF Sigmoid
  <2> QED BY <2>1, <2>2 DEF One
<1> QED BY <1>1, <1>2 DEF Activated

\* The gradients take the place of all the targets.
LEMMA GradientNeurons ==
    ASSUME NEW ns, \A k \in DOMAIN ns : DOMAIN ns[k] = Fields
    PROVE  /\ DOMAIN Gradients(ns) = DOMAIN ns
           /\ \A k \in DOMAIN ns : /\ DOMAIN Gradients(ns)[k] = Fields
                                   /\ Gradients(ns)[k].gradient
BY DEF Gradients, Fields

\* A train makes neurons for the values it gives and none is lost; the neurons
\* of these values get their targets.
LEMMA ExpectedNeurons ==
    ASSUME Sizes, NEW ns, NEW list \in Seq(Numbers), NEW c,
           DOMAIN ns = DOMAIN neurons, \A k \in DOMAIN ns : DOMAIN ns[k] = Fields,
           NEW n \in Nat, n = IF size < Len(list) THEN Len(list) ELSE size
    PROVE  LET new == Expected(Updated(ns, Len(list)), list, c)
           IN  /\ DOMAIN new = 1 .. n * WidthOf
               /\ \A k \in DOMAIN new : DOMAIN new[k] = Fields
               /\ \A k \in 1 .. Len(list) * WidthOf :
                      k \in DOMAIN new /\ ~new[k].gradient /\ new[k].call = c
<1> DEFINE old == Updated(ns, Len(list))
           new == Expected(old, list, c)
           w == WidthOf
<1>1. w \in Nat \ {0} /\ Len(list) \in Nat /\ size \in Nat /\ DOMAIN list = 1 .. Len(list)
  BY WidthType DEF Sizes
<1>2. DOMAIN ns = 1 .. size * w
  BY DEF Sizes
<1>3. DOMAIN old = 1 .. n * w /\ \A k \in DOMAIN old : DOMAIN old[k] = Fields
  <2>1. CASE size < Len(list)
    <3>1. old = [k \in 1 .. n * w |-> IF k \in DOMAIN ns THEN ns[k] ELSE NewNeuron]
      BY <2>1 DEF Updated
    <3>2. DOMAIN NewNeuron = Fields
      BY DEF NewNeuron, Fields
    <3> HIDE DEF old, w
    <3> QED BY <3>1, <3>2
  <2>2. CASE ~ (size < Len(list))
    BY <1>2, <2>2 DEF Updated
  <2> QED BY <2>1, <2>2
<1> HIDE DEF old
<1>4. /\ DOMAIN new = DOMAIN old
      /\ \A k \in DOMAIN old : DOMAIN new[k] = Fields
      /\ \A k \in DOMAIN old : (k - 1) \div w + 1 \in DOMAIN list =>
             ~new[k].gradient /\ new[k].call = c
  BY <1>3 DEF Expected, Fields
<1> HIDE DEF new, w
<1>5. \A k \in 1 .. Len(list) * w : k \in 1 .. n * w /\ (k - 1) \div w + 1 \in DOMAIN list
  <2> TAKE k \in 1 .. Len(list) * w
  <2>1. (k - 1) \div w + 1 \in 1 .. Len(list)
    BY <1>1, NeuronValue
  <2>2. Len(list) <= n
    <3> DEFINE m == Len(list)
    <3>1. n = (IF size < m THEN m ELSE size) /\ m \in Nat /\ size \in Nat
      BY <1>1
    <3> HIDE DEF m
    <3>2. m <= n
      BY <3>1
    <3> QED BY <3>2 DEF m
  <2>3. Len(list) * w <= n * w /\ Len(list) * w \in Nat /\ n * w \in Nat
    BY <1>1, <2>2, MoreValues
  <2>4. k \in 1 .. n * w
    <3> HIDE DEF w
    <3> DEFINE small == Len(list) * w
               large == n * w
    <3>1. k \in 1 .. small /\ small <= large /\ small \in Nat /\ large \in Nat
      BY <2>3
    <3> HIDE DEF small, large
    <3>2. k \in 1 .. large
      BY <3>1
    <3> QED BY <3>2 DEF large
  <2> QED BY <1>1, <2>1, <2>4
<1> QED BY <1>3, <1>4, <1>5 DEF new, old, w
-----------------------------------------------------------------------------
(* Numbers. What the neurons of a value stand for is defined by recursion, *)
(* so facts about it are proved by induction (InductionUpTo).              *)

High(v) == IF IsHigh(v) THEN 1 ELSE 0

\* The recursion has a solution, so Packing satisfies it.
LEMMA PackingEquation ==
    ASSUME NEW values, NEW w \in Nat, Len(values) = w
    PROVE  Packing(values)
               = [k \in 0 .. w |-> IF k = 0 THEN 0 ELSE 2 * Packing(values)[k - 1] + High(values[k])]
<1> DEFINE Packs(g, n) == g[0] = 0 /\ \A k \in 1 .. n : g[k] = 2 * g[k - 1] + High(values[k])
           S == {n \in 0 .. w : \E g \in [0 .. w -> Int] : Packs(g, n)}
<1>0. \A v : High(v) \in 0 .. 1
  BY DEF High
<1>1. 0 \in S
  <2> DEFINE g == [k \in 0 .. w |-> 0]
  <2>1. g \in [0 .. w -> Int] /\ Packs(g, 0) /\ 0 \in 0 .. w
    OBVIOUS
  <2> HIDE DEF g, Packs
  <2> QED BY <2>1
<1>2. ASSUME NEW n \in 0 .. w - 1, n \in S PROVE n + 1 \in S
  <2>1. PICK g \in [0 .. w -> Int] : Packs(g, n)
    BY <1>2
  <2> DEFINE h == [g EXCEPT ![n + 1] = 2 * g[n] + High(values[n + 1])]
  <2>2. n + 1 \in 0 .. w /\ n \in 0 .. w /\ High(values[n + 1]) \in Int /\ g[n] \in Int
    BY <1>0, <1>2
  <2>3. h \in [0 .. w -> Int]
    BY <2>2
  <2>4. Packs(h, n + 1)
    <3>1. h[0] = 0
      BY <2>1, <2>2
    <3>2. ASSUME NEW k \in 1 .. n + 1 PROVE h[k] = 2 * h[k - 1] + High(values[k])
      <4>1. k \in 0 .. w /\ k - 1 \in 0 .. w /\ k - 1 # n + 1
        <5>1. n \in Int /\ n + 1 <= w /\ k \in Int /\ 1 <= k /\ k <= n + 1
          BY <1>2, <3>2
        <5> QED BY <5>1
      <4>2. CASE k = n + 1
        <5>1. h[k] = 2 * g[n] + High(values[k]) /\ h[k - 1] = g[n] /\ k - 1 = n
          BY <2>2, <4>1, <4>2
        <5> QED BY <5>1
      <4>3. CASE k # n + 1
        <5>1. k \in 1 .. n
          BY <3>2, <4>3
        <5>2. h[k] = g[k] /\ h[k - 1] = g[k - 1]
          BY <4>1, <4>3
        <5> QED BY <2>1, <5>1, <5>2
      <4> QED BY <4>2, <4>3
    <3> QED BY <3>1, <3>2
  <2> HIDE DEF h, Packs
  <2> QED BY <2>2, <2>3, <2>4
<1>3. w \in S
  <2> HIDE DEF S
  <2>1. 0 .. w \subseteq S
    BY <1>1, <1>2, InductionUpTo
  <2> QED BY <2>1
<1>4. PICK g \in [0 .. w -> Int] : Packs(g, w)
  BY <1>3
<1>5. g = [k \in 0 .. w |-> IF k = 0 THEN 0 ELSE 2 * g[k - 1] + High(values[k])]
  <2>1. \A k \in 0 .. w : g[k] = IF k = 0 THEN 0 ELSE 2 * g[k - 1] + High(values[k])
    BY <1>4
  <2> QED BY <2>1
<1> QED BY <1>5 DEF Packing, High

\* The first neuron counts most.
LEMMA PackingSteps ==
    ASSUME NEW values, NEW w \in Nat, Len(values) = w
    PROVE  /\ Packing(values)[0] = 0
           /\ \A k \in 0 .. w - 1 :
                  Packing(values)[k + 1] = 2 * Packing(values)[k] + High(values[k + 1])
<1>1. Packing(values)[0] = 0
  BY PackingEquation
<1>2. ASSUME NEW k \in 0 .. w - 1
      PROVE  Packing(values)[k + 1] = 2 * Packing(values)[k] + High(values[k + 1])
  <2> DEFINE g == Packing(values)
  <2>1. k + 1 \in 0 .. w /\ k + 1 # 0 /\ (k + 1) - 1 = k
    BY <1>2
  <2>2. g = [m \in 0 .. w |-> IF m = 0 THEN 0 ELSE 2 * g[m - 1] + High(values[m])]
    BY PackingEquation
  <2> HIDE DEF g
  <2>3. \A m \in 0 .. w : g[m] = IF m = 0 THEN 0 ELSE 2 * g[m - 1] + High(values[m])
    BY <2>2
  <2>4. g[k + 1] = 2 * g[k] + High(values[k + 1])
    BY <2>1, <2>3
  <2> QED BY <2>4 DEF g
<1> QED BY <1>1, <1>2

\* w neurons stand for a number of w bits.
LEMMA PackedRange ==
    ASSUME NEW values, NEW w \in Nat, Len(values) = w
    PROVE  Packed(values) \in 0 .. 2^w - 1
<1> DEFINE P == Packing(values)
           S == {k \in 0 .. w : P[k] \in 0 .. 2^k - 1}
<1>1. 0 \in S
  <2>1. 2^0 = 1 /\ P[0] = 0
    BY PackingSteps
  <2> QED BY <2>1
<1>2. ASSUME NEW k \in 0 .. w - 1, k \in S PROVE k + 1 \in S
  <2> DEFINE p == P[k]
             q == P[k + 1]
             x == 2^k
             y == 2^(k + 1)
  <2>1. q = 2 * p + High(values[k + 1]) /\ High(values[k + 1]) \in 0 .. 1
    BY <1>2, PackingSteps DEF High
  <2>2. p \in 0 .. x - 1 /\ y = 2 * x /\ x \in Int
    BY <1>2, PowerStep
  <2>3. k + 1 \in 0 .. w
    BY <1>2
  <2>4. q \in 0 .. y - 1
    <3> HIDE DEF p, q, x, y
    <3> QED BY <2>1, <2>2
  <2> QED BY <2>3, <2>4
<1>3. w \in S
  <2> HIDE DEF S
  <2>1. 0 .. w \subseteq S
    BY <1>1, <1>2, InductionUpTo
  <2> QED BY <2>1
<1> QED BY <1>3 DEF Packed

\* Neurons on the sides of the bits of a number stand for this number.
LEMMA PackedBits ==
    ASSUME NEW values, NEW w \in Nat, Len(values) = w, NEW n \in 0 .. 2^w - 1,
           \A k \in 1 .. w : High(values[k]) = Bit(n, k, w)
    PROVE  Packed(values) = n
<1> DEFINE P == Packing(values)
           S == {k \in 0 .. w : P[k] = n \div 2^(w - k)}
<1>0. n \in Nat /\ 2^w \in Nat \ {0}
  BY PowerPositive
<1>1. 0 \in S
  <2>1. P[0] = 0 /\ w - 0 = w
    BY PackingSteps
  <2>2. n \div 2^w = 0
    <3> DEFINE d == 2^w
    <3>1. d \in Nat \ {0} /\ n < d /\ n = d * 0 + n /\ n \in Nat
      BY <1>0
    <3> HIDE DEF d
    <3>2. n \div d = 0
      BY <3>1, OneQuotient
    <3> QED BY <3>2 DEF d
  <2> QED BY <2>1, <2>2
<1>2. ASSUME NEW k \in 0 .. w - 1, k \in S PROVE k + 1 \in S
  <2> DEFINE d == 2^(w - (k + 1))
             e == 2^(w - k)
  <2>1. w - (k + 1) \in Nat /\ w - k = (w - (k + 1)) + 1 /\ k + 1 \in 0 .. w /\ k + 1 \in 1 .. w
    BY <1>2
  <2>2. d \in Nat \ {0} /\ e = 2 * d
    BY <2>1, PowerPositive, PowerStep
  <2>3. n \div d = 2 * (n \div e) + ((n \div d) % 2)
    <3> HIDE DEF d, e
    <3> QED BY <1>0, <2>2, Halved
  <2>4. P[k + 1] = 2 * P[k] + High(values[k + 1])
    BY <1>2, PackingSteps
  <2>5. High(values[k + 1]) = (n \div d) % 2
    BY <2>1 DEF Bit
  <2>6. P[k] = n \div e
    BY <1>2
  <2>7. P[k + 1] = n \div d
    <3> HIDE DEF d, e, P
    <3> QED BY <2>3, <2>4, <2>5, <2>6
  <2> QED BY <2>1, <2>7
<1>3. w \in S
  <2> HIDE DEF S
  <2>1. 0 .. w \subseteq S
    BY <1>1, <1>2, InductionUpTo
  <2> QED BY <2>1
<1>4. 2^(w - w) = 1 /\ n \div 1 = n
  <2>1. w - w = 0 /\ 2^0 = 1
    OBVIOUS
  <2>2. n \div 1 = n
    BY <1>0
  <2> QED BY <2>1, <2>2
<1> QED BY <1>3, <1>4 DEF Packed

\* The unit in the last place of a number n of IntBits bits.
IsUlp(n, s) ==
    /\ s \in {2^e : e \in 0 .. IntBits}
    /\ n < 2^Mantissa * s /\ (s = 1 \/ 2 * n >= 2^Mantissa * s)

Ulp(n) == CHOOSE s \in {2^e : e \in 0 .. IntBits} :
              n < 2^Mantissa * s /\ (s = 1 \/ 2 * n >= 2^Mantissa * s)

\* There is one: the least that is large enough.
LEMMA UlpExists ==
    ASSUME NEW n \in 0 .. 2^IntBits - 1
    PROVE  \E f \in 0 .. IntBits : Ulp(n) = 2^f /\ IsUlp(n, 2^f)
<1> DEFINE M == 2^Mantissa
           T == {e \in 0 .. IntBits : n < M * 2^e}
<1>0. IntBits \in Nat /\ Mantissa \in Nat /\ M \in Nat \ {0} /\ 2^IntBits \in Nat \ {0} /\ n \in Nat
  BY WidthAssumption, PowerPositive
<1>1. IntBits \in T
  <2> DEFINE x == 2^IntBits
  <2>1. x \in Nat \ {0} /\ n < x /\ n \in Nat
    BY <1>0
  <2>2. n < M * x
    <3>1. x <= M * x
      <4> HIDE DEF x, M
      <4> QED BY <1>0, <2>1
    <3>2. M * x \in Int
      BY <1>0
    <3> DEFINE y == M * x
    <3> HIDE DEF x, y, M
    <3> QED BY <2>1, <3>1, <3>2 DEF y
  <2> QED BY <1>0, <2>2
<1>2. PICK f \in T : \A m \in T : f <= m
  <2>1. T \subseteq Nat
    <3> HIDE DEF M
    <3> QED BY <1>0
  <2> HIDE DEF T
  <2> QED BY <1>1, <2>1, LeastNumber
<1>3. 2^f = 1 \/ 2 * n >= M * 2^f
  <2>1. CASE f = 0
    BY <2>1
  <2>2. CASE f # 0
    <3>1. f - 1 \in 0 .. IntBits /\ f - 1 \in Nat /\ (f - 1) + 1 = f
      BY <1>0, <1>2, <2>2
    <3>2. f - 1 \notin T
      BY <1>0, <1>2, <3>1
    <3> DEFINE x == 2^f
               y == 2^(f - 1)
    <3>3. x = 2 * y /\ y \in Nat
      BY <3>1, PowerStep, PowerPositive
    <3>4. ~ (n < M * y)
      BY <3>1, <3>2
    <3>5. 2 * n >= M * x
      <4> HIDE DEF x, y, M
      <4>1. M * x = 2 * (M * y) /\ M * y \in Int
        BY <1>0, <3>3
      <4> DEFINE z == M * y
      <4> HIDE DEF z
      <4>2. M * x = 2 * z /\ z \in Int /\ ~ (n < z)
        BY <3>4, <4>1 DEF z
      <4>3. 2 * n >= 2 * z
        BY <1>0, <4>2
      <4> QED BY <4>2, <4>3
    <3> QED BY <3>5
  <2> QED BY <2>1, <2>2
<1>4. IsUlp(n, 2^f)
  BY <1>2, <1>3 DEF IsUlp
<1>5. IsUlp(n, Ulp(n))
  BY <1>4 DEF IsUlp, Ulp
<1>6. PICK e \in 0 .. IntBits : Ulp(n) = 2^e
  BY <1>5 DEF IsUlp
<1> QED BY <1>5, <1>6

\* With the unit 2^f a number becomes the multiple next to it.
LEMMA FloatOf ==
    ASSUME NEW n, NEW u, Ulp(n) = u
    PROVE  AsFloat(n) = One * u * (IF \/ 2 * (n % u) > u
                                      \/ 2 * (n % u) = u /\ (n \div u) % 2 = 1
                                   THEN (n \div u) + 1 ELSE n \div u)
<1>1. AsFloat(n) = One * Ulp(n) * (IF \/ 2 * (n % Ulp(n)) > Ulp(n)
                                      \/ 2 * (n % Ulp(n)) = Ulp(n) /\ (n \div Ulp(n)) % 2 = 1
                                   THEN (n \div Ulp(n)) + 1 ELSE n \div Ulp(n))
  BY Zenon DEF AsFloat, Ulp
<1> QED BY <1>1, Zenon

LEMMA FloatType ==
    ASSUME NEW n \in 0 .. 2^IntBits - 1
    PROVE  AsFloat(n) \in Int
<1>1. PICK f \in 0 .. IntBits : Ulp(n) = 2^f
  BY UlpExists
<1>2. n \in Nat /\ 2^f \in Nat \ {0}
  BY WidthAssumption, PowerPositive
<1> DEFINE u == 2^f
           q == n \div u
<1>3. q \in Nat /\ u \in Nat
  <2> HIDE DEF u
  <2> QED BY <1>2, DivisionParts DEF u
<1>4. AsFloat(n) = One * u * (q + 1) \/ AsFloat(n) = One * u * q
  BY <1>1, FloatOf, Zenon
<1> HIDE DEF q, u
<1> QED BY <1>3, <1>4 DEF One

\* A number that fits into the mantissa from its lowest bit on is exact.
LEMMA ExactFloat ==
    ASSUME NEW n \in 0 .. 2^IntBits - 1, NEW g \in Nat, NEW a \in Nat,
           n = a * 2^g, n < 2^Mantissa * 2^g
    PROVE  AsFloat(n) = One * n
<1>1. PICK f \in 0 .. IntBits : Ulp(n) = 2^f /\ IsUlp(n, 2^f)
  BY UlpExists
<1> DEFINE M == 2^Mantissa
           u == 2^f
           x == 2^g
<1>2. /\ M \in Nat \ {0} /\ u \in Nat \ {0} /\ x \in Nat \ {0} /\ n \in Nat
      /\ f \in Nat /\ Mantissa \in Nat
  BY WidthAssumption, PowerPositive
<1>3. f <= g
  <2> SUFFICES ASSUME g + 1 <= f PROVE FALSE
    BY <1>2
  <2>1. 2 * x <= u
    <3>1. g < f /\ g <= f
      BY <1>2
    <3> QED BY <1>2, <3>1, PowerOrder
  <2>2. 2 * n >= M * u
    <3>1. u = 1 \/ 2 * n >= M * u
      BY <1>1 DEF IsUlp
    <3>2. u # 1
      <4> HIDE DEF u, x
      <4> QED BY <1>2, <2>1
    <3> QED BY <3>1, <3>2
  <2>3. n < M * x
    OBVIOUS
  <2> HIDE DEF M, u, x
  <2>4. M * (2 * x) <= M * u
    BY <1>2, <2>1
  <2>5. M * (2 * x) = 2 * (M * x) /\ M * x \in Int /\ M * u \in Int
    BY <1>2
  <2> DEFINE y == M * x
             z == M * u
  <2>6. 2 * y <= z /\ 2 * n >= z /\ n < y /\ y \in Int /\ z \in Int
    BY <2>2, <2>3, <2>4, <2>5
  <2> HIDE DEF y, z
  <2> QED BY <1>2, <2>6
<1>4. \E q \in Nat : n = u * q
  <2>1. x = u * 2^(g - f) /\ 2^(g - f) \in Nat
    BY <1>2, <1>3, PowerOrder, PowerPositive
  <2> DEFINE y == 2^(g - f)
  <2>2. n = a * x /\ x = u * y /\ y \in Nat
    BY <2>1
  <2> HIDE DEF u, x, y
  <2>3. n = u * (a * y) /\ a * y \in Nat
    BY <1>2, <2>2
  <2> QED BY <2>3
<1>5. PICK q \in Nat : n = u * q
  BY <1>4
<1>6. n \div u = q /\ n % u = 0
  <2>1. n = u * q + 0 /\ 0 < u
    <3> HIDE DEF u
    <3> QED BY <1>2, <1>5
  <2> HIDE DEF u
  <2> QED BY <1>2, <2>1, OneQuotient
<1>7. Ulp(n) = u
  BY <1>1
<1> HIDE DEF u
<1>8. AsFloat(n) = One * u * (IF \/ 2 * (n % u) > u
                                 \/ 2 * (n % u) = u /\ (n \div u) % 2 = 1
                              THEN (n \div u) + 1 ELSE n \div u)
  BY <1>7, FloatOf
<1>9. AsFloat(n) = One * u * q
  BY <1>2, <1>6, <1>8
<1> QED BY <1>2, <1>5, <1>9 DEF One

\* The largest number is half a unit below a power of two, or nearer to it, and
\* becomes this power.
LEMMA LargestFloat == AsFloat(2^IntBits - 1) = One * 2^IntBits
<1> DEFINE x == 2^IntBits
           n == x - 1
           M == 2^Mantissa
<1>0. /\ IntBits \in Nat /\ Mantissa \in Nat \ {0} /\ Mantissa < IntBits
      /\ x \in Nat \ {0} /\ M \in Nat \ {0} /\ n \in 0 .. x - 1
  <2>1. IntBits \in Nat /\ Mantissa \in Nat \ {0} /\ Mantissa < IntBits
    BY WidthAssumption, FloatAssumption
  <2>2. x \in Nat \ {0} /\ M \in Nat \ {0}
    BY <2>1, PowerPositive
  <2> HIDE DEF x
  <2> QED BY <2>1, <2>2
<1>1. PICK f \in 0 .. IntBits : Ulp(n) = 2^f /\ IsUlp(n, 2^f)
  BY <1>0, UlpExists
<1> DEFINE u == 2^f
<1>2. f \in Nat /\ u \in Nat \ {0} /\ M * u = 2^(Mantissa + f)
  <2>1. Mantissa \in Nat /\ f \in Nat
    <3> HIDE DEF x, M
    <3> QED BY <1>0
  <2>2. u \in Nat \ {0}
    BY <2>1, PowerPositive
  <2>3. 2^(Mantissa + f) = 2^Mantissa * 2^f
    BY <2>1, PowerSum, Zenon
  <2> QED
    BY <2>1, <2>2, <2>3, Zenon
<1>3. n < M * u /\ (u = 1 \/ 2 * n >= M * u)
  BY <1>1 DEF IsUlp
<1>4. f = IntBits - Mantissa
  <2> DEFINE z == 2^(Mantissa + f)
  <2>1. z \in Nat \ {0} /\ x - 1 < z /\ (u = 1 \/ 2 * (x - 1) >= z)
    BY <1>0, <1>2, <1>3, PowerPositive
  <2>2. ~ (Mantissa + f < IntBits)
    <3> SUFFICES ASSUME Mantissa + f < IntBits PROVE FALSE
      OBVIOUS
    <3>1. 2 * z <= x
      BY <1>0, <1>2, PowerOrder
    <3> HIDE DEF x, z
    <3> QED BY <1>0, <2>1, <3>1
  <2>3. ~ (IntBits < Mantissa + f)
    <3> SUFFICES ASSUME IntBits < Mantissa + f PROVE FALSE
      OBVIOUS
    <3>1. 2 * x <= z
      BY <1>0, <1>2, PowerOrder
    <3>2. u # 1
      <4>1. 0 < f /\ 0 <= f /\ 2^0 = 1
        BY <1>0, <1>2
      <4>2. 2 * 2^0 <= 2^f
        BY <1>2, <4>1, PowerOrder
      <4> HIDE DEF u
      <4> QED BY <4>1, <4>2 DEF u
    <3> HIDE DEF x, z
    <3> QED BY <1>0, <2>1, <3>1, <3>2
  <2> QED BY <1>0, <1>2, <2>2, <2>3
<1>5. x = M * u
  BY <1>0, <1>2, <1>4
<1>6. \E y \in Nat \ {0} : u = 2 * y
  <2>1. f - 1 \in Nat /\ (f - 1) + 1 = f
    BY <1>0, <1>4
  <2> QED BY <2>1, PowerStep, PowerPositive
<1>7. \E m \in Nat \ {0} : M = 2 * m
  <2>1. Mantissa - 1 \in Nat /\ (Mantissa - 1) + 1 = Mantissa
    BY <1>0
  <2> QED BY <2>1, PowerStep, PowerPositive
<1>8. PICK y \in Nat \ {0} : u = 2 * y
  BY <1>6
<1>9. PICK m \in Nat \ {0} : M = 2 * m
  BY <1>7
<1>10. Ulp(n) = u
  BY <1>1
<1> HIDE DEF u, M, x
<1>11. n = u * (M - 1) + (u - 1)
  BY <1>0, <1>2, <1>5
<1> HIDE DEF n
<1>12. n \div u = M - 1 /\ n % u = u - 1
  <2>1. M - 1 \in Nat /\ u - 1 \in Nat /\ u - 1 < u /\ n \in Nat
    BY <1>0, <1>2
  <2> QED BY <1>2, <1>11, <2>1, OneQuotient
<1>13. (M - 1) % 2 = 1
  BY <1>9
<1>14. AsFloat(n) = One * u * (IF \/ 2 * (n % u) > u
                                  \/ 2 * (n % u) = u /\ (n \div u) % 2 = 1
                               THEN (n \div u) + 1 ELSE n \div u)
  BY <1>10, FloatOf
<1>15. 2 * (u - 1) > u \/ 2 * (u - 1) = u
  BY <1>8
<1>16. AsFloat(n) = One * u * ((M - 1) + 1)
  BY <1>12, <1>13, <1>14, <1>15
<1>17. AsFloat(n) = One * x
  BY <1>0, <1>2, <1>5, <1>16 DEF One
<1> QED BY <1>17 DEF n, x

\* A number cut off to an unsigned integer has as many bits as the output, and
\* comes back without its fraction.
LEMMA IntKept ==
    ASSUME NEW v \in Numbers
    PROVE  /\ AsUnsigned(v) \in 0 .. 2^IntBits - 1
           /\ AsFloat(AsUnsigned(v))
                  = IF v < 0 THEN 0
                    ELSE IF v >= 2^IntBits * One THEN 2^IntBits * One ELSE v - (v % One)
<1> DEFINE x == 2^IntBits
           M == 2^Mantissa
           n == v \div One
<1>1. v \in Int /\ x \in Nat \ {0} /\ M \in Nat \ {0} /\ IntBits \in Nat /\ Mantissa \in Nat
  BY WidthAssumption, NumberAssumption, PowerPositive
<1>2. CASE v < 0
  <2>1. AsUnsigned(v) = 0
    BY <1>2 DEF AsUnsigned
  <2>2. 0 \in 0 .. 2^IntBits - 1
    <3>1. 0 \in 0 .. x - 1
      <4> HIDE DEF x
      <4> QED BY <1>1
    <3> QED BY <3>1
  <2>3. 0 = 0 * 2^0 /\ 0 < 2^Mantissa * 2^0
    <3>1. 2^0 = 1
      OBVIOUS
    <3>2. 0 < M * 1
      <4> HIDE DEF M
      <4> QED BY <1>1
    <3> QED BY <3>1, <3>2
  <2>4. AsFloat(0) = One * 0
    BY <2>2, <2>3, ExactFloat
  <2> QED BY <1>2, <2>1, <2>2, <2>4 DEF One
<1>3. CASE ~ (v < 0)
  <2>1. v \in Nat /\ n \in Nat /\ v % One \in 0 .. One - 1 /\ v = One * n + (v % One)
    BY <1>1, <1>3 DEF One
  <2>2. n >= x <=> v >= x * One
    <3> HIDE DEF n, x
    <3> QED BY <1>1, <2>1 DEF One
  <2>3. CASE n >= x
    <3>1. AsUnsigned(v) = x - 1
      BY <1>3, <2>3 DEF AsUnsigned
    <3>2. AsFloat(x - 1) = One * x
      BY LargestFloat
    <3>3. x - 1 \in 0 .. x - 1 /\ One * x = x * One
      <4> HIDE DEF x
      <4> QED BY <1>1 DEF One
    <3> HIDE DEF n
    <3> QED BY <1>3, <2>2, <2>3, <3>1, <3>2, <3>3 DEF x
  <2>4. CASE ~ (n >= x)
    <3>1. AsUnsigned(v) = n
      BY <1>3, <2>4 DEF AsUnsigned
    <3>2. n \in 0 .. x - 1
      <4> HIDE DEF n, x
      <4> QED BY <1>1, <2>1, <2>4
    <3>3. PICK e \in 0 .. v : v % 2^e = 0 /\ v < 2^Mantissa * 2^e
      BY <1>1, <1>3, FloatAssumption
    <3>4. \E g \in Nat, a \in Nat : n = a * 2^g /\ n < M * 2^g
      <4>1. CASE e >= 3
        <5> DEFINE u == 2^e
                   y == 2^(e - 3)
                   q == v \div u
        <5>1. e \in Nat /\ 3 \in Nat /\ e - 3 \in Nat /\ 3 <= e
          BY <2>1, <4>1
        <5>2. u = 8 * y /\ y \in Nat \ {0} /\ u \in Nat \ {0}
          <6>1. 2^e = 2^3 * 2^(e - 3)
            BY <5>1, PowerOrder
          <6>2. 2^3 = 8
            OBVIOUS
          <6> QED BY <5>1, <6>1, <6>2, PowerPositive
        <5>3. v = u * q /\ q \in Nat
          <6> DEFINE r == v % u
          <6>1. q \in Nat /\ v = u * q + r
            <7> HIDE DEF u
            <7> QED BY <2>1, <5>2, DivisionParts
          <6>2. r = 0
            BY <3>3
          <6> HIDE DEF q, r, u
          <6> QED BY <5>2, <6>1, <6>2
        <5> HIDE DEF u, q
        <5>4. v < M * u
          BY <3>3 DEF u
        <5> HIDE DEF y, M
        <5>5. v = 8 * (q * y) + 0 /\ q * y \in Nat
          BY <5>2, <5>3
        <5>6. n = q * y
          <6>1. v \div 8 = q * y
            BY <2>1, <5>5, OneQuotient
          <6> QED BY <6>1 DEF One
        <5>7. M * u = 8 * (M * y) /\ M * y \in Nat
          BY <1>1, <5>2
        <5> DEFINE a == q * y
                   b == M * y
        <5>8. 8 * a < 8 * b /\ a \in Nat /\ b \in Nat
          BY <5>4, <5>5, <5>7
        <5> HIDE DEF a, b
        <5>9. a < b
          BY <5>8
        <5> HIDE DEF n
        <5>10. n = q * 2^(e - 3) /\ n < M * 2^(e - 3)
          BY <5>6, <5>9 DEF a, b, y
        <5> QED BY <5>1, <5>3, <5>10
      <4>2. CASE ~ (e >= 3)
        <5>1. e = 0 \/ e = 1 \/ e = 2
          BY <2>1, <4>2
        <5>2. 2^0 = 1 /\ 2^1 = 2 /\ 2^2 = 4
          OBVIOUS
        <5>3. v < M * 1 \/ v < M * 2 \/ v < M * 4
          BY <3>3, <5>1, <5>2
        <5>4. n < M
          <6> HIDE DEF n, M
          <6> QED BY <1>1, <2>1, <5>3 DEF One
        <5>5. n = n * 2^0 /\ n < M * 2^0
          <6> HIDE DEF n, M
          <6> QED BY <1>1, <2>1, <5>2, <5>4
        <5> QED BY <2>1, <5>5
      <4> QED BY <4>1, <4>2
    <3>5. AsFloat(n) = One * n
      <4> HIDE DEF n
      <4> QED BY <3>2, <3>4, ExactFloat
    <3>6. One * n = v - (v % One)
      <4> HIDE DEF n
      <4> QED BY <2>1 DEF One
    <3> HIDE DEF n
    <3> QED BY <1>3, <2>2, <2>4, <3>1, <3>2, <3>5, <3>6 DEF x
  <2> QED BY <2>3, <2>4
<1> QED BY <1>2, <1>3

\* A bit is zero or one.
LEMMA BitType ==
    ASSUME NEW w \in Nat, NEW n \in 0 .. 2^w - 1, NEW k \in 1 .. w
    PROVE  Bit(n, k, w) \in {0, 1}
<1> DEFINE d == 2^(w - k)
           x == 2^w
<1>1. w - k \in Nat
  OBVIOUS
<1>2. d \in Nat \ {0} /\ x \in Nat \ {0}
  BY <1>1, PowerPositive
<1>3. n \in Nat
  <2> HIDE DEF x
  <2> QED BY <1>2 DEF x
<1> DEFINE q == n \div d
<1>4. q \in Nat
  <2> HIDE DEF d
  <2> QED BY <1>2, <1>3, DivisionParts
<1>5. q % 2 \in {0, 1}
  <2> HIDE DEF q
  <2> QED BY <1>4
<1> QED BY <1>5 DEF Bit

\* What neurons make of a value that their targets stand for: all the types but
\* the plain one answer with what they can hold of it.
LEMMA ValueKept ==
    ASSUME type \in Types, type # "plain", NEW v \in Numbers,
           NEW values, Len(values) = WidthOf,
           \A k \in 1 .. WidthOf : IsHigh(values[k]) <=> IsHigh(TargetsOf(v)[k])
    PROVE  ValueOf(values) = Held(v)
<1>1. type \in {"bool", "int", "float"}
  BY OtherAssumption DEF AllTypes
<1>2. \A b \in {0, 1} : IsHigh(One * b) <=> b = 1
  BY DEF IsHigh, One
<1>3. CASE type = "bool"
  <2>1. WidthOf = 1 /\ TargetsOf(v)[1] = One * High(v)
    BY <1>3 DEF WidthOf, TargetsOf, One, High
  <2>2. High(values[1]) = High(v)
    BY <1>2, <2>1 DEF High
  <2>3. /\ Packed(values) = Packing(values)[1] /\ Packing(values)[0] = 0
        /\ Packing(values)[1] = 2 * Packing(values)[0] + High(values[1])
    <3>1. Len(values) = 1 /\ 1 \in Nat /\ 0 \in 0 .. 1 - 1 /\ 0 + 1 = 1
      BY <2>1
    <3>2. Packing(values)[0 + 1] = 2 * Packing(values)[0] + High(values[0 + 1])
      BY <3>1, PackingSteps, Zenon
    <3>3. Packing(values)[0] = 0
      BY <3>1, PackingSteps, Zenon
    <3> QED BY <3>1, <3>2, <3>3 DEF Packed
  <2>4. Packed(values) = High(v)
    BY <2>2, <2>3 DEF High
  <2> QED BY <1>3, <2>4 DEF ValueOf, Held, High, One
<1>4. CASE type = "int"
  <2> DEFINE n == AsUnsigned(v)
  <2>1. WidthOf = IntBits /\ TargetsOf(v) = [k \in 1 .. IntBits |-> One * Bit(n, k, IntBits)]
    BY <1>4 DEF WidthOf, TargetsOf
  <2>2. n \in 0 .. 2^IntBits - 1 /\ IntBits \in Nat
    BY IntKept, WidthAssumption
  <2> HIDE DEF n
  <2>3. \A k \in 1 .. IntBits : Bit(n, k, IntBits) \in {0, 1}
    BY <2>2, BitType
  <2>4. \A k \in 1 .. IntBits : High(values[k]) = Bit(n, k, IntBits)
    BY <1>2, <2>1, <2>3 DEF High
  <2>5. Packed(values) = n
    BY <2>1, <2>2, <2>4, PackedBits
  <2>6. ValueOf(values) = AsFloat(n)
    BY <1>4, <2>5 DEF ValueOf
  <2>7. Held(v) = IF v < 0 THEN 0
                  ELSE IF v >= 2^IntBits * One THEN 2^IntBits * One ELSE v - (v % One)
    BY <1>4 DEF Held
  <2> QED BY <2>6, <2>7, IntKept DEF n
<1>5. CASE type = "float"
  <2> DEFINE n == BitsOf[v]
  <2>1. WidthOf = FloatBits /\ TargetsOf(v) = [k \in 1 .. FloatBits |-> One * Bit(n, k, FloatBits)]
    BY <1>5 DEF WidthOf, TargetsOf
  <2>2. n \in 0 .. 2^FloatBits - 1 /\ FloatBits \in Nat
    BY NumberAssumption, WidthAssumption
  <2> HIDE DEF n
  <2>3. \A k \in 1 .. FloatBits : Bit(n, k, FloatBits) \in {0, 1}
    BY <2>2, BitType
  <2>4. \A k \in 1 .. FloatBits : High(values[k]) = Bit(n, k, FloatBits)
    BY <1>2, <2>1, <2>3 DEF High
  <2>5. Packed(values) = n
    BY <2>1, <2>2, <2>4, PackedBits
  <2>6. ValueOf(values) = FromBits(n)
    BY <1>5, <2>5 DEF ValueOf
  <2>7. \A u \in Numbers : BitsOf[u] = n => u = v
    BY NumberAssumption DEF n
  <2>8. FromBits(n) = v
    BY <2>7 DEF FromBits, n
  <2> QED BY <1>5, <2>6, <2>8 DEF Held
<1> QED BY <1>1, <1>3, <1>4, <1>5

-----------------------------------------------------------------------------
(* The calls preserve the invariant.                                       *)

\* At the start there is nothing.
LEMMA InitInv ==
    ASSUME Init
    PROVE  Inv
<1>1. Sizes
  <2>1. WidthOf \in Nat \ {0} /\ type \in Types
    BY WidthType DEF Init
  <2>2. size = 0 /\ neurons = <<>> /\ DOMAIN neurons = {}
    BY DEF Init
  <2>3. size * WidthOf = 0 /\ DOMAIN neurons = 1 .. size * WidthOf
    BY <2>1, <2>2
  <2>4. /\ outs \in [Blocks -> Nat] /\ rows \in [Blocks -> Nat]
        /\ \A b \in Blocks : outs[b] <= rows[b] /\ rows[b] <= 0
    BY DEF Init
  <2> QED BY <2>1, <2>2, <2>3, <2>4 DEF Sizes
<1>2. Numbered
  <2>1. IsFiniteSet({}) /\ Cardinality({}) = 0
    BY FS_EmptySet
  <2>2. todo \in [Blocks -> SUBSET Tasks] /\ stale = NoneStale
    BY DEF Init, NoneStale
  <2>3. finalized \in BOOLEAN
    BY DEF Init
  <2>4. /\ connected = 0 /\ local = 0 /\ reports = 0 /\ calls = 0
        /\ linked = {} /\ attached = {} /\ unfinished = {} /\ kind = "none"
    BY DEF Init
  <2> QED BY <2>1, <2>2, <2>3, <2>4 DEF Numbered
<1>3. Idle
  BY DEF Init, Idle
<1>4. Training /\ Requesting
  BY DEF Init, Training, Requesting
<1>5. AnswerInv
  BY DEF Init, AnswerInv
<1> QED BY <1>1, <1>2, <1>3, <1>4, <1>5 DEF Inv

\* A call gives every block its task.
LEMMA BeginTasks ==
    ASSUME Inv, NEW k \in {"train", "request"}, Begin(k)
    PROVE  LET t == IF k = "train" THEN "train" ELSE "process"
           IN  /\ todo' \in [Blocks -> SUBSET Tasks] /\ \A b \in Blocks : todo'[b] = {t}
               /\ kind' = k /\ reports' = 0 /\ calls' = calls + 1 /\ kind = "none"
               /\ unfinished = {} /\ stale' = stale
<1>1. kind = "none" /\ kind' = k /\ reports' = 0 /\ calls' = calls + 1 /\ stale' = stale
  BY DEF Begin
<1>2. unfinished = {} /\ \A b \in Blocks : todo[b] = {}
  BY <1>1 DEF Inv, Idle
<1> DEFINE t == IF k = "train" THEN "train" ELSE "process"
<1>3. todo' = [b \in Blocks |-> todo[b] \cup {t}] /\ t \in Tasks
  BY DEF Begin, Tasks
<1> HIDE DEF t
<1>4. todo' \in [Blocks -> SUBSET Tasks] /\ \A b \in Blocks : todo'[b] = {t}
  BY <1>2, <1>3
<1> QED BY <1>1, <1>2, <1>4 DEF t

\* A train starts with what it gives, and with nothing left of calls before.
LEMMA TrainCallStep ==
    ASSUME Inv, NEW list \in Lists, TrainCall(list)
    PROVE  Inv'
<1> DEFINE n == IF size < Len(list) THEN Len(list) ELSE size
           w == WidthOf
<1>1. /\ todo' \in [Blocks -> SUBSET Tasks] /\ \A b \in Blocks : todo'[b] = {"train"}
      /\ kind' = "train" /\ reports' = 0 /\ calls' = calls + 1 /\ unfinished = {}
      /\ stale' = stale
  BY BeginTasks DEF TrainCall
<1>2. /\ neurons' = Expected(Updated(Cleared(neurons), Len(list)), list, calls')
      /\ size' = n /\ finalized' = FALSE /\ local' = 0 /\ given' = list
      /\ UNCHANGED <<type, unfinished, connected, linked, attached, outs, rows, answer>>
  BY DEF TrainCall, blockVars
<1>3. list \in Seq(Numbers)
  BY ListAssumption
<1>4. Sizes /\ Numbered /\ AnswerInv
  BY DEF Inv
<1>5. w \in Nat \ {0} /\ WidthOf' = w
  BY <1>2, <1>4, WidthType DEF Sizes, WidthOf
<1>6. n \in Nat /\ size <= n /\ size \in Nat
  BY <1>3, <1>4 DEF Sizes
<1>7. /\ DOMAIN neurons' = 1 .. n * w
      /\ \A k \in DOMAIN neurons' : DOMAIN neurons'[k] = Fields
      /\ \A k \in 1 .. Len(list) * w :
             k \in DOMAIN neurons' /\ ~neurons'[k].gradient /\ neurons'[k].call = calls'
  <2>1. /\ DOMAIN Cleared(neurons) = DOMAIN neurons
        /\ \A k \in DOMAIN Cleared(neurons) : DOMAIN Cleared(neurons)[k] = Fields
    BY <1>4, ClearedNeurons DEF Sizes
  <2> HIDE DEF n
  <2>2. n = IF size < Len(list) THEN Len(list) ELSE size
    BY DEF n
  <2> QED BY <1>2, <1>3, <1>4, <1>6, <2>1, <2>2, ExpectedNeurons
<1> HIDE DEF n, w
<1>8. Sizes'
  <2>1. ASSUME NEW b \in Blocks PROVE outs'[b] <= rows'[b] /\ rows'[b] <= n * w
    <3>1. outs[b] <= rows[b] /\ rows[b] <= size * w /\ rows[b] \in Nat
      BY <1>4 DEF Sizes, w
    <3>2. size * w <= n * w /\ size * w \in Nat /\ n * w \in Nat
      BY <1>5, <1>6, MoreValues
    <3>3. rows[b] <= n * w
      <4> DEFINE x == size * w
                 y == n * w
      <4>1. rows[b] <= x /\ x <= y /\ x \in Nat /\ y \in Nat /\ rows[b] \in Nat
        BY <3>1, <3>2 DEF w
      <4> HIDE DEF x, y
      <4>2. rows[b] <= y
        BY <4>1
      <4> QED BY <4>2 DEF y
    <3> QED BY <1>2, <3>1, <3>3
  <2>2. /\ type' \in Types /\ size' \in Nat /\ DOMAIN neurons' = 1 .. size' * WidthOf'
        /\ outs' \in [Blocks -> Nat] /\ rows' \in [Blocks -> Nat]
    BY <1>2, <1>4, <1>5, <1>6, <1>7 DEF Sizes
  <2>3. \A b \in Blocks : outs'[b] <= rows'[b] /\ rows'[b] <= size' * WidthOf'
    BY <1>2, <1>5, <2>1
  <2> QED BY <1>7, <2>2, <2>3 DEF Sizes
<1>9. Numbered'
  <2>1. calls' \in Nat /\ reports' \in Nat /\ local' \in Nat
        /\ kind' \in {"none", "train", "request"}
    BY <1>1, <1>2, <1>4 DEF Numbered
  <2>2. finalized' \in BOOLEAN
    BY <1>2
  <2> QED BY <1>1, <1>2, <1>4, <2>1, <2>2 DEF Numbered
<1>10. Training'
  <2>1. \A b \in Blocks : OnWay(b)'
    BY <1>1, <1>2 DEF OnWay, Way
  <2>2. local' = Cardinality(unfinished') /\ unfinished' = {}
    BY <1>1, <1>2, FS_EmptySet
  <2>3. \A k \in 1 .. Len(given') * WidthOf' : k \in DOMAIN neurons' /\ IsFresh(neurons[k])'
    BY <1>2, <1>5, <1>7 DEF IsFresh
  <2> QED BY <1>2, <2>1, <2>2, <2>3 DEF Training
<1>11. Idle' /\ Requesting'
  BY <1>1 DEF Idle, Requesting
<1>12. AnswerInv'
  BY <1>2, <1>4 DEF AnswerInv
<1> QED BY <1>8, <1>9, <1>10, <1>11, <1>12 DEF Inv

\* The lengths do not change with the contents of the neurons.
LEMMA SameSizes ==
    ASSUME Sizes, UNCHANGED <<type, size, outs, rows>>,
           DOMAIN neurons' = DOMAIN neurons,
           \A k \in DOMAIN neurons : DOMAIN neurons'[k] = Fields
    PROVE  Sizes' /\ WidthOf' = WidthOf
<1>1. WidthOf' = WidthOf
  BY DEF WidthOf
<1> QED BY <1>1 DEF Sizes

LEMMA RequestCallStep ==
    ASSUME Inv, attached = Blocks, RequestCall
    PROVE  Inv'
<1>1. /\ todo' \in [Blocks -> SUBSET Tasks] /\ \A b \in Blocks : todo'[b] = {"process"}
      /\ kind' = "request" /\ reports' = 0 /\ calls' = calls + 1 /\ unfinished = {}
      /\ stale' = stale
  BY BeginTasks DEF RequestCall
<1>2. /\ neurons' = Cleared(neurons) /\ local' = 0
      /\ UNCHANGED <<type, size, finalized, unfinished, connected, linked, attached, outs, rows,
                     answer>>
  BY DEF RequestCall, blockVars
<1>3. Sizes /\ Numbered /\ AnswerInv
  BY DEF Inv
<1>4. Sizes'
  BY <1>2, <1>3, SameSizes, ClearedNeurons DEF Sizes
<1>5. Numbered'
  <2>1. calls' \in Nat /\ reports' \in Nat /\ local' \in Nat
        /\ kind' \in {"none", "train", "request"}
    BY <1>1, <1>2, <1>3 DEF Numbered
  <2> QED BY <1>1, <1>2, <1>3, <2>1 DEF Numbered
<1>6. Requesting'
  <2>1. Done' = {}
    BY <1>1 DEF Done
  <2>2. IsFiniteSet(Done') /\ local' = Cardinality(Done') /\ attached' = Blocks
    BY <1>2, <2>1, FS_EmptySet
  <2> QED BY <1>1, <1>2, <2>1, <2>2 DEF Requesting
<1>7. Idle' /\ Training'
  BY <1>1 DEF Idle, Training
<1>8. AnswerInv'
  BY <1>2, <1>3 DEF AnswerInv
<1> QED BY <1>4, <1>5, <1>6, <1>7, <1>8 DEF Inv

\* Not all blocks of a train wait: the last one would have completed the output.
LEMMA NotAllWait ==
    ASSUME Inv, kind = "train", Blocks # {}, \A b \in Blocks : todo[b] = {"waits"}
    PROVE  FALSE
<1>1. Sizes /\ Numbered /\ Training
  BY DEF Inv
<1>2. \A b \in Blocks : b \in unfinished /\ b \in attached
  BY <1>1 DEF Training, OnWay
<1>3. unfinished # {} /\ attached \subseteq unfinished
  BY <1>1, <1>2 DEF Numbered
<1>4. ~finalized
  BY <1>1, <1>3 DEF Training
<1>5. local = Cardinality(unfinished) /\ local < connected
  BY <1>1, <1>3, <1>4 DEF Training
<1>6. Cardinality(attached) <= Cardinality(unfinished)
  BY <1>1, <1>3, FS_Subset DEF Numbered
<1> QED BY <1>1, <1>5, <1>6 DEF Numbered

\* A train whose tasks are done was completed by one of them.
LEMMA EndTrainStep ==
    ASSUME Inv, EndTrain
    PROVE  Inv'
<1>1. /\ kind = "train" /\ kind' = "none"
      /\ UNCHANGED <<type, size, neurons, finalized, local, unfinished, connected, linked,
                     attached, outs, rows, todo, stale, reports, answer, calls>>
  BY DEF EndTrain, bufferVars, blockVars
<1>2. Sizes /\ Numbered /\ AnswerInv /\ Training
  BY DEF Inv
<1>3. /\ unfinished = {} /\ \A b \in Blocks : todo[b] = {}
      /\ Blocks # {} => reports > 0
  <2>1. ASSUME NEW b \in Blocks PROVE todo[b] = {} /\ finalized /\ b \notin unfinished
    <3>1. todo[b] \cap TrainTasks = {} /\ OnWay(b)
      BY <1>1, <1>2 DEF EndTrain, Training
    <3>2. todo[b] = {}
      BY <3>1 DEF OnWay, Way, TrainTasks
    <3> QED BY <3>1, <3>2 DEF OnWay
  <2> QED BY <1>1, <1>2, <2>1 DEF Training, Numbered
<1>4. Sizes'
  BY <1>1, <1>2, SameSizes DEF Sizes
<1>5. Numbered'
  BY <1>1, <1>2 DEF Numbered
<1>6. Idle'
  BY <1>1, <1>3 DEF Idle
<1>7. Training' /\ Requesting' /\ AnswerInv'
  BY <1>1, <1>2 DEF Training, Requesting, AnswerInv
<1> QED BY <1>4, <1>5, <1>6, <1>7 DEF Inv

\* What a request hands out was activated.
LEMMA EndRequestStep ==
    ASSUME Inv, EndRequest
    PROVE  Inv'
<1>1. /\ kind = "request" /\ reports > 0 /\ kind' = "none" /\ finalized' = FALSE
      /\ answer' = [i \in 1 .. ValueCount |-> ValueOf(ValuesIn(Group(i)))]
      /\ LeaveTasks
      /\ UNCHANGED <<type, size, neurons, local, unfinished, connected, linked,
                     attached, outs, rows, reports, calls>>
  BY DEF EndRequest, blockVars
<1>2. Sizes /\ Numbered /\ Requesting
  BY DEF Inv
<1>2a. \A b \in Blocks : todo[b] = {}
  BY <1>1, <1>2 DEF Requesting, Done
<1>2b. stale' = NoneStale
  BY <1>1, <1>2, <1>2a DEF LeaveTasks, Numbered, NoneStale
<1>2c. todo' = [b \in Blocks |-> {}]
  BY <1>1, <1>2a DEF LeaveTasks
<1>3. Sizes'
  BY <1>1, <1>2, SameSizes DEF Sizes
<1>4. Numbered'
  <2>1. finalized' \in BOOLEAN /\ kind' \in {"none", "train", "request"}
    BY <1>1
  <2>2. todo' \in [Blocks -> SUBSET Tasks]
    BY <1>2c
  <2> QED BY <1>1, <1>2, <1>2b, <2>1, <2>2 DEF Numbered
<1>5. Idle'
  <2>1. unfinished = {}
    BY <1>1, <1>2 DEF Requesting
  <2> QED BY <1>1, <1>2c, <2>1 DEF Idle
<1>6. Training' /\ Requesting'
  BY <1>1 DEF Training, Requesting
<1>7. AnswerInv'
  <2> SUFFICES ASSUME type = "plain", NEW i \in DOMAIN answer'
               PROVE  answer'[i] \in 0 .. One
    BY <1>1 DEF AnswerInv
  <2>1. WidthOf = 1 /\ size \in Nat /\ DOMAIN neurons = 1 .. size
    BY <1>2, WidthType DEF Sizes
  <2>2. Len(neurons) = size /\ ValueCount = size
    BY <2>1 DEF ValueCount
  <2>3. i \in 1 .. size /\ answer'[i] = ValueOf(ValuesIn(Group(i)))
    BY <1>1, <2>2
  <2>4. Group(i) = SubSeq(neurons, i, i)
    <3>1. (i - 1) * 1 + 1 = i /\ i * 1 = i
      BY <2>1, <2>3
    <3>2. Group(i) = SubSeq(neurons, (i - 1) * 1 + 1, i * 1)
      BY <2>1 DEF Group
    <3> QED BY <3>1, <3>2
  <2>5. ValuesIn(Group(i))[1] = neurons[i].value
    <3>1. SubSeq(neurons, i, i) = [k \in 1 .. 1 |-> neurons[i + k - 1]]
      BY <2>1, <2>3
    <3>2. DOMAIN Group(i) = 1 .. 1 /\ Group(i)[1] = neurons[i]
      BY <2>3, <2>4, <3>1
    <3> QED BY <3>2 DEF ValuesIn
  <2>6. answer'[i] = neurons[i].value
    BY <2>3, <2>5 DEF ValueOf
  <2> QED BY <1>1, <1>2, <2>1, <2>3, <2>6 DEF Requesting, Activated
<1> QED BY <1>3, <1>4, <1>5, <1>6, <1>7 DEF Inv

\* A restored model has lost its references only.
LEMMA SaveAndRestoreStep ==
    ASSUME Inv, SaveAndRestore
    PROVE  Inv'
<1>1. /\ kind = "none" /\ linked' = {} /\ unfinished' = {}
      /\ UNCHANGED <<type, size, neurons, finalized, local, connected, attached, outs, rows,
                     todo, stale, reports, kind, answer, calls>>
  BY DEF SaveAndRestore, callVars
<1>2. Sizes /\ Numbered /\ Idle /\ AnswerInv
  BY DEF Inv
<1>3. Sizes'
  BY <1>1, <1>2, SameSizes DEF Sizes
<1>4. Numbered'
  BY <1>1, <1>2, FS_EmptySet DEF Numbered
<1>5. Idle' /\ Training' /\ Requesting' /\ AnswerInv'
  BY <1>1, <1>2 DEF Idle, Training, Requesting, AnswerInv
<1> QED BY <1>3, <1>4, <1>5 DEF Inv

-----------------------------------------------------------------------------
(* The tasks preserve the invariant.                                       *)

\* A block is attached: it is counted when it was not, yet.
LEMMA AttachStep ==
    ASSUME Numbered, NEW b \in Blocks, Attach(b)
    PROVE  /\ linked' \subseteq attached' /\ attached' \subseteq Blocks
           /\ IsFiniteSet(attached') /\ connected' = Cardinality(attached') /\ connected' \in Nat
           /\ attached' = attached \cup {b} /\ connected <= connected'
<1>1. /\ linked' = linked \cup {b} /\ attached' = attached \cup {b}
      /\ connected' = IF b \in attached THEN connected ELSE connected + 1
  BY DEF Attach
<1>2. /\ linked \subseteq attached /\ attached \subseteq Blocks
      /\ IsFiniteSet(attached) /\ connected = Cardinality(attached) /\ connected \in Nat
  BY DEF Numbered
<1>3. IsFiniteSet(attached \cup {b})
      /\ Cardinality(attached \cup {b})
             = IF b \in attached THEN Cardinality(attached) ELSE Cardinality(attached) + 1
  BY <1>2, FS_AddElement, Zenon
<1> QED BY <1>1, <1>2, <1>3

\* A block links itself: for a train it is counted, for a request it was before.
LEMMA ConnectStep ==
    ASSUME Inv, NEW b \in Blocks, Connect(b)
    PROVE  Inv'
<1>1. UNCHANGED <<type, size, neurons, finalized, local, unfinished, outs, rows, reports, kind, given,
                  answer, calls>>
  BY DEF Connect, bufferVars, callVars
<1>2. Sizes /\ Numbered /\ Idle /\ Training /\ Requesting /\ AnswerInv
  BY DEF Inv
<1>3. /\ linked' \subseteq attached' /\ attached' \subseteq Blocks
      /\ IsFiniteSet(attached') /\ connected' = Cardinality(attached') /\ connected' \in Nat
      /\ attached' = attached \cup {b} /\ connected <= connected'
  BY <1>2, AttachStep DEF Connect
<1>4. Sizes' /\ WidthOf' = WidthOf
  BY <1>1, <1>2, SameSizes DEF Sizes
<1>5. AnswerInv'
  BY <1>1, <1>2 DEF AnswerInv
<1>6. ~ (stale[b] > 0)
  BY <1>2 DEF Numbered, NoneStale
<1>7. \/ /\ "train" \in todo[b] /\ stale' = stale
         /\ todo' = [todo EXCEPT ![b] = (@ \ {"train"}) \cup {"joined"}]
      \/ /\ "process" \in todo[b] /\ stale' = stale
         /\ todo' = [todo EXCEPT ![b] = (@ \ {"process"}) \cup {"asked"}]
  BY <1>6 DEF Connect, GoesOn, Taken
<1>8. todo' \in [Blocks -> SUBSET Tasks]
  BY <1>2, <1>7 DEF Numbered, Tasks
<1>9. Numbered'
  BY <1>1, <1>2, <1>3, <1>7, <1>8 DEF Numbered
<1>10. CASE kind = "train"
  <2>1. todo[b] \in Way
    BY <1>2, <1>10 DEF Training, OnWay
  <2>2. todo[b] = {"train"} /\ todo' = [todo EXCEPT ![b] = (@ \ {"train"}) \cup {"joined"}]
    BY <1>7, <2>1 DEF Way
  <2>3. todo'[b] = {"joined"} /\ \A c \in Blocks : c # b => todo'[c] = todo[c]
    BY <1>2, <2>2 DEF Numbered
  <2>4. ASSUME NEW c \in Blocks PROVE OnWay(c)'
    <3>1. OnWay(c)
      BY <1>2, <1>10 DEF Training
    <3>2. CASE c = b
      <4>1. b \notin unfinished
        BY <2>2, <3>1, <3>2 DEF OnWay
      <4> QED BY <1>1, <1>3, <2>3, <3>2, <4>1 DEF OnWay, Way
    <3>3. CASE c # b
      BY <1>1, <1>3, <1>4, <2>3, <3>1, <3>3 DEF OnWay
    <3> QED BY <3>2, <3>3
  <2>5. finalized' => unfinished' = {} /\ reports' > 0 /\ AllGradients'
    BY <1>1, <1>2, <1>10 DEF Training, AllGradients
  <2>6. ASSUME ~finalized'
        PROVE  /\ local' = Cardinality(unfinished')
               /\ unfinished' # {} => local' < connected'
               /\ \A k \in 1 .. Len(given') * WidthOf' :
                      k \in DOMAIN neurons' /\ IsFresh(neurons[k])'
    <3>1. /\ local = Cardinality(unfinished)
          /\ unfinished # {} => local < connected
          /\ \A k \in 1 .. Len(given) * WidthOf : k \in DOMAIN neurons /\ IsFresh(neurons[k])
      BY <1>1, <1>2, <1>10, <2>6 DEF Training
    <3>2. unfinished' # {} => local' < connected'
      BY <1>1, <1>2, <1>3, <3>1 DEF Numbered
    <3>3. \A k \in 1 .. Len(given') * WidthOf' : k \in DOMAIN neurons' /\ IsFresh(neurons[k])'
      BY <1>1, <1>4, <3>1 DEF IsFresh
    <3> QED BY <1>1, <3>1, <3>2, <3>3
  <2>7. Training'
    BY <2>4, <2>5, <2>6 DEF Training
  <2> QED BY <1>1, <1>4, <1>5, <1>9, <1>10, <2>7 DEF Inv, Idle, Requesting
<1>11. CASE kind = "request"
  <2>1. todo[b] \in {{"process"}, {"asked"}, {}} /\ attached = Blocks
    BY <1>2, <1>11 DEF Requesting
  <2>2. todo[b] = {"process"} /\ todo' = [todo EXCEPT ![b] = (@ \ {"process"}) \cup {"asked"}]
    BY <1>7, <2>1
  <2>3. todo'[b] = {"asked"} /\ \A c \in Blocks : c # b => todo'[c] = todo[c]
    BY <1>2, <2>2 DEF Numbered
  <2>4. Done' = Done /\ Done # Blocks
    BY <2>2, <2>3 DEF Done
  <2>5. attached' = Blocks /\ connected' = connected
    BY <1>2, <1>3, <2>1 DEF Numbered
  <2>6. \A c \in Blocks : todo'[c] \in {{"process"}, {"asked"}, {}}
    BY <1>2, <1>11, <2>3 DEF Requesting
  <2>7. Requesting'
    BY <1>1, <1>2, <1>11, <2>4, <2>5, <2>6 DEF Requesting
  <2> QED BY <1>1, <1>4, <1>5, <1>9, <1>11, <2>7 DEF Inv, Idle, Training
<1>12. kind # "none"
  BY <1>2, <1>7 DEF Idle
<1> QED BY <1>2, <1>10, <1>11, <1>12 DEF Numbered

\* The block takes the length of the buffer, in its outputs and its weights.
LEMMA SizeBlockStep ==
    ASSUME Inv, NEW b \in Blocks, SizeBlock(b)
    PROVE  Inv'
<1>1. /\ outs' = [outs EXCEPT ![b] = Len(neurons)] /\ rows' = [rows EXCEPT ![b] = Len(neurons)]
      /\ UNCHANGED <<type, size, neurons, finalized, local, unfinished, connected, linked, attached,
                     stale, reports, kind, given, answer, calls>>
  BY DEF SizeBlock, NewRows, bufferVars, callVars
<1>2. Sizes /\ Numbered /\ Idle /\ Training /\ Requesting /\ AnswerInv
  BY DEF Inv
<1>3. PICK t \in {"train", "joined"} :
          /\ t \in todo[b] /\ todo' = [todo EXCEPT ![b] = (@ \ {t}) \cup {"sized"}]
          /\ t = "train" => b \in linked
  BY DEF SizeBlock, GoesOn
<1>4. kind = "train"
  BY <1>2, <1>3 DEF Idle, Requesting, Numbered
<1>5. todo[b] = {t} /\ b \in attached /\ b \notin unfinished
  <2>1. OnWay(b)
    BY <1>2, <1>4 DEF Training
  <2>2. todo[b] = {t}
    BY <1>3, <2>1 DEF OnWay, Way
  <2> QED BY <1>2, <1>3, <2>1, <2>2 DEF OnWay, Numbered
<1>6. todo'[b] = {"sized"} /\ \A c \in Blocks : c # b => todo'[c] = todo[c]
  BY <1>2, <1>3, <1>5 DEF Numbered
<1>7. todo' \in [Blocks -> SUBSET Tasks]
  BY <1>2, <1>3, <1>5 DEF Numbered, Tasks
<1> DEFINE n == size * WidthOf
<1>8. n \in Nat /\ WidthOf' = WidthOf /\ Len(neurons) = n
  <2>1. WidthOf \in Nat /\ size \in Nat
    BY <1>2, WidthType DEF Sizes
  <2>2. n \in Nat
    BY <2>1
  <2>3. WidthOf' = WidthOf
    BY <1>1 DEF WidthOf
  <2>4. DOMAIN neurons = 1 .. n
    BY <1>2 DEF Sizes
  <2> HIDE DEF n
  <2> QED BY <2>2, <2>3, <2>4
<1>9. /\ outs' \in [Blocks -> Nat] /\ rows' \in [Blocks -> Nat] /\ outs'[b] = n /\ rows'[b] = n
      /\ \A c \in Blocks : c # b => outs'[c] = outs[c] /\ rows'[c] = rows[c]
  <2> HIDE DEF n
  <2> QED BY <1>1, <1>2, <1>8 DEF Sizes
<1>10. Sizes'
  <2>1. \A c \in Blocks : outs'[c] <= rows'[c] /\ rows'[c] <= n
    <3> TAKE c \in Blocks
    <3>1. outs[c] <= rows[c] /\ rows[c] <= n
      BY <1>2 DEF Sizes
    <3> HIDE DEF n
    <3> QED BY <1>8, <1>9, <3>1
  <2> QED BY <1>1, <1>2, <1>8, <1>9, <2>1 DEF Sizes
<1>11. Numbered'
  BY <1>1, <1>2, <1>7 DEF Numbered
<1>12. Training'
  <2>1. ASSUME NEW c \in Blocks PROVE OnWay(c)'
    <3>1. OnWay(c)
      BY <1>2, <1>4 DEF Training
    <3>2. CASE c = b
      BY <1>1, <1>5, <1>6, <1>8, <1>9, <3>2 DEF OnWay, Way
    <3>3. CASE c # b
      BY <1>1, <1>6, <1>8, <1>9, <3>1, <3>3 DEF OnWay
    <3> QED BY <3>2, <3>3
  <2>2. finalized' => unfinished' = {} /\ reports' > 0 /\ AllGradients'
    BY <1>1, <1>2, <1>4 DEF Training, AllGradients
  <2>3. ASSUME ~finalized'
        PROVE  /\ local' = Cardinality(unfinished')
               /\ unfinished' # {} => local' < connected'
               /\ \A k \in 1 .. Len(given') * WidthOf' :
                      k \in DOMAIN neurons' /\ IsFresh(neurons[k])'
    BY <1>1, <1>2, <1>4, <1>8, <2>3 DEF Training, IsFresh
  <2> QED BY <2>1, <2>2, <2>3 DEF Training
<1>13. Idle' /\ Requesting' /\ AnswerInv'
  BY <1>1, <1>2, <1>4 DEF Idle, Requesting, AnswerInv
<1> QED BY <1>10, <1>11, <1>12, <1>13 DEF Inv

\* Adding does not touch the gradients and the targets.
LEMMA AddedFresh ==
    ASSUME Sizes, NEW sums, neurons' = Added(neurons, sums), UNCHANGED <<type, size, outs, rows, calls>>
    PROVE  /\ Sizes' /\ WidthOf' = WidthOf /\ DOMAIN neurons' = DOMAIN neurons
           /\ AllGradients => AllGradients'
           /\ \A k \in DOMAIN neurons : IsFresh(neurons[k]) => IsFresh(neurons[k])'
<1>1. /\ DOMAIN neurons' = DOMAIN neurons
      /\ \A k \in DOMAIN neurons : /\ DOMAIN neurons'[k] = Fields
                                   /\ neurons'[k].gradient = neurons[k].gradient
                                   /\ neurons'[k].call = neurons[k].call
  <2>1. \A k \in DOMAIN neurons : DOMAIN neurons[k] = Fields
    BY DEF Sizes
  <2> QED BY <2>1, AddedNeurons
<1>2. Sizes' /\ WidthOf' = WidthOf
  BY <1>1, SameSizes
<1> QED BY <1>1, <1>2 DEF AllGradients, IsFresh

\* The contribution of a block in a train: to an output that is complete, as the
\* block that completes it, or as one of those that wait for it.
LEMMA TrainBlockStep ==
    ASSUME Inv, NEW b \in Blocks, TrainBlock(b)
    PROVE  Inv'
<1>1. Sizes /\ Numbered /\ Idle /\ Training /\ Requesting /\ AnswerInv
  BY DEF Inv
<1>2. /\ "sized" \in todo[b]
      /\ UNCHANGED <<type, size, connected, linked, attached, outs, rows, stale, kind, given, answer,
                     calls>>
  BY DEF TrainBlock, blockVars, callVars
<1>3. kind = "train"
  BY <1>1, <1>2 DEF Idle, Requesting, Numbered
<1>4. todo[b] = {"sized"} /\ b \notin unfinished /\ b \in attached /\ rows[b] = size * WidthOf
  <2>1. OnWay(b)
    BY <1>1, <1>3 DEF Training
  <2>2. todo[b] = {"sized"}
    BY <1>2, <2>1 DEF OnWay, Way
  <2> QED BY <2>1, <2>2 DEF OnWay
<1>5. AnswerInv'
  BY <1>1, <1>2 DEF AnswerInv
<1>6. Idle' /\ Requesting'
  BY <1>2, <1>3 DEF Idle, Requesting
<1>7. WidthOf' = WidthOf
  BY <1>2 DEF WidthOf
<1>8. PICK sums \in Sums(outs[b]) :
          \/ /\ finalized
             /\ neurons' = Added(neurons, sums)
             /\ GoesOn(b, "sized", "gradient")
             /\ UNCHANGED <<finalized, local, unfinished, reports>>
          \/ /\ ~finalized /\ CompletedBy(connected)
             /\ neurons' = Gradients(Squashed(Added(neurons, sums)))
             /\ finalized' = TRUE /\ local' = local + 1 /\ unfinished' = {}
             /\ reports' = reports + 1
             /\ todo' = [c \in Blocks |->
                            IF c = b THEN (todo[c] \ {"sized"}) \cup {"gradient"}
                            ELSE IF c \in unfinished THEN (todo[c] \ {"waits"}) \cup {"backward"}
                            ELSE todo[c]]
          \/ /\ ~finalized /\ ~CompletedBy(connected)
             /\ neurons' = Added(neurons, sums)
             /\ local' = local + 1 /\ unfinished' = unfinished \cup {b}
             /\ GoesOn(b, "sized", "waits")
             /\ UNCHANGED <<finalized, reports>>
  BY DEF TrainBlock
<1>9. CASE /\ finalized
           /\ neurons' = Added(neurons, sums)
           /\ GoesOn(b, "sized", "gradient")
           /\ UNCHANGED <<finalized, local, unfinished, reports>>
  <2>1. Sizes' /\ (AllGradients => AllGradients')
    BY <1>1, <1>2, <1>9, AddedFresh
  <2>2. todo' = [todo EXCEPT ![b] = (@ \ {"sized"}) \cup {"gradient"}]
    BY <1>9 DEF GoesOn
  <2>3. todo'[b] = {"gradient"} /\ \A c \in Blocks : c # b => todo'[c] = todo[c]
    BY <1>1, <1>4, <2>2 DEF Numbered
  <2>4. todo' \in [Blocks -> SUBSET Tasks]
    BY <1>1, <1>4, <2>2 DEF Numbered, Tasks
  <2>5. Numbered'
    BY <1>1, <1>2, <1>9, <2>4 DEF Numbered
  <2>6. unfinished = {} /\ reports > 0 /\ AllGradients
    BY <1>1, <1>3, <1>9 DEF Training
  <2>7. ASSUME NEW c \in Blocks PROVE OnWay(c)'
    <3>1. OnWay(c)
      BY <1>1, <1>3 DEF Training
    <3>2. CASE c = b
      BY <1>2, <1>4, <1>7, <1>9, <2>3, <3>2 DEF OnWay, Way
    <3>3. CASE c # b
      BY <1>2, <1>7, <1>9, <2>3, <3>1, <3>3 DEF OnWay
    <3> QED BY <3>2, <3>3
  <2>8. Training'
    BY <1>9, <2>1, <2>6, <2>7 DEF Training
  <2> QED BY <1>5, <1>6, <2>1, <2>5, <2>8 DEF Inv
<1>10. CASE /\ ~finalized /\ CompletedBy(connected)
            /\ neurons' = Gradients(Squashed(Added(neurons, sums)))
            /\ finalized' = TRUE /\ local' = local + 1 /\ unfinished' = {}
            /\ reports' = reports + 1
            /\ todo' = [c \in Blocks |->
                           IF c = b THEN (todo[c] \ {"sized"}) \cup {"gradient"}
                           ELSE IF c \in unfinished THEN (todo[c] \ {"waits"}) \cup {"backward"}
                           ELSE todo[c]]
  <2>1. /\ DOMAIN neurons' = DOMAIN neurons
        /\ \A k \in DOMAIN neurons : DOMAIN neurons'[k] = Fields /\ neurons'[k].gradient
    <3> DEFINE ns == Added(neurons, sums)
               sq == Squashed(Added(neurons, sums))
    <3>1. DOMAIN ns = DOMAIN neurons /\ \A k \in DOMAIN ns : DOMAIN ns[k] = Fields
      <4>1. \A k \in DOMAIN neurons : DOMAIN neurons[k] = Fields
        BY <1>1 DEF Sizes
      <4> QED BY <4>1, AddedNeurons
    <3>2. DOMAIN sq = DOMAIN ns /\ \A k \in DOMAIN sq : DOMAIN sq[k] = Fields
      BY <3>1, SquashedNeurons
    <3> HIDE DEF sq, ns
    <3>3. /\ DOMAIN Gradients(sq) = DOMAIN sq
          /\ \A k \in DOMAIN sq : DOMAIN Gradients(sq)[k] = Fields /\ Gradients(sq)[k].gradient
      BY <3>2, GradientNeurons
    <3>4. neurons' = Gradients(sq)
      BY <1>10 DEF sq
    <3> QED BY <3>1, <3>2, <3>3, <3>4
  <2>2. Sizes' /\ AllGradients'
    BY <1>1, <1>2, <2>1, SameSizes DEF AllGradients
  <2>3. /\ todo'[b] = {"gradient"}
        /\ \A c \in unfinished : todo'[c] = {"backward"}
        /\ \A c \in Blocks : c # b /\ c \notin unfinished => todo'[c] = todo[c]
    <3>1. \A c \in unfinished : todo[c] = {"waits"} /\ c \in Blocks
      BY <1>1, <1>3 DEF Training, OnWay, Numbered
    <3> QED BY <1>1, <1>4, <1>10, <3>1 DEF Numbered
  <2>4. todo' \in [Blocks -> SUBSET Tasks]
    BY <1>1, <1>4, <1>10 DEF Numbered, Tasks
  <2>5. Numbered'
    <3>1. local' \in Nat /\ reports' \in Nat
      BY <1>1, <1>10 DEF Numbered
    <3>2. finalized' \in BOOLEAN
      BY <1>10
    <3> QED BY <1>1, <1>2, <1>10, <2>4, <3>1, <3>2, FS_EmptySet DEF Numbered
  <2>6. ASSUME NEW c \in Blocks PROVE OnWay(c)'
    <3>1. OnWay(c)
      BY <1>1, <1>3 DEF Training
    <3>2. CASE c = b
      BY <1>2, <1>4, <1>7, <1>10, <2>3, <3>2 DEF OnWay, Way
    <3>3. CASE c \in unfinished
      <4>1. c \in attached /\ rows[c] = size * WidthOf /\ todo'[c] = {"backward"}
        BY <2>3, <3>1, <3>3 DEF OnWay
      <4> QED BY <1>2, <1>7, <1>10, <4>1 DEF OnWay, Way
    <3>4. CASE c # b /\ c \notin unfinished
      <4>1. todo[c] # {"waits"} /\ todo'[c] = todo[c]
        BY <2>3, <3>1, <3>4 DEF OnWay
      <4> QED BY <1>2, <1>7, <1>10, <3>1, <4>1 DEF OnWay
    <3> QED BY <3>2, <3>3, <3>4
  <2>7. reports' > 0
    BY <1>1, <1>10 DEF Numbered
  <2>8. Training'
    BY <1>10, <2>2, <2>6, <2>7 DEF Training
  <2> QED BY <1>5, <1>6, <2>2, <2>5, <2>8 DEF Inv
<1>11. CASE /\ ~finalized /\ ~CompletedBy(connected)
            /\ neurons' = Added(neurons, sums)
            /\ local' = local + 1 /\ unfinished' = unfinished \cup {b}
            /\ GoesOn(b, "sized", "waits")
            /\ UNCHANGED <<finalized, reports>>
  <2>1. /\ Sizes' /\ DOMAIN neurons' = DOMAIN neurons
        /\ \A k \in DOMAIN neurons : IsFresh(neurons[k]) => IsFresh(neurons[k])'
    BY <1>1, <1>2, <1>11, AddedFresh
  <2>2. todo' = [todo EXCEPT ![b] = (@ \ {"sized"}) \cup {"waits"}]
    BY <1>11 DEF GoesOn
  <2>3. todo'[b] = {"waits"} /\ \A c \in Blocks : c # b => todo'[c] = todo[c]
    BY <1>1, <1>4, <2>2 DEF Numbered
  <2>4. todo' \in [Blocks -> SUBSET Tasks]
    BY <1>1, <1>4, <2>2 DEF Numbered, Tasks
  <2>5. /\ IsFiniteSet(unfinished \cup {b})
        /\ Cardinality(unfinished \cup {b}) = Cardinality(unfinished) + 1
    BY <1>1, <1>4, FS_AddElement, Zenon DEF Numbered
  <2>6. /\ local = Cardinality(unfinished)
        /\ \A k \in 1 .. Len(given) * WidthOf : k \in DOMAIN neurons /\ IsFresh(neurons[k])
    BY <1>1, <1>3, <1>11 DEF Training
  <2>7. local' = Cardinality(unfinished') /\ local' < connected' /\ local' \in Nat
    <3>1. ~ (local + 1 >= connected)
      BY <1>11 DEF CompletedBy
    <3>2. local \in Nat /\ connected \in Nat
      BY <1>1 DEF Numbered
    <3> QED BY <1>2, <1>11, <2>5, <2>6, <3>1, <3>2
  <2>8. Numbered'
    BY <1>1, <1>2, <1>11, <2>4, <2>5, <2>7 DEF Numbered
  <2>9. ASSUME NEW c \in Blocks PROVE OnWay(c)'
    <3>1. OnWay(c)
      BY <1>1, <1>3 DEF Training
    <3>2. CASE c = b
      BY <1>2, <1>4, <1>7, <1>11, <2>3, <3>2 DEF OnWay, Way
    <3>3. CASE c # b
      BY <1>2, <1>7, <1>11, <2>3, <3>1, <3>3 DEF OnWay
    <3> QED BY <3>2, <3>3
  <2>11. \A k \in 1 .. Len(given') * WidthOf' : k \in DOMAIN neurons' /\ IsFresh(neurons[k])'
    BY <1>2, <1>7, <2>1, <2>6
  <2>12. Training'
    BY <1>11, <2>7, <2>9, <2>11 DEF Training
  <2> QED BY <1>5, <1>6, <2>1, <2>8, <2>12 DEF Inv
<1> QED BY <1>8, <1>9, <1>10, <1>11

\* The contribution of a block in a request. The last one has counted all others,
\* and no more blocks than these are connected.
LEMMA ProcessBlockStep ==
    ASSUME Inv, NEW b \in Blocks, ProcessBlock(b)
    PROVE  Inv'
<1>1. Sizes /\ Numbered /\ Idle /\ Training /\ Requesting /\ AnswerInv
  BY DEF Inv
<1>2. /\ local' = local + 1
      /\ UNCHANGED <<type, size, connected, linked, attached, outs, rows, kind, given, answer, calls>>
  BY DEF ProcessBlock, blockVars, callVars
<1>3. PICK t \in {"process", "asked"} :
          /\ t \in todo[b] /\ stale' = stale
          /\ \A c \in Blocks : c # b => todo'[c] = todo[c]
          /\ todo'[b] = todo[b] \ {t} /\ todo' \in [Blocks -> SUBSET Tasks]
  <2>1. ~ (stale[b] > 0)
    BY <1>1 DEF Numbered, NoneStale
  <2>2. PICK t \in {"process", "asked"} :
            t \in todo[b] /\ stale' = stale /\ todo' = [todo EXCEPT ![b] = @ \ {t}]
    BY <2>1 DEF ProcessBlock, Did, Taken
  <2> QED BY <1>1, <2>2 DEF Numbered
<1>4. kind = "request"
  <2>1. kind # "none"
    BY <1>1, <1>3 DEF Idle
  <2>2. ASSUME kind = "train" PROVE FALSE
    <3>1. todo[b] \in Way
      BY <1>1, <2>2 DEF Training, OnWay
    <3> QED BY <1>3, <3>1 DEF Way
  <2> QED BY <1>1, <2>1, <2>2 DEF Numbered
<1>5. /\ unfinished = {} /\ todo[b] = {t} /\ attached = Blocks
      /\ IsFiniteSet(Done) /\ local = Cardinality(Done)
  BY <1>1, <1>3, <1>4 DEF Requesting
<1>6. todo'[b] = {}
  BY <1>3, <1>5
<1>8. Done' = Done \cup {b} /\ b \notin Done
  BY <1>3, <1>5, <1>6 DEF Done
<1>9. IsFiniteSet(Done') /\ local' = Cardinality(Done') /\ local' \in Nat
  <2>1. IsFiniteSet(Done \cup {b}) /\ Cardinality(Done \cup {b}) = Cardinality(Done) + 1
    BY <1>5, <1>8, FS_AddElement, Zenon
  <2> QED BY <1>1, <1>2, <1>5, <1>8, <2>1 DEF Numbered
<1>10. PICK sums \in Sums(outs[b]) :
           IF CompletedBy(connected)
           THEN /\ neurons' = Squashed(Added(neurons, sums))
                /\ finalized' = TRUE /\ unfinished' = {}
                /\ reports' = reports + 1
           ELSE /\ neurons' = Added(neurons, sums)
                /\ UNCHANGED <<finalized, unfinished, reports>>
  BY DEF ProcessBlock
<1> DEFINE ns == Added(neurons, sums)
<1>11. DOMAIN ns = DOMAIN neurons /\ \A k \in DOMAIN ns : DOMAIN ns[k] = Fields
  <2>1. \A k \in DOMAIN neurons : DOMAIN neurons[k] = Fields
    BY <1>1 DEF Sizes
  <2> QED BY <2>1, AddedNeurons
<1>12. /\ DOMAIN Squashed(ns) = DOMAIN ns
       /\ \A k \in DOMAIN ns : DOMAIN Squashed(ns)[k] = Fields
       /\ Activated(Squashed(ns))
  BY <1>11, SquashedNeurons
<1> HIDE DEF ns
<1>13. DOMAIN neurons' = DOMAIN neurons /\ \A k \in DOMAIN neurons : DOMAIN neurons'[k] = Fields
  BY <1>10, <1>11, <1>12 DEF ns
<1>14. Sizes'
  BY <1>1, <1>2, <1>13, SameSizes
<1>15. unfinished' = {} /\ reports' \in Nat
  BY <1>1, <1>5, <1>10 DEF Numbered
<1>16. finalized' \in BOOLEAN
  BY <1>1, <1>10 DEF Numbered
<1>17. Numbered'
  BY <1>1, <1>2, <1>3, <1>9, <1>15, <1>16, FS_EmptySet DEF Numbered
<1>18. connected \in Nat /\ connected = Cardinality(Blocks) /\ IsFiniteSet(Blocks) /\ local \in Nat
  BY <1>1, <1>5 DEF Numbered
<1>19. Requesting'
  <2>1. \A c \in Blocks : todo'[c] \in {{"process"}, {"asked"}, {}}
    BY <1>1, <1>3, <1>4, <1>6 DEF Requesting
  <2>2. Done # Blocks /\ reports = 0
    BY <1>1, <1>4, <1>8 DEF Requesting, Numbered
  <2>3. ASSUME reports' = 0 PROVE local' < connected'
    <3>1. ~CompletedBy(connected)
      BY <1>10, <2>2, <2>3
    <3> QED BY <1>2, <1>18, <3>1 DEF CompletedBy
  <2>4. ASSUME reports' > 0 PROVE Done' = Blocks /\ Activated(neurons')
    <3>1. CompletedBy(connected)
      BY <1>10, <2>2, <2>4
    <3>2. Activated(neurons')
      BY <1>10, <1>12, <3>1 DEF ns
    <3>3. Done' \subseteq Blocks /\ local' >= connected
      BY <1>2, <1>18, <3>1 DEF CompletedBy, Done
    <3>4. Done' = Blocks
      <4>1. Cardinality(Done') <= Cardinality(Blocks)
        BY <1>18, <3>3, FS_Subset
      <4>2. Cardinality(Done') = Cardinality(Blocks)
        BY <1>9, <1>18, <3>3, <4>1
      <4> QED BY <1>18, <3>3, <4>2, FS_Subset
    <3> QED BY <3>2, <3>4
  <2> QED BY <1>2, <1>5, <1>9, <1>15, <2>1, <2>3, <2>4 DEF Requesting
<1>20. Idle' /\ Training' /\ AnswerInv'
  BY <1>1, <1>2, <1>4 DEF Idle, Training, AnswerInv
<1> QED BY <1>14, <1>17, <1>19, <1>20 DEF Inv

\* A block that backpropagates has as many weights as the buffer has neurons.
LEMMA BackpropagateBlockStep ==
    ASSUME Inv, NEW b \in Blocks, BackpropagateBlock(b)
    PROVE  Inv' /\ kind = "train" /\ finalized /\ AllGradients
<1>1. Sizes /\ Numbered /\ Idle /\ Training /\ Requesting /\ AnswerInv
  BY DEF Inv
<1>2. PICK t \in {"gradient", "backward"} : t \in todo[b] /\ TakeGradients(b, t)
  BY DEF BackpropagateBlock
<1>3. /\ outs' = [outs EXCEPT ![b] = Len(neurons)] /\ todo' = [todo EXCEPT ![b] = @ \ {t}]
      /\ UNCHANGED <<type, size, neurons, finalized, local, unfinished, connected, linked, attached,
                     rows, stale, reports, kind, given, answer, calls>>
  BY <1>2 DEF TakeGradients, Did, bufferVars, callVars
<1>4. kind = "train"
  BY <1>1, <1>2 DEF Idle, Requesting, Numbered
<1>5. todo[b] = {t} /\ finalized /\ unfinished = {} /\ reports > 0 /\ AllGradients
      /\ rows[b] = size * WidthOf /\ b \in attached
  <2>1. OnWay(b)
    BY <1>1, <1>4 DEF Training
  <2>2. todo[b] = {t} /\ t # "waits" /\ t # "train"
    BY <1>2, <2>1 DEF OnWay, Way
  <2>3. finalized /\ rows[b] = size * WidthOf /\ b \in attached
    BY <2>1, <2>2 DEF OnWay
  <2> QED BY <1>1, <1>4, <2>2, <2>3 DEF Training
<1>6. todo'[b] = {} /\ \A c \in Blocks : c # b => todo'[c] = todo[c]
  BY <1>1, <1>3, <1>5 DEF Numbered
<1>7. todo' \in [Blocks -> SUBSET Tasks]
  BY <1>1, <1>3 DEF Numbered
<1> DEFINE n == size * WidthOf
<1>8. n \in Nat /\ WidthOf' = WidthOf /\ Len(neurons) = n
  <2>1. WidthOf \in Nat /\ size \in Nat
    BY <1>1, WidthType DEF Sizes
  <2>2. n \in Nat
    BY <2>1
  <2>3. WidthOf' = WidthOf
    BY <1>3 DEF WidthOf
  <2>4. DOMAIN neurons = 1 .. n
    BY <1>1 DEF Sizes
  <2> HIDE DEF n
  <2> QED BY <2>2, <2>3, <2>4
<1>9. /\ outs' \in [Blocks -> Nat] /\ outs'[b] = n
      /\ \A c \in Blocks : c # b => outs'[c] = outs[c]
  <2> HIDE DEF n
  <2> QED BY <1>1, <1>3, <1>8 DEF Sizes
<1>10. Sizes'
  <2>1. \A c \in Blocks : outs'[c] <= rows'[c] /\ rows'[c] <= n
    <3> TAKE c \in Blocks
    <3>1. outs[c] <= rows[c] /\ rows[c] <= n
      BY <1>1 DEF Sizes
    <3>2. c = b => rows'[c] = n
      BY <1>3, <1>5
    <3> HIDE DEF n
    <3> QED BY <1>3, <1>8, <1>9, <3>1, <3>2
  <2> QED BY <1>1, <1>3, <1>8, <1>9, <2>1 DEF Sizes
<1>11. Numbered'
  BY <1>1, <1>3, <1>7 DEF Numbered
<1>12. Training'
  <2>1. ASSUME NEW c \in Blocks PROVE OnWay(c)'
    <3>1. OnWay(c)
      BY <1>1, <1>4 DEF Training
    <3>2. CASE c = b
      BY <1>3, <1>5, <1>6, <1>8, <3>2 DEF OnWay, Way
    <3>3. CASE c # b
      BY <1>3, <1>6, <1>8, <3>1, <3>3 DEF OnWay
    <3> QED BY <3>2, <3>3
  <2> QED BY <1>3, <1>5, <2>1 DEF Training, AllGradients
<1>13. Idle' /\ Requesting' /\ AnswerInv'
  BY <1>1, <1>3, <1>4 DEF Idle, Requesting, AnswerInv
<1> QED BY <1>4, <1>5, <1>10, <1>11, <1>12, <1>13 DEF Inv

LEMMA NextInv == Inv /\ [Next]_vars => Inv'
<1> SUFFICES ASSUME Inv, [Next]_vars PROVE Inv'
  OBVIOUS
<1>1. ASSUME NEW list \in Lists, TrainCall(list) PROVE Inv'
  BY <1>1, TrainCallStep
<1>2. CASE attached = Blocks /\ RequestCall
  BY <1>2, RequestCallStep
<1>3. CASE EndTrain
  BY <1>3, EndTrainStep
<1>4. CASE EndRequest
  BY <1>4, EndRequestStep
<1>5. CASE SaveAndRestore
  BY <1>5, SaveAndRestoreStep
<1>6. ASSUME NEW b \in Blocks, SizeBlock(b) PROVE Inv'
  BY <1>6, SizeBlockStep
<1>7. ASSUME NEW b \in Blocks, TrainBlock(b) PROVE Inv'
  BY <1>7, TrainBlockStep
<1>8. ASSUME NEW b \in Blocks, ProcessBlock(b) PROVE Inv'
  BY <1>8, ProcessBlockStep
<1>9. ASSUME NEW b \in Blocks, BackpropagateBlock(b) PROVE Inv'
  BY <1>9, BackpropagateBlockStep
<1>11. ASSUME NEW b \in Blocks, Connect(b) PROVE Inv'
  BY <1>11, ConnectStep
<1>10. CASE UNCHANGED vars
  <2>1. UNCHANGED <<type, size, neurons, finalized, local, unfinished, connected, linked, attached,
                    outs, rows, todo, stale, reports, kind, given, answer, calls>>
    BY <1>10 DEF vars, bufferVars, blockVars, callVars
  <2>2. WidthOf' = WidthOf
    BY <2>1 DEF WidthOf
  <2>3. Sizes' /\ Numbered'
    BY <2>1, <2>2 DEF Inv, Sizes, Numbered
  <2>4. Training'
    BY <2>1, <2>2 DEF Inv, Training, OnWay, AllGradients, IsFresh
  <2>5. Idle' /\ Requesting' /\ AnswerInv'
    BY <2>1 DEF Inv, Idle, Requesting, Done, Activated, AnswerInv
  <2> QED BY <2>3, <2>4, <2>5 DEF Inv
<1> QED BY <1>1, <1>2, <1>3, <1>4, <1>5, <1>6, <1>7, <1>8, <1>9, <1>10, <1>11 DEF Next

\* The inductive invariant, for any blocks and any calls.
THEOREM OutputInvariance == Spec => []Inv
<1>1. Init => Inv
  BY InitInv
<1> QED BY <1>1, NextInv, PTL DEF Spec

-----------------------------------------------------------------------------
(* What the neurons hold, and what becomes of it.                          *)

Neuron == [value : Int, target : Int, gradient : BOOLEAN, call : 0 .. MaxCalls]

\* What a request hands out.
Reading == [i \in 1 .. ValueCount |-> ValueOf(ValuesIn(Group(i)))]

Typed ==
    /\ neurons \in [1 .. size * WidthOf -> Neuron]
    /\ calls \in 0 .. MaxCalls
    /\ given \in Seq(Numbers) /\ taught \in Seq(Numbers) /\ answer \in Seq(Int)

\* The buffer has a place for all a train gave, and the request that follows it
\* reads what the neurons hold until the next call.
Returning ==
    /\ Len(taught) <= size
    /\ kind = "train" => given = taught
    /\ kind = "none" /\ given = <<>> /\ taught # <<>> => answer = Reading

ReadInv == Inv /\ Typed /\ Returning

\* Every function on neurons keeps them neurons.
LEMMA NeuronsKept ==
    ASSUME NEW D, NEW ns \in [D -> Neuron]
    PROVE  /\ Cleared(ns) \in [D -> Neuron]
           /\ Squashed(ns) \in [D -> Neuron]
           /\ Gradients(ns) \in [D -> Neuron]
           /\ \A n \in Nat : \A sums \in Sums(n) : Added(ns, sums) \in [D -> Neuron]
<1>1. Cleared(ns) \in [D -> Neuron]
  BY DEF Cleared, Neuron
<1>2. Squashed(ns) \in [D -> Neuron]
  <2>1. \A x : Sigmoid(x) \in Int
    BY DEF Sigmoid
  <2> QED BY <2>1 DEF Squashed, Neuron
<1>3. Gradients(ns) \in [D -> Neuron]
  BY DEF Gradients, Neuron
<1>4. ASSUME NEW n \in Nat, NEW sums \in Sums(n) PROVE Added(ns, sums) \in [D -> Neuron]
  <2>1. \A k \in DOMAIN sums : sums[k] \in Int
    BY OtherAssumption DEF Sums
  <2> QED BY <2>1 DEF Added, Neuron
<1> QED BY <1>1, <1>2, <1>3, <1>4

\* The targets of a value are numbers, one for each of its neurons.
LEMMA TargetType ==
    ASSUME type \in Types, NEW v \in Numbers, NEW j \in 1 .. WidthOf
    PROVE  TargetsOf(v)[j] \in Int
<1>1. type \in AllTypes /\ v \in Int
  BY OtherAssumption, NumberAssumption
<1>2. CASE type = "plain"
  BY <1>1, <1>2 DEF TargetsOf, WidthOf
<1>3. CASE type = "bool"
  BY <1>1, <1>3 DEF TargetsOf, WidthOf, One
<1>4. CASE type = "int"
  <2> DEFINE n == AsUnsigned(v)
  <2>1. n \in 0 .. 2^IntBits - 1 /\ IntBits \in Nat /\ j \in 1 .. IntBits
    BY <1>4, IntKept, WidthAssumption DEF WidthOf
  <2>2. TargetsOf(v)[j] = One * Bit(n, j, IntBits)
    BY <1>4, <2>1 DEF TargetsOf
  <2> HIDE DEF n
  <2> QED BY <2>1, <2>2, BitType DEF One
<1>5. CASE type = "float"
  <2> DEFINE n == BitsOf[v]
  <2>1. n \in 0 .. 2^FloatBits - 1 /\ FloatBits \in Nat /\ j \in 1 .. FloatBits
    BY <1>5, NumberAssumption, WidthAssumption DEF WidthOf
  <2>2. TargetsOf(v)[j] = One * Bit(n, j, FloatBits)
    BY <1>5, <2>1 DEF TargetsOf
  <2> HIDE DEF n
  <2> QED BY <2>1, <2>2, BitType DEF One
<1> QED BY <1>1, <1>2, <1>3, <1>4, <1>5 DEF AllTypes

\* A train makes neurons.
LEMMA ExpectedType ==
    ASSUME type \in Types, NEW m \in Nat, NEW n \in Nat, NEW ns \in [1 .. m * WidthOf -> Neuron],
           NEW list \in Seq(Numbers), NEW c \in 0 .. MaxCalls, m = size,
           n = IF size < Len(list) THEN Len(list) ELSE size
    PROVE  Expected(Updated(ns, Len(list)), list, c) \in [1 .. n * WidthOf -> Neuron]
<1> DEFINE old == Updated(ns, Len(list))
           w == WidthOf
<1>0. w \in Nat \ {0} /\ Len(list) \in Nat /\ DOMAIN list = 1 .. Len(list)
  BY WidthType
<1>1. old \in [1 .. n * w -> Neuron]
  <2>1. CASE size < Len(list)
    <3>1. old = [k \in 1 .. n * w |-> IF k \in DOMAIN ns THEN ns[k] ELSE NewNeuron]
      BY <2>1 DEF Updated
    <3>2. NewNeuron \in Neuron
      BY OtherAssumption DEF NewNeuron, Neuron
    <3> HIDE DEF old, w
    <3> QED BY <3>1, <3>2
  <2>2. CASE ~ (size < Len(list))
    BY <2>2 DEF Updated
  <2> QED BY <2>1, <2>2
<1> HIDE DEF old
<1> DEFINE i(k) == (k - 1) \div w + 1
           j(k) == ((k - 1) % w) + 1
<1>2. ASSUME NEW k \in 1 .. n * w, i(k) \in DOMAIN list
      PROVE  TargetsOf(list[i(k)])[j(k)] \in Int
  <2>1. j(k) \in 1 .. w
    <3> HIDE DEF w
    <3> QED BY <1>0, NeuronValue
  <2>2. list[i(k)] \in Numbers
    <3> HIDE DEF i
    <3> QED BY <1>2
  <2> HIDE DEF i, j
  <2> QED BY <2>1, <2>2, TargetType DEF w
<1>3. Expected(old, list, c)
          = [k \in 1 .. n * w |->
                IF i(k) \in DOMAIN list
                THEN [old[k] EXCEPT !.target = TargetsOf(list[i(k)])[j(k)],
                                    !.gradient = FALSE, !.call = c]
                ELSE old[k]]
  BY <1>1 DEF Expected
<1> HIDE DEF i, j, w
<1>4. ASSUME NEW k \in 1 .. n * w
      PROVE  (IF i(k) \in DOMAIN list
              THEN [old[k] EXCEPT !.target = TargetsOf(list[i(k)])[j(k)],
                                  !.gradient = FALSE, !.call = c]
              ELSE old[k]) \in Neuron
  <2> DEFINE x == TargetsOf(list[i(k)])[j(k)]
  <2>1. i(k) \in DOMAIN list => x \in Int
    BY <1>2
  <2>2. old[k] \in Neuron
    BY <1>1
  <2> HIDE DEF x
  <2>3. i(k) \in DOMAIN list
            => [old[k] EXCEPT !.target = x, !.gradient = FALSE, !.call = c] \in Neuron
    BY <2>1, <2>2 DEF Neuron
  <2> QED BY <2>2, <2>3 DEF x
<1> QED BY <1>3, <1>4 DEF old, w

\* The neurons of one value, and how many values there are.
LEMMA GroupFacts ==
    ASSUME Inv, Typed, NEW i \in 1 .. size
    PROVE  /\ ValueCount = size
           /\ Len(ValuesIn(Group(i))) = WidthOf
           /\ \A k \in 1 .. WidthOf : /\ ValuesIn(Group(i))[k] \in Int
                                      /\ ValuesIn(Group(i))[k] = Group(i)[k].value
<1> DEFINE w == WidthOf
           n == size * w
           a == (i - 1) * w
<1>1. w \in Nat \ {0} /\ size \in Nat /\ n \in Nat /\ neurons \in [1 .. n -> Neuron]
  BY WidthType DEF Inv, Sizes, Typed
<1>2. a \in Nat /\ i * w = a + w /\ a + w <= n
  <2>1. i \in Nat /\ i - 1 \in Nat /\ i <= size
    BY <1>1
  <2>2. i * w = (i - 1) * w + w /\ (i - 1) * w \in Nat
    <3> HIDE DEF w
    <3> QED BY <1>1, <2>1
  <2>3. i * w <= size * w
    BY <1>1, <2>1, MoreValues
  <2> HIDE DEF w
  <2> QED BY <2>2, <2>3
<1> HIDE DEF n, a, w
<1>3. neurons \in Seq(Neuron) /\ Len(neurons) = n
  BY <1>1
<1>4. ValueCount = size
  <2>1. n = w * size + 0 /\ 0 \in Nat /\ 0 < w
    BY <1>1 DEF n
  <2>2. n \div w = size
    BY <1>1, <2>1, OneQuotient
  <2> QED BY <1>3, <2>2 DEF ValueCount, w
<1>5. Group(i) = SubSeq(neurons, a + 1, a + w)
  BY <1>2 DEF Group, a, w
<1>6. SubSeq(neurons, a + 1, a + w) = [k \in 1 .. w |-> neurons[a + k]]
  BY <1>1, <1>2, <1>3
<1>7. \A k \in 1 .. w : neurons[a + k] \in Neuron
  BY <1>1, <1>2
<1>8. ValuesIn(Group(i)) = [k \in 1 .. w |-> neurons[a + k].value]
  BY <1>5, <1>6 DEF ValuesIn
<1>9. \A k \in 1 .. w : neurons[a + k].value \in Int
  BY <1>7 DEF Neuron
<1>10. Len(ValuesIn(Group(i))) = w
  BY <1>1, <1>8
<1>11. ASSUME NEW k \in 1 .. w
       PROVE  ValuesIn(Group(i))[k] \in Int /\ ValuesIn(Group(i))[k] = Group(i)[k].value
  <2>1. ValuesIn(Group(i))[k] = neurons[a + k].value
    BY <1>8
  <2>2. Group(i)[k] = neurons[a + k]
    BY <1>5, <1>6
  <2> QED BY <1>9, <2>1, <2>2
<1> QED BY <1>4, <1>10, <1>11 DEF w

\* A value that is handed out is a number.
LEMMA ValueType ==
    ASSUME type \in Types, NEW values, Len(values) = WidthOf, values[1] \in Int
    PROVE  ValueOf(values) \in Int
<1>1. type \in AllTypes
  BY OtherAssumption
<1>2. CASE type = "plain"
  BY <1>2 DEF ValueOf
<1>3. CASE type = "bool"
  <2>1. Packed(values) \in 0 .. 2^1 - 1 /\ 2^1 = 2
    <3>1. Len(values) = 1 /\ 1 \in Nat /\ 2^1 = 2
      BY <1>3 DEF WidthOf
    <3>2. Packed(values) \in 0 .. 2^1 - 1
      BY <3>1, PackedRange, Zenon
    <3> QED BY <3>1, <3>2
  <2> QED BY <1>3, <2>1 DEF ValueOf, One
<1>4. CASE type = "int"
  <2>1. Packed(values) \in 0 .. 2^IntBits - 1
    BY <1>4, PackedRange, WidthAssumption DEF WidthOf
  <2> QED BY <1>4, <2>1, FloatType DEF ValueOf
<1>5. CASE type = "float"
  <2> DEFINE n == Packed(values)
  <2>1. n \in 0 .. 2^FloatBits - 1
    BY <1>5, PackedRange, WidthAssumption DEF WidthOf
  <2> HIDE DEF n
  <2>2. \E v \in Numbers : BitsOf[v] = n
    BY <2>1, NumberAssumption
  <2>3. FromBits(n) \in Numbers
    BY <2>2 DEF FromBits
  <2>4. ValueOf(values) = FromBits(n)
    BY <1>5 DEF ValueOf, n
  <2> QED BY <2>3, <2>4, NumberAssumption
<1> QED BY <1>1, <1>2, <1>3, <1>4, <1>5 DEF AllTypes

LEMMA ReadingType ==
    ASSUME Inv, Typed
    PROVE  Reading \in Seq(Int) /\ DOMAIN Reading = 1 .. size
<1>1. type \in Types /\ size \in Nat /\ WidthOf \in Nat \ {0}
  BY WidthType DEF Inv, Sizes
<1>2. ValueCount = size
  <2>1. CASE size = 0
    <3>1. Len(neurons) = 0
      BY <1>1, <2>1 DEF Typed
    <3>2. 0 = WidthOf * 0 + 0 /\ 0 < WidthOf
      BY <1>1
    <3>3. 0 \div WidthOf = 0
      BY <1>1, <3>2, OneQuotient
    <3> QED BY <2>1, <3>1, <3>3 DEF ValueCount
  <2>2. CASE size # 0
    <3>1. 1 \in 1 .. size
      BY <1>1, <2>2
    <3> QED BY <3>1, GroupFacts
  <2> QED BY <2>1, <2>2
<1>3. ASSUME NEW i \in 1 .. size PROVE ValueOf(ValuesIn(Group(i))) \in Int
  <2>1. 1 \in 1 .. WidthOf
    BY <1>1
  <2>2. Len(ValuesIn(Group(i))) = WidthOf /\ ValuesIn(Group(i))[1] \in Int
    BY <2>1, GroupFacts
  <2> QED BY <1>1, <2>2, ValueType
<1>4. Reading = [i \in 1 .. size |-> ValueOf(ValuesIn(Group(i)))]
  BY <1>2 DEF Reading
<1> QED BY <1>1, <1>3, <1>4

\* A task works on the neurons only, during a call.
LEMMA TaskReads ==
    ASSUME ReadInv, NEW b \in Blocks, todo[b] # {}, UNCHANGED <<type, size, callVars>>,
           neurons' \in [1 .. size * WidthOf -> Neuron]
    PROVE  Typed' /\ Returning'
<1>1. kind # "none"
  BY DEF ReadInv, Inv, Idle
<1>2. UNCHANGED <<type, size, kind, given, taught, answer, calls>> /\ WidthOf' = WidthOf
  BY DEF callVars, WidthOf
<1>3. Typed'
  BY <1>2 DEF ReadInv, Typed
<1>4. Returning'
  BY <1>1, <1>2 DEF ReadInv, Returning
<1> QED BY <1>3, <1>4

LEMMA TaskSteps ==
    ASSUME ReadInv, NEW b \in Blocks,
           Connect(b) \/ SizeBlock(b) \/ TrainBlock(b) \/ ProcessBlock(b) \/ BackpropagateBlock(b)
    PROVE  Typed' /\ Returning'
<1> DEFINE D == 1 .. size * WidthOf
<1>1. neurons \in [D -> Neuron] /\ outs[b] \in Nat
  BY DEF ReadInv, Typed, Inv, Sizes
<1> HIDE DEF D
<1>6. stale[b] = 0
  BY DEF ReadInv, Inv, Numbered, NoneStale
<1>7. CASE Connect(b)
  <2>1. todo[b] # {} /\ neurons' = neurons /\ UNCHANGED <<type, size, callVars>>
    BY <1>6, <1>7 DEF Connect, Taken, bufferVars
  <2> QED BY <1>1, <2>1, TaskReads DEF D
<1>2. CASE SizeBlock(b)
  <2>1. todo[b] # {} /\ neurons' = neurons /\ UNCHANGED <<type, size, callVars>>
    BY <1>2 DEF SizeBlock, bufferVars
  <2> QED BY <1>1, <2>1, TaskReads DEF D
<1>3. CASE TrainBlock(b)
  <2>1. todo[b] # {} /\ UNCHANGED <<type, size, callVars>>
    BY <1>3 DEF TrainBlock
  <2>2. \E sums \in Sums(outs[b]) :
            \/ neurons' = Added(neurons, sums)
            \/ neurons' = Gradients(Squashed(Added(neurons, sums)))
    BY <1>3 DEF TrainBlock
  <2>3. neurons' \in [D -> Neuron]
    BY <1>1, <2>2, NeuronsKept
  <2> QED BY <2>1, <2>3, TaskReads DEF D
<1>4. CASE ProcessBlock(b)
  <2>1. todo[b] # {} /\ UNCHANGED <<type, size, callVars>>
    BY <1>4, <1>6 DEF ProcessBlock, Taken
  <2>2. \E sums \in Sums(outs[b]) :
            \/ neurons' = Added(neurons, sums)
            \/ neurons' = Squashed(Added(neurons, sums))
    BY <1>4 DEF ProcessBlock
  <2>3. neurons' \in [D -> Neuron]
    BY <1>1, <2>2, NeuronsKept
  <2> QED BY <2>1, <2>3, TaskReads DEF D
<1>5. CASE BackpropagateBlock(b)
  <2>1. /\ todo[b] # {} /\ neurons' = neurons /\ UNCHANGED <<type, size, callVars>>
    BY <1>5 DEF BackpropagateBlock, TakeGradients, bufferVars
  <2> QED BY <1>1, <2>1, TaskReads DEF D
<1> QED BY <1>2, <1>3, <1>4, <1>5, <1>7

\* A train makes room for all it gives.
LEMMA TrainReads ==
    ASSUME ReadInv, NEW list \in Lists, TrainCall(list)
    PROVE  Typed' /\ Returning'
<1> DEFINE n == IF size < Len(list) THEN Len(list) ELSE size
           old == Cleared(neurons)
<1>1. /\ kind' = "train" /\ calls < MaxCalls /\ calls' = calls + 1
      /\ neurons' = Expected(Updated(old, Len(list)), list, calls') /\ size' = n
      /\ given' = list /\ taught' = list /\ type' = type /\ answer' = answer
  BY DEF TrainCall, Begin
<1>2. list \in Seq(Numbers) /\ type \in Types /\ size \in Nat /\ Len(list) \in Nat
  BY ListAssumption DEF ReadInv, Inv, Sizes
<1>3. WidthOf' = WidthOf
  BY <1>1 DEF WidthOf
<1>4. old \in [1 .. size * WidthOf -> Neuron]
  <2> DEFINE D == 1 .. size * WidthOf
  <2>1. neurons \in [D -> Neuron]
    BY DEF ReadInv, Typed
  <2> HIDE DEF D
  <2>2. old \in [D -> Neuron]
    BY <2>1, NeuronsKept
  <2> QED BY <2>2 DEF D
<1>5. calls' \in 0 .. MaxCalls
  BY <1>1, OtherAssumption DEF ReadInv, Typed
<1>6. n \in Nat /\ Len(list) <= n
  BY <1>2
<1>7. n = IF size < Len(list) THEN Len(list) ELSE size
  OBVIOUS
<1> HIDE DEF n, old
<1>8. neurons' \in [1 .. n * WidthOf -> Neuron]
  BY <1>1, <1>2, <1>4, <1>5, <1>6, <1>7, ExpectedType
<1>9. Typed'
  BY <1>1, <1>2, <1>3, <1>5, <1>8 DEF ReadInv, Typed
<1>10. Returning'
  BY <1>1, <1>6 DEF Returning
<1> QED BY <1>9, <1>10

LEMMA RequestReads ==
    ASSUME ReadInv, RequestCall
    PROVE  Typed' /\ Returning'
<1>1. /\ kind' = "request" /\ calls < MaxCalls /\ calls' = calls + 1
      /\ neurons' = Cleared(neurons) /\ given' = <<>>
      /\ UNCHANGED <<type, size, taught, answer>>
  BY DEF RequestCall, Begin
<1>2. WidthOf' = WidthOf
  BY <1>1 DEF WidthOf
<1>3. neurons' \in [1 .. size * WidthOf -> Neuron]
  <2> DEFINE D == 1 .. size * WidthOf
  <2>1. neurons \in [D -> Neuron]
    BY DEF ReadInv, Typed
  <2> HIDE DEF D
  <2>2. neurons' \in [D -> Neuron]
    BY <1>1, <2>1, NeuronsKept
  <2> QED BY <2>2 DEF D
<1>4. calls' \in 0 .. MaxCalls
  BY <1>1, OtherAssumption DEF ReadInv, Typed
<1>5. Typed'
  BY <1>1, <1>2, <1>3, <1>4 DEF ReadInv, Typed
<1>6. Returning'
  BY <1>1 DEF ReadInv, Returning
<1> QED BY <1>5, <1>6

\* The end of a call leaves the neurons as they are.
LEMMA EndReads ==
    ASSUME ReadInv, EndTrain \/ EndRequest \/ SaveAndRestore \/ UNCHANGED vars
    PROVE  Typed' /\ Returning'
<1>1. UNCHANGED <<type, size, neurons, given, taught, calls>>
  BY DEF EndTrain, EndRequest, SaveAndRestore, vars, bufferVars, callVars
<1>2. /\ WidthOf' = WidthOf /\ \A i : Group(i)' = Group(i)
      /\ ValueCount' = ValueCount
  BY <1>1 DEF WidthOf, Group, ValueCount
<1>3. \A values : ValueOf(values)' = ValueOf(values)
  BY <1>1 DEF ValueOf
<1>4. Reading' = Reading
  BY <1>2, <1>3 DEF Reading
<1>5. \/ kind' = kind /\ answer' = answer
      \/ kind = "train" /\ kind' = "none" /\ answer' = answer
      \/ kind' = "none" /\ answer' = Reading
  BY DEF EndTrain, EndRequest, SaveAndRestore, vars, callVars, Reading
<1>6. answer' \in Seq(Int)
  BY <1>5, ReadingType DEF ReadInv, Typed
<1>7. Typed'
  BY <1>1, <1>2, <1>6 DEF ReadInv, Typed
<1>8. Returning'
  BY <1>1, <1>4, <1>5 DEF ReadInv, Returning
<1> QED BY <1>7, <1>8

\* The contents of the neurons and of the answers, for any blocks and any calls.
THEOREM ReadInvariance == Spec => []ReadInv
<1>1. Init => ReadInv
  <2> SUFFICES ASSUME Init PROVE ReadInv
    OBVIOUS
  <2>1. type \in Types /\ size = 0 /\ neurons = <<>> /\ calls = 0
        /\ given = <<>> /\ taught = <<>> /\ answer = <<>>
    BY DEF Init
  <2>2. WidthOf \in Nat
    BY <2>1, WidthType
  <2>3. Typed
    <3>1. 0 * WidthOf = 0
      BY <2>2
    <3>2. neurons \in [1 .. size * WidthOf -> Neuron]
      BY <2>1, <3>1
    <3> QED BY <2>1, <3>2, OtherAssumption DEF Typed
  <2>4. Returning
    BY <2>1 DEF Returning
  <2> QED BY <2>3, <2>4, InitInv DEF ReadInv
<1>2. ReadInv /\ [Next]_vars => ReadInv'
  <2> SUFFICES ASSUME ReadInv, [Next]_vars PROVE Typed' /\ Returning'
    BY NextInv DEF ReadInv
  <2>1. CASE \E list \in Lists : TrainCall(list)
    BY <2>1, TrainReads
  <2>2. CASE RequestCall
    BY <2>2, RequestReads
  <2>3. CASE EndTrain \/ EndRequest \/ SaveAndRestore \/ UNCHANGED vars
    BY <2>3, EndReads
  <2>4. CASE \E b \in Blocks : \/ Connect(b) \/ SizeBlock(b) \/ TrainBlock(b)
                                \/ ProcessBlock(b) \/ BackpropagateBlock(b)
    BY <2>4, TaskSteps
  <2> QED BY <2>1, <2>2, <2>3, <2>4, Zenon DEF Next
<1> QED BY <1>1, <1>2, PTL DEF Spec

-----------------------------------------------------------------------------
(* What it is for.                                                         *)

\* No index of an output block or of its buffer runs past its end (train and
\* backpropagate of OutputBlock).
THEOREM OutputsCovered == Spec => []Covered
<1>1. ASSUME Inv PROVE Covered
  <2> DEFINE n == size * WidthOf
  <2>1. size \in Nat /\ WidthOf \in Nat /\ DOMAIN neurons = 1 .. n
    BY <1>1, WidthType DEF Inv, Sizes
  <2>2. n \in Nat
    BY <2>1
  <2>3. Len(neurons) = n
    <3> HIDE DEF n
    <3> QED BY <2>1, <2>2
  <2> QED BY <1>1, <2>3 DEF Inv, Sizes, Covered
<1> QED BY <1>1, OutputInvariance, PTL

\* No call waits in vain for an output that has blocks: when each of them is done
\* or waits for another one, one of them has completed the output and reported it
\* (update_finish_counter), the ones linked anew after a restore included.
THEOREM OutputReports == Blocks # {} => (Spec => []Reported)
<1> SUFFICES ASSUME Blocks # {} PROVE Spec => []Reported
  OBVIOUS
<1>1. ASSUME Inv, calls > 0, \A b \in Blocks : todo[b] \subseteq {"waits"} PROVE reports > 0
  <2>1. CASE kind = "none"
    BY <1>1, <2>1 DEF Inv, Idle
  <2>2. CASE kind = "train"
    <3>1. PICK b \in Blocks : todo[b] # {"waits"}
      BY <1>1, <2>2, NotAllWait
    <3>2. todo[b] = {} /\ OnWay(b) /\ Training
      BY <1>1, <2>2, <3>1 DEF Inv, Training
    <3> QED BY <2>2, <3>2 DEF OnWay, Training
  <2>3. CASE kind = "request"
    <3>1. Requesting /\ Numbered /\ Done = Blocks
      BY <1>1, <2>3 DEF Inv, Requesting, Done
    <3>2. local = connected /\ connected \in Nat
      BY <2>3, <3>1 DEF Requesting, Numbered
    <3> QED BY <2>3, <3>1, <3>2 DEF Requesting, Numbered
  <2> QED BY <1>1, <2>1, <2>2, <2>3 DEF Inv, Numbered
<1>2. Inv => Reported
  BY <1>1 DEF Reported
<1> QED BY <1>2, OutputInvariance, PTL

\* What a request hands out of a plain output is between nothing and one,
\* although every block adds to it and each may believe to be the last one.
THEOREM AnswersNormalized == Spec => []Normalized
<1>1. Inv => Normalized
  BY DEF Inv, AnswerInv, Normalized
<1> QED BY <1>1, OutputInvariance, PTL

\* The gradients of the values of a train are computed from its own targets.
THEOREM TargetsFresh == Spec => CoveredFresh
<1>1. Inv /\ [Next]_vars =>
          [Completes => \A k \in 1 .. Len(given) * WidthOf : IsFresh(neurons[k])]_vars
  BY DEF Inv, Training, Completes
<1> QED BY <1>1, OutputInvariance, PTL DEF Spec, CoveredFresh

\* A backpropagation never takes a target for a gradient.
THEOREM OnlyGradients == Spec => GradientsUsed
<1>1. Inv /\ [Next]_vars =>
          [\A b \in Blocks : BackpropagateBlock(b)
               => \A k \in DOMAIN neurons : neurons[k].gradient]_vars
  BY BackpropagateBlockStep DEF AllGradients
<1> QED BY <1>1, OutputInvariance, PTL DEF Spec, GradientsUsed

\* Every variable of the output has its type.
THEOREM OutputTypeCorrect == Spec => []TypeOK
<1>1. ASSUME ReadInv PROVE TypeOK
  <2>1. neurons \in Seq(Neuron)
    <3>1. size \in Nat /\ WidthOf \in Nat
      BY <1>1, WidthType DEF ReadInv, Inv, Sizes
    <3> DEFINE n == size * WidthOf
    <3>2. n \in Nat
      BY <3>1
    <3>3. neurons \in [1 .. n -> Neuron]
      BY <1>1 DEF ReadInv, Typed
    <3> HIDE DEF n
    <3> QED BY <3>2, <3>3
  <2>2. /\ finalized \in BOOLEAN /\ connected \in Nat /\ local \in Nat /\ reports \in Nat
        /\ unfinished \subseteq Blocks /\ linked \subseteq attached /\ attached \subseteq Blocks
        /\ kind \in {"none", "train", "request"}
        /\ todo \in [Blocks -> SUBSET (TrainTasks \cup RequestTasks)] /\ stale \in [Blocks -> Nat]
    <3>1. Tasks = TrainTasks \cup RequestTasks
      BY DEF Tasks, TrainTasks, RequestTasks
    <3> QED BY <1>1, <3>1 DEF ReadInv, Inv, Numbered, NoneStale
  <2>3. /\ type \in Types /\ size \in Nat
        /\ outs \in [Blocks -> Nat] /\ rows \in [Blocks -> Nat]
    BY <1>1 DEF ReadInv, Inv, Sizes
  <2>4. /\ calls \in 0 .. MaxCalls
        /\ given \in Seq(Numbers) /\ taught \in Seq(Numbers) /\ answer \in Seq(Int)
    BY <1>1 DEF ReadInv, Typed
  <2> QED BY <2>1, <2>2, <2>3, <2>4, Zenon DEF TypeOK, Neuron
<1> QED BY <1>1, ReadInvariance, PTL

\* What a train gives comes back from the request after it, as far as the type
\* of the output holds it: convert_output_to_buffer undoes
\* convert_buffer_to_expected for every width, wherever the neurons of a value
\* have ended on the sides of their targets.
THEOREM ValuesDelivered == Spec => []Delivered
<1>1. ASSUME ReadInv, Answered, NEW i \in DOMAIN taught
      PROVE  i \in DOMAIN answer /\ (Agrees(i) /\ type # "plain" => answer[i] = Held(taught[i]))
  <2>1. taught # <<>> /\ taught \in Seq(Numbers) /\ Len(taught) <= size /\ size \in Nat
    BY <1>1 DEF ReadInv, Typed, Returning, Inv, Sizes
  <2>2. i \in 1 .. size /\ taught[i] \in Numbers
    BY <2>1
  <2>3. answer = Reading
    BY <1>1, <2>1 DEF Answered, ReadInv, Returning
  <2>4. DOMAIN Reading = 1 .. size /\ ValueCount = size
    BY <1>1, <2>2, ReadingType, GroupFacts DEF ReadInv
  <2>5. answer[i] = ValueOf(ValuesIn(Group(i)))
    BY <2>2, <2>3, <2>4 DEF Reading
  <2>6. ASSUME Agrees(i), type # "plain" PROVE answer[i] = Held(taught[i])
    <3> DEFINE values == ValuesIn(Group(i))
    <3>1. /\ Len(values) = WidthOf
          /\ \A k \in 1 .. WidthOf : values[k] = Group(i)[k].value
      BY <1>1, <2>2, GroupFacts DEF ReadInv
    <3>2. \A k \in 1 .. WidthOf : IsHigh(values[k]) <=> IsHigh(TargetsOf(taught[i])[k])
      BY <2>6, <3>1 DEF Agrees
    <3>3. type \in Types
      BY <1>1 DEF ReadInv, Inv, Sizes
    <3> HIDE DEF values
    <3>4. ValueOf(values) = Held(taught[i])
      BY <2>2, <2>6, <3>1, <3>2, <3>3, ValueKept
    <3> QED BY <2>5, <3>4 DEF values
  <2> QED BY <2>2, <2>3, <2>4, <2>6
<1>2. ReadInv => Delivered
  BY <1>1, Zenon DEF Delivered
<1> QED BY <1>2, ReadInvariance, PTL
=============================================================================
