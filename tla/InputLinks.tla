----------------------------- MODULE InputLinks -----------------------------
(***************************************************************************)
(* How an input block spreads the values of a call over its axons          *)
(* (input_block.rs, InputBlock::apply_input). A value of the call has two  *)
(* links, one for positive and one for negative numbers. Training gives a  *)
(* link the next free axon, a request only uses the links there are; the   *)
(* magnitude of the value becomes the potential of the axon.               *)
(*                                                                         *)
(* A call is one step: apply_input runs with the mutex of the block held.  *)
(* The calls themselves are taken apart in Propagation, which in turn      *)
(* leaves out the links and keeps the widening of the block.               *)
(***************************************************************************)
EXTENDS Integers, Sequences, FiniteSets

CONSTANTS BlockDim,     \* axons of a section (BLOCK_DIM, 512 in the code)
          Values,       \* the numbers a call may contain
          MaxValues,    \* bound: values of a call
          MaxCalls,     \* bound: calls
          Unlinked      \* UNINIT_STATE_64

ASSUME SizesAssumption    == /\ BlockDim \in Nat \ {0}
                             /\ MaxValues \in Nat
                             /\ MaxCalls \in Nat
ASSUME ValuesAssumption   == Values \subseteq Int
ASSUME UnlinkedAssumption == Unlinked \notin Nat

VARIABLES links,        \* per value of a call, the axon of each sign
          fill,         \* fill_position: the next free axon
          sections,     \* length of output_buffer
          potential,    \* potential of every axon
          last,         \* the last call
          count         \* number of calls

vars == <<links, fill, sections, potential, last, count>>

Signs        == {"pos", "neg"}
SignOf(v)    == IF v < 0 THEN "neg" ELSE "pos"
Magnitude(v) == IF v < 0 THEN -v ELSE v
NoLink       == [s \in Signs |-> Unlinked]
AxonsOf(n)   == 0 .. n * BlockDim - 1
Axons        == AxonsOf(sections)

Inputs == UNION {[1 .. n -> Values] : n \in 0 .. MaxValues}

Init ==
    /\ links = <<>>
    /\ fill = 0
    /\ sections = 1
    /\ potential = [a \in Axons |-> 0]
    /\ last = [kind |-> "none", in |-> <<>>]
    /\ count = 0

-----------------------------------------------------------------------------
(* The links of a call with the values `in'.                               *)

Resized(in) == [i \in 1 .. (IF Len(in) > Len(links) THEN Len(in) ELSE Len(links)) |->
                    IF i <= Len(links) THEN links[i] ELSE NoLink]

\* The values that get a new link: only the positive link is looked at.
\* (faulty variants: either link, or none, is looked at)
NewLinks_AnySign(in) == {i \in 1 .. Len(in) : in[i] # 0 /\ Resized(in)[i] = NoLink}
NewLinks_Always(in)  == {i \in 1 .. Len(in) : in[i] # 0}
NewLinks(in) == {i \in 1 .. Len(in) : in[i] # 0 /\ Resized(in)[i]["pos"] = Unlinked}

\* Their axons follow each other, in the order of the values.
\* (faulty variant: fill_position is increased after the loop)
NextAxon_AfterLoop(S, i) == fill
NextAxon(S, i) == fill + Cardinality({j \in S : j < i})

Linked(in) == [i \in DOMAIN Resized(in) |->
                   IF i \in NewLinks(in)
                   THEN [Resized(in)[i] EXCEPT ![SignOf(in[i])] = NextAxon(NewLinks(in), i)]
                   ELSE Resized(in)[i]]

\* As many sections as n axons need.
\* (faulty variant: only full sections count)
Widened_Full(n) == IF n \div BlockDim > sections THEN n \div BlockDim ELSE sections
Widened(n) == LET needed == (n + BlockDim - 1) \div BlockDim
              IN  IF needed > sections THEN needed ELSE sections

\* The magnitudes go to the linked axons; all others keep their potential.
\* (at most one number writes to an axon, see LinksDistinct)
NewPotential(in, ln, a) ==
    LET Target(i) == ln[i][SignOf(in[i])]
    IN  IF \E i \in DOMAIN in : Target(i) = a
        THEN Magnitude(in[CHOOSE i \in DOMAIN in : Target(i) = a])
        ELSE IF a \in Axons THEN potential[a] ELSE 0

\* (faulty variant: the axons of new sections are left out)
Applied_Short(in, ln, n) == [a \in Axons |-> NewPotential(in, ln, a)]
Applied(in, ln, n) == [a \in AxonsOf(n) |-> NewPotential(in, ln, a)]

ApplyTrain(in) ==
    /\ links' = Linked(in)
    /\ fill' = fill + Cardinality(NewLinks(in))
    /\ sections' = Widened(fill')
    /\ potential' = Applied(in, links', sections')

ApplyRequest(in) ==
    /\ links' = Resized(in)
    /\ potential' = Applied(in, links', sections)
    /\ UNCHANGED <<fill, sections>>

Call(kind, in) ==
    /\ count < MaxCalls
    /\ count' = count + 1
    /\ last' = [kind |-> kind, in |-> in]

Train(in)   == Call("train", in)   /\ ApplyTrain(in)
Request(in) == Call("request", in) /\ ApplyRequest(in)

Next == \E in \in Inputs : Train(in) \/ Request(in)

Spec == Init /\ [][Next]_vars

-----------------------------------------------------------------------------
LinkOf == Nat \cup {Unlinked}

\* Every variable has its type, and the potentials cover the sections.
TypeOK ==
    /\ links \in Seq([Signs -> LinkOf])
    /\ fill \in Nat
    /\ sections \in Nat
    /\ DOMAIN potential = Axons
    /\ last \in [kind : {"none", "train", "request"}, in : Inputs]
    /\ count \in 0 .. MaxCalls

\* A link leads to an axon that was handed out, and no two links share one:
\* otherwise two numbers of a call write to the same axon (input_block.rs:188)
\* and the network cannot tell them apart.
LinksDistinct ==
    \A i, j \in 1 .. Len(links) : \A s, t \in Signs :
        links[i][s] # Unlinked =>
            /\ links[i][s] < fill
            /\ links[i][s] = links[j][t] => i = j /\ s = t

\* There is an axon for every position handed out: the access by block and
\* position in line 188 never leaves output_buffer.
LinksInside == fill <= sections * BlockDim

\* What a call shows the network of a number that is not negative is that
\* number, as soon as it has a link, whatever was linked, shown or left out by
\* the calls before; and training gives every number above zero a link.
PositiveShown ==
    \A i \in DOMAIN last.in : last.in[i] >= 0 =>
        /\ last.kind = "train" /\ last.in[i] > 0 => links[i]["pos"] # Unlinked
        /\ links[i]["pos"] # Unlinked => /\ links[i]["pos"] \in Axons
                                         /\ potential[links[i]["pos"]] = last.in[i]

\* A link for numbers above zero is never given up or redirected: the synapses
\* that grew at its axon stay with the value they were trained for.
PositiveLinksPersist ==
    [][\A i \in 1 .. Len(links) : links[i]["pos"] # Unlinked =>
           /\ i \in 1 .. Len(links')
           /\ links'[i]["pos"] = links[i]["pos"]]_vars

-----------------------------------------------------------------------------
(* What the documentation says, and the code does not keep.                *)

\* "Every value can be inserted, even negative values" (README.md:37): a
\* training shows the network every number other than zero.
EveryValueShown ==
    last.kind = "train" =>
        \A i \in DOMAIN last.in : last.in[i] # 0 =>
            /\ links[i][SignOf(last.in[i])] \in Axons
            /\ potential[links[i][SignOf(last.in[i])]] = Magnitude(last.in[i])

\* "In case of the input-layer this potential is the same like the incoming
\* value" (docs/core/core.md:57): the axon for the other sign of a number that
\* just came in is silent.
OtherSignSilent ==
    \A i \in DOMAIN last.in : \A s \in Signs \ {SignOf(last.in[i])} :
        links[i][s] # Unlinked => potential[links[i][s]] = 0
=============================================================================
