---------------------------- MODULE OutputBuffers ----------------------------
(***************************************************************************)
(* One output buffer (output_buffer.rs, OutputBuffer): where the output    *)
(* blocks of one output hexagon add up their results, and which decides,   *)
(* by counting the blocks, that the output is complete.                    *)
(*                                                                         *)
(* The value of the output neurons is kept as the expression that built    *)
(* it: the parts added so far, in order, each with its output block and    *)
(* the call its activation stems from, and a Sigmoid for every pass of the *)
(* activation function over the sum so far.                                *)
(***************************************************************************)
EXTENDS Naturals, Sequences

Sigmoid        == [block |-> "sigmoid", data |-> 0]
Part(b, age)   == [block |-> b, data |-> age]

\* expected_value holds the target of call `of' until backpropagate() replaces
\* it by the gradient.
Target(c)      == [of |-> c, gradient |-> FALSE]

NewBuffer ==
    [ finalized  |-> FALSE,
      connected  |-> 0,
      local      |-> 0,
      unfinished |-> <<>>,
      value      |-> <<>>,
      expected   |-> Target(0) ]

\* (faulty variant: the counter is reset, the values are not)
ResetOutput_Counter(o) == [o EXCEPT !.local = 0]
ResetOutput(o)     == [o EXCEPT !.value = <<>>, !.local = 0]
SetExpected(o, c)  == [o EXCEPT !.finalized = FALSE, !.expected = Target(c)]
AddPart(o, b, age) == [o EXCEPT !.value = Append(@, Part(b, age))]

-----------------------------------------------------------------------------
\* update_finish_counter: only tasks of the expected cycle are counted.
\* (faulty variants: counting down; one block too few)
CountBlock_Down(o, cycle, expected) == IF cycle = expected THEN [o EXCEPT !.local = @ - 1] ELSE o
CompletedBy_Less(o, cycle, expected) == cycle = expected /\ o.local + 2 >= o.connected

CountBlock(o, cycle, expected) == IF cycle = expected THEN [o EXCEPT !.local = @ + 1] ELSE o
CompletedBy(o, cycle, expected) == cycle = expected /\ o.local + 1 >= o.connected

Squash(o) == [o EXCEPT !.value = IF @ = <<>> THEN @ ELSE Append(@, Sigmoid),
                       !.finalized = TRUE]

FinalizeProcessing(o) == [Squash(o) EXCEPT !.unfinished = <<>>]

\* finalize_train followed by backpropagate: the caller queues o.unfinished.
FinalizeTrain(o) == [Squash(o) EXCEPT !.expected.gradient = TRUE, !.unfinished = <<>>]

\* convert_output_to_buffer hands the value out and reopens the buffer.
Reopen(o) == [o EXCEPT !.finalized = FALSE]
=============================================================================
