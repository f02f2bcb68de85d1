------------------------------- MODULE BlockIo -------------------------------
(***************************************************************************)
(* The io buffer of one block (block_io.rs, BlockIoBuffer): the input      *)
(* slots other blocks write to, the output sections the block sends, and   *)
(* the two counters that decide when the next task is due.                 *)
(*                                                                         *)
(* A slot and a section are the two ends of one AxonSection.  The 512      *)
(* potentials and deltas of a section are abstracted to the number of the  *)
(* call they stem from (0: the zeroes of AxonData::default), the oldest    *)
(* one where a value depends on several.  A gradient is added to the delta *)
(* of a slot; the number is that of the last addition.  Positions start at *)
(* 1; 0 stands for UNINIT_STATE_8, Nil for a reference that is None.       *)
(***************************************************************************)
EXTENDS Naturals, Sequences

CONSTANT Nil

NewSlot    == [src |-> Nil, spos |-> 0, done |-> FALSE, data |-> 0, delta |-> 0]
NewSection == [tgt |-> Nil, tpos |-> 0, data |-> 0, delta |-> 0]

\* A block's io with n input slots and m output sections.
NewIo(n, m) ==
    [ slots    |-> [i \in 1..n |-> NewSlot],
      outs     |-> [j \in 1..m |-> NewSection],
      inUse    |-> 0,
      inCount  |-> 0,
      outCount |-> 0 ]

Connected(section) == section.tpos # 0

\* The oldest of the calls in D, 0 if there is none.
Oldest(D) ==
    IF \E d \in D : \A e \in D : d <= e
    THEN CHOOSE d \in D : \A e \in D : d <= e
    ELSE 0

\* Grow to m output sections (never shrinks).
Widen(x, m) ==
    [x EXCEPT !.outs = [j \in 1..m |-> IF j \in DOMAIN x.outs THEN x.outs[j] ELSE NewSection]]

-----------------------------------------------------------------------------
\* get_free_input: take the next slot, if there is one.  The slot is a clone of
\* a section whose block references are still None.
\* (faulty variant: one slot too many)
HasFreeInput_OneMore(x) == x.inUse <= Len(x.slots)
HasFreeInput(x) == x.inUse < Len(x.slots)

TakeInput(x, spos, section) ==
    [x EXCEPT !.inUse = @ + 1,
              !.slots = [x.slots EXCEPT ![x.inUse + 1] = [NewSlot EXCEPT !.spos = spos,
                                                                   !.data = section.data,
                                                                   !.delta = section.delta]]]

\* connect_to_new_target: section j now leads to slot tpos of block t.
LinkSection(x, j, t, tpos) ==
    [x EXCEPT !.outs = [x.outs EXCEPT ![j] = [x.outs[j] EXCEPT !.tgt = t, !.tpos = tpos]]]

-----------------------------------------------------------------------------
\* send_forward: source src overwrites its slot, keeping the slot's done flag;
\* the counter wraps when as many sections came in as slots are in use.
\* (faulty variants: one input more than there are slots in use, one less)
InputsComplete_More(x) == x.inCount + 1 > x.inUse
InputsComplete_Less(x) == x.inCount + 2 >= x.inUse
InputsComplete(x) == x.inCount + 1 >= x.inUse

Receive(x, src, spos, section) ==
    [x EXCEPT !.slots = [x.slots EXCEPT ![section.tpos] =
                            [src |-> src, spos |-> spos, done |-> x.slots[section.tpos].done,
                             data |-> section.data, delta |-> section.delta]],
              !.inCount = IF InputsComplete(x) THEN 0 ELSE @ + 1]

\* send_backward, send_backward_with_retry: slot `tpos' of block tgt overwrites
\* the section it came from; every section counts, connected or not.
\* (faulty variant: the first section that comes back completes the block)
OutputsComplete_First(x) == x.outCount + 1 >= 1
OutputsComplete(x) == x.outCount + 1 >= Len(x.outs)

\* (faulty variant: source and target position mixed up)
TakeBack_Swapped(x, tgt, tpos, slot) ==
    [x EXCEPT !.outs[slot.spos] = [tgt   |-> tgt,
                                   tpos  |-> slot.spos,
                                   data  |-> slot.data,
                                   delta |-> slot.delta],
              !.outCount = IF OutputsComplete(x) THEN 0 ELSE @ + 1]

TakeBack(x, tgt, tpos, slot) ==
    [x EXCEPT !.outs = [x.outs EXCEPT ![slot.spos] =
                           [tgt |-> tgt, tpos |-> tpos, data |-> slot.data, delta |-> slot.delta]],
              !.outCount = IF OutputsComplete(x) THEN 0 ELSE @ + 1]

\* A slot that was sent back is not sent again before the flags are reset.
MarkDone(x, i) ==
    [x EXCEPT !.slots = [x.slots EXCEPT ![i] = [x.slots[i] EXCEPT !.done = TRUE]]]

\* The slots send_backward_with_retry still has to deliver.
Pending(x) == {i \in DOMAIN x.slots : ~x.slots[i].done /\ x.slots[i].src # Nil}

ResetDone(x) ==
    [x EXCEPT !.slots = [i \in DOMAIN x.slots |-> [x.slots[i] EXCEPT !.done = FALSE]]]

-----------------------------------------------------------------------------
\* What a pass over the block does to the io: forward from the slots in use to
\* all sections, backward from all connected sections to the slots in use.
InputAge(x) == Oldest({x.slots[i].data : i \in {k \in DOMAIN x.slots : k <= x.inUse}})
DeltaAge(x) == Oldest({x.outs[j].delta : j \in {k \in DOMAIN x.outs : Connected(x.outs[k])}})

PassForward(x, age) ==
    [x EXCEPT !.outs = [j \in DOMAIN x.outs |-> [x.outs[j] EXCEPT !.data = age]]]

ClearDeltas(x) ==
    [x EXCEPT !.outs = [j \in DOMAIN x.outs |-> [x.outs[j] EXCEPT !.delta = 0]]]

PassBackward(x, age) ==
    [x EXCEPT !.slots = [i \in DOMAIN x.slots |->
                            IF i <= x.inUse THEN [x.slots[i] EXCEPT !.delta = age] ELSE x.slots[i]]]
=============================================================================
