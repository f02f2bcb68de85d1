-------------------------- MODULE PropagationProofs --------------------------
(***************************************************************************)
(* Theorems about Propagation, for every network, every number of workers, *)
(* every list of calls and every bound.                                    *)
(*                                                                         *)
(* TypeOK and LockDiscipline are proved together: which mutex a step takes *)
(* or releases depends on the task of the worker having its type, and what *)
(* a step may write depends on the kind of block the worker is inside.     *)
(* The wiring of the network is proved on top of them.                     *)
(***************************************************************************)
EXTENDS PropagationProperties, SequenceTheorems, FiniteSetTheorems, TLAPS

-----------------------------------------------------------------------------
(* What the operations of BlockIo return, for every io buffer: the type of *)
(* its parts, that no slot and no section gets lost, and that a connected  *)
(* section always has a block as its target.                               *)

\* An io buffer of the right type whose connected sections lead to a block.
SoundIo(x) ==
    /\ x \in IoType
    /\ \A j \in DOMAIN x.outs : Connected(x.outs[j]) => x.outs[j].tgt \in Blocks

\* y has the slots of x, and at least its sections.
Keeps(x, y) == Len(y.slots) = Len(x.slots) /\ Len(y.outs) >= Len(x.outs)

\* Replacing an entry of a sequence, in or out of its domain.
LEMMA SetEntry ==
    ASSUME NEW S, NEW s \in Seq(S), NEW i \in Nat, NEW v \in S
    PROVE  /\ [s EXCEPT ![i] = v] \in Seq(S)
           /\ Len([s EXCEPT ![i] = v]) = Len(s)
           /\ \A j \in 1..Len(s) : [s EXCEPT ![i] = v][j] = IF j = i THEN v ELSE s[j]
<1>1. CASE i \in 1..Len(s)
  BY <1>1, ExceptSeq
<1>2. CASE i \notin 1..Len(s)
  <2>1. [s EXCEPT ![i] = v] = s
    BY <1>2
  <2> QED
    BY <1>2, <2>1
<1> QED
  BY <1>1, <1>2

\* Writing beside a sequence leaves it as it is.
LEMMA NoEntry ==
    ASSUME NEW S, NEW s \in Seq(S), NEW i, i \notin DOMAIN s, NEW v
    PROVE  [s EXCEPT ![i] = v] = s
OBVIOUS

\* A sequence is a function on 1..Len with entries of its type.
LEMMA Entries ==
    ASSUME NEW S, NEW s \in Seq(S)
    PROVE  DOMAIN s = 1..Len(s) /\ Len(s) \in Nat /\ \A i \in DOMAIN s : s[i] \in S
OBVIOUS

\* A function on 1..n is a sequence of length n.
LEMMA MakeSeq ==
    ASSUME NEW S, NEW n \in Nat, NEW f, f \in [1..n -> S]
    PROVE  f \in Seq(S) /\ Len(f) = n /\ DOMAIN f = 1..n
OBVIOUS

\* A sequence computed entry by entry from another.
LEMMA MapSeq ==
    ASSUME NEW S, NEW s \in Seq(S), NEW T, NEW f, f = [i \in DOMAIN s |-> f[i]],
           \A i \in DOMAIN s : f[i] \in T
    PROVE  f \in Seq(T) /\ Len(f) = Len(s) /\ DOMAIN f = DOMAIN s
<1>1. DOMAIN s = 1..Len(s) /\ Len(s) \in Nat
  BY Entries
<1>2. f \in [1..Len(s) -> T]
  BY <1>1
<1> QED
  BY <1>1, <1>2, MakeSeq

\* Replacing the slots, or the sections, of a sound io buffer.
LEMMA SetSlots ==
    ASSUME NEW x, SoundIo(x), NEW s \in Seq(SlotType), Len(s) = Len(x.slots),
           NEW y \in IoType, y.outs = x.outs, y.slots = s
    PROVE  SoundIo(y) /\ Keeps(x, y)
BY DEF SoundIo, Keeps, IoType

\* Sections may change everything but where they lead to.
LEMMA SetOuts ==
    ASSUME NEW x, SoundIo(x), NEW f, DOMAIN f = DOMAIN x.outs,
           \A j \in DOMAIN x.outs : /\ f[j] \in SectionType
                                   /\ f[j].tgt = x.outs[j].tgt /\ f[j].tpos = x.outs[j].tpos,
           f = [j \in DOMAIN x.outs |-> f[j]]
    PROVE  SoundIo([x EXCEPT !.outs = f]) /\ Keeps(x, [x EXCEPT !.outs = f])
<1>1. x \in IoType /\ x.outs \in Seq(SectionType)
  BY DEF IoType, SoundIo
<1>2. f \in Seq(SectionType) /\ Len(f) = Len(x.outs) /\ DOMAIN f = DOMAIN x.outs
  BY <1>1, MapSeq
<1>3. /\ [x EXCEPT !.outs = f] \in IoType
      /\ [x EXCEPT !.outs = f].outs = f
      /\ [x EXCEPT !.outs = f].slots = x.slots
  BY <1>1, <1>2 DEF IoType
<1>4. \A j \in DOMAIN f : Connected(f[j]) => f[j].tgt \in Blocks
  BY <1>2 DEF SoundIo, Connected
<1>5. Len(f) >= Len(x.outs)
  BY <1>1, <1>2, Entries
<1> QED
  BY <1>2, <1>3, <1>4, <1>5 DEF SoundIo, Keeps

\* One section may be replaced by one that leads to a block.
LEMMA SetOneOut ==
    ASSUME NEW x, SoundIo(x), NEW i \in Nat, NEW v \in SectionType, v.tgt \in Blocks
    PROVE  /\ SoundIo([x EXCEPT !.outs = [x.outs EXCEPT ![i] = v]])
           /\ Keeps(x, [x EXCEPT !.outs = [x.outs EXCEPT ![i] = v]])
<1> DEFINE outs == [x.outs EXCEPT ![i] = v]
<1>1. x \in IoType /\ x.outs \in Seq(SectionType) /\ DOMAIN x.outs = 1..Len(x.outs)
  BY Entries DEF IoType, SoundIo
<1>2. /\ outs \in Seq(SectionType) /\ Len(outs) = Len(x.outs)
      /\ \A j \in 1..Len(x.outs) : outs[j] = IF j = i THEN v ELSE x.outs[j]
  BY <1>1, SetEntry
<1> HIDE DEF outs
<1>3. /\ [x EXCEPT !.outs = outs] \in IoType
      /\ [x EXCEPT !.outs = outs].outs = outs
      /\ [x EXCEPT !.outs = outs].slots = x.slots
  BY <1>1, <1>2 DEF IoType
<1>4. DOMAIN outs = 1..Len(x.outs)
  BY <1>2, Entries
<1>5. SoundIo([x EXCEPT !.outs = outs]) /\ Keeps(x, [x EXCEPT !.outs = outs])
  <2> DEFINE y == [x EXCEPT !.outs = outs]
  <2>1. y \in IoType /\ y.outs = outs /\ y.slots = x.slots
    BY <1>3
  <2> HIDE DEF y
  <2>2. \A j \in DOMAIN outs : Connected(outs[j]) => outs[j].tgt \in Blocks
    BY <1>1, <1>2, <1>4 DEF SoundIo
  <2>3. SoundIo(y)
    BY <2>1, <2>2 DEF SoundIo
  <2>4. Len(outs) = Len(x.outs) /\ Len(x.outs) \in Nat
    BY <1>1, <1>2, Entries
  <2>5. Keeps(x, y)
    BY <2>1, <2>4 DEF Keeps
  <2> QED
    BY <2>3, <2>5 DEF y
<1> QED
  BY <1>5 DEF outs

\* A new block is sound.
LEMMA NewIoSound ==
    ASSUME NEW n \in Nat, NEW m \in Nat
    PROVE  /\ SoundIo(NewIo(n, m))
           /\ Len(NewIo(n, m).slots) = n /\ Len(NewIo(n, m).outs) = m
<1> DEFINE slots == [i \in 1..n |-> NewSlot]
           outs == [j \in 1..m |-> NewSection]
<1>1. NewSlot \in SlotType /\ NewSection \in SectionType /\ ~Connected(NewSection)
  BY DEF NewSlot, SlotType, NewSection, SectionType, Connected
<1>2. slots \in Seq(SlotType) /\ Len(slots) = n
  BY <1>1, MakeSeq
<1>3. outs \in Seq(SectionType) /\ Len(outs) = m /\ DOMAIN outs = 1..m
  BY <1>1, MakeSeq
<1>4. \A j \in 1..m : outs[j] = NewSection
  OBVIOUS
<1> HIDE DEF slots, outs
<1>5. NewIo(n, m) = [slots |-> slots, outs |-> outs, inUse |-> 0, inCount |-> 0, outCount |-> 0]
  BY DEF NewIo, slots, outs
<1> QED
  BY <1>1, <1>2, <1>3, <1>4, <1>5 DEF IoType, SoundIo

\* The ages of a pass are numbers of calls.
LEMMA OldestType ==
    ASSUME NEW D, D \subseteq Nat
    PROVE  Oldest(D) \in Nat
BY DEF Oldest

\* The ages a pass computes are call numbers.
LEMMA AgesType ==
    ASSUME NEW x, SoundIo(x)
    PROVE  InputAge(x) \in Nat /\ DeltaAge(x) \in Nat
<1>1. {x.slots[i].data : i \in {k \in DOMAIN x.slots : k <= x.inUse}} \subseteq Nat
  <2>1. x.slots \in Seq(SlotType)
    BY DEF SoundIo, IoType
  <2>2. \A i \in DOMAIN x.slots : x.slots[i] \in SlotType
    BY <2>1, Entries
  <2>3. \A i \in DOMAIN x.slots : x.slots[i].data \in Nat
    BY <2>2 DEF SlotType
  <2> QED
    BY <2>3
<1>2. {x.outs[j].delta : j \in {k \in DOMAIN x.outs : Connected(x.outs[k])}} \subseteq Nat
  <2>1. x.outs \in Seq(SectionType)
    BY DEF SoundIo, IoType
  <2>2. \A j \in DOMAIN x.outs : x.outs[j] \in SectionType
    BY <2>1, Entries
  <2>3. \A j \in DOMAIN x.outs : x.outs[j].delta \in Nat
    BY <2>2 DEF SectionType
  <2> QED
    BY <2>3
<1> QED
  BY <1>1, <1>2, OldestType DEF InputAge, DeltaAge

\* apply_input and check_and_resize_block only add sections.
LEMMA WidenSound ==
    ASSUME NEW x, SoundIo(x), NEW m \in Nat, Len(x.outs) <= m
    PROVE  SoundIo(Widen(x, m)) /\ Keeps(x, Widen(x, m))
<1> DEFINE outs == [j \in 1..m |-> IF j \in DOMAIN x.outs THEN x.outs[j] ELSE NewSection]
<1>1. x \in IoType /\ x.outs \in Seq(SectionType)
  BY DEF SoundIo, IoType
<1>2. NewSection \in SectionType /\ ~Connected(NewSection)
  BY DEF NewSection, SectionType, Connected
<1>3. outs \in [1..m -> SectionType]
  BY <1>1, <1>2
<1>4. \A j \in 1..m : Connected(outs[j]) => outs[j].tgt \in Blocks
  BY <1>2 DEF SoundIo
<1> HIDE DEF outs
<1>5. outs \in Seq(SectionType) /\ Len(outs) = m /\ DOMAIN outs = 1..m
  BY <1>3, MakeSeq
<1>6. Widen(x, m) = [x EXCEPT !.outs = outs]
  BY DEF Widen, outs
<1> QED
  BY <1>1, <1>4, <1>5, <1>6 DEF IoType, SoundIo, Keeps

\* get_free_input
LEMMA TakeInputSound ==
    ASSUME NEW x, SoundIo(x), NEW s \in Nat, NEW section \in SectionType
    PROVE  SoundIo(TakeInput(x, s, section)) /\ Keeps(x, TakeInput(x, s, section))
<1> DEFINE slot == [NewSlot EXCEPT !.spos = s, !.data = section.data, !.delta = section.delta]
           slots == [x.slots EXCEPT ![x.inUse + 1] = slot]
<1>1. slot \in SlotType
  BY DEF NewSlot, SlotType, SectionType
<1>2. x \in IoType /\ x.slots \in Seq(SlotType) /\ x.inUse + 1 \in Nat
  BY DEF IoType, SoundIo
<1> HIDE DEF slot
<1>3. slots \in Seq(SlotType) /\ Len(slots) = Len(x.slots)
  BY <1>1, <1>2, SetEntry
<1>4. TakeInput(x, s, section) = [x EXCEPT !.inUse = x.inUse + 1, !.slots = slots]
  BY <1>2 DEF TakeInput, slot, IoType
<1> HIDE DEF slots
<1>5. /\ TakeInput(x, s, section) \in IoType
      /\ TakeInput(x, s, section).outs = x.outs
      /\ TakeInput(x, s, section).slots = slots
  BY <1>2, <1>3, <1>4 DEF IoType
<1> QED
  BY <1>3, <1>5, SetSlots

\* send_forward
LEMMA ReceiveSound ==
    ASSUME NEW x, SoundIo(x), NEW src \in Blocks, NEW s \in Nat, NEW section \in SectionType
    PROVE  SoundIo(Receive(x, src, s, section)) /\ Keeps(x, Receive(x, src, s, section))
<1> DEFINE k == section.tpos
           slot == [src |-> src, spos |-> s, done |-> x.slots[k].done,
                    data |-> section.data, delta |-> section.delta]
           slots == [x.slots EXCEPT ![k] = slot]
           n == IF InputsComplete(x) THEN 0 ELSE x.inCount + 1
<1>1. x \in IoType /\ x.slots \in Seq(SlotType) /\ k \in Nat /\ n \in Nat
  BY DEF IoType, SectionType, SoundIo
<1>2. slots \in Seq(SlotType) /\ Len(slots) = Len(x.slots)
  <2>1. CASE k \in DOMAIN x.slots
    <3>1. x.slots[k] \in SlotType
      BY <1>1, <2>1
    <3>2. slot \in SlotType
      BY <3>1 DEF SlotType, SectionType
    <3> HIDE DEF slot
    <3> QED
      BY <1>1, <3>2, SetEntry
  <2>2. CASE k \notin DOMAIN x.slots
    BY <1>1, <2>2, NoEntry
  <2> QED
    BY <2>1, <2>2
<1>3. Receive(x, src, s, section) = [x EXCEPT !.slots = slots, !.inCount = n]
  BY <1>1 DEF Receive, IoType
<1> HIDE DEF slots, n
<1>4. /\ Receive(x, src, s, section) \in IoType
      /\ Receive(x, src, s, section).outs = x.outs
      /\ Receive(x, src, s, section).slots = slots
  BY <1>1, <1>2, <1>3 DEF IoType
<1> QED
  BY <1>2, <1>4, SetSlots

\* send_backward_with_retry
LEMMA MarkDoneSound ==
    ASSUME NEW x, SoundIo(x), NEW i \in Nat
    PROVE  SoundIo(MarkDone(x, i)) /\ Keeps(x, MarkDone(x, i))
<1> DEFINE slots == [x.slots EXCEPT ![i] = [x.slots[i] EXCEPT !.done = TRUE]]
<1>1. x \in IoType /\ x.slots \in Seq(SlotType)
  BY DEF IoType, SoundIo
<1>2. slots \in Seq(SlotType) /\ Len(slots) = Len(x.slots)
  <2>1. CASE i \in DOMAIN x.slots
    <3>1. x.slots[i] \in SlotType
      BY <1>1, <2>1
    <3>2. [x.slots[i] EXCEPT !.done = TRUE] \in SlotType
      BY <3>1 DEF SlotType
    <3> QED
      BY <1>1, <3>2, SetEntry
  <2>2. CASE i \notin DOMAIN x.slots
    BY <1>1, <2>2, NoEntry
  <2> QED
    BY <2>1, <2>2
<1>3. MarkDone(x, i) = [x EXCEPT !.slots = slots]
  BY DEF MarkDone
<1> HIDE DEF slots
<1>4. /\ MarkDone(x, i) \in IoType
      /\ MarkDone(x, i).outs = x.outs
      /\ MarkDone(x, i).slots = slots
  BY <1>1, <1>2, <1>3 DEF IoType
<1> QED
  BY <1>2, <1>4, SetSlots

\* Resetting the done flags is sound.
LEMMA ResetDoneSound ==
    ASSUME NEW x, SoundIo(x)
    PROVE  SoundIo(ResetDone(x)) /\ Keeps(x, ResetDone(x))
<1> DEFINE slots == [i \in DOMAIN x.slots |-> [x.slots[i] EXCEPT !.done = FALSE]]
<1>1. x \in IoType /\ x.slots \in Seq(SlotType)
  BY DEF IoType, SoundIo
<1>2. \A i \in DOMAIN x.slots : x.slots[i] \in SlotType
  BY <1>1, Entries
<1>3. \A i \in DOMAIN x.slots : [x.slots[i] EXCEPT !.done = FALSE] \in SlotType
  BY <1>2 DEF SlotType
<1>4. slots \in Seq(SlotType) /\ Len(slots) = Len(x.slots)
  <2>1. /\ slots = [i \in DOMAIN x.slots |-> slots[i]]
        /\ \A i \in DOMAIN x.slots : slots[i] \in SlotType
    BY <1>2, <1>3
  <2> HIDE DEF slots
  <2> QED
    BY <1>1, <2>1, MapSeq
<1>5. ResetDone(x) = [x EXCEPT !.slots = slots]
  BY DEF ResetDone
<1> HIDE DEF slots
<1>6. /\ ResetDone(x) \in IoType
      /\ ResetDone(x).outs = x.outs
      /\ ResetDone(x).slots = slots
  BY <1>1, <1>4, <1>5 DEF IoType
<1> QED
  BY <1>4, <1>6, SetSlots

\* backpropagate
LEMMA PassBackwardSound ==
    ASSUME NEW x, SoundIo(x), NEW age \in Nat
    PROVE  SoundIo(PassBackward(x, age)) /\ Keeps(x, PassBackward(x, age))
<1> DEFINE slots == [i \in DOMAIN x.slots |->
                        IF i <= x.inUse THEN [x.slots[i] EXCEPT !.delta = age] ELSE x.slots[i]]
<1>1. x \in IoType /\ x.slots \in Seq(SlotType)
  BY DEF IoType, SoundIo
<1>2. \A i \in DOMAIN x.slots : x.slots[i] \in SlotType
  BY <1>1, Entries
<1>3. \A i \in DOMAIN x.slots : [x.slots[i] EXCEPT !.delta = age] \in SlotType
  BY <1>2 DEF SlotType
<1>4. slots \in Seq(SlotType) /\ Len(slots) = Len(x.slots)
  <2>1. /\ slots = [i \in DOMAIN x.slots |-> slots[i]]
        /\ \A i \in DOMAIN x.slots : slots[i] \in SlotType
    BY <1>2, <1>3
  <2> HIDE DEF slots
  <2> QED
    BY <1>1, <2>1, MapSeq
<1>5. PassBackward(x, age) = [x EXCEPT !.slots = slots]
  BY DEF PassBackward
<1> HIDE DEF slots
<1>6. /\ PassBackward(x, age) \in IoType
      /\ PassBackward(x, age).outs = x.outs
      /\ PassBackward(x, age).slots = slots
  BY <1>1, <1>4, <1>5 DEF IoType
<1> QED
  BY <1>4, <1>6, SetSlots

\* process and train write all sections; train clears their deltas.
LEMMA PassForwardSound ==
    ASSUME NEW x, SoundIo(x), NEW age \in Nat
    PROVE  SoundIo(PassForward(x, age)) /\ Keeps(x, PassForward(x, age))
<1> DEFINE outs == [j \in DOMAIN x.outs |-> [x.outs[j] EXCEPT !.data = age]]
<1>1. x \in IoType /\ x.outs \in Seq(SectionType)
  BY DEF IoType, SoundIo
<1>2. \A j \in DOMAIN x.outs : x.outs[j] \in SectionType
  BY <1>1, Entries
<1>3. \A j \in DOMAIN x.outs : outs[j] \in SectionType /\ outs[j].tgt = x.outs[j].tgt
                               /\ outs[j].tpos = x.outs[j].tpos
  BY <1>2 DEF SectionType
<1>4. PassForward(x, age) = [x EXCEPT !.outs = outs]
  BY DEF PassForward
<1>5. outs = [j \in DOMAIN x.outs |-> outs[j]] /\ DOMAIN outs = DOMAIN x.outs
  OBVIOUS
<1> HIDE DEF outs
<1> QED
  BY <1>3, <1>4, <1>5, SetOuts

\* Clearing the deltas is sound.
LEMMA ClearDeltasSound ==
    ASSUME NEW x, SoundIo(x)
    PROVE  SoundIo(ClearDeltas(x)) /\ Keeps(x, ClearDeltas(x))
<1> DEFINE outs == [j \in DOMAIN x.outs |-> [x.outs[j] EXCEPT !.delta = 0]]
<1>1. x \in IoType /\ x.outs \in Seq(SectionType)
  BY DEF IoType, SoundIo
<1>2. \A j \in DOMAIN x.outs : x.outs[j] \in SectionType
  BY <1>1, Entries
<1>3. \A j \in DOMAIN x.outs : outs[j] \in SectionType /\ outs[j].tgt = x.outs[j].tgt
                               /\ outs[j].tpos = x.outs[j].tpos
  BY <1>2 DEF SectionType
<1>4. ClearDeltas(x) = [x EXCEPT !.outs = outs]
  BY DEF ClearDeltas
<1>5. outs = [j \in DOMAIN x.outs |-> outs[j]] /\ DOMAIN outs = DOMAIN x.outs
  OBVIOUS
<1> HIDE DEF outs
<1> QED
  BY <1>3, <1>4, <1>5, SetOuts

\* connect_to_new_target
LEMMA LinkSectionSound ==
    ASSUME NEW x, SoundIo(x), NEW j \in DOMAIN x.outs, NEW t \in Blocks, NEW k \in Nat
    PROVE  SoundIo(LinkSection(x, j, t, k)) /\ Keeps(x, LinkSection(x, j, t, k))
<1> DEFINE section == [x.outs[j] EXCEPT !.tgt = t, !.tpos = k]
<1>1. x \in IoType /\ x.outs \in Seq(SectionType)
  BY DEF IoType, SoundIo
<1>2. x.outs[j] \in SectionType
  BY <1>1, Entries
<1>3. section \in SectionType /\ section.tgt = t
  BY <1>2 DEF SectionType
<1>4. LinkSection(x, j, t, k) = [x EXCEPT !.outs = [x.outs EXCEPT ![j] = section]]
  BY DEF LinkSection
<1> HIDE DEF section
<1> QED
  BY <1>1, <1>3, <1>4, Entries, SetOneOut

\* send_backward and send_backward_with_retry
LEMMA TakeBackSound ==
    ASSUME NEW x, SoundIo(x), NEW b \in Blocks, NEW t \in Nat, NEW slot \in SlotType
    PROVE  SoundIo(TakeBack(x, b, t, slot)) /\ Keeps(x, TakeBack(x, b, t, slot))
<1> DEFINE section == [tgt |-> b, tpos |-> t, data |-> slot.data, delta |-> slot.delta]
           n == IF OutputsComplete(x) THEN 0 ELSE x.outCount + 1
           y == [x EXCEPT !.outs = [x.outs EXCEPT ![slot.spos] = section]]
<1>1. x \in IoType /\ x.outs \in Seq(SectionType) /\ slot.spos \in Nat /\ n \in Nat
  BY DEF IoType, SlotType, SoundIo
<1>2. section \in SectionType /\ section.tgt = b
  BY DEF SlotType, SectionType
<1>3. TakeBack(x, b, t, slot) = [y EXCEPT !.outCount = n]
  BY <1>1 DEF TakeBack, IoType
<1> HIDE DEF section, n
<1>4. SoundIo(y) /\ Keeps(x, y)
  BY <1>1, <1>2, SetOneOut
<1> HIDE DEF y
<1>5. [y EXCEPT !.outCount = n] \in IoType /\ [y EXCEPT !.outCount = n].outs = y.outs
      /\ [y EXCEPT !.outCount = n].slots = y.slots
  BY <1>1, <1>4 DEF SoundIo, IoType
<1> QED
  BY <1>3, <1>4, <1>5 DEF SoundIo, Keeps

-----------------------------------------------------------------------------
(* The links of an io buffer: where its sections lead to, where its slots  *)
(* come from.  Only get_free_input, connect_to_new_target and send_forward *)
(* change one; everything else moves potentials, deltas and flags.         *)

\* y leads where x leads; sections it has more are not connected.
SameSections(x, y) ==
    /\ DOMAIN x.outs \subseteq DOMAIN y.outs
    /\ \A j \in DOMAIN x.outs : y.outs[j].tgt = x.outs[j].tgt /\ y.outs[j].tpos = x.outs[j].tpos
    /\ \A j \in DOMAIN y.outs \ DOMAIN x.outs : ~Connected(y.outs[j])

\* y has as many slots in use as x, and they know the same sources.
SameSlots(x, y) ==
    /\ y.inUse = x.inUse /\ DOMAIN y.slots = DOMAIN x.slots
    /\ \A i \in DOMAIN x.slots :
          y.slots[i].src = x.slots[i].src /\ y.slots[i].spos = x.slots[i].spos

SameLinks(x, y) == SameSections(x, y) /\ SameSlots(x, y)

\* Keeping the links is transitive.
LEMMA LinksTrans ==
    ASSUME NEW x, NEW y, NEW z, SameLinks(x, y), SameLinks(y, z)
    PROVE  SameLinks(x, z)
BY DEF SameLinks, SameSections, SameSlots, Connected

\* apply_input and check_and_resize_block add sections that are not connected.
LEMMA WidenLinks ==
    ASSUME NEW x, SoundIo(x), NEW m \in Nat, Len(x.outs) <= m
    PROVE  SameLinks(x, Widen(x, m))
<1> DEFINE outs == [j \in 1..m |-> IF j \in DOMAIN x.outs THEN x.outs[j] ELSE NewSection]
<1>1. x \in IoType /\ DOMAIN x.outs = 1..Len(x.outs) /\ Len(x.outs) \in Nat
  BY Entries DEF SoundIo, IoType
<1>2. /\ Widen(x, m).outs = outs /\ Widen(x, m).slots = x.slots
      /\ Widen(x, m).inUse = x.inUse
  BY <1>1 DEF Widen, IoType
<1>3. /\ DOMAIN x.outs \subseteq DOMAIN outs
      /\ \A j \in DOMAIN x.outs : outs[j] = x.outs[j]
      /\ \A j \in DOMAIN outs \ DOMAIN x.outs : ~Connected(outs[j])
  BY <1>1 DEF NewSection, Connected
<1> HIDE DEF outs
<1> QED
  BY <1>2, <1>3 DEF SameLinks, SameSections, SameSlots

\* A forward pass writes the potentials of all sections.
LEMMA PassForwardLinks ==
    ASSUME NEW x, SoundIo(x), NEW age
    PROVE  SameLinks(x, PassForward(x, age))
<1> DEFINE outs == [j \in DOMAIN x.outs |-> [x.outs[j] EXCEPT !.data = age]]
<1>1. x \in IoType /\ \A j \in DOMAIN x.outs : x.outs[j] \in SectionType
  BY Entries DEF SoundIo, IoType
<1>2. /\ PassForward(x, age).outs = outs /\ PassForward(x, age).slots = x.slots
      /\ PassForward(x, age).inUse = x.inUse
  BY <1>1 DEF PassForward, IoType
<1>3. /\ DOMAIN outs = DOMAIN x.outs
      /\ \A j \in DOMAIN x.outs : outs[j].tgt = x.outs[j].tgt /\ outs[j].tpos = x.outs[j].tpos
  BY <1>1 DEF SectionType
<1> HIDE DEF outs
<1> QED
  BY <1>2, <1>3 DEF SameLinks, SameSections, SameSlots

\* Training clears the deltas of all sections.
LEMMA ClearDeltasLinks ==
    ASSUME NEW x, SoundIo(x)
    PROVE  SameLinks(x, ClearDeltas(x))
<1> DEFINE outs == [j \in DOMAIN x.outs |-> [x.outs[j] EXCEPT !.delta = 0]]
<1>1. x \in IoType /\ \A j \in DOMAIN x.outs : x.outs[j] \in SectionType
  BY Entries DEF SoundIo, IoType
<1>2. /\ ClearDeltas(x).outs = outs /\ ClearDeltas(x).slots = x.slots
      /\ ClearDeltas(x).inUse = x.inUse
  BY <1>1 DEF ClearDeltas, IoType
<1>3. /\ DOMAIN outs = DOMAIN x.outs
      /\ \A j \in DOMAIN x.outs : outs[j].tgt = x.outs[j].tgt /\ outs[j].tpos = x.outs[j].tpos
  BY <1>1 DEF SectionType
<1> HIDE DEF outs
<1> QED
  BY <1>2, <1>3 DEF SameLinks, SameSections, SameSlots

\* A slot that keeps its source, whatever else of it changes.
LEMMA SlotLinks ==
    ASSUME NEW x, NEW y, x \in IoType, y.outs = x.outs, y.inUse = x.inUse,
           DOMAIN y.slots = DOMAIN x.slots,
           \A i \in DOMAIN x.slots :
              y.slots[i].src = x.slots[i].src /\ y.slots[i].spos = x.slots[i].spos
    PROVE  SameLinks(x, y)
BY DEF SameLinks, SameSections, SameSlots

\* The done flag of a slot is set.
LEMMA MarkDoneLinks ==
    ASSUME NEW x, SoundIo(x), NEW i
    PROVE  SameLinks(x, MarkDone(x, i))
<1> DEFINE slots == [x.slots EXCEPT ![i] = [x.slots[i] EXCEPT !.done = TRUE]]
<1>1. x \in IoType /\ \A k \in DOMAIN x.slots : x.slots[k] \in SlotType
  BY Entries DEF SoundIo, IoType
<1>2. /\ MarkDone(x, i).outs = x.outs /\ MarkDone(x, i).slots = slots
      /\ MarkDone(x, i).inUse = x.inUse
  BY <1>1 DEF MarkDone, IoType
<1>3. /\ DOMAIN slots = DOMAIN x.slots
      /\ \A k \in DOMAIN x.slots : slots[k].src = x.slots[k].src /\ slots[k].spos = x.slots[k].spos
  BY <1>1 DEF SlotType
<1> HIDE DEF slots
<1> QED
  BY <1>1, <1>2, <1>3, SlotLinks

\* All done flags are reset.
LEMMA ResetDoneLinks ==
    ASSUME NEW x, SoundIo(x)
    PROVE  SameLinks(x, ResetDone(x))
<1> DEFINE slots == [i \in DOMAIN x.slots |-> [x.slots[i] EXCEPT !.done = FALSE]]
<1>1. x \in IoType /\ \A k \in DOMAIN x.slots : x.slots[k] \in SlotType
  BY Entries DEF SoundIo, IoType
<1>2. /\ ResetDone(x).outs = x.outs /\ ResetDone(x).slots = slots
      /\ ResetDone(x).inUse = x.inUse
  BY <1>1 DEF ResetDone, IoType
<1>3. /\ DOMAIN slots = DOMAIN x.slots
      /\ \A k \in DOMAIN x.slots : slots[k].src = x.slots[k].src /\ slots[k].spos = x.slots[k].spos
  BY <1>1 DEF SlotType
<1> HIDE DEF slots
<1> QED
  BY <1>1, <1>2, <1>3, SlotLinks

\* A backpropagation writes the deltas of the slots in use.
LEMMA PassBackwardLinks ==
    ASSUME NEW x, SoundIo(x), NEW age
    PROVE  SameLinks(x, PassBackward(x, age))
<1> DEFINE slots == [i \in DOMAIN x.slots |->
                        IF i <= x.inUse THEN [x.slots[i] EXCEPT !.delta = age] ELSE x.slots[i]]
<1>1. x \in IoType /\ \A k \in DOMAIN x.slots : x.slots[k] \in SlotType
  BY Entries DEF SoundIo, IoType
<1>2. /\ PassBackward(x, age).outs = x.outs /\ PassBackward(x, age).slots = slots
      /\ PassBackward(x, age).inUse = x.inUse
  BY <1>1 DEF PassBackward, IoType
<1>3. /\ DOMAIN slots = DOMAIN x.slots
      /\ \A k \in DOMAIN x.slots : slots[k].src = x.slots[k].src /\ slots[k].spos = x.slots[k].spos
  BY <1>1 DEF SlotType
<1> HIDE DEF slots
<1> QED
  BY <1>1, <1>2, <1>3, SlotLinks

\* A section that comes back from where it leads to stays as it leads.
LEMMA TakeBackLinks ==
    ASSUME NEW x, SoundIo(x), NEW b, NEW t, NEW slot,
           slot.spos \in DOMAIN x.outs,
           x.outs[slot.spos].tgt = b, x.outs[slot.spos].tpos = t
    PROVE  SameLinks(x, TakeBack(x, b, t, slot))
<1> DEFINE section == [tgt |-> b, tpos |-> t, data |-> slot.data, delta |-> slot.delta]
           outs == [x.outs EXCEPT ![slot.spos] = section]
<1>1. x \in IoType
  BY DEF SoundIo
<1>2. /\ TakeBack(x, b, t, slot).outs = outs /\ TakeBack(x, b, t, slot).slots = x.slots
      /\ TakeBack(x, b, t, slot).inUse = x.inUse
  BY <1>1 DEF TakeBack, IoType
<1>3. /\ DOMAIN outs = DOMAIN x.outs
      /\ \A j \in DOMAIN x.outs : outs[j].tgt = x.outs[j].tgt /\ outs[j].tpos = x.outs[j].tpos
  OBVIOUS
<1> HIDE DEF outs
<1> QED
  BY <1>2, <1>3 DEF SameLinks, SameSections, SameSlots

\* send_forward tells one slot its source.
LEMMA ReceiveLinks ==
    ASSUME NEW x, SoundIo(x), NEW src, NEW s, NEW section, NEW y,
           y = Receive(x, src, s, section)
    PROVE  /\ SameSections(x, y) /\ y.inUse = x.inUse /\ DOMAIN y.slots = DOMAIN x.slots
           /\ \A i \in DOMAIN x.slots :
                 IF i = section.tpos
                 THEN y.slots[i].src = src /\ y.slots[i].spos = s
                 ELSE y.slots[i] = x.slots[i]
<1> DEFINE slot == [src |-> src, spos |-> s, done |-> x.slots[section.tpos].done,
                    data |-> section.data, delta |-> section.delta]
           slots == [x.slots EXCEPT ![section.tpos] = slot]
<1>1. x \in IoType
  BY DEF SoundIo
<1>2. y.outs = x.outs /\ y.slots = slots /\ y.inUse = x.inUse
  BY <1>1 DEF Receive, IoType
<1>3. /\ DOMAIN slots = DOMAIN x.slots
      /\ \A i \in DOMAIN x.slots : slots[i] = IF i = section.tpos THEN slot ELSE x.slots[i]
  OBVIOUS
<1>4. slot.src = src /\ slot.spos = s
  OBVIOUS
<1> HIDE DEF slot, slots
<1> QED
  BY <1>2, <1>3, <1>4 DEF SameSections

\* get_free_input takes the slot after those in use, without a source.
LEMMA TakeInputLinks ==
    ASSUME NEW x, SoundIo(x), NEW s, NEW section, NEW y,
           y = TakeInput(x, s, section)
    PROVE  /\ y.outs = x.outs /\ y.inUse = x.inUse + 1 /\ DOMAIN y.slots = DOMAIN x.slots
           /\ \A i \in DOMAIN x.slots :
                 IF i = x.inUse + 1 THEN y.slots[i].src = Nil ELSE y.slots[i] = x.slots[i]
<1> DEFINE slot == [NewSlot EXCEPT !.spos = s, !.data = section.data, !.delta = section.delta]
           slots == [x.slots EXCEPT ![x.inUse + 1] = slot]
<1>1. x \in IoType
  BY DEF SoundIo
<1>2. y.outs = x.outs /\ y.slots = slots /\ y.inUse = x.inUse + 1
  BY <1>1 DEF TakeInput, IoType
<1>3. /\ DOMAIN slots = DOMAIN x.slots
      /\ \A i \in DOMAIN x.slots : slots[i] = IF i = x.inUse + 1 THEN slot ELSE x.slots[i]
  OBVIOUS
<1>4. slot.src = Nil
  BY DEF NewSlot
<1> HIDE DEF slot, slots
<1> QED
  BY <1>2, <1>3, <1>4

\* connect_to_new_target connects one section.
LEMMA LinkSectionLinks ==
    ASSUME NEW x, SoundIo(x), NEW j, NEW t, NEW k, NEW y, y = LinkSection(x, j, t, k)
    PROVE  /\ y.slots = x.slots /\ y.inUse = x.inUse /\ DOMAIN y.outs = DOMAIN x.outs
           /\ \A i \in DOMAIN x.outs :
                 IF i = j THEN y.outs[i].tgt = t /\ y.outs[i].tpos = k
                 ELSE y.outs[i] = x.outs[i]
<1> DEFINE section == [x.outs[j] EXCEPT !.tgt = t, !.tpos = k]
           outs == [x.outs EXCEPT ![j] = section]
<1>1. x \in IoType /\ \A i \in DOMAIN x.outs : x.outs[i] \in SectionType
  BY Entries DEF SoundIo, IoType
<1>2. y.outs = outs /\ y.slots = x.slots /\ y.inUse = x.inUse
  BY <1>1 DEF LinkSection, IoType
<1>3. /\ DOMAIN outs = DOMAIN x.outs
      /\ \A i \in DOMAIN x.outs : outs[i] = IF i = j THEN section ELSE x.outs[i]
  OBVIOUS
<1>4. ASSUME j \in DOMAIN x.outs PROVE section.tgt = t /\ section.tpos = k
  BY <1>1, <1>4 DEF SectionType
<1> HIDE DEF section, outs
<1> QED
  BY <1>2, <1>3, <1>4

-----------------------------------------------------------------------------
(* What the steps of the threads keep.                                     *)

\* What a worker's place says about its task, its section and its target.
WorkerShape(w) ==
    /\ pc[w] # "idle" => task[w] \in TaskType
    /\ pc[w] \in {"forward", "select", "create", "handover"} =>
           sec[w] \in DOMAIN io[task[w].block].outs
    /\ pc[w] = "select" => pick[w] \in Blocks

\* Every block that sends has a section, every block that receives a slot; the
\* client is inside a call it was given, at a block that exists.
Shape ==
    /\ \A b \in Blocks : SoundIo(io[b])
    /\ \A b \in Inputs \cup Cores : Len(io[b].outs) >= 1
    /\ \A b \in Outputs : Len(io[b].slots) >= 1
    /\ \A w \in Workers : WorkerShape(w)
    /\ cpc # "idle" => call \in 1..Len(Calls)
    /\ cpc = "apply" => arg \in Inputs

IInv == TypeOK /\ LockDiscipline /\ Shape

-----------------------------------------------------------------------------
(* Facts about the state that do not depend on a step.                     *)

\* The kinds of blocks are disjoint, and Nil is none of them.
LEMMA BlockFacts ==
    /\ Nil \notin Blocks /\ Nil \notin Workers
    /\ Inputs \subseteq Blocks /\ Cores \subseteq Blocks /\ Outputs \subseteq Blocks
    /\ Inputs \cap Cores = {} /\ Inputs \cap Outputs = {} /\ Cores \cap Outputs = {}
    /\ NoTask.block = Nil
BY BlockAssumption, NameAssumption DEF Blocks, Threads, NoTask

\* The io of a block after it was replaced by one that keeps its parts.
LEMMA IoStep ==
    ASSUME NEW f \in [Blocks -> IoType], \A c \in Blocks : SoundIo(f[c]),
           NEW b \in Blocks, NEW y, SoundIo(y), Keeps(f[b], y)
    PROVE  /\ [f EXCEPT ![b] = y] \in [Blocks -> IoType]
           /\ \A c \in Blocks : /\ SoundIo([f EXCEPT ![b] = y][c])
                                /\ Keeps(f[c], [f EXCEPT ![b] = y][c])
<1>1. \A c \in Blocks : Keeps(f[c], f[c])
  <2> SUFFICES ASSUME NEW c \in Blocks PROVE Keeps(f[c], f[c])
    OBVIOUS
  <2>1. f[c].slots \in Seq(SlotType) /\ f[c].outs \in Seq(SectionType)
    BY DEF IoType
  <2>2. Len(f[c].outs) \in Nat
    BY <2>1, Entries
  <2> QED
    BY <2>2 DEF Keeps
<1>2. y \in IoType
  BY DEF SoundIo
<1> QED
  BY <1>1, <1>2

\* The same for two blocks, which may be one.
LEMMA IoStep2 ==
    ASSUME NEW f \in [Blocks -> IoType], \A c \in Blocks : SoundIo(f[c]),
           NEW a \in Blocks, NEW y, SoundIo(y), Keeps(f[a], y),
           NEW b \in Blocks, NEW z, SoundIo(z), Keeps([f EXCEPT ![a] = y][b], z),
           NEW g, g = [[f EXCEPT ![a] = y] EXCEPT ![b] = z]
    PROVE  /\ g \in [Blocks -> IoType]
           /\ \A c \in Blocks : SoundIo(g[c]) /\ Keeps(f[c], g[c])
<1> DEFINE h == [f EXCEPT ![a] = y]
<1>1. /\ h \in [Blocks -> IoType]
      /\ \A c \in Blocks : SoundIo(h[c]) /\ Keeps(f[c], h[c])
  BY IoStep
<1> HIDE DEF h
<1>2. /\ g \in [Blocks -> IoType]
      /\ \A c \in Blocks : SoundIo(g[c]) /\ Keeps(h[c], g[c])
  <2>1. g = [h EXCEPT ![b] = z] /\ Keeps(h[b], z)
    BY DEF h
  <2>2. /\ [h EXCEPT ![b] = z] \in [Blocks -> IoType]
        /\ \A c \in Blocks : /\ SoundIo([h EXCEPT ![b] = z][c])
                             /\ Keeps(h[c], [h EXCEPT ![b] = z][c])
    BY <1>1, <2>1, IoStep
  <2> QED
    BY <2>1, <2>2, Zenon
<1>3. ASSUME NEW c \in Blocks PROVE Keeps(f[c], g[c])
  <2>1. /\ f[c].outs \in Seq(SectionType) /\ g[c].outs \in Seq(SectionType)
        /\ h[c].outs \in Seq(SectionType)
    BY <1>1, <1>2 DEF IoType
  <2>2. Len(f[c].outs) \in Nat /\ Len(g[c].outs) \in Nat /\ Len(h[c].outs) \in Nat
    BY <2>1, Entries
  <2>3. Keeps(f[c], h[c]) /\ Keeps(h[c], g[c])
    BY <1>1, <1>2
  <2>4. /\ Len(h[c].slots) = Len(f[c].slots) /\ Len(h[c].outs) >= Len(f[c].outs)
        /\ Len(g[c].slots) = Len(h[c].slots) /\ Len(g[c].outs) >= Len(h[c].outs)
    BY <2>3 DEF Keeps
  <2>5. Len(g[c].slots) = Len(f[c].slots) /\ Len(g[c].outs) >= Len(f[c].outs)
    BY <2>2, <2>4
  <2> QED
    BY <2>5 DEF Keeps
<1> QED
  BY <1>2, <1>3

-----------------------------------------------------------------------------
(* Mutual exclusion: the four ways a step changes a place and a mutex.     *)

\* Place l is one for a task of block b.
Fits(l, b) ==
    /\ l \in {"connect", "output", "gradient", "sendback"} => b \in Outputs
    /\ l \in {"forward", "select", "create", "handover", "release"} => b \in Inputs \cup Cores
    /\ l = "return" => b \in Cores

\* To another place on the same side of the mutex.
LEMMA Stay ==
    ASSUME TypeOK, LockDiscipline, NEW w \in Workers, NEW l,
           Goto(w, l), UNCHANGED <<lock, task>>,
           l \in Inside <=> pc[w] \in Inside, Fits(l, task[w].block)
    PROVE  LockDiscipline'
BY DEF TypeOK, LockDiscipline, Goto, Fits

\* Into the mutex of the own block.
LEMMA Enter ==
    ASSUME TypeOK, LockDiscipline, NEW w \in Workers, NEW l,
           pc[w] \notin Inside, task[w].block \in Blocks, Free(task[w].block),
           Lock(w, task[w].block), Goto(w, l), UNCHANGED task,
           l \in Inside, Fits(l, task[w].block)
    PROVE  LockDiscipline'
BY BlockFacts DEF TypeOK, LockDiscipline, Goto, Lock, Free, Fits

\* Out of it, with the task or without.
LEMMA Leave ==
    ASSUME TypeOK, LockDiscipline, NEW w \in Workers, NEW l, NEW t,
           pc[w] \in Inside, Unlock(task[w].block), Goto(w, l),
           task' = [task EXCEPT ![w] = t], l \in {"idle", "count", "final"}
    PROVE  LockDiscipline'
BY BlockFacts DEF TypeOK, LockDiscipline, Goto, Unlock, Inside

\* A worker releases its block and ends its task.
LEMMA LeaveAndFinish ==
    ASSUME TypeOK, LockDiscipline, NEW w \in Workers,
           pc[w] \in Inside, Unlock(task[w].block), Finish(w)
    PROVE  LockDiscipline'
BY Leave DEF Finish

\* Between places outside.
LEMMA Outside ==
    ASSUME TypeOK, LockDiscipline, NEW w \in Workers, NEW l, NEW t,
           pc[w] \notin Inside, UNCHANGED lock, Goto(w, l),
           task' = [task EXCEPT ![w] = t], l \in {"idle", "body", "count", "final"}
    PROVE  LockDiscipline'
BY DEF TypeOK, LockDiscipline, Goto, Inside

\* A worker that is not idle has a task on a block; at a place of an output or
\* a core, on one of that kind.
LEMMA OwnBlock ==
    ASSUME TypeOK, LockDiscipline, Shape, NEW w \in Workers, pc[w] # "idle"
    PROVE  /\ task[w] \in TaskType /\ task[w].block \in Blocks
           /\ pc[w] \in Inside => lock[task[w].block] = w
           /\ task = [task EXCEPT ![w] = task[w]]
BY DEF TypeOK, LockDiscipline, Shape, WorkerShape, TaskType, Inside

\* Every step keeps the lock discipline.
LEMMA LockStep ==
    ASSUME TypeOK, LockDiscipline, Shape, [Next]_vars
    PROVE  LockDiscipline'
<1>1. CASE UNCHANGED vars
  BY <1>1 DEF LockDiscipline, vars, workerVars
<1>2. CASE ClientStep
  <2>1. UNCHANGED <<lock, pc, task>>
    BY <1>2 DEF ClientStep, BeginCall, ResetCounter, EndPhase, ApplyExpected, ResetRequested,
                NextInput, ApplyPlainInput, PollFinished, PollTimeout, CollectOutput, NextToSave,
                SaveBlock, EndCall, workerVars
  <2> QED
    BY <2>1 DEF LockDiscipline
<1>3. ASSUME NEW w \in Workers, WorkerStep(w) PROVE LockDiscipline'
  <2> USE DEF Inside
  <2>1. CASE TakeTask(w)
    BY <2>1, Outside DEF TakeTask
  <2>2. CASE RunInput(w)
    <3>1. pc[w] = "body" /\ UNCHANGED <<lock, task>> /\ (Goto(w, "final") \/ Goto(w, "count"))
      BY <2>2 DEF RunInput, At
    <3> QED
      BY <3>1, OwnBlock, Outside
  <2>3. CASE TrainCore(w) \/ ProcessCore(w) \/ BackpropagateCore(w)
    <3>1. pc[w] = "body" /\ UNCHANGED <<lock, task>> /\ Goto(w, "final")
      BY <2>3 DEF TrainCore, ProcessCore, BackpropagateCore, At
    <3> QED
      BY <3>1, OwnBlock, Outside
  <2>4. CASE LockOutput(w)
    <3> DEFINE l == IF task[w].block \notin attached THEN "connect"
                    ELSE IF Forwards(task[w]) THEN "output" ELSE "gradient"
    <3>1. /\ pc[w] = "body" /\ task[w].block \in Outputs /\ Free(task[w].block)
          /\ Lock(w, task[w].block) /\ Goto(w, l) /\ UNCHANGED task
      BY <2>4 DEF LockOutput, At
    <3>2. l \in {"connect", "output", "gradient"}
      OBVIOUS
    <3> HIDE DEF l
    <3> QED
      BY <3>1, <3>2, OwnBlock, Enter DEF Fits
  <2>5. CASE ConnectOutputBuffer(w)
    <3> DEFINE l == IF Forwards(task[w]) THEN "output" ELSE "gradient"
    <3>1. pc[w] = "connect" /\ UNCHANGED <<lock, task>> /\ Goto(w, l)
      BY <2>5 DEF ConnectOutputBuffer
    <3>2. l \in {"output", "gradient"} /\ task[w].block \in Outputs
      BY <3>1 DEF LockDiscipline
    <3> HIDE DEF l
    <3> QED
      BY <3>1, <3>2, Stay DEF Fits
  <2>6. CASE TrainOutput(w)
    <3>1. /\ pc[w] = "output" /\ task[w].block \in Outputs
          /\ \/ Goto(w, "gradient") /\ UNCHANGED <<lock, task>>
             \/ Unlock(task[w].block) /\ Finish(w)
      BY <2>6, Zenon DEF TrainOutput, LockDiscipline
    <3> QED
      BY <3>1, Stay, LeaveAndFinish DEF Fits
  <2>7. CASE ProcessOutput(w)
    <3>1. /\ pc[w] = "output" /\ Unlock(task[w].block)
          /\ \/ Goto(w, "count") /\ UNCHANGED task
             \/ Finish(w)
      BY <2>7 DEF ProcessOutput
    <3> QED
      BY <3>1, OwnBlock, Leave, LeaveAndFinish
  <2>8. CASE BackpropagateOutput(w)
    <3>1. /\ pc[w] = "gradient" /\ task[w].block \in Outputs
          /\ UNCHANGED <<lock, task>> /\ Goto(w, "sendback")
      BY <2>8 DEF BackpropagateOutput, LockDiscipline
    <3> QED
      BY <3>1, Stay DEF Fits
  <2>9. CASE SendBackward(w)
    <3>1. /\ pc[w] = "sendback" /\ Unlock(task[w].block)
          /\ \/ Goto(w, "count") /\ UNCHANGED task
             \/ Finish(w)
      BY <2>9 DEF SendBackward
    <3> QED
      BY <3>1, OwnBlock, Leave, LeaveAndFinish
  <2>10. CASE UpdateFinishCounter(w)
    BY <2>10, Outside DEF UpdateFinishCounter, Finish
  <2>11. CASE StartForward(w)
    BY <2>11, OwnBlock, Enter DEF StartForward, At, Fits
  <2>12. ASSUME pc[w] \in {"forward", "handover"}, NextSection(w), UNCHANGED <<lock, task>>
         PROVE  LockDiscipline'
    <3>1. task[w].block \in Inputs \cup Cores
      BY <2>12 DEF LockDiscipline
    <3>2. Goto(w, "forward") \/ Goto(w, "release")
      BY <2>12 DEF NextSection
    <3> QED
      BY <2>12, <3>1, <3>2, Stay DEF Fits
  <2>13. CASE SelectTarget(w)
    <3>1. pc[w] = "forward" /\ task[w].block \in Inputs \cup Cores
      BY <2>13 DEF SelectTarget, LockDiscipline
    <3>2. /\ UNCHANGED <<lock, task>>
          /\ NextSection(w) \/ Goto(w, "create") \/ Goto(w, "select")
      BY <2>13 DEF SelectTarget
    <3> QED
      BY <3>1, <3>2, <2>12, Stay DEF Fits
  <2>14. CASE SelectBlock(w)
    <3>1. /\ pc[w] = "select" /\ task[w].block \in Inputs \cup Cores
          /\ UNCHANGED <<lock, task>> /\ (Goto(w, "handover") \/ Goto(w, "create"))
      BY <2>14 DEF SelectBlock, LockDiscipline
    <3> QED
      BY <3>1, Stay DEF Fits
  <2>15. CASE CreateBlock(w)
    <3>1. /\ pc[w] = "create" /\ task[w].block \in Inputs \cup Cores
          /\ UNCHANGED <<lock, task>> /\ Goto(w, "forward")
      BY <2>15 DEF CreateBlock, LockDiscipline
    <3> QED
      BY <3>1, Stay DEF Fits
  <2>16. CASE SendForward(w)
    BY <2>16, <2>12 DEF SendForward
  <2>17. CASE StartBackward(w)
    BY <2>17, OwnBlock, Enter DEF StartBackward, At, Fits
  <2>18. CASE FinishBackward(w) \/ ReleaseBlock(w)
    BY <2>18, LeaveAndFinish DEF FinishBackward, ReleaseBlock
  <2>19. CASE \E i \in 1..2 : ReturnSlot(w, i)
    BY <2>19 DEF ReturnSlot, LockDiscipline
  <2>20. CASE \E i \in 1..2 : RetryBackward(w, i)
    <3>1. /\ pc[w] = "return" /\ Unlock(task[w].block)
          /\ \/ Goto(w, "final") /\ UNCHANGED task
             \/ Finish(w)
      BY <2>20 DEF RetryBackward
    <3> QED
      BY <3>1, OwnBlock, Leave, LeaveAndFinish
  <2> QED
    BY <1>3, <2>1, <2>2, <2>3, <2>4, <2>5, <2>6, <2>7, <2>8, <2>9, <2>10, <2>11, <2>13, <2>14,
       <2>15, <2>16, <2>17, <2>18, <2>19, <2>20 DEF WorkerStep
<1> QED
  BY <1>1, <1>2, <1>3 DEF Next, Done

-----------------------------------------------------------------------------
(* Every step leaves the io of every block sound, with all its parts.      *)

IoKept ==
    /\ io' \in [Blocks -> IoType]
    /\ \A c \in Blocks : SoundIo(io'[c]) /\ Keeps(io[c], io'[c])

\* The state the io operations start from.
LEMMA IoFacts ==
    ASSUME TypeOK, Shape
    PROVE  /\ io \in [Blocks -> IoType] /\ (\A c \in Blocks : SoundIo(io[c]))
           /\ \A c \in Blocks : /\ io[c].slots \in Seq(SlotType) /\ io[c].outs \in Seq(SectionType)
                                /\ io[c].inUse \in Nat
                                /\ Keeps(io[c], io[c])
<1>1. io \in [Blocks -> IoType] /\ \A c \in Blocks : SoundIo(io[c])
  BY DEF TypeOK, Shape
<1>2. \A c \in Blocks : /\ io[c].slots \in Seq(SlotType) /\ io[c].outs \in Seq(SectionType)
                        /\ io[c].inUse \in Nat
  BY <1>1 DEF IoType
<1>3. \A c \in Blocks : Len(io[c].outs) \in Nat
  BY <1>2, Entries
<1> QED
  BY <1>1, <1>2, <1>3 DEF Keeps

\* Keeping the parts of an io is transitive.
LEMMA KeepsTrans ==
    ASSUME NEW x \in IoType, NEW y \in IoType, NEW z \in IoType, Keeps(x, y), Keeps(y, z)
    PROVE  Keeps(x, z)
<1>1. x.outs \in Seq(SectionType) /\ y.outs \in Seq(SectionType) /\ z.outs \in Seq(SectionType)
  BY DEF IoType
<1>2. Len(x.outs) \in Nat /\ Len(y.outs) \in Nat /\ Len(z.outs) \in Nat
  BY <1>1, Entries
<1> QED
  BY <1>2 DEF Keeps

\* One block replaced.
LEMMA OneBlock ==
    ASSUME TypeOK, Shape, NEW b \in Blocks, NEW y, SoundIo(y), Keeps(io[b], y),
           io' = [io EXCEPT ![b] = y]
    PROVE  IoKept
<1>1. /\ [io EXCEPT ![b] = y] \in [Blocks -> IoType]
      /\ \A c \in Blocks : /\ SoundIo([io EXCEPT ![b] = y][c])
                           /\ Keeps(io[c], [io EXCEPT ![b] = y][c])
  BY IoFacts, IoStep
<1> QED
  BY <1>1 DEF IoKept

\* Two operations on blocks a and b, one after the other.
LEMMA TwoBlocks ==
    ASSUME TypeOK, Shape, NEW a \in Blocks, NEW y, SoundIo(y), Keeps(io[a], y),
           NEW b \in Blocks, NEW z, SoundIo(z), Keeps([io EXCEPT ![a] = y][b], z),
           io' = [[io EXCEPT ![a] = y] EXCEPT ![b] = z]
    PROVE  IoKept
<1>1. io \in [Blocks -> IoType] /\ (\A c \in Blocks : SoundIo(io[c]))
  BY IoFacts
<1>2. /\ io' \in [Blocks -> IoType]
      /\ \A c \in Blocks : SoundIo(io'[c]) /\ Keeps(io[c], io'[c])
  BY <1>1, IoStep2
<1> QED
  BY <1>2 DEF IoKept

\* The slot the own block sends back, and the section it sends forward.
LEMMA SlotFacts ==
    ASSUME TypeOK, Shape, NEW b \in Blocks, NEW i \in DOMAIN io[b].slots
    PROVE  /\ io[b].slots[i] \in SlotType
           /\ io[b].slots[i].src # Nil => io[b].slots[i].src \in Blocks
<1>1. io[b].slots[i] \in SlotType
  BY IoFacts, Entries
<1> QED
  BY <1>1 DEF SlotType

\* The section a worker sends has its type and leads to a block.
LEMMA SectionFacts ==
    ASSUME TypeOK, Shape, NEW w \in Workers, task[w].block \in Blocks,
           sec[w] \in DOMAIN io[task[w].block].outs
    PROVE  /\ Section(w) \in SectionType /\ sec[w] \in Nat
           /\ Connected(Section(w)) => Section(w).tgt \in Blocks
<1>1. io[task[w].block].outs \in Seq(SectionType) /\ SoundIo(io[task[w].block])
  BY IoFacts
<1> QED
  BY <1>1, Entries DEF Section, SoundIo, TypeOK

\* A block that looks for a target takes a slot of block t.
LEMMA AttachKept ==
    ASSUME TypeOK, Shape, NEW w \in Workers, task[w].block \in Blocks,
           sec[w] \in DOMAIN io[task[w].block].outs, NEW t \in Blocks, Attach(w, t)
    PROVE  IoKept
<1> DEFINE b == task[w].block
           y == TakeInput(io[t], sec[w], Section(w))
           f == [io EXCEPT ![t] = y]
           z == LinkSection(f[b], sec[w], t, io[t].inUse + 1)
<1>1. /\ SoundIo(io[t]) /\ SoundIo(io[b]) /\ io[t].inUse + 1 \in Nat
      /\ io \in [Blocks -> IoType]
  BY IoFacts
<1>2. SoundIo(y) /\ Keeps(io[t], y)
  BY <1>1, SectionFacts, TakeInputSound
<1>3. SoundIo(f[b]) /\ sec[w] \in DOMAIN f[b].outs
  <2>1. y.outs = io[t].outs
    BY <1>1 DEF TakeInput, IoType
  <2> HIDE DEF y
  <2> QED
    BY <1>1, <1>2, <2>1
<1>4. io' = [f EXCEPT ![b] = z]
  BY <1>1 DEF Attach
<1> HIDE DEF y, f
<1>5. SoundIo(z) /\ Keeps(f[b], z)
  BY <1>1, <1>3, LinkSectionSound
<1> HIDE DEF z, b
<1> QED
  BY <1>2, <1>4, <1>5, TwoBlocks DEF f, b

\* Slot i of block b goes back to the section it came from.
LEMMA SendBackKept ==
    ASSUME TypeOK, Shape, NEW b \in Blocks, NEW i \in DOMAIN io[b].slots, i \in Nat,
           io[b].slots[i].src # Nil,
           io' = SentBack(b, i)
    PROVE  IoKept
<1> DEFINE a == io[b].slots[i].src
           y == TakeBack(io[a], b, i, io[b].slots[i])
           f == [io EXCEPT ![a] = y]
           z == MarkDone(f[b], i)
<1>1. io[b].slots[i] \in SlotType /\ a \in Blocks
  BY SlotFacts
<1>2. SoundIo(io[a]) /\ SoundIo(io[b]) /\ io \in [Blocks -> IoType]
  BY <1>1, IoFacts
<1>3. SoundIo(y) /\ Keeps(io[a], y)
  BY <1>1, <1>2, TakeBackSound
<1>4. SoundIo(f[b])
  BY <1>2, <1>3
<1>5. io' = [f EXCEPT ![b] = z]
  BY <1>1, <1>2 DEF SentBack
<1> HIDE DEF a, y, f
<1>6. SoundIo(z) /\ Keeps(f[b], z)
  BY <1>4, MarkDoneSound
<1> HIDE DEF z
<1> QED
  BY <1>1, <1>3, <1>5, <1>6, TwoBlocks DEF f

\* check_and_resize_block keeps the io of a core block sound.
LEMMA ResizedSound ==
    ASSUME TypeOK, Shape, NEW b \in Cores
    PROVE  SoundIo(Resized(b)) /\ Keeps(io[b], Resized(b)) /\ Resized(b) \in IoType
<1>1. b \in Blocks /\ level[b] \in Nat
  BY BlockFacts DEF TypeOK
<1>2. SoundIo(io[b]) /\ Keeps(io[b], io[b]) /\ Len(io[b].outs) \in Nat
  BY <1>1, IoFacts, Entries
<1>3. CASE Len(io[b].outs) < level[b]
  <2>1. Resized(b) = Widen(io[b], level[b]) /\ Len(io[b].outs) <= level[b]
    BY <1>1, <1>2, <1>3 DEF Resized
  <2>2. SoundIo(Widen(io[b], level[b])) /\ Keeps(io[b], Widen(io[b], level[b]))
    BY <1>1, <1>2, <2>1, WidenSound
  <2> QED
    BY <2>1, <2>2 DEF SoundIo
<1>4. CASE ~(Len(io[b].outs) < level[b])
  BY <1>2, <1>4 DEF Resized, SoundIo
<1> QED
  BY <1>3, <1>4

\* No step takes a slot or a section away from a block.
LEMMA IoKeptStep ==
    ASSUME TypeOK, LockDiscipline, Shape, [Next]_vars
    PROVE  IoKept
<1>1. CASE UNCHANGED io
  BY <1>1, IoFacts DEF IoKept
<1>2. CASE ApplyPlainInput
  <2> DEFINE x == IF Calls[call].kind = "train" /\ Len(io[arg].outs) < Width[arg]
                  THEN Widen(io[arg], Width[arg]) ELSE io[arg]
  <2>1. /\ arg \in Blocks /\ Width[arg] \in Nat /\ call \in Nat
        /\ io' = [io EXCEPT ![arg] = PassForward(x, call)]
    BY <1>2, BlockAssumption, BlockFacts DEF ApplyPlainInput, Shape, TypeOK
  <2>2. SoundIo(io[arg]) /\ Keeps(io[arg], io[arg]) /\ Len(io[arg].outs) \in Nat
    BY <2>1, IoFacts, Entries
  <2>3. SoundIo(x) /\ Keeps(io[arg], x)
    <3>1. CASE Len(io[arg].outs) < Width[arg]
      BY <2>1, <2>2, <3>1, WidenSound
    <3>2. CASE ~(Len(io[arg].outs) < Width[arg])
      BY <2>2, <3>2
    <3> QED
      BY <3>1, <3>2
  <2> HIDE DEF x
  <2>4. SoundIo(PassForward(x, call)) /\ Keeps(x, PassForward(x, call))
    BY <2>1, <2>3, PassForwardSound
  <2>5. Keeps(io[arg], PassForward(x, call))
    BY <2>2, <2>3, <2>4, KeepsTrans DEF SoundIo
  <2> QED
    BY <2>1, <2>4, <2>5, OneBlock
<1>3. ASSUME NEW w \in Workers, TrainCore(w) \/ ProcessCore(w) PROVE IoKept
  <2> DEFINE b == task[w].block
             x == Resized(b)
             y == PassForward(x, InputAge(x))
  <2>1. b \in Cores /\ b \in Blocks
    BY <1>3, BlockFacts DEF TrainCore, ProcessCore, At
  <2>2. SoundIo(x) /\ Keeps(io[b], x) /\ InputAge(x) \in Nat
    BY <2>1, ResizedSound, AgesType
  <2>3. io' = [io EXCEPT ![b] = ClearDeltas(y)]
    BY <1>3 DEF TrainCore, ProcessCore
  <2> HIDE DEF x
  <2>4. SoundIo(y) /\ Keeps(x, y)
    BY <2>2, PassForwardSound
  <2> HIDE DEF y
  <2>5. SoundIo(ClearDeltas(y)) /\ Keeps(y, ClearDeltas(y))
    BY <2>4, ClearDeltasSound
  <2>6. Keeps(io[b], y)
    BY <2>1, <2>2, <2>4, IoFacts, KeepsTrans DEF SoundIo
  <2>7. Keeps(io[b], ClearDeltas(y))
    BY <2>1, <2>4, <2>5, <2>6, IoFacts, KeepsTrans DEF SoundIo
  <2> QED
    BY <2>1, <2>3, <2>4, <2>5, <2>6, <2>7, OneBlock
<1>4. ASSUME NEW w \in Workers, BackpropagateCore(w) PROVE IoKept
  <2>1. /\ task[w].block \in Blocks
        /\ io' = [io EXCEPT ![task[w].block] =
                     PassBackward(io[task[w].block], DeltaAge(io[task[w].block]))]
    BY <1>4, BlockFacts DEF BackpropagateCore, At
  <2> QED
    BY <2>1, IoFacts, AgesType, PassBackwardSound, OneBlock
<1>5. ASSUME NEW w \in Workers, BackpropagateOutput(w) PROVE IoKept
  <2>1. /\ task[w].block \in Outputs /\ task[w].block \in Blocks
        /\ io' = [io EXCEPT ![task[w].block] =
                     PassBackward(io[task[w].block], buffer[BufferOf[task[w].block]].expected.of)]
    BY <1>5, BlockFacts DEF BackpropagateOutput, LockDiscipline
  <2>2. buffer[BufferOf[task[w].block]].expected.of \in Nat
    <3>1. buffer[BufferOf[task[w].block]] \in BufferType
      BY <2>1, BlockAssumption DEF TypeOK
    <3> QED
      BY <3>1 DEF BufferType
  <2> QED
    BY <2>1, <2>2, IoFacts, PassBackwardSound, OneBlock
<1>6. ASSUME NEW w \in Workers, SendBackward(w), io' # io PROVE IoKept
  <2>1. /\ task[w].block \in Outputs /\ task[w].block \in Blocks
        /\ io[task[w].block].slots[1].src # Nil /\ io' = SentBack(task[w].block, 1)
    BY <1>6, BlockFacts DEF SendBackward, LockDiscipline
  <2>2. 1 \in DOMAIN io[task[w].block].slots
    BY <2>1, IoFacts, Entries DEF Shape
  <2> QED
    BY <2>1, <2>2, SendBackKept
<1>7. ASSUME NEW w \in Workers, SelectBlock(w) \/ CreateBlock(w), io' # io PROVE IoKept
  <2>1. /\ pc[w] \in {"select", "create"}
        /\ \E t \in Blocks : Attach(w, t)
    BY <1>7 DEF SelectBlock, CreateBlock, Shape, WorkerShape, Unused
  <2>2. task[w].block \in Blocks /\ sec[w] \in DOMAIN io[task[w].block].outs
    BY <2>1, OwnBlock DEF Shape, WorkerShape
  <2> QED
    BY <2>1, <2>2, AttachKept
<1>8. ASSUME NEW w \in Workers, SendForward(w) PROVE IoKept
  <2> DEFINE t == Section(w).tgt
  <2>1. /\ task[w].block \in Blocks /\ sec[w] \in DOMAIN io[task[w].block].outs
        /\ Connected(Section(w))
        /\ io' = [io EXCEPT ![t] = Receive(io[t], task[w].block, sec[w], Section(w))]
    BY <1>8, OwnBlock DEF SendForward, Shape, WorkerShape
  <2>2. t \in Blocks /\ Section(w) \in SectionType /\ sec[w] \in Nat
    BY <2>1, SectionFacts
  <2> QED
    BY <2>1, <2>2, IoFacts, ReceiveSound, OneBlock
<1>9. ASSUME NEW w \in Workers, NEW i \in 1..2, ReturnSlot(w, i) PROVE IoKept
  <2>1. /\ pc[w] = "return" /\ i \in Pending(io[task[w].block])
        /\ io' = SentBack(task[w].block, i)
    BY <1>9 DEF ReturnSlot, IsNext
  <2>2. /\ task[w].block \in Blocks /\ i \in DOMAIN io[task[w].block].slots
        /\ io[task[w].block].slots[i].src # Nil
    BY <2>1, OwnBlock DEF Pending
  <2> QED
    BY <2>1, <2>2, SendBackKept
<1>10. ASSUME NEW w \in Workers, FinishBackward(w) PROVE IoKept
  <2>1. /\ task[w].block \in Blocks
        /\ io' = [io EXCEPT ![task[w].block] = ResetDone(io[task[w].block])]
    BY <1>10, OwnBlock DEF FinishBackward
  <2> QED
    BY <2>1, IoFacts, ResetDoneSound, OneBlock
<1>11. CASE ClientStep
  BY <1>1, <1>2, <1>11
     DEF ClientStep, BeginCall, ResetCounter, EndPhase, ApplyExpected, ResetRequested, NextInput,
         PollFinished, PollTimeout, CollectOutput, NextToSave, SaveBlock, EndCall, netVars
<1>12. ASSUME NEW w \in Workers, WorkerStep(w) PROVE IoKept
  <2>1. CASE \/ TakeTask(w) \/ RunInput(w) \/ LockOutput(w) \/ ConnectOutputBuffer(w)
             \/ TrainOutput(w) \/ ProcessOutput(w) \/ UpdateFinishCounter(w) \/ StartForward(w)
             \/ SelectTarget(w) \/ ReleaseBlock(w) \/ StartBackward(w)
             \/ \E i \in 1..2 : RetryBackward(w, i)
    BY <1>1, <2>1, Zenon
       DEF TakeTask, RunInput, LockOutput, ConnectOutputBuffer, TrainOutput, ProcessOutput,
           UpdateFinishCounter, StartForward, SelectTarget, ReleaseBlock, StartBackward,
           RetryBackward, netVars
  <2> QED
    BY <1>1, <1>3, <1>4, <1>5, <1>6, <1>7, <1>8, <1>9, <1>10, <1>12, <2>1 DEF WorkerStep
<1> QED
  BY <1>1, <1>11, <1>12 DEF Next, Done, vars, netVars

-----------------------------------------------------------------------------
(* The shape of the state.                                                 *)

\* A worker that does not step keeps its shape.
LEMMA OthersKeepShape ==
    ASSUME TypeOK, Shape, IoKept, NEW v \in Workers,
           UNCHANGED <<pc[v], task[v], sec[v], pick[v]>>
    PROVE  WorkerShape(v)'
<1>1. ASSUME pc[v] \in {"forward", "select", "create", "handover"}
      PROVE  sec[v] \in DOMAIN io'[task[v].block].outs
  <2> DEFINE b == task[v].block
  <2>1. task[v] \in TaskType /\ b \in Blocks /\ sec[v] \in DOMAIN io[b].outs
    BY <1>1 DEF Shape, WorkerShape, TaskType
  <2>2. io[b].outs \in Seq(SectionType) /\ io'[b].outs \in Seq(SectionType) /\ Keeps(io[b], io'[b])
    BY <2>1, IoFacts DEF IoKept, IoType
  <2> HIDE DEF b
  <2> QED
    BY <2>1, <2>2, Entries DEF Keeps, b
<1> QED
  BY <1>1 DEF Shape, WorkerShape

\* Only the worker that steps changes its entries.
LEMMA OneWorker ==
    ASSUME TypeOK, NEW w \in Workers, WorkerStep(w), NEW v \in Workers, v # w
    PROVE  UNCHANGED <<pc[v], task[v], sec[v], goal[v], pick[v], counts[v]>>
<1> USE DEF TypeOK, Goto, Finish
<1>1. CASE TakeTask(w) \/ RunInput(w) \/ TrainCore(w) \/ ProcessCore(w) \/ BackpropagateCore(w)
  BY <1>1 DEF TakeTask, RunInput, TrainCore, ProcessCore, BackpropagateCore
<1>2. CASE LockOutput(w) \/ ConnectOutputBuffer(w) \/ BackpropagateOutput(w)
  BY <1>2 DEF LockOutput, ConnectOutputBuffer, BackpropagateOutput
<1>3. CASE TrainOutput(w)
  BY <1>3, Zenon DEF TrainOutput
<1>4. CASE ProcessOutput(w)
  BY <1>4 DEF ProcessOutput
<1>5. CASE SendBackward(w) \/ UpdateFinishCounter(w)
  BY <1>5 DEF SendBackward, UpdateFinishCounter
<1>6. CASE StartForward(w) \/ ReleaseBlock(w) \/ StartBackward(w) \/ FinishBackward(w)
  BY <1>6 DEF StartForward, ReleaseBlock, StartBackward, FinishBackward
<1>7. CASE NextSection(w) /\ UNCHANGED <<task, counts>>
  BY <1>7 DEF NextSection
<1>8. CASE SelectTarget(w) \/ SendForward(w)
  BY <1>7, <1>8 DEF SelectTarget, SendForward
<1>9. CASE SelectBlock(w) \/ CreateBlock(w)
  BY <1>9 DEF SelectBlock, CreateBlock
<1>10. CASE \E i \in 1..2 : ReturnSlot(w, i) \/ RetryBackward(w, i)
  BY <1>10 DEF ReturnSlot, RetryBackward
<1> QED
  BY <1>1, <1>2, <1>3, <1>4, <1>5, <1>6, <1>8, <1>9, <1>10 DEF WorkerStep

\* Every step keeps what the places of the workers say.
LEMMA ShapeStep ==
    ASSUME TypeOK, LockDiscipline, Shape, [Next]_vars
    PROVE  Shape'
<1> USE IoKeptStep
<1>1. /\ \A b \in Blocks : SoundIo(io'[b])
      /\ \A b \in Inputs \cup Cores : Len(io'[b].outs) >= 1
      /\ \A b \in Outputs : Len(io'[b].slots) >= 1
  <2>1. \A b \in Blocks : /\ io[b].outs \in Seq(SectionType) /\ io'[b].outs \in Seq(SectionType)
                          /\ Keeps(io[b], io'[b])
    BY IoFacts DEF IoKept, IoType
  <2>2. \A b \in Blocks : Len(io[b].outs) \in Nat /\ Len(io'[b].outs) \in Nat
    BY <2>1, Entries
  <2> QED
    BY <2>1, <2>2, BlockFacts DEF IoKept, Keeps, Shape
<1>2. (cpc # "idle" => call \in 1..Len(Calls))' /\ (cpc = "apply" => arg \in Inputs)'
  <2>1. CASE ClientStep
    <3>1. CASE BeginCall
      <4>1. /\ call \in 0..Len(Calls) /\ call < Len(Calls) /\ call' = call + 1
            /\ cpc' \in {"counter", "save"}
        BY <3>1 DEF BeginCall, TypeOK
      <4>2. Len(Calls) \in Nat
        BY CallAssumption
      <4> QED
        BY <4>1, <4>2
    <3>2. CASE ~BeginCall
      BY <2>1, <3>2
         DEF ClientStep, ResetCounter, EndPhase, ApplyExpected, ResetRequested, NextInput,
             ApplyPlainInput, PollFinished, PollTimeout, CollectOutput, NextToSave, SaveBlock,
             EndCall, ReturnWith, Shape
    <3> QED
      BY <3>1, <3>2
  <2>2. CASE UNCHANGED <<cpc, call, arg>>
    BY <2>2 DEF Shape
  <2>3. ASSUME NEW w \in Workers, WorkerStep(w) PROVE UNCHANGED <<cpc, call, arg>>
    BY <2>3, Zenon DEF WorkerStep, TakeTask, RunInput, TrainCore, ProcessCore, BackpropagateCore,
       LockOutput, ConnectOutputBuffer, TrainOutput, ProcessOutput, BackpropagateOutput,
       SendBackward, UpdateFinishCounter, StartForward, SelectTarget, SelectBlock, CreateBlock,
       SendForward, ReleaseBlock, StartBackward, ReturnSlot, RetryBackward, FinishBackward,
       clientVars
  <2> QED
    BY <2>1, <2>2, <2>3 DEF Next, Done, vars, clientVars
<1>3. ASSUME UNCHANGED <<pc, task, sec, pick>> PROVE \A v \in Workers : WorkerShape(v)'
  BY <1>3, OthersKeepShape
<1>4. ASSUME ClientStep \/ UNCHANGED vars PROVE UNCHANGED <<pc, task, sec, pick>>
  BY <1>4 DEF ClientStep, BeginCall, ResetCounter, EndPhase, ApplyExpected, ResetRequested,
              NextInput, ApplyPlainInput, PollFinished, PollTimeout, CollectOutput, NextToSave,
              SaveBlock, EndCall, workerVars, vars
<1>5. ASSUME NEW w \in Workers, WorkerStep(w) PROVE WorkerShape(w)'
  <2> DEFINE b == task[w].block
  <2>1. ASSUME pc'[w] = "idle" PROVE WorkerShape(w)'
    BY <2>1 DEF WorkerShape
  <2>2. ASSUME pc[w] # "idle", task' = task,
               pc'[w] \in {"body", "connect", "output", "gradient", "sendback", "count", "final",
                           "release", "return"}
        PROVE  WorkerShape(w)'
    BY <2>2 DEF Shape, WorkerShape
  <2>3. CASE TakeTask(w)
    <3>1. queue \in Seq(TaskType) /\ queue # <<>>
      BY <2>3 DEF TakeTask, TypeOK
    <3>2. Head(queue) \in TaskType
      BY <3>1
    <3> QED
      BY <2>3, <3>2 DEF TakeTask, Goto, WorkerShape, TypeOK
  <2>4. CASE \/ RunInput(w) \/ TrainCore(w) \/ ProcessCore(w) \/ BackpropagateCore(w)
             \/ LockOutput(w) \/ ConnectOutputBuffer(w) \/ BackpropagateOutput(w)
             \/ StartBackward(w)
    BY <2>2, <2>4
       DEF RunInput, TrainCore, ProcessCore, BackpropagateCore, LockOutput, ConnectOutputBuffer,
           BackpropagateOutput, StartBackward, Goto, At, TypeOK
  <2>5. CASE \/ TrainOutput(w) \/ ProcessOutput(w) \/ SendBackward(w) \/ UpdateFinishCounter(w)
             \/ ReleaseBlock(w) \/ FinishBackward(w) \/ \E i \in 1..2 : RetryBackward(w, i)
    <3>1. /\ pc[w] # "idle"
          /\ Finish(w) \/ (task' = task /\ \E l \in {"gradient", "count", "final"} : Goto(w, l))
      BY <2>5, Zenon DEF TrainOutput, ProcessOutput, SendBackward, UpdateFinishCounter,
                  ReleaseBlock, FinishBackward, RetryBackward
    <3> QED
      BY <2>1, <2>2, <3>1 DEF Finish, Goto, TypeOK
  <2>6. CASE \E i \in 1..2 : ReturnSlot(w, i)
    BY <2>2, <2>6 DEF ReturnSlot
  <2>7. /\ pc[w] # "idle" => task[w] \in TaskType /\ b \in Blocks
        /\ b \in Blocks => Keeps(io[b], io'[b])
        /\ b \in Blocks => DOMAIN io[b].outs \subseteq DOMAIN io'[b].outs
        /\ b \in Blocks => DOMAIN io[b].outs = 1..Len(io[b].outs) /\ Len(io[b].outs) \in Nat
    <3>1. pc[w] # "idle" => task[w] \in TaskType /\ b \in Blocks
      BY OwnBlock
    <3>2. ASSUME b \in Blocks
          PROVE  io[b].outs \in Seq(SectionType) /\ io'[b].outs \in Seq(SectionType)
                 /\ Keeps(io[b], io'[b])
      BY <3>2, IoFacts DEF IoKept, IoType
    <3> HIDE DEF b
    <3> QED
      BY <3>1, <3>2, Entries DEF Keeps
  <2>8. ASSUME pc[w] # "idle", task' = task, sec'[w] \in DOMAIN io[b].outs, pick'[w] \in Blocks,
               pc'[w] \in {"forward", "select", "create", "handover"}
        PROVE  WorkerShape(w)'
    BY <2>7, <2>8 DEF WorkerShape
  <2>9. ASSUME pc[w] # "idle", task' = task, sec'[w] \in DOMAIN io[b].outs,
               pc'[w] \in {"forward", "create", "handover"}
        PROVE  WorkerShape(w)'
    BY <2>7, <2>9 DEF WorkerShape
  <2>10. CASE StartForward(w)
    <3>1. /\ pc[w] = "final" /\ b \in Inputs \cup Cores /\ task' = task
          /\ pc'[w] = "forward" /\ sec'[w] = 1
      BY <2>10 DEF StartForward, At, Goto, TypeOK
    <3>2. 1 \in DOMAIN io[b].outs
      BY <2>7, <3>1 DEF Shape
    <3> QED
      BY <2>9, <3>1, <3>2
  <2>11. ASSUME pc[w] \in {"forward", "handover"}, NextSection(w), UNCHANGED task
         PROVE  WorkerShape(w)'
    <3>1. sec[w] \in DOMAIN io[b].outs
      BY <2>11 DEF Shape, WorkerShape
    <3>2. CASE Goto(w, "release")
      BY <2>2, <2>11, <3>2 DEF Goto, TypeOK
    <3>3. CASE sec[w] < Len(io[b].outs)
      <4>1. sec'[w] = sec[w] + 1 /\ pc'[w] = "forward"
        BY <2>11, <3>3 DEF NextSection, Goto, TypeOK
      <4>2. sec'[w] \in DOMAIN io[b].outs
        BY <2>7, <2>11, <3>1, <3>3, <4>1
      <4> QED
        BY <2>9, <2>11, <3>3, <4>1, <4>2
    <3> QED
      BY <2>11, <3>2, <3>3 DEF NextSection
  <2>12. CASE SelectTarget(w)
    <3>1. pc[w] = "forward" /\ sec[w] \in DOMAIN io[b].outs
      BY <2>12 DEF SelectTarget, Shape, WorkerShape
    <3>2. CASE NextSection(w)
      BY <2>11, <2>12, <3>1, <3>2 DEF SelectTarget
    <3>3. CASE /\ UNCHANGED <<sec, task>>
               /\ \/ Goto(w, "create")
                  \/ Goto(w, "select") /\ \E t \in registered : pick' = [pick EXCEPT ![w] = t]
      BY <2>8, <2>9, <3>1, <3>3 DEF Goto, TypeOK
    <3> QED
      BY <2>12, <3>2, <3>3 DEF SelectTarget, BlocksOf
  <2>13. CASE SelectBlock(w) \/ CreateBlock(w)
    <3>1. /\ pc[w] \in {"select", "create"} /\ UNCHANGED <<task, sec>>
          /\ pc'[w] \in {"forward", "create", "handover"}
      BY <2>13 DEF SelectBlock, CreateBlock, Goto, TypeOK
    <3>2. sec[w] \in DOMAIN io[b].outs
      BY <3>1 DEF Shape, WorkerShape
    <3> QED
      BY <2>9, <3>1, <3>2
  <2>14. CASE SendForward(w)
    BY <2>11, <2>14 DEF SendForward
  <2> QED
    BY <1>5, <2>3, <2>4, <2>5, <2>6, <2>10, <2>12, <2>13, <2>14 DEF WorkerStep
<1>6. \A v \in Workers : WorkerShape(v)'
  <2>1. ASSUME NEW w \in Workers, WorkerStep(w), NEW v \in Workers PROVE WorkerShape(v)'
    BY <1>5, <2>1, OneWorker, OthersKeepShape
  <2> QED
    BY <1>3, <1>4, <2>1 DEF Next, Done
<1> QED
  BY <1>1, <1>2, <1>6 DEF Shape

-----------------------------------------------------------------------------
(* The operations of OutputBuffers keep the type of a buffer.              *)

\* The operations of an output buffer keep its type.
LEMMA BufferOps ==
    ASSUME NEW o \in BufferType
    PROVE  /\ ResetOutput(o) \in BufferType /\ Reopen(o) \in BufferType
           /\ \A c \in Nat : SetExpected(o, c) \in BufferType
           /\ \A b \in Outputs, age \in Nat : AddPart(o, b, age) \in BufferType
           /\ \A c, e \in Nat : CountBlock(o, c, e) \in BufferType
           /\ [o EXCEPT !.connected = @ + 1] \in BufferType
           /\ \A b \in Outputs : [o EXCEPT !.unfinished = Append(@, b)] \in BufferType
<1>1. ResetOutput(o) \in BufferType /\ Reopen(o) \in BufferType
  <2>1. <<>> \in ValueType
    BY DEF ValueType
  <2> QED
    BY <2>1 DEF ResetOutput, Reopen, BufferType
<1>2. \A c \in Nat : SetExpected(o, c) \in BufferType
  BY DEF SetExpected, Target, BufferType
<1>3. ASSUME NEW b \in Outputs, NEW age \in Nat PROVE AddPart(o, b, age) \in BufferType
  <2>1. Part(b, age) \in [block : Outputs \cup {"sigmoid"}, data : Nat]
    BY DEF Part
  <2>2. Append(o.value, Part(b, age)) \in ValueType
    BY <2>1 DEF BufferType, ValueType
  <2> QED
    BY <2>2 DEF AddPart, BufferType
<1>4. \A c, e \in Nat : CountBlock(o, c, e) \in BufferType
  BY DEF CountBlock, BufferType
<1>5. [o EXCEPT !.connected = @ + 1] \in BufferType
  BY DEF BufferType
<1>6. ASSUME NEW b \in Outputs PROVE [o EXCEPT !.unfinished = Append(@, b)] \in BufferType
  <2>1. Append(o.unfinished, b) \in Seq(Outputs)
    BY DEF BufferType
  <2> QED
    BY <2>1 DEF BufferType
<1> QED
  BY <1>1, <1>2, <1>3, <1>4, <1>5, <1>6

\* So do its two finalizations.
LEMMA FinalizeOps ==
    ASSUME NEW o \in BufferType
    PROVE  FinalizeProcessing(o) \in BufferType /\ FinalizeTrain(o) \in BufferType
<1>1. Sigmoid \in [block : Outputs \cup {"sigmoid"}, data : Nat]
  BY DEF Sigmoid
<1>2. o.value \in ValueType /\ Append(o.value, Sigmoid) \in ValueType
  BY <1>1 DEF BufferType, ValueType
<1>3. Squash(o) \in BufferType
  BY <1>2 DEF Squash, BufferType
<1>4. <<>> \in Seq(Outputs)
  OBVIOUS
<1> DEFINE e == [Squash(o).expected EXCEPT !.gradient = TRUE]
<1>5. e \in [of : Nat, gradient : BOOLEAN]
  BY <1>3 DEF BufferType
<1>6. FinalizeTrain(o) = [Squash(o) EXCEPT !.expected = e, !.unfinished = <<>>]
  BY DEF FinalizeTrain
<1> HIDE DEF e
<1> QED
  BY <1>3, <1>4, <1>5, <1>6 DEF FinalizeProcessing, BufferType

\* Every step keeps the type of the output buffers and the answers.
LEMMA BufferStep ==
    ASSUME TypeOK, LockDiscipline, Shape, [Next]_vars
    PROVE  /\ buffer' \in [Buffers -> BufferType]
           /\ answer' \in [Buffers -> ValueType]
<1>1. buffer \in [Buffers -> BufferType] /\ answer \in [Buffers -> ValueType]
  BY DEF TypeOK
<1>2. CASE UNCHANGED <<buffer, answer>>
  BY <1>1, <1>2
<1>3. CASE BeginCall
  BY <1>1, <1>3, BufferOps DEF BeginCall
<1>4. ASSUME NEW n \in Names, ApplyExpected(n) \/ ResetRequested(n)
      PROVE  buffer' \in [Buffers -> BufferType] /\ answer' = answer
  <2>1. \/ buffer' = buffer
        \/ /\ n \in Buffers
           /\ buffer' = [buffer EXCEPT ![n] = SetExpected(ResetOutput(buffer[n]), call)]
        \/ n \in Buffers /\ buffer' = [buffer EXCEPT ![n] = ResetOutput(buffer[n])]
    BY <1>4 DEF ApplyExpected, ResetRequested
  <2>2. call \in Nat
    BY DEF TypeOK
  <2>3. \A o \in BufferType : ResetOutput(o) \in BufferType
                              /\ SetExpected(ResetOutput(o), call) \in BufferType
    BY <2>2, BufferOps
  <2> QED
    BY <1>1, <1>4, <2>1, <2>3 DEF ApplyExpected, ResetRequested
<1>5. ASSUME NEW n \in Buffers, CollectOutput(n)
      PROVE  buffer' \in [Buffers -> BufferType] /\ answer' \in [Buffers -> ValueType]
  <2>1. /\ buffer' = [buffer EXCEPT ![n] = Reopen(buffer[n])]
        /\ answer' = [answer EXCEPT ![n] = buffer[n].value]
    BY <1>5 DEF CollectOutput
  <2>2. Reopen(buffer[n]) \in BufferType /\ buffer[n].value \in ValueType
    BY <1>1, BufferOps DEF BufferType
  <2> QED
    BY <1>1, <2>1, <2>2
<1>6. ASSUME NEW w \in Workers, ConnectOutputBuffer(w)
      PROVE  buffer' \in [Buffers -> BufferType] /\ answer' = answer
  <2> DEFINE o == BufferOf[task[w].block]
  <2>1. o \in Buffers
    BY <1>6, BlockAssumption DEF ConnectOutputBuffer, LockDiscipline
  <2>2. /\ buffer' = [buffer EXCEPT ![o] = [buffer[o] EXCEPT !.connected = @ + 1]]
        /\ answer' = answer
    BY <1>1, <1>6, <2>1 DEF ConnectOutputBuffer, BufferType, clientVars
  <2>3. [buffer[o] EXCEPT !.connected = @ + 1] \in BufferType
    BY <1>1, <2>1, BufferOps
  <2> QED
    BY <1>1, <2>1, <2>2, <2>3
<1>7. ASSUME NEW w \in Workers, TrainOutput(w) \/ ProcessOutput(w)
      PROVE  buffer' \in [Buffers -> BufferType] /\ answer' = answer
  <2> DEFINE b == task[w].block
             o == BufferOf[b]
             x == AddPart(buffer[o], b, InputAge(io[b]))
             y == CountBlock(x, task[w].cycle, counter.expected)
             y0 == CountBlock(buffer[o], task[w].cycle, counter.expected)
  <2>1. pc[w] = "output" /\ b \in Outputs /\ b \in Blocks /\ o \in Buffers
    BY <1>7, BlockAssumption, BlockFacts, Zenon DEF TrainOutput, ProcessOutput, LockDiscipline
  <2>2. InputAge(io[b]) \in Nat
    BY <2>1, IoFacts, AgesType
  <2>3. task[w].cycle \in Nat /\ counter.expected \in Nat
    BY <2>1, OwnBlock DEF TypeOK, TaskType
  <2>4. x \in BufferType
    BY <1>1, <2>1, <2>2, BufferOps
  <2>5. answer' = answer
    BY <1>7, Zenon DEF TrainOutput, ProcessOutput, clientVars
  <2>6. \/ buffer' = [buffer EXCEPT ![o] = x]
        \/ buffer' = [buffer EXCEPT ![o] = FinalizeTrain(y)]
        \/ buffer' = [buffer EXCEPT ![o] = [y EXCEPT !.unfinished = Append(@, b)]]
        \/ buffer' = [buffer EXCEPT ![o] = FinalizeProcessing(y)]
        \/ buffer' = [buffer EXCEPT ![o] = FinalizeProcessing(y0)]
        \/ buffer' = [buffer EXCEPT ![o] = y]
        \/ buffer' = [buffer EXCEPT ![o] = y0]
    <3>1. CASE TrainOutput(w)
      BY <3>1, Zenon DEF TrainOutput
    <3>2. CASE ProcessOutput(w) /\ b \in sized
      BY <3>2 DEF ProcessOutput
    <3>3. CASE ProcessOutput(w) /\ b \notin sized
      BY <3>3 DEF ProcessOutput
    <3> QED
      BY <1>7, <3>1, <3>2, <3>3
  <2> HIDE DEF x
  <2>7. y \in BufferType /\ y0 \in BufferType
    BY <1>1, <2>1, <2>3, <2>4, BufferOps
  <2> HIDE DEF y, y0
  <2>8. /\ [y EXCEPT !.unfinished = Append(@, b)] \in BufferType
        /\ FinalizeTrain(y) \in BufferType /\ FinalizeProcessing(y) \in BufferType
        /\ FinalizeProcessing(y0) \in BufferType
    BY <2>1, <2>7, BufferOps, FinalizeOps
  <2> HIDE DEF o, b
  <2> QED
    BY <1>1, <2>1, <2>4, <2>5, <2>6, <2>7, <2>8
<1>8. CASE ClientStep
  <2>1. CASE \/ ResetCounter \/ EndPhase \/ ApplyPlainInput \/ PollFinished \/ PollTimeout
             \/ SaveBlock \/ EndCall \/ (\E n \in Names : NextInput(n))
             \/ (\E b \in Blocks : NextToSave(b))
    BY <1>2, <2>1 DEF ResetCounter, EndPhase, ApplyPlainInput, PollFinished, PollTimeout,
                      SaveBlock, EndCall, NextInput, NextToSave, netVars
  <2> QED
    BY <1>1, <1>3, <1>4, <1>5, <1>8, <2>1 DEF ClientStep
<1>9. ASSUME NEW w \in Workers, WorkerStep(w)
      PROVE  buffer' \in [Buffers -> BufferType] /\ answer' \in [Buffers -> ValueType]
  <2>1. CASE ~(ConnectOutputBuffer(w) \/ TrainOutput(w) \/ ProcessOutput(w))
    BY <1>2, <1>9, <2>1 DEF WorkerStep, TakeTask, RunInput, TrainCore, ProcessCore,
       BackpropagateCore, LockOutput, BackpropagateOutput, SendBackward, UpdateFinishCounter,
       StartForward, SelectTarget, SelectBlock, CreateBlock, SendForward, ReleaseBlock,
       StartBackward, ReturnSlot, RetryBackward, FinishBackward, netVars, clientVars
  <2> QED
    BY <1>1, <1>6, <1>7, <2>1
<1> QED
  BY <1>2, <1>8, <1>9 DEF Next, Done, vars, netVars, clientVars

-----------------------------------------------------------------------------
(* The queue only ever holds tasks of blocks that exist.                   *)

\* The tasks the code makes from a task and a block are tasks.
LEMMA TaskFacts ==
    ASSUME NEW t \in TaskType, NEW b \in Blocks
    PROVE  /\ [t EXCEPT !.block = b] \in TaskType
           /\ [t EXCEPT !.type = "Backpropagate", !.block = b] \in TaskType
           /\ Task("Train", b) \in TaskType /\ Task("Process", b) \in TaskType
BY DEF TaskType, Types, Task, Cycle

\* Every step keeps the type of the queue.
LEMMA QueueStep ==
    ASSUME TypeOK, LockDiscipline, Shape, [Next]_vars
    PROVE  queue' \in Seq(TaskType)
<1>1. queue \in Seq(TaskType)
  BY DEF TypeOK
<1>2. CASE UNCHANGED queue
  BY <1>1, <1>2
<1>3. CASE ApplyPlainInput
  <2>1. arg \in Blocks
    BY <1>3, BlockFacts DEF ApplyPlainInput, Shape
  <2>2. \/ queue' = queue \o <<Task("Train", arg)>>
        \/ queue' = queue \o <<Task("Process", arg)>>
    BY <1>3 DEF ApplyPlainInput, Enqueue
  <2>3. Task("Train", arg) \in TaskType /\ Task("Process", arg) \in TaskType
    BY <2>1 DEF TaskType, Types, Task, Cycle
  <2>4. <<Task("Train", arg)>> \in Seq(TaskType) /\ <<Task("Process", arg)>> \in Seq(TaskType)
    BY <2>3
  <2>5. \A t \in Seq(TaskType) : queue \o t \in Seq(TaskType)
    BY <1>1
  <2> QED
    BY <2>2, <2>4, <2>5
<1>4. ASSUME NEW w \in Workers, TakeTask(w) PROVE queue' \in Seq(TaskType)
  BY <1>1, <1>4 DEF TakeTask
<1>5. ASSUME NEW w \in Workers, TrainOutput(w), queue' # queue PROVE queue' \in Seq(TaskType)
  <2> DEFINE b == task[w].block
             x == AddPart(buffer[BufferOf[b]], b, InputAge(io[b]))
             y == CountBlock(x, task[w].cycle, counter.expected)
             q == [i \in DOMAIN y.unfinished |->
                     [task[w] EXCEPT !.type = "Backpropagate", !.block = y.unfinished[i]]]
  <2>1. b \in Outputs /\ b \in Blocks /\ BufferOf[b] \in Buffers /\ task[w] \in TaskType
    BY <1>5, OwnBlock, BlockAssumption, Zenon DEF TrainOutput, LockDiscipline
  <2>2. InputAge(io[b]) \in Nat /\ task[w].cycle \in Nat /\ counter.expected \in Nat
    BY <2>1, IoFacts, AgesType DEF TypeOK, TaskType
  <2>3. x \in BufferType
    BY <2>1, <2>2, BufferOps DEF TypeOK
  <2>4. queue' = queue \o q
    BY <1>5, Zenon DEF TrainOutput, Enqueue
  <2> HIDE DEF x, b
  <2>5. y \in BufferType
    BY <2>2, <2>3, BufferOps
  <2> HIDE DEF y
  <2>6. y.unfinished \in Seq(Outputs)
    BY <2>5 DEF BufferType
  <2>7. \A i \in DOMAIN y.unfinished : y.unfinished[i] \in Blocks
    BY <2>6, Entries, BlockFacts
  <2>8. \A i \in DOMAIN y.unfinished : q[i] \in TaskType
    BY <2>1, <2>7, TaskFacts
  <2>9. q = [i \in DOMAIN y.unfinished |-> q[i]]
    OBVIOUS
  <2> HIDE DEF q
  <2>10. q \in Seq(TaskType)
    BY <2>6, <2>8, <2>9, MapSeq
  <2> QED
    BY <1>1, <2>4, <2>10
<1>6. ASSUME NEW w \in Workers, NEW src \in Blocks, task[w] \in TaskType, Enqueue(BackTasks(w, src))
      PROVE  queue' \in Seq(TaskType)
  <2>1. [task[w] EXCEPT !.type = "Backpropagate", !.block = src] \in TaskType
    BY <1>6, TaskFacts
  <2>2. \/ queue' = queue \o <<[task[w] EXCEPT !.type = "Backpropagate", !.block = src]>>
        \/ queue' = queue \o <<>>
    BY <1>6 DEF BackTasks, Enqueue
  <2> QED
    BY <1>1, <2>1, <2>2
<1>7. ASSUME NEW w \in Workers, SendBackward(w), queue' # queue PROVE queue' \in Seq(TaskType)
  <2> DEFINE slot == io[task[w].block].slots[1]
  <2>1. task[w].block \in Outputs /\ task[w].block \in Blocks /\ task[w] \in TaskType
    BY <1>7, OwnBlock DEF SendBackward, LockDiscipline
  <2>2. 1 \in DOMAIN io[task[w].block].slots
    BY <2>1, IoFacts, Entries DEF Shape
  <2>3. slot.src # Nil /\ Enqueue(BackTasks(w, slot.src))
    BY <1>7 DEF SendBackward
  <2>4. slot.src \in Blocks
    BY <2>1, <2>2, <2>3, SlotFacts
  <2> HIDE DEF slot
  <2> QED
    BY <1>6, <2>1, <2>3, <2>4
<1>8. ASSUME NEW w \in Workers, NEW i \in 1..2, ReturnSlot(w, i) PROVE queue' \in Seq(TaskType)
  <2> DEFINE slot == io[task[w].block].slots[i]
  <2>1. /\ pc[w] = "return" /\ i \in Pending(io[task[w].block])
        /\ Enqueue(BackTasks(w, slot.src))
    BY <1>8 DEF ReturnSlot, IsNext
  <2>2. /\ task[w].block \in Blocks /\ task[w] \in TaskType
        /\ i \in DOMAIN io[task[w].block].slots /\ slot.src # Nil
    BY <2>1, OwnBlock DEF Pending
  <2>3. slot.src \in Blocks
    BY <2>2, SlotFacts
  <2> HIDE DEF slot
  <2> QED
    BY <1>6, <2>1, <2>2, <2>3
<1>9. ASSUME NEW w \in Workers, SendForward(w) PROVE queue' \in Seq(TaskType)
  <2> DEFINE t == Section(w).tgt
  <2>1. /\ pc[w] \in {"forward", "handover"} /\ Connected(Section(w))
        /\ \/ queue' = queue \o <<[task[w] EXCEPT !.block = t]>>
           \/ queue' = queue \o <<>>
    BY <1>9 DEF SendForward, Enqueue
  <2>2. /\ task[w].block \in Blocks /\ task[w] \in TaskType
        /\ sec[w] \in DOMAIN io[task[w].block].outs
    BY <2>1, OwnBlock DEF Shape, WorkerShape
  <2>3. t \in Blocks
    BY <2>1, <2>2, SectionFacts
  <2> HIDE DEF t
  <2>4. [task[w] EXCEPT !.block = t] \in TaskType
    BY <2>2, <2>3, TaskFacts
  <2> QED
    BY <1>1, <2>1, <2>4
<1>10. CASE ClientStep
  BY <1>2, <1>3, <1>10
     DEF ClientStep, BeginCall, ResetCounter, EndPhase, ApplyExpected, ResetRequested, NextInput,
         PollFinished, PollTimeout, CollectOutput, NextToSave, SaveBlock, EndCall
<1>11. ASSUME NEW w \in Workers, WorkerStep(w) PROVE queue' \in Seq(TaskType)
  <2>1. CASE \/ RunInput(w) \/ TrainCore(w) \/ ProcessCore(w) \/ BackpropagateCore(w)
             \/ LockOutput(w) \/ ConnectOutputBuffer(w) \/ ProcessOutput(w)
             \/ BackpropagateOutput(w) \/ UpdateFinishCounter(w) \/ StartForward(w)
             \/ SelectTarget(w) \/ SelectBlock(w) \/ CreateBlock(w) \/ ReleaseBlock(w)
             \/ StartBackward(w) \/ FinishBackward(w) \/ \E i \in 1..2 : RetryBackward(w, i)
    BY <1>2, <2>1
       DEF RunInput, TrainCore, ProcessCore, BackpropagateCore, LockOutput, ConnectOutputBuffer,
           ProcessOutput, BackpropagateOutput, UpdateFinishCounter, StartForward, SelectTarget,
           SelectBlock, CreateBlock, ReleaseBlock, StartBackward, FinishBackward, RetryBackward
  <2> QED
    BY <1>2, <1>4, <1>5, <1>7, <1>8, <1>9, <1>11, <2>1 DEF WorkerStep
<1> QED
  BY <1>2, <1>10, <1>11 DEF Next, Done, vars

-----------------------------------------------------------------------------
(* The other variables, the client's and the workers'.                     *)

ClientTypeOK ==
    /\ cpc \in ClientPlaces /\ call \in 0..Len(Calls)
    /\ todo \subseteq Blocks \cup Names /\ arg \in Blocks \cup {Nil}
    /\ result \in Results

WorkerTypeOK ==
    /\ registered \subseteq Blocks
    /\ level \in [Cores -> Nat]
    /\ attached \subseteq Outputs /\ sized \subseteq Outputs
    /\ lock \in [Blocks -> Workers \cup {Nil}]
    /\ pc \in [Workers -> WorkerPlaces]
    /\ task \in [Workers -> TaskType \cup {NoTask}]
    /\ sec \in [Workers -> Nat]
    /\ goal \in [Workers -> DOMAIN Possible \cup {Nil}]
    /\ pick \in [Workers -> Blocks \cup {Nil}]
    /\ counts \in [Workers -> BOOLEAN]

CounterType == [n : Nat, compare : Nat, expected : Nat]

\* Inside a call, the names it was given are names.
LEMMA CallFacts ==
    ASSUME TypeOK, Shape, cpc # "idle"
    PROVE  Calls[call].ins \subseteq Names /\ Calls[call].outs \subseteq Names
<1>1. call \in 1..Len(Calls)
  BY DEF Shape
<1>2. Calls[call] \in [kind : Kinds, ins : SUBSET Names, outs : SUBSET Names]
  <2>1. Calls \in Seq([kind : Kinds, ins : SUBSET Names, outs : SUBSET Names])
    BY CallAssumption
  <2> QED
    BY <1>1, <2>1, ElementOfSeq
<1> QED
  BY <1>2

\* The steps of the client keep the types of its variables.
LEMMA ClientTypeStep ==
    ASSUME TypeOK, Shape, ClientStep
    PROVE  ClientTypeOK'
<1> USE DEF ClientTypeOK, ClientPlaces, Results
<1>1. /\ cpc \in ClientPlaces /\ call \in 0..Len(Calls)
      /\ todo \subseteq Blocks \cup Names /\ arg \in Blocks \cup {Nil}
      /\ result \in Results /\ registered \subseteq Blocks /\ Inputs \subseteq Blocks
      /\ Len(Calls) \in Nat
  BY BlockFacts, CallAssumption DEF TypeOK
<1>2. CASE BeginCall
  BY <1>1, <1>2 DEF BeginCall
<1>3. CASE ResetCounter
  BY <1>1, <1>3, CallFacts DEF ResetCounter
<1>4. CASE \E n \in Names : ApplyExpected(n) \/ ResetRequested(n) \/ NextInput(n)
  BY <1>1, <1>4 DEF ApplyExpected, ResetRequested, NextInput, ReturnWith
<1>5. CASE ApplyPlainInput \/ SaveBlock
  BY <1>1, <1>5 DEF ApplyPlainInput, SaveBlock
<1>6. CASE EndPhase
  BY <1>1, <1>6, CallFacts DEF EndPhase
<1>7. CASE PollFinished
  BY <1>1, <1>7, CallFacts DEF PollFinished, ReturnWith
<1>8. CASE PollTimeout \/ EndCall
  BY <1>1, <1>8 DEF PollTimeout, EndCall, ReturnWith
<1>9. CASE (\E o \in Buffers : CollectOutput(o)) \/ (\E b \in Blocks : NextToSave(b))
  BY <1>1, <1>9 DEF CollectOutput, NextToSave
<1> QED
  BY <1>2, <1>3, <1>4, <1>5, <1>6, <1>7, <1>8, <1>9 DEF ClientStep

\* Every step keeps the type of the finish counter.
LEMMA CounterStep ==
    ASSUME TypeOK, [Next]_vars
    PROVE  counter' \in CounterType
<1> USE DEF CounterType
<1>1. counter \in CounterType
  BY DEF TypeOK
<1>2. CASE UNCHANGED counter
  BY <1>1, <1>2
<1>3. CASE ResetCounter
  <2>1. InputCompare \in Nat /\ OutputCompare \in Nat
    BY FS_CardinalityType, BlockAssumption DEF InputCompare, OutputCompare
  <2> QED
    BY <1>3, <2>1 DEF ResetCounter, Cycle
<1>4. CASE \E w \in Workers : UpdateFinishCounter(w)
  BY <1>1, <1>4 DEF UpdateFinishCounter
<1>5. CASE ClientStep /\ ~ResetCounter
  BY <1>2, <1>5
     DEF ClientStep, BeginCall, EndPhase, ApplyExpected, ResetRequested, NextInput,
         ApplyPlainInput, PollFinished, PollTimeout, CollectOutput, NextToSave, SaveBlock, EndCall
<1>6. ASSUME NEW w \in Workers, WorkerStep(w), ~UpdateFinishCounter(w) PROVE counter' = counter
  BY <1>6, Zenon
     DEF WorkerStep, TakeTask, RunInput, TrainCore, ProcessCore, BackpropagateCore, LockOutput,
         ConnectOutputBuffer, TrainOutput, ProcessOutput, BackpropagateOutput, SendBackward,
         StartForward, SelectTarget, SelectBlock, CreateBlock, SendForward, ReleaseBlock,
         StartBackward, ReturnSlot, RetryBackward, FinishBackward
<1> QED
  BY <1>2, <1>3, <1>4, <1>5, <1>6 DEF Next, Done, vars

\* The steps of a worker keep the types of its variables.
LEMMA WorkerTypeStep ==
    ASSUME TypeOK, LockDiscipline, Shape, NEW w \in Workers, WorkerStep(w)
    PROVE  WorkerTypeOK'
<1>1. WorkerTypeOK /\ queue \in Seq(TaskType) /\ NoTask \in TaskType \cup {NoTask}
  BY DEF TypeOK, WorkerTypeOK
<1> USE DEF WorkerTypeOK, WorkerPlaces, Goto, Lock, Unlock, Finish
<1>2. CASE TakeTask(w)
  <2>1. Head(queue) \in TaskType
    BY <1>1, <1>2 DEF TakeTask
  <2> QED
    BY <1>1, <1>2, <2>1 DEF TakeTask, netVars, outBlocks
<1>3. CASE RunInput(w) \/ ProcessCore(w) \/ BackpropagateCore(w)
  BY <1>1, <1>3 DEF RunInput, ProcessCore, BackpropagateCore, netVars, outBlocks
<1>4. CASE TrainCore(w)
  <2>1. task[w].block \in Cores /\ level[task[w].block] \in Nat /\ MaxLevel \in Nat
    BY <1>1, <1>4, BlockAssumption DEF TrainCore, At
  <2>2. PICK l \in level[task[w].block]..MaxLevel : level' = [level EXCEPT ![task[w].block] = l]
    BY <1>4 DEF TrainCore
  <2>3. l \in Nat
    BY <2>1, <2>2
  <2>4. level' \in [Cores -> Nat]
    BY <1>1, <2>2, <2>3
  <2> QED
    BY <1>1, <1>4, <2>4 DEF TrainCore, outBlocks
<1>5. CASE LockOutput(w)
  BY <1>1, <1>5 DEF LockOutput, netVars, outBlocks
<1>6. CASE ConnectOutputBuffer(w)
  BY <1>1, <1>6 DEF ConnectOutputBuffer, LockDiscipline
<1>7. CASE TrainOutput(w)
  <2>1. task[w].block \in Outputs
    BY <1>7, Zenon DEF TrainOutput, LockDiscipline
  <2> QED
    BY <1>1, <1>7, <2>1, Zenon DEF TrainOutput
<1>8. CASE ProcessOutput(w)
  BY <1>1, <1>8 DEF ProcessOutput, outBlocks
<1>9. CASE BackpropagateOutput(w)
  BY <1>1, <1>9 DEF BackpropagateOutput, LockDiscipline
<1>10. CASE SendBackward(w) \/ UpdateFinishCounter(w)
  BY <1>1, <1>10 DEF SendBackward, UpdateFinishCounter, netVars, outBlocks
<1>11. CASE StartForward(w) \/ StartBackward(w)
  <2>1. CASE StartForward(w)
    BY <1>1, <2>1 DEF StartForward, netVars, outBlocks
  <2>2. CASE StartBackward(w)
    BY <1>1, <2>2 DEF StartBackward, netVars, outBlocks
  <2> QED
    BY <1>11, <2>1, <2>2
<1>12. ASSUME NextSection(w)
       PROVE  /\ pc' \in [Workers -> WorkerPlaces] /\ sec' \in [Workers -> Nat]
              /\ goal' \in [Workers -> DOMAIN Possible \cup {Nil}]
              /\ pick' \in [Workers -> Blocks \cup {Nil}]
  <2>1. /\ goal' \in [Workers -> DOMAIN Possible \cup {Nil}]
        /\ pick' \in [Workers -> Blocks \cup {Nil}]
    BY <1>1, <1>12 DEF NextSection
  <2>2. sec[w] \in Nat
    BY <1>1
  <2>3. CASE sec[w] < Len(io[task[w].block].outs)
    <3>1. pc' = [pc EXCEPT ![w] = "forward"] /\ sec' = [sec EXCEPT ![w] = sec[w] + 1]
      BY <1>12, <2>3 DEF NextSection
    <3>2. sec[w] + 1 \in Nat
      BY <2>2
    <3> QED
      BY <1>1, <2>1, <3>1, <3>2
  <2>4. CASE ~(sec[w] < Len(io[task[w].block].outs))
    <3>1. pc' = [pc EXCEPT ![w] = "release"] /\ sec' = [sec EXCEPT ![w] = 1]
      BY <1>12, <2>4 DEF NextSection
    <3> QED
      BY <1>1, <2>1, <3>1
  <2> QED
    BY <2>3, <2>4
<1>13. CASE SelectTarget(w)
  <2>1. pc[w] = "forward" /\ task[w].block \in Blocks
    BY <1>13, OwnBlock DEF SelectTarget
  <2>2. HexOf[task[w].block] \in DOMAIN Possible
    BY <2>1, BlockAssumption
  <2>3. Possible[HexOf[task[w].block]] \subseteq DOMAIN Possible \cup {Nil}
    BY <2>2, BlockAssumption
  <2>4. UNCHANGED <<registered, level, attached, sized, lock, task, counts>>
    BY <1>13 DEF SelectTarget, netVars, outBlocks
  <2>5. CASE NextSection(w)
    BY <1>1, <1>12, <2>4, <2>5
  <2>6. ASSUME NEW h \in Possible[HexOf[task[w].block]],
               goal' = [goal EXCEPT ![w] = h], UNCHANGED sec,
               \/ Goto(w, "create") /\ UNCHANGED pick
               \/ Goto(w, "select") /\ \E t \in registered : pick' = [pick EXCEPT ![w] = t]
        PROVE  WorkerTypeOK'
    BY <1>1, <2>3, <2>4, <2>6
  <2> QED
    BY <1>13, <2>5, <2>6 DEF SelectTarget, BlocksOf
<1>14. CASE SelectBlock(w)
  BY <1>1, <1>14 DEF SelectBlock, outBlocks
<1>15. CASE CreateBlock(w)
  <2>1. \E t \in Blocks : registered' = registered \cup {t}
    BY <1>15 DEF CreateBlock, Unused
  <2> QED
    BY <1>1, <1>15, <2>1 DEF CreateBlock, outBlocks
<1>16. CASE SendForward(w)
  BY <1>1, <1>12, <1>16 DEF SendForward, outBlocks
<1>17. CASE ReleaseBlock(w) \/ FinishBackward(w)
  BY <1>1, <1>17 DEF ReleaseBlock, FinishBackward, netVars, outBlocks
<1>18. CASE \E i \in 1..2 : ReturnSlot(w, i) \/ RetryBackward(w, i)
  BY <1>1, <1>18 DEF ReturnSlot, RetryBackward, netVars, outBlocks
<1> QED
  BY <1>2, <1>3, <1>4, <1>5, <1>6, <1>7, <1>8, <1>9, <1>10, <1>11, <1>13, <1>14, <1>15, <1>16,
     <1>17, <1>18 DEF WorkerStep

\* Every step keeps the type invariant.
LEMMA TypeStep ==
    ASSUME TypeOK, LockDiscipline, Shape, [Next]_vars
    PROVE  TypeOK'
<1>1. io' \in [Blocks -> IoType]
  BY IoKeptStep DEF IoKept
<1>2. buffer' \in [Buffers -> BufferType] /\ answer' \in [Buffers -> ValueType]
  BY BufferStep
<1>3. queue' \in Seq(TaskType)
  BY QueueStep
<1>4. counter' \in [n : Nat, compare : Nat, expected : Nat]
  BY CounterStep DEF CounterType
<1>5. WorkerTypeOK /\ ClientTypeOK
  BY DEF TypeOK, WorkerTypeOK, ClientTypeOK
<1>6. WorkerTypeOK' /\ ClientTypeOK'
  <2>1. CASE ClientStep
    <3>1. UNCHANGED <<registered, level, outBlocks, workerVars>>
      BY <2>1 DEF ClientStep, BeginCall, ResetCounter, EndPhase, ApplyExpected, ResetRequested,
                  NextInput, ApplyPlainInput, PollFinished, PollTimeout, CollectOutput,
                  NextToSave, SaveBlock, EndCall, netVars
    <3>2. WorkerTypeOK'
      BY <1>5, <3>1 DEF WorkerTypeOK, workerVars, outBlocks
    <3> QED
      BY <2>1, <3>2, ClientTypeStep
  <2>2. ASSUME NEW w \in Workers, WorkerStep(w) PROVE WorkerTypeOK' /\ ClientTypeOK'
    <3>1. UNCHANGED clientVars
      BY <2>2, Zenon
         DEF WorkerStep, TakeTask, RunInput, TrainCore, ProcessCore, BackpropagateCore,
             LockOutput, ConnectOutputBuffer, TrainOutput, ProcessOutput, BackpropagateOutput,
             SendBackward, UpdateFinishCounter, StartForward, SelectTarget, SelectBlock,
             CreateBlock, SendForward, ReleaseBlock, StartBackward, ReturnSlot, RetryBackward,
             FinishBackward
    <3>2. ClientTypeOK'
      BY <1>5, <3>1 DEF ClientTypeOK, clientVars
    <3> QED
      BY <2>2, <3>2, WorkerTypeStep
  <2>3. CASE UNCHANGED vars
    BY <1>5, <2>3 DEF WorkerTypeOK, ClientTypeOK, vars, netVars, outBlocks, workerVars, clientVars
  <2> QED
    BY <2>1, <2>2, <2>3 DEF Next, Done
<1> QED
  BY <1>1, <1>2, <1>3, <1>4, <1>6 DEF TypeOK, WorkerTypeOK, ClientTypeOK

-----------------------------------------------------------------------------
(* The wiring.  Three kinds of steps: one that leaves all links as they    *)
(* are, send_forward, which tells a slot its source, and get_free_input    *)
(* with connect_to_new_target, which take a slot and connect a section.    *)

\* What the growth of the network rests on: a block that is not registered is
\* still as new, every block that can be a target has a slot, and a worker
\* looks for a target only for a section that has none, while it holds the
\* block of that section; what it picked stays registered.
Growing ==
    /\ Inputs \subseteq registered
    /\ \A b \in Blocks \ registered : io[b].inUse = 0
    /\ \A b \in Cores : Len(io[b].slots) >= 1
    /\ \A w \in Workers :
          /\ pc[w] \in {"select", "create"} => ~Connected(Section(w))
          /\ pc[w] = "select" => pick[w] \in registered

\* No link changes, and no block is registered.
Quiet ==
    /\ registered' = registered
    /\ \A c \in Blocks : SameLinks(io[c], io'[c])

\* Section j of b is received by the slot it leads to.
Receives(b, j) ==
    /\ registered' = registered
    /\ j \in SectionsOf(b)
    /\ io' = [io EXCEPT ![io[b].outs[j].tgt] = Receive(@, b, j, io[b].outs[j])]

\* Section j of b takes the next slot of t.
Attaches(b, j, t) ==
    /\ registered' = registered \cup {t}
    /\ j \in DOMAIN io[b].outs /\ ~Connected(io[b].outs[j])
    /\ io[t].inUse < Len(io[t].slots)
    /\ io' = [[io EXCEPT ![t] = TakeInput(@, j, io[b].outs[j])]
                  EXCEPT ![b] = LinkSection(@, j, t, io[t].inUse + 1)]

\* What Wiring says of one section and of one slot, with the types they have.
LEMMA WiringFacts ==
    ASSUME TypeOK, Shape, Wiring, NEW b \in Blocks
    PROVE  /\ DOMAIN io[b].slots = 1..Len(io[b].slots) /\ Len(io[b].slots) \in Nat
           /\ DOMAIN io[b].outs = 1..Len(io[b].outs) /\ Len(io[b].outs) \in Nat
           /\ io[b].inUse \in 0..Len(io[b].slots)
           /\ \A j \in SectionsOf(b) : /\ io[b].outs[j].tgt \in registered
                                       /\ io[b].outs[j].tgt \in Blocks
                                       /\ io[b].outs[j].tpos \in 1..io[io[b].outs[j].tgt].inUse
           /\ \A i \in DOMAIN io[b].slots : io[b].slots[i].src # Nil =>
                 /\ io[b].slots[i].src \in Blocks
                 /\ io[b].slots[i].spos \in SectionsOf(io[b].slots[i].src)
                 /\ io[io[b].slots[i].src].outs[io[b].slots[i].spos].tgt = b
                 /\ io[io[b].slots[i].src].outs[io[b].slots[i].spos].tpos = i
<1>1. io[b].slots \in Seq(SlotType) /\ io[b].outs \in Seq(SectionType)
  BY IoFacts
<1>2. registered \subseteq Blocks
  BY DEF TypeOK
<1>3. \A i \in DOMAIN io[b].slots : io[b].slots[i].src # Nil => io[b].slots[i].src \in Blocks
  BY SlotFacts
<1>4. /\ DOMAIN io[b].slots = 1..Len(io[b].slots) /\ Len(io[b].slots) \in Nat
      /\ DOMAIN io[b].outs = 1..Len(io[b].outs) /\ Len(io[b].outs) \in Nat
  BY <1>1, Entries
<1>5. \A j \in SectionsOf(b) : /\ io[b].outs[j].tgt \in registered
                               /\ io[b].outs[j].tpos \in 1..io[io[b].outs[j].tgt].inUse
  BY Zenon DEF Wiring
<1>6. io[b].inUse \in 0..Len(io[b].slots)
  BY Zenon DEF Wiring
<1>7. \A i \in DOMAIN io[b].slots : io[b].slots[i].src # Nil =>
         /\ io[b].slots[i].spos \in SectionsOf(io[b].slots[i].src)
         /\ io[io[b].slots[i].src].outs[io[b].slots[i].spos].tgt = b
         /\ io[io[b].slots[i].src].outs[io[b].slots[i].spos].tpos = i
  BY Zenon DEF Wiring
<1> QED
  BY <1>2, <1>3, <1>4, <1>5, <1>6, <1>7, Zenon

\* A slot that belongs to a section knows which.
LEMMA SourceFacts ==
    ASSUME TypeOK, Shape, Wiring, NEW b \in Blocks, NEW i \in DOMAIN io[b].slots,
           io[b].slots[i].src # Nil
    PROVE  /\ io[b].slots[i].src \in Blocks
           /\ io[b].slots[i].spos \in SectionsOf(io[b].slots[i].src)
           /\ io[io[b].slots[i].src].outs[io[b].slots[i].spos].tgt = b
           /\ io[io[b].slots[i].src].outs[io[b].slots[i].spos].tpos = i
BY WiringFacts, Zenon

\* No two sections lead to the same slot.
LEMMA OneSection ==
    ASSUME Wiring, NEW b \in Blocks, NEW c \in Blocks,
           NEW j \in SectionsOf(b), NEW k \in SectionsOf(c),
           io[c].outs[k].tgt = io[b].outs[j].tgt, io[c].outs[k].tpos = io[b].outs[j].tpos
    PROVE  c = b /\ k = j
<1>1. \A d \in Blocks : \A l \in SectionsOf(d) :
          io[d].outs[l].tgt = io[b].outs[j].tgt /\ io[d].outs[l].tpos = io[b].outs[j].tpos
              => d = b /\ l = j
  BY Zenon DEF Wiring
<1> QED
  BY <1>1, Zenon

\* The connected sections of a block after the step.
NextSections(b) == {j \in DOMAIN io'[b].outs : Connected(io'[b].outs[j])}

\* The wiring after the step in three parts: where sections lead to, that no
\* two lead to the same slot, and what the slots know.
NextTargets ==
    \A b \in Blocks : \A j \in NextSections(b) :
        /\ io'[b].outs[j].tgt \in registered'
        /\ io'[b].outs[j].tpos \in 1..io'[io'[b].outs[j].tgt].inUse

NextExclusive ==
    \A b, c \in Blocks : \A j \in NextSections(b), k \in NextSections(c) :
        io'[c].outs[k].tgt = io'[b].outs[j].tgt /\ io'[c].outs[k].tpos = io'[b].outs[j].tpos
            => c = b /\ k = j

NextSources ==
    \A b \in Blocks :
        /\ io'[b].inUse \in 0..Len(io'[b].slots)
        /\ \A i \in DOMAIN io'[b].slots : io'[b].slots[i].src # Nil =>
              /\ io'[b].slots[i].spos \in NextSections(io'[b].slots[i].src)
              /\ io'[io'[b].slots[i].src].outs[io'[b].slots[i].spos].tgt = b
              /\ io'[io'[b].slots[i].src].outs[io'[b].slots[i].spos].tpos = i

\* These three parts are the wiring of the next state.
LEMMA WiringPrime ==
    ASSUME NextTargets, NextExclusive, NextSources
    PROVE  Wiring'
<1>1. \A b \in Blocks : \A j \in {l \in DOMAIN io'[b].outs : Connected(io'[b].outs[l])} :
          /\ io'[b].outs[j].tgt \in registered'
          /\ io'[b].outs[j].tpos \in 1..io'[io'[b].outs[j].tgt].inUse
          /\ \A c \in Blocks : \A k \in {l \in DOMAIN io'[c].outs : Connected(io'[c].outs[l])} :
                io'[c].outs[k].tgt = io'[b].outs[j].tgt /\ io'[c].outs[k].tpos = io'[b].outs[j].tpos
                    => c = b /\ k = j
  BY DEF NextTargets, NextExclusive, NextSections
<1>2. \A b \in Blocks :
        /\ io'[b].inUse \in 0..Len(io'[b].slots)
        /\ \A i \in DOMAIN io'[b].slots : io'[b].slots[i].src # Nil =>
              /\ io'[b].slots[i].spos \in {l \in DOMAIN io'[io'[b].slots[i].src].outs :
                                              Connected(io'[io'[b].slots[i].src].outs[l])}
              /\ io'[io'[b].slots[i].src].outs[io'[b].slots[i].spos].tgt = b
              /\ io'[io'[b].slots[i].src].outs[io'[b].slots[i].spos].tpos = i
  BY Zenon DEF NextSources, NextSections
<1> QED
  BY <1>1, <1>2, Zenon DEF Wiring, SectionsOf

\* A step that keeps all links keeps the wiring.
LEMMA QuietWiring ==
    ASSUME TypeOK, Shape, IoKept, Wiring, Quiet
    PROVE  Wiring'
<1>1. \A b \in Blocks : /\ NextSections(b) = SectionsOf(b)
                        /\ \A j \in SectionsOf(b) : /\ io'[b].outs[j].tgt = io[b].outs[j].tgt
                                                    /\ io'[b].outs[j].tpos = io[b].outs[j].tpos
                        /\ io'[b].inUse = io[b].inUse
                        /\ DOMAIN io'[b].slots = DOMAIN io[b].slots
                        /\ \A i \in DOMAIN io[b].slots :
                              /\ io'[b].slots[i].src = io[b].slots[i].src
                              /\ io'[b].slots[i].spos = io[b].slots[i].spos
  BY DEF Quiet, SameLinks, SameSections, SameSlots, SectionsOf, NextSections, Connected
<1>2. \A b \in Blocks : Len(io'[b].slots) = Len(io[b].slots)
  BY DEF IoKept, Keeps
<1>3. registered' = registered
  BY DEF Quiet
<1>4. \A b \in Blocks : \A j \in NextSections(b) :
          /\ io'[b].outs[j].tgt \in registered'
          /\ io'[b].outs[j].tpos \in 1..io'[io'[b].outs[j].tgt].inUse
  <2> SUFFICES ASSUME NEW b \in Blocks, NEW j \in SectionsOf(b)
               PROVE  /\ io'[b].outs[j].tgt \in registered'
                      /\ io'[b].outs[j].tpos \in 1..io'[io'[b].outs[j].tgt].inUse
    BY <1>1
  <2> DEFINE u == io[b].outs[j].tgt
  <2>1. u \in registered /\ u \in Blocks /\ io[b].outs[j].tpos \in 1..io[u].inUse
    BY WiringFacts
  <2>2. /\ io'[b].outs[j].tgt = u /\ io'[b].outs[j].tpos = io[b].outs[j].tpos
        /\ io'[u].inUse = io[u].inUse
    BY <1>1, <2>1
  <2> HIDE DEF u
  <2> QED
    BY <1>3, <2>1, <2>2
<1>5. \A b, c \in Blocks : \A j \in NextSections(b), k \in NextSections(c) :
          io'[c].outs[k].tgt = io'[b].outs[j].tgt /\ io'[c].outs[k].tpos = io'[b].outs[j].tpos
              => c = b /\ k = j
  <2> SUFFICES ASSUME NEW b \in Blocks, NEW c \in Blocks,
                      NEW j \in NextSections(b), NEW k \in NextSections(c),
                      io'[c].outs[k].tgt = io'[b].outs[j].tgt,
                      io'[c].outs[k].tpos = io'[b].outs[j].tpos
               PROVE  c = b /\ k = j
    OBVIOUS
  <2>1. /\ j \in SectionsOf(b) /\ k \in SectionsOf(c)
        /\ io[c].outs[k].tgt = io[b].outs[j].tgt /\ io[c].outs[k].tpos = io[b].outs[j].tpos
    BY <1>1
  <2> QED
    BY <2>1, OneSection
<1>6. \A b \in Blocks :
          /\ io'[b].inUse \in 0..Len(io'[b].slots)
          /\ \A i \in DOMAIN io'[b].slots : io'[b].slots[i].src # Nil =>
                /\ io'[b].slots[i].spos \in NextSections(io'[b].slots[i].src)
                /\ io'[io'[b].slots[i].src].outs[io'[b].slots[i].spos].tgt = b
                /\ io'[io'[b].slots[i].src].outs[io'[b].slots[i].spos].tpos = i
  <2> SUFFICES ASSUME NEW b \in Blocks
               PROVE  /\ io'[b].inUse \in 0..Len(io'[b].slots)
                      /\ \A i \in DOMAIN io'[b].slots : io'[b].slots[i].src # Nil =>
                            /\ io'[b].slots[i].spos \in NextSections(io'[b].slots[i].src)
                            /\ io'[io'[b].slots[i].src].outs[io'[b].slots[i].spos].tgt = b
                            /\ io'[io'[b].slots[i].src].outs[io'[b].slots[i].spos].tpos = i
    BY Zenon
  <2>1. /\ io[b].inUse \in 0..Len(io[b].slots)
        /\ \A i \in DOMAIN io[b].slots : io[b].slots[i].src # Nil =>
              /\ io[b].slots[i].src \in Blocks
              /\ io[b].slots[i].spos \in SectionsOf(io[b].slots[i].src)
              /\ io[io[b].slots[i].src].outs[io[b].slots[i].spos].tgt = b
              /\ io[io[b].slots[i].src].outs[io[b].slots[i].spos].tpos = i
    BY WiringFacts, Zenon
  <2>2. io'[b].inUse \in 0..Len(io'[b].slots)
    BY <1>1, <1>2, <2>1
  <2>3. ASSUME NEW i \in DOMAIN io'[b].slots, io'[b].slots[i].src # Nil
        PROVE  /\ io'[b].slots[i].spos \in NextSections(io'[b].slots[i].src)
               /\ io'[io'[b].slots[i].src].outs[io'[b].slots[i].spos].tgt = b
               /\ io'[io'[b].slots[i].src].outs[io'[b].slots[i].spos].tpos = i
    <3> DEFINE a == io'[b].slots[i].src
               j == io'[b].slots[i].spos
    <3>1. /\ a \in Blocks /\ j \in SectionsOf(a)
          /\ io[a].outs[j].tgt = b /\ io[a].outs[j].tpos = i
      <4>1. i \in DOMAIN io[b].slots /\ a = io[b].slots[i].src /\ j = io[b].slots[i].spos /\ a # Nil
        BY <1>1, <2>3
      <4> HIDE DEF a, j
      <4> QED
        BY <2>1, <4>1
    <3> HIDE DEF a, j
    <3>2. j \in NextSections(a) /\ io'[a].outs[j].tgt = b /\ io'[a].outs[j].tpos = i
      BY <1>1, <3>1
    <3> QED
      BY <3>2 DEF a, j
  <2> QED
    BY <2>2, <2>3, Zenon
<1> QED
  BY <1>4, <1>5, <1>6, WiringPrime, Zenon DEF NextTargets, NextExclusive, NextSources

\* send_forward keeps the wiring: the slot learns what its section knows.
LEMMA ReceiveWiring ==
    ASSUME TypeOK, Shape, IoKept, Wiring, NEW b \in Blocks, NEW j, Receives(b, j)
    PROVE  Wiring' /\ \A c \in Blocks : SameSections(io[c], io'[c]) /\ io'[c].inUse = io[c].inUse
<1> DEFINE s == io[b].outs[j]
           t == s.tgt
<1>1. t \in Blocks /\ j \in SectionsOf(b) /\ registered' = registered
  BY WiringFacts DEF Receives
<1>2. io' = [io EXCEPT ![t] = Receive(io[t], b, j, s)] /\ io \in [Blocks -> IoType]
  BY IoFacts DEF Receives
<1> HIDE DEF s
<1>3. /\ SameSections(io[t], io'[t]) /\ io'[t].inUse = io[t].inUse
      /\ DOMAIN io'[t].slots = DOMAIN io[t].slots
      /\ \A i \in DOMAIN io[t].slots :
            IF i = s.tpos THEN io'[t].slots[i].src = b /\ io'[t].slots[i].spos = j
            ELSE io'[t].slots[i] = io[t].slots[i]
  BY <1>1, <1>2, IoFacts, ReceiveLinks
<1>4. \A c \in Blocks : c # t => io'[c] = io[c]
  BY <1>2
<1>5. \A c \in Blocks : /\ SameSections(io[c], io'[c]) /\ io'[c].inUse = io[c].inUse
                        /\ DOMAIN io'[c].slots = DOMAIN io[c].slots
                        /\ \A i \in DOMAIN io[c].slots :
                              IF c = t /\ i = s.tpos
                              THEN io'[c].slots[i].src = b /\ io'[c].slots[i].spos = j
                              ELSE io'[c].slots[i] = io[c].slots[i]
  BY <1>3, <1>4 DEF SameSections
<1>6. \A c \in Blocks : /\ NextSections(c) = SectionsOf(c)
                        /\ \A k \in SectionsOf(c) : /\ io'[c].outs[k].tgt = io[c].outs[k].tgt
                                                    /\ io'[c].outs[k].tpos = io[c].outs[k].tpos
  BY <1>5 DEF SameSections, SectionsOf, NextSections, Connected
<1>7. \A c \in Blocks : Len(io'[c].slots) = Len(io[c].slots)
  BY DEF IoKept, Keeps
<1>8. \A c \in Blocks : \A k \in NextSections(c) :
          /\ io'[c].outs[k].tgt \in registered'
          /\ io'[c].outs[k].tpos \in 1..io'[io'[c].outs[k].tgt].inUse
  <2> SUFFICES ASSUME NEW c \in Blocks, NEW k \in SectionsOf(c)
               PROVE  /\ io'[c].outs[k].tgt \in registered'
                      /\ io'[c].outs[k].tpos \in 1..io'[io'[c].outs[k].tgt].inUse
    BY <1>6
  <2> DEFINE u == io[c].outs[k].tgt
  <2>1. u \in registered /\ u \in Blocks /\ io[c].outs[k].tpos \in 1..io[u].inUse
    BY WiringFacts
  <2>2. /\ io'[c].outs[k].tgt = u /\ io'[c].outs[k].tpos = io[c].outs[k].tpos
        /\ io'[u].inUse = io[u].inUse
    BY <1>5, <1>6, <2>1
  <2> HIDE DEF u
  <2> QED
    BY <1>1, <2>1, <2>2
<1>9. \A c, d \in Blocks : \A k \in NextSections(c), l \in NextSections(d) :
          io'[d].outs[l].tgt = io'[c].outs[k].tgt /\ io'[d].outs[l].tpos = io'[c].outs[k].tpos
              => d = c /\ l = k
  <2> SUFFICES ASSUME NEW c \in Blocks, NEW d \in Blocks,
                      NEW k \in NextSections(c), NEW l \in NextSections(d),
                      io'[d].outs[l].tgt = io'[c].outs[k].tgt,
                      io'[d].outs[l].tpos = io'[c].outs[k].tpos
               PROVE  d = c /\ l = k
    OBVIOUS
  <2>1. /\ k \in SectionsOf(c) /\ l \in SectionsOf(d)
        /\ io[d].outs[l].tgt = io[c].outs[k].tgt /\ io[d].outs[l].tpos = io[c].outs[k].tpos
    BY <1>6
  <2> QED
    BY <2>1, OneSection
<1>10. \A c \in Blocks :
          /\ io'[c].inUse \in 0..Len(io'[c].slots)
          /\ \A i \in DOMAIN io'[c].slots : io'[c].slots[i].src # Nil =>
                /\ io'[c].slots[i].spos \in NextSections(io'[c].slots[i].src)
                /\ io'[io'[c].slots[i].src].outs[io'[c].slots[i].spos].tgt = c
                /\ io'[io'[c].slots[i].src].outs[io'[c].slots[i].spos].tpos = i
  <2> SUFFICES ASSUME NEW c \in Blocks
               PROVE  /\ io'[c].inUse \in 0..Len(io'[c].slots)
                      /\ \A i \in DOMAIN io'[c].slots : io'[c].slots[i].src # Nil =>
                            /\ io'[c].slots[i].spos \in NextSections(io'[c].slots[i].src)
                            /\ io'[io'[c].slots[i].src].outs[io'[c].slots[i].spos].tgt = c
                            /\ io'[io'[c].slots[i].src].outs[io'[c].slots[i].spos].tpos = i
    BY Zenon
  <2>0. DOMAIN io'[c].slots = DOMAIN io[c].slots
    BY <1>5
  <2>1. io'[c].inUse \in 0..Len(io'[c].slots)
    BY <1>5, <1>7, WiringFacts
  <2>2. ASSUME NEW i \in DOMAIN io'[c].slots, io'[c].slots[i].src # Nil
        PROVE  /\ io'[c].slots[i].spos \in NextSections(io'[c].slots[i].src)
               /\ io'[io'[c].slots[i].src].outs[io'[c].slots[i].spos].tgt = c
               /\ io'[io'[c].slots[i].src].outs[io'[c].slots[i].spos].tpos = i
    <3>0. i \in DOMAIN io[c].slots
      BY <2>0
    <3>1. CASE c = t /\ i = s.tpos
      <4>1. io'[c].slots[i].src = b /\ io'[c].slots[i].spos = j
        BY <1>5, <3>0, <3>1
      <4>2. j \in NextSections(b) /\ io'[b].outs[j].tgt = t /\ io'[b].outs[j].tpos = s.tpos
        BY <1>1, <1>6 DEF s
      <4> QED
        BY <3>1, <4>1, <4>2
    <3>2. CASE ~(c = t /\ i = s.tpos)
      <4>1. io'[c].slots[i] = io[c].slots[i]
        BY <1>5, <3>0, <3>2
      <4>0. io[c].slots[i].src # Nil
        BY <2>2, <4>1
      <4>2. /\ io[c].slots[i].src \in Blocks
            /\ io[c].slots[i].spos \in SectionsOf(io[c].slots[i].src)
            /\ io[io[c].slots[i].src].outs[io[c].slots[i].spos].tgt = c
            /\ io[io[c].slots[i].src].outs[io[c].slots[i].spos].tpos = i
        BY <3>0, <4>0, SourceFacts, Zenon
      <4> DEFINE a == io[c].slots[i].src
                 q == io[c].slots[i].spos
      <4>3. /\ a \in Blocks /\ q \in SectionsOf(a)
            /\ io[a].outs[q].tgt = c /\ io[a].outs[q].tpos = i
        BY <4>2
      <4>4. io'[c].slots[i].src = a /\ io'[c].slots[i].spos = q
        BY <4>1
      <4> HIDE DEF a, q
      <4>5. q \in NextSections(a) /\ io'[a].outs[q].tgt = c /\ io'[a].outs[q].tpos = i
        BY <1>6, <4>3
      <4> QED
        BY <4>4, <4>5
    <3> QED
      BY <3>1, <3>2, Zenon
  <2> QED
    BY <2>1, <2>2, Zenon
<1>11. Wiring'
  BY <1>8, <1>9, <1>10, WiringPrime, Zenon DEF NextTargets, NextExclusive, NextSources
<1> QED
  BY <1>5, <1>11

\* Growing a network keeps the wiring: the slot taken is past those in use, the
\* section connected had no target.
LEMMA AttachWiring ==
    ASSUME TypeOK, Shape, IoKept, Wiring, NEW b \in Blocks, NEW j \in Nat, NEW t \in Blocks,
           Attaches(b, j, t)
    PROVE  /\ Wiring'
           /\ \A c \in Blocks : c # t => io'[c].inUse = io[c].inUse
           /\ \A c \in Blocks : DOMAIN io'[c].outs = DOMAIN io[c].outs
           /\ \A c \in Blocks : \A i \in DOMAIN io[c].outs :
                 ~(c = b /\ i = j) => io'[c].outs[i] = io[c].outs[i]
<1> DEFINE k == io[t].inUse + 1
           y == TakeInput(io[t], j, io[b].outs[j])
           f == [io EXCEPT ![t] = y]
           z == LinkSection(f[b], j, t, k)
<1>1. /\ io \in [Blocks -> IoType] /\ SoundIo(io[t]) /\ SoundIo(io[b])
      /\ registered' = registered \cup {t} /\ j \in DOMAIN io[b].outs
      /\ ~Connected(io[b].outs[j]) /\ io[t].inUse < Len(io[t].slots)
  BY IoFacts DEF Attaches
<1>2. io' = [f EXCEPT ![b] = z] /\ f \in [Blocks -> IoType] /\ SoundIo(f[b])
  <2>1. io[b].outs[j] \in SectionType
    BY <1>1, IoFacts, Entries
  <2>2. SoundIo(y)
    BY <1>1, <2>1, TakeInputSound
  <2> HIDE DEF y
  <2>3. f \in [Blocks -> IoType] /\ SoundIo(f[b])
    BY <1>1, <2>2 DEF SoundIo
  <2>4. io' = [f EXCEPT ![b] = z]
    BY <1>1 DEF Attaches, y
  <2> QED
    BY <2>3, <2>4
<1>3. /\ y.outs = io[t].outs /\ y.inUse = k /\ DOMAIN y.slots = DOMAIN io[t].slots
      /\ \A i \in DOMAIN io[t].slots :
            IF i = k THEN y.slots[i].src = Nil ELSE y.slots[i] = io[t].slots[i]
  <2> HIDE DEF y
  <2>1. y = TakeInput(io[t], j, io[b].outs[j])
    BY DEF y
  <2> QED
    BY <1>1, <2>1, TakeInputLinks
<1> HIDE DEF y
<1>4. \A c \in Blocks : /\ f[c].outs = io[c].outs
                        /\ f[c].inUse = IF c = t THEN k ELSE io[c].inUse
                        /\ DOMAIN f[c].slots = DOMAIN io[c].slots
                        /\ \A i \in DOMAIN io[c].slots :
                              IF c = t /\ i = k THEN f[c].slots[i].src = Nil
                              ELSE f[c].slots[i] = io[c].slots[i]
  BY <1>1, <1>3
<1> HIDE DEF f
<1>5. /\ z.slots = f[b].slots /\ z.inUse = f[b].inUse /\ DOMAIN z.outs = DOMAIN f[b].outs
      /\ \A i \in DOMAIN f[b].outs :
            IF i = j THEN z.outs[i].tgt = t /\ z.outs[i].tpos = k ELSE z.outs[i] = f[b].outs[i]
  <2> HIDE DEF z
  <2>1. z = LinkSection(f[b], j, t, k)
    BY DEF z
  <2> HIDE DEF k
  <2> QED
    BY <1>2, <2>1, LinkSectionLinks
<1> HIDE DEF z
<1>6. \A c \in Blocks : /\ DOMAIN io'[c].outs = DOMAIN io[c].outs
                        /\ \A i \in DOMAIN io[c].outs :
                              IF c = b /\ i = j
                              THEN io'[c].outs[i].tgt = t /\ io'[c].outs[i].tpos = k
                              ELSE io'[c].outs[i] = io[c].outs[i]
                        /\ io'[c].inUse = IF c = t THEN k ELSE io[c].inUse
                        /\ DOMAIN io'[c].slots = DOMAIN io[c].slots
                        /\ \A i \in DOMAIN io[c].slots :
                              IF c = t /\ i = k THEN io'[c].slots[i].src = Nil
                              ELSE io'[c].slots[i] = io[c].slots[i]
  <2>1. io'[b] = z /\ \A c \in Blocks : c # b => io'[c] = f[c]
    BY <1>2
  <2>2. \A c \in Blocks : /\ io'[c].slots = f[c].slots /\ io'[c].inUse = f[c].inUse
                          /\ DOMAIN io'[c].outs = DOMAIN f[c].outs
                          /\ \A i \in DOMAIN f[c].outs :
                                IF c = b /\ i = j
                                THEN io'[c].outs[i].tgt = t /\ io'[c].outs[i].tpos = k
                                ELSE io'[c].outs[i] = f[c].outs[i]
    BY <1>5, <2>1
  <2> SUFFICES ASSUME NEW c \in Blocks
               PROVE  /\ DOMAIN io'[c].outs = DOMAIN io[c].outs
                      /\ \A i \in DOMAIN io[c].outs :
                            IF c = b /\ i = j
                            THEN io'[c].outs[i].tgt = t /\ io'[c].outs[i].tpos = k
                            ELSE io'[c].outs[i] = io[c].outs[i]
                      /\ io'[c].inUse = IF c = t THEN k ELSE io[c].inUse
                      /\ DOMAIN io'[c].slots = DOMAIN io[c].slots
                      /\ \A i \in DOMAIN io[c].slots :
                            IF c = t /\ i = k THEN io'[c].slots[i].src = Nil
                            ELSE io'[c].slots[i] = io[c].slots[i]
    OBVIOUS
  <2>3. f[c].outs = io[c].outs /\ io'[c].slots = f[c].slots /\ io'[c].inUse = f[c].inUse
    BY <1>4, <2>2
  <2>4. /\ io'[c].inUse = IF c = t THEN k ELSE io[c].inUse
        /\ DOMAIN io'[c].slots = DOMAIN io[c].slots
        /\ \A i \in DOMAIN io[c].slots :
              IF c = t /\ i = k THEN io'[c].slots[i].src = Nil
              ELSE io'[c].slots[i] = io[c].slots[i]
    BY <1>4, <2>3
  <2>5. /\ DOMAIN io'[c].outs = DOMAIN io[c].outs
        /\ \A i \in DOMAIN io[c].outs :
              IF c = b /\ i = j
              THEN io'[c].outs[i].tgt = t /\ io'[c].outs[i].tpos = k
              ELSE io'[c].outs[i] = io[c].outs[i]
    BY <2>2, <2>3
  <2> QED
    BY <2>4, <2>5
<1>7. k \in Nat /\ k # 0 /\ k \in 1..Len(io[t].slots) /\ io[t].inUse \in Nat
  <2>1. io[t].inUse \in 0..Len(io[t].slots) /\ Len(io[t].slots) \in Nat
    BY WiringFacts
  <2> QED
    BY <1>1, <2>1
<1> HIDE DEF k
<1>8. \A c \in Blocks : NextSections(c) = IF c = b THEN SectionsOf(c) \cup {j} ELSE SectionsOf(c)
  BY <1>1, <1>6, <1>7 DEF SectionsOf, NextSections, Connected
<1>9. \A c \in Blocks : Len(io'[c].slots) = Len(io[c].slots)
  BY DEF IoKept, Keeps
<1>10. j \notin SectionsOf(b)
  BY <1>1 DEF SectionsOf
<1>11. \A c \in Blocks : \A i \in SectionsOf(c) :
           /\ io'[c].outs[i].tgt = io[c].outs[i].tgt /\ io'[c].outs[i].tpos = io[c].outs[i].tpos
           /\ ~(io[c].outs[i].tgt = t /\ io[c].outs[i].tpos = k)
  <2>1. SUFFICES ASSUME NEW c \in Blocks, NEW i \in SectionsOf(c)
                 PROVE  /\ io'[c].outs[i] = io[c].outs[i]
                        /\ ~(io[c].outs[i].tgt = t /\ io[c].outs[i].tpos = k)
    OBVIOUS
  <2>2. io'[c].outs[i] = io[c].outs[i]
    BY <1>6, <1>10 DEF SectionsOf
  <2>3. io[c].outs[i].tpos \in 1..io[io[c].outs[i].tgt].inUse
    BY WiringFacts
  <2>4. io[c].outs[i].tgt = t => io[c].outs[i].tpos # k
    BY <1>7, <2>3 DEF k
  <2> QED
    BY <2>2, <2>4
<1>12. \A c \in Blocks : \A i \in NextSections(c) :
          /\ io'[c].outs[i].tgt \in registered'
          /\ io'[c].outs[i].tpos \in 1..io'[io'[c].outs[i].tgt].inUse
  <2> SUFFICES ASSUME NEW c \in Blocks, NEW i \in NextSections(c)
               PROVE  /\ io'[c].outs[i].tgt \in registered'
                      /\ io'[c].outs[i].tpos \in 1..io'[io'[c].outs[i].tgt].inUse
    OBVIOUS
  <2>1. CASE c = b /\ i = j
    <3>1. io'[c].outs[i].tgt = t /\ io'[c].outs[i].tpos = k /\ io'[t].inUse = k
      BY <1>1, <1>6, <2>1
    <3> QED
      BY <1>1, <1>7, <3>1
  <2>2. CASE i \in SectionsOf(c)
    <3> DEFINE u == io[c].outs[i].tgt
    <3>1. u \in registered /\ u \in Blocks /\ io[c].outs[i].tpos \in 1..io[u].inUse
      BY <2>2, WiringFacts
    <3>2. io[u].inUse \in Nat /\ (io'[u].inUse = io[u].inUse \/ io'[u].inUse = io[u].inUse + 1)
      BY <1>6, <3>1, IoFacts DEF k
    <3>3. io'[c].outs[i].tgt = u /\ io'[c].outs[i].tpos = io[c].outs[i].tpos
      BY <1>11, <2>2
    <3> HIDE DEF u
    <3>4. io[c].outs[i].tpos \in 1..io'[u].inUse
      BY <3>1, <3>2
    <3> QED
      BY <1>1, <3>1, <3>3, <3>4
  <2> QED
    BY <1>8, <2>1, <2>2
<1>13. \A c, d \in Blocks : \A i \in NextSections(c), l \in NextSections(d) :
          io'[d].outs[l].tgt = io'[c].outs[i].tgt /\ io'[d].outs[l].tpos = io'[c].outs[i].tpos
              => d = c /\ l = i
  <2> SUFFICES ASSUME NEW c \in Blocks, NEW d \in Blocks,
                      NEW i \in NextSections(c), NEW l \in NextSections(d),
                      io'[d].outs[l].tgt = io'[c].outs[i].tgt,
                      io'[d].outs[l].tpos = io'[c].outs[i].tpos
               PROVE  d = c /\ l = i
    OBVIOUS
  <2>1. io'[b].outs[j].tgt = t /\ io'[b].outs[j].tpos = k
    BY <1>1, <1>6
  <2>2. CASE i \in SectionsOf(c) /\ l \in SectionsOf(d)
    <3>1. io[d].outs[l].tgt = io[c].outs[i].tgt /\ io[d].outs[l].tpos = io[c].outs[i].tpos
      BY <1>11, <2>2
    <3> QED
      BY <2>2, <3>1, OneSection
  <2>3. CASE i \notin SectionsOf(c)
    <3>1. c = b /\ i = j
      BY <1>8, <2>3
    <3>2. l \notin SectionsOf(d)
      BY <1>11, <2>1, <3>1
    <3> QED
      BY <1>8, <3>1, <3>2
  <2>4. CASE l \notin SectionsOf(d)
    <3>1. d = b /\ l = j
      BY <1>8, <2>4
    <3>2. i \notin SectionsOf(c)
      BY <1>11, <2>1, <3>1
    <3> QED
      BY <1>8, <3>1, <3>2
  <2> QED
    BY <2>2, <2>3, <2>4
<1>14. \A c \in Blocks :
          /\ io'[c].inUse \in 0..Len(io'[c].slots)
          /\ \A i \in DOMAIN io'[c].slots : io'[c].slots[i].src # Nil =>
                /\ io'[c].slots[i].spos \in NextSections(io'[c].slots[i].src)
                /\ io'[io'[c].slots[i].src].outs[io'[c].slots[i].spos].tgt = c
                /\ io'[io'[c].slots[i].src].outs[io'[c].slots[i].spos].tpos = i
  <2> SUFFICES ASSUME NEW c \in Blocks
               PROVE  /\ io'[c].inUse \in 0..Len(io'[c].slots)
                      /\ \A i \in DOMAIN io'[c].slots : io'[c].slots[i].src # Nil =>
                            /\ io'[c].slots[i].spos \in NextSections(io'[c].slots[i].src)
                            /\ io'[io'[c].slots[i].src].outs[io'[c].slots[i].spos].tgt = c
                            /\ io'[io'[c].slots[i].src].outs[io'[c].slots[i].spos].tpos = i
    BY Zenon
  <2>0. DOMAIN io'[c].slots = DOMAIN io[c].slots
    BY <1>6
  <2>1. io'[c].inUse \in 0..Len(io'[c].slots)
    <3>1. io'[c].inUse = IF c = t THEN k ELSE io[c].inUse
      BY <1>6
    <3>2. Len(io'[c].slots) = Len(io[c].slots) /\ Len(io[c].slots) \in Nat
          /\ io[c].inUse \in 0..Len(io[c].slots)
      BY <1>9, WiringFacts
    <3> QED
      BY <1>7, <3>1, <3>2
  <2>2. ASSUME NEW i \in DOMAIN io'[c].slots, io'[c].slots[i].src # Nil
        PROVE  /\ io'[c].slots[i].spos \in NextSections(io'[c].slots[i].src)
               /\ io'[io'[c].slots[i].src].outs[io'[c].slots[i].spos].tgt = c
               /\ io'[io'[c].slots[i].src].outs[io'[c].slots[i].spos].tpos = i
    <3>0. i \in DOMAIN io[c].slots
      BY <2>0
    <3>1. io'[c].slots[i] = io[c].slots[i]
      <4>1. IF c = t /\ i = k THEN io'[c].slots[i].src = Nil
                              ELSE io'[c].slots[i] = io[c].slots[i]
        BY <1>6, <3>0
      <4> QED
        BY <2>2, <4>1
    <3>2. /\ io[c].slots[i].src \in Blocks
          /\ io[c].slots[i].spos \in SectionsOf(io[c].slots[i].src)
          /\ io[io[c].slots[i].src].outs[io[c].slots[i].spos].tgt = c
          /\ io[io[c].slots[i].src].outs[io[c].slots[i].spos].tpos = i
      <4>1. io[c].slots[i].src # Nil
        BY <2>2, <3>1
      <4> QED
        BY <3>0, <4>1, SourceFacts, Zenon
    <3> DEFINE a == io[c].slots[i].src
               q == io[c].slots[i].spos
    <3>4. /\ a \in Blocks /\ q \in SectionsOf(a)
          /\ io[a].outs[q].tgt = c /\ io[a].outs[q].tpos = i
      BY <3>2
    <3>5. io'[c].slots[i].src = a /\ io'[c].slots[i].spos = q
      BY <3>1
    <3> HIDE DEF a, q
    <3>3. q \in NextSections(a)
      BY <1>8, <3>4
    <3>6. io'[a].outs[q].tgt = c /\ io'[a].outs[q].tpos = i
      BY <1>11, <3>4
    <3> QED
      BY <3>3, <3>5, <3>6
  <2> QED
    BY <2>1, <2>2, Zenon
<1>15. Wiring'
  BY <1>12, <1>13, <1>14, WiringPrime, Zenon DEF NextTargets, NextExclusive, NextSources
<1> QED
  BY <1>6, <1>15

\* Replacing the io of one block by one with the same links.
LEMMA QuietBlock ==
    ASSUME TypeOK, Shape, NEW b \in Blocks, NEW y, SameLinks(io[b], y),
           io' = [io EXCEPT ![b] = y], registered' = registered
    PROVE  Quiet
BY IoFacts DEF Quiet, SameLinks, SameSections, SameSlots

\* A slot sent back meets the section that leads to it: no link changes.
LEMMA SendBackQuiet ==
    ASSUME TypeOK, Shape, Wiring, NEW b \in Blocks, NEW i \in DOMAIN io[b].slots,
           io[b].slots[i].src # Nil, io' = SentBack(b, i), registered' = registered
    PROVE  Quiet
<1> DEFINE slot == io[b].slots[i]
           a == slot.src
           y == TakeBack(io[a], b, i, slot)
           f == [io EXCEPT ![a] = y]
           z == MarkDone(f[b], i)
<1>1. /\ a \in Blocks /\ slot \in SlotType /\ i \in Nat /\ slot.spos \in SectionsOf(a)
      /\ io[a].outs[slot.spos].tgt = b /\ io[a].outs[slot.spos].tpos = i
  <2>1. i \in Nat
    BY IoFacts, Entries
  <2> QED
    BY <2>1, SourceFacts, SlotFacts, Zenon
<1>2. SoundIo(io[a]) /\ SoundIo(io[b]) /\ io \in [Blocks -> IoType]
  BY <1>1, IoFacts
<1>3. io' = [f EXCEPT ![b] = z]
  BY <1>1, <1>2 DEF SentBack
<1>4. slot.spos \in DOMAIN io[a].outs
  BY <1>1 DEF SectionsOf
<1> HIDE DEF slot, a
<1>5. SoundIo(y) /\ SameLinks(io[a], y)
  BY <1>1, <1>2, <1>4, TakeBackSound, TakeBackLinks
<1> HIDE DEF y
<1>6. /\ f[b] = (IF a = b THEN y ELSE io[b]) /\ SoundIo(f[b])
      /\ \A c \in Blocks : SameLinks(io[c], f[c])
  BY <1>1, <1>2, <1>5 DEF SameLinks, SameSections, SameSlots
<1> HIDE DEF f
<1>7. SameLinks(f[b], z)
  BY <1>6, MarkDoneLinks
<1> HIDE DEF z
<1>8. SameLinks(io[b], z)
  BY <1>6, <1>7, LinksTrans
<1>9. \A c \in Blocks : io'[c] = IF c = b THEN z ELSE f[c]
  BY <1>1, <1>2, <1>3 DEF f
<1> QED
  BY <1>6, <1>8, <1>9 DEF Quiet

\* Every step is of one of the three kinds; the block that sends or grows is
\* the one its worker is inside of.
LEMMA StepKinds ==
    ASSUME TypeOK, LockDiscipline, Shape, Wiring, Growing, [Next]_vars
    PROVE  \/ Quiet
           \/ \E w \in Workers : Receives(task[w].block, sec[w]) /\ task[w].block \in Blocks
           \/ \E w \in Workers, t \in Blocks :
                 /\ pc[w] \in {"select", "create"} /\ pc'[w] \notin {"select", "create"}
                 /\ task[w].block \in Blocks
                 /\ Attaches(task[w].block, sec[w], t)
<1>1. CASE UNCHANGED <<io, registered>>
  BY <1>1 DEF Quiet, SameLinks, SameSections, SameSlots
<1>2. CASE ApplyPlainInput
  <2> DEFINE x == IF Calls[call].kind = "train" /\ Len(io[arg].outs) < Width[arg]
                  THEN Widen(io[arg], Width[arg]) ELSE io[arg]
  <2>1. /\ arg \in Blocks /\ Width[arg] \in Nat /\ registered' = registered
        /\ io' = [io EXCEPT ![arg] = PassForward(x, call)]
    BY <1>2, BlockAssumption, BlockFacts DEF ApplyPlainInput, Shape
  <2>2. SoundIo(io[arg]) /\ Len(io[arg].outs) \in Nat /\ SameLinks(io[arg], io[arg])
    BY <2>1, IoFacts, Entries DEF SameLinks, SameSections, SameSlots
  <2>3. SoundIo(x) /\ SameLinks(io[arg], x)
    <3>1. CASE Calls[call].kind = "train" /\ Len(io[arg].outs) < Width[arg]
      BY <2>1, <2>2, <3>1, WidenSound, WidenLinks
    <3>2. CASE ~(Calls[call].kind = "train" /\ Len(io[arg].outs) < Width[arg])
      BY <2>2, <3>2
    <3> QED
      BY <3>1, <3>2
  <2> HIDE DEF x
  <2>4. SameLinks(io[arg], PassForward(x, call))
    BY <2>3, PassForwardLinks, LinksTrans
  <2> QED
    BY <2>1, <2>4, QuietBlock
<1>3. ASSUME NEW w \in Workers, TrainCore(w) \/ ProcessCore(w) PROVE Quiet
  <2> DEFINE b == task[w].block
             x == Resized(b)
             y == PassForward(x, InputAge(x))
  <2>1. b \in Cores /\ b \in Blocks /\ registered' = registered
        /\ io' = [io EXCEPT ![b] = ClearDeltas(y)]
    BY <1>3, BlockFacts DEF TrainCore, ProcessCore, At
  <2>2. SoundIo(x) /\ SameLinks(io[b], x)
    <3>1. SoundIo(x)
      BY <2>1, ResizedSound
    <3>2. /\ SoundIo(io[b]) /\ Len(io[b].outs) \in Nat /\ level[b] \in Nat
          /\ SameLinks(io[b], io[b])
      BY <2>1, IoFacts, Entries DEF TypeOK, SameLinks, SameSections, SameSlots
    <3>3. CASE Len(io[b].outs) < level[b]
      <4>1. x = Widen(io[b], level[b]) /\ Len(io[b].outs) <= level[b]
        BY <3>2, <3>3 DEF Resized
      <4> HIDE DEF x
      <4> QED
        BY <3>1, <3>2, <4>1, WidenLinks
    <3>4. CASE ~(Len(io[b].outs) < level[b])
      BY <3>1, <3>2, <3>4 DEF Resized
    <3> QED
      BY <3>3, <3>4
  <2>3. InputAge(x) \in Nat
    BY <2>2, AgesType
  <2> HIDE DEF x
  <2>4. SoundIo(y) /\ SameLinks(io[b], y)
    BY <2>2, <2>3, PassForwardSound, PassForwardLinks, LinksTrans
  <2> HIDE DEF y
  <2>5. SameLinks(io[b], ClearDeltas(y))
    BY <2>4, ClearDeltasLinks, LinksTrans
  <2> QED
    BY <2>1, <2>5, QuietBlock
<1>4. ASSUME NEW w \in Workers, BackpropagateCore(w) PROVE Quiet
  <2>1. /\ task[w].block \in Blocks /\ registered' = registered
        /\ io' = [io EXCEPT ![task[w].block] =
                     PassBackward(io[task[w].block], DeltaAge(io[task[w].block]))]
    BY <1>4, BlockFacts DEF BackpropagateCore, At
  <2> QED
    BY <2>1, IoFacts, PassBackwardLinks, QuietBlock
<1>5. ASSUME NEW w \in Workers, BackpropagateOutput(w) PROVE Quiet
  <2>1. /\ task[w].block \in Blocks /\ registered' = registered
        /\ io' = [io EXCEPT ![task[w].block] =
                     PassBackward(io[task[w].block], buffer[BufferOf[task[w].block]].expected.of)]
    BY <1>5, BlockFacts DEF BackpropagateOutput, LockDiscipline
  <2> QED
    BY <2>1, IoFacts, PassBackwardLinks, QuietBlock
<1>6. ASSUME NEW w \in Workers, SendBackward(w), io' # io PROVE Quiet
  <2>1. /\ task[w].block \in Outputs /\ task[w].block \in Blocks
        /\ io[task[w].block].slots[1].src # Nil /\ io' = SentBack(task[w].block, 1)
        /\ registered' = registered
    BY <1>6, BlockFacts DEF SendBackward, LockDiscipline
  <2>2. 1 \in DOMAIN io[task[w].block].slots
    BY <2>1, IoFacts, Entries DEF Shape
  <2> QED
    BY <2>1, <2>2, SendBackQuiet
<1>7. ASSUME NEW w \in Workers, NEW i \in 1..2, ReturnSlot(w, i) PROVE Quiet
  <2>1. /\ pc[w] = "return" /\ i \in Pending(io[task[w].block])
        /\ io' = SentBack(task[w].block, i) /\ registered' = registered
    BY <1>7 DEF ReturnSlot, IsNext
  <2>2. /\ task[w].block \in Blocks /\ i \in DOMAIN io[task[w].block].slots
        /\ io[task[w].block].slots[i].src # Nil
    BY <2>1, OwnBlock DEF Pending
  <2> QED
    BY <2>1, <2>2, SendBackQuiet
<1>8. ASSUME NEW w \in Workers, FinishBackward(w) PROVE Quiet
  <2>1. /\ task[w].block \in Blocks /\ registered' = registered
        /\ io' = [io EXCEPT ![task[w].block] = ResetDone(io[task[w].block])]
    BY <1>8, OwnBlock DEF FinishBackward
  <2> QED
    BY <2>1, IoFacts, ResetDoneLinks, QuietBlock
<1>9. ASSUME NEW w \in Workers, SendForward(w)
      PROVE  Receives(task[w].block, sec[w]) /\ task[w].block \in Blocks
  <2>1. /\ task[w].block \in Blocks /\ sec[w] \in DOMAIN io[task[w].block].outs
        /\ Connected(Section(w)) /\ registered' = registered
        /\ io' = [io EXCEPT ![Section(w).tgt] = Receive(@, task[w].block, sec[w], Section(w))]
    BY <1>9, OwnBlock DEF SendForward, Shape, WorkerShape
  <2> QED
    BY <2>1 DEF Receives, Section, SectionsOf
<1>10. ASSUME NEW w \in Workers, SelectBlock(w), io' # io
       PROVE  /\ pc[w] = "select" /\ pc'[w] = "handover"
              /\ task[w].block \in Blocks /\ pick[w] \in Blocks
              /\ Attaches(task[w].block, sec[w], pick[w])
  <2>1. /\ pc[w] = "select" /\ Attach(w, pick[w]) /\ HasFreeInput(io[pick[w]])
        /\ registered' = registered /\ pc'[w] = "handover"
    BY <1>10 DEF SelectBlock, Goto, TypeOK
  <2>2. /\ task[w].block \in Blocks /\ sec[w] \in DOMAIN io[task[w].block].outs
        /\ pick[w] \in registered /\ pick[w] \in Blocks /\ ~Connected(Section(w))
    BY <2>1, OwnBlock DEF Shape, WorkerShape, Growing
  <2> QED
    BY <2>1, <2>2 DEF Attaches, Attach, HasFreeInput, Section
<1>11. ASSUME NEW w \in Workers, CreateBlock(w)
       PROVE  /\ pc[w] = "create" /\ pc'[w] = "forward" /\ task[w].block \in Blocks
              /\ \E t \in Blocks : Attaches(task[w].block, sec[w], t)
  <2>1. pc[w] = "create" /\ pc'[w] = "forward" /\ Unused(goal[w]) # {}
    BY <1>11 DEF CreateBlock, Goto, TypeOK
  <2>2. PICK t \in Unused(goal[w]) : registered' = registered \cup {t} /\ Attach(w, t)
    BY <1>11, <2>1 DEF CreateBlock
  <2>3. /\ task[w].block \in Blocks /\ sec[w] \in DOMAIN io[task[w].block].outs
        /\ ~Connected(Section(w))
    BY <2>1, OwnBlock DEF Shape, WorkerShape, Growing
  <2>4. t \in Blocks /\ t \notin registered /\ t \in Cores \cup Outputs
    BY <2>2 DEF Unused, Growing, Blocks
  <2>5. io[t].inUse < Len(io[t].slots)
    <3>1. io[t].inUse = 0 /\ Len(io[t].slots) >= 1
      BY <2>4 DEF Growing, Shape
    <3>2. Len(io[t].slots) \in Nat
      BY <2>4, IoFacts, Entries
    <3> QED
      BY <3>1, <3>2
  <2>6. Attaches(task[w].block, sec[w], t)
    BY <2>2, <2>3, <2>5 DEF Attaches, Attach, Section
  <2> QED
    BY <2>1, <2>3, <2>4, <2>6
<1>12. CASE ClientStep
  BY <1>1, <1>2, <1>12
     DEF ClientStep, BeginCall, ResetCounter, EndPhase, ApplyExpected, ResetRequested, NextInput,
         PollFinished, PollTimeout, CollectOutput, NextToSave, SaveBlock, EndCall, netVars
<1>13. ASSUME NEW w \in Workers,
              \/ TakeTask(w) \/ RunInput(w) \/ LockOutput(w) \/ ConnectOutputBuffer(w)
              \/ TrainOutput(w) \/ ProcessOutput(w) \/ UpdateFinishCounter(w) \/ StartForward(w)
              \/ SelectTarget(w) \/ ReleaseBlock(w) \/ StartBackward(w)
              \/ \E i \in 1..2 : RetryBackward(w, i)
       PROVE  UNCHANGED <<io, registered>>
  BY <1>13, Zenon DEF TakeTask, RunInput, LockOutput, ConnectOutputBuffer, TrainOutput,
               ProcessOutput, UpdateFinishCounter, StartForward, SelectTarget, ReleaseBlock,
               StartBackward, RetryBackward, netVars
<1>14. ASSUME NEW w \in Workers, SelectBlock(w) \/ SendBackward(w) PROVE registered' = registered
  BY <1>14 DEF SelectBlock, SendBackward
<1>15. CASE \E w \in Workers : WorkerStep(w)
  BY <1>1, <1>3, <1>4, <1>5, <1>6, <1>7, <1>8, <1>9, <1>10, <1>11, <1>13, <1>14, <1>15
     DEF WorkerStep
<1> QED
  BY <1>1, <1>12, <1>15 DEF Next, Done, vars, netVars

\* A section, once connected, stays where it is in every step; a worker makes
\* connections only for its own block.
LEMMA SectionsPersist ==
    ASSUME TypeOK, LockDiscipline, Shape, IoKept, Wiring, Growing, [Next]_vars
    PROVE  /\ Wiring'
           /\ \A c \in Blocks : DOMAIN io[c].outs \subseteq DOMAIN io'[c].outs
           /\ \A c \in Blocks : \A j \in DOMAIN io[c].outs :
                 \/ /\ io'[c].outs[j].tgt = io[c].outs[j].tgt
                    /\ io'[c].outs[j].tpos = io[c].outs[j].tpos
                 \/ /\ ~Connected(io[c].outs[j])
                    /\ \E w \in Workers : /\ pc[w] \in {"select", "create"}
                                          /\ pc'[w] \notin {"select", "create"}
                                          /\ task[w].block = c /\ sec[w] = j
           /\ \A c \in Blocks : c \notin registered' => io'[c].inUse = io[c].inUse
           /\ registered \subseteq registered'
<1>1. CASE Quiet
  <2>1. Wiring'
    BY <1>1, QuietWiring
  <2> QED
    BY <1>1, <2>1 DEF Quiet, SameLinks, SameSections, SameSlots
<1>2. ASSUME NEW w \in Workers, Receives(task[w].block, sec[w]), task[w].block \in Blocks
      PROVE  /\ Wiring' /\ registered' = registered
             /\ \A c \in Blocks : SameSections(io[c], io'[c]) /\ io'[c].inUse = io[c].inUse
  BY <1>2, ReceiveWiring, Zenon DEF Receives
<1>3. ASSUME NEW w \in Workers, NEW t \in Blocks, task[w].block \in Blocks,
             Attaches(task[w].block, sec[w], t)
      PROVE  /\ Wiring' /\ registered' = registered \cup {t}
             /\ ~Connected(io[task[w].block].outs[sec[w]])
             /\ \A c \in Blocks : c # t => io'[c].inUse = io[c].inUse
             /\ \A c \in Blocks : DOMAIN io'[c].outs = DOMAIN io[c].outs
             /\ \A c \in Blocks : \A i \in DOMAIN io[c].outs :
                   ~(c = task[w].block /\ i = sec[w]) => io'[c].outs[i] = io[c].outs[i]
  <2>1. sec[w] \in Nat
    BY DEF TypeOK
  <2>2. registered' = registered \cup {t} /\ ~Connected(io[task[w].block].outs[sec[w]])
    BY <1>3 DEF Attaches
  <2>3. /\ Wiring'
        /\ \A c \in Blocks : c # t => io'[c].inUse = io[c].inUse
        /\ \A c \in Blocks : DOMAIN io'[c].outs = DOMAIN io[c].outs
        /\ \A c \in Blocks : \A i \in DOMAIN io[c].outs :
                   ~(c = task[w].block /\ i = sec[w]) => io'[c].outs[i] = io[c].outs[i]
    BY <1>3, <2>1, AttachWiring
  <2> QED
    BY <2>2, <2>3
<1>4. CASE \E w \in Workers : Receives(task[w].block, sec[w]) /\ task[w].block \in Blocks
  BY <1>2, <1>4 DEF SameSections
<1>5. CASE \E w \in Workers, t \in Blocks :
              /\ pc[w] \in {"select", "create"} /\ pc'[w] \notin {"select", "create"}
              /\ task[w].block \in Blocks
              /\ Attaches(task[w].block, sec[w], t)
  <2>1. PICK w \in Workers, t \in Blocks :
            /\ pc[w] \in {"select", "create"} /\ pc'[w] \notin {"select", "create"}
              /\ task[w].block \in Blocks
            /\ Attaches(task[w].block, sec[w], t)
    BY <1>5
  <2>2. /\ Wiring' /\ registered' = registered \cup {t}
        /\ ~Connected(io[task[w].block].outs[sec[w]])
        /\ \A c \in Blocks : c # t => io'[c].inUse = io[c].inUse
        /\ \A c \in Blocks : DOMAIN io'[c].outs = DOMAIN io[c].outs
        /\ \A c \in Blocks : \A i \in DOMAIN io[c].outs :
              ~(c = task[w].block /\ i = sec[w]) => io'[c].outs[i] = io[c].outs[i]
    BY <1>3, <2>1
  <2> QED
    BY <2>1, <2>2
<1> QED
  BY <1>1, <1>4, <1>5, StepKinds

\* A worker that goes on looking for a target has seen none for its section.
LEMMA SearchStep ==
    ASSUME TypeOK, LockDiscipline, Shape, Growing, NEW w \in Workers, WorkerStep(w),
           pc'[w] \in {"select", "create"}
    PROVE  /\ ~Connected(Section(w))'
           /\ pc'[w] = "select" => pick'[w] \in registered'
<1> USE DEF TypeOK, Goto, Finish
<1>1. SelectTarget(w) \/ SelectBlock(w)
  <2>1. ~(TakeTask(w) \/ RunInput(w) \/ TrainCore(w) \/ ProcessCore(w) \/ BackpropagateCore(w))
    BY DEF TakeTask, RunInput, TrainCore, ProcessCore, BackpropagateCore
  <2>2. ~(LockOutput(w) \/ ConnectOutputBuffer(w) \/ BackpropagateOutput(w))
    BY DEF LockOutput, ConnectOutputBuffer, BackpropagateOutput
  <2>3. ~(TrainOutput(w) \/ ProcessOutput(w) \/ SendBackward(w) \/ UpdateFinishCounter(w))
    <3>1. pc[w] \in {"output", "sendback", "count"} => ~Finish(w)
      BY DEF TypeOK
    <3>2. ~TrainOutput(w)
      BY <3>1, Zenon DEF TrainOutput
    <3>3. ~ProcessOutput(w)
      BY <3>1 DEF ProcessOutput
    <3> QED
      BY <3>1, <3>2, <3>3 DEF SendBackward, UpdateFinishCounter
  <2>4. ~(StartForward(w) \/ ReleaseBlock(w) \/ StartBackward(w) \/ FinishBackward(w))
    BY DEF StartForward, ReleaseBlock, StartBackward, FinishBackward
  <2>5. ~NextSection(w)
    BY DEF NextSection
  <2>6. ~(SendForward(w) \/ CreateBlock(w))
    BY <2>5 DEF SendForward, CreateBlock
  <2>7. ~\E i \in 1..2 : ReturnSlot(w, i) \/ RetryBackward(w, i)
    BY DEF ReturnSlot, RetryBackward
  <2> QED
    BY <2>1, <2>2, <2>3, <2>4, <2>6, <2>7 DEF WorkerStep
<1>2. CASE SelectTarget(w)
  <2>1. ~NextSection(w)
    BY DEF NextSection
  <2>2. /\ ~Connected(Section(w)) /\ UNCHANGED <<sec, task, io, registered>>
        /\ pc'[w] = "select" => pick'[w] \in registered
    BY <1>2, <2>1 DEF SelectTarget, netVars, BlocksOf
  <2> QED
    BY <2>2 DEF Section
<1>3. CASE SelectBlock(w)
  <2>1. pc[w] = "select" /\ pc'[w] = "create" /\ UNCHANGED <<io, sec, task>>
    BY <1>3 DEF SelectBlock
  <2> QED
    BY <2>1 DEF Section, Growing
<1> QED
  BY <1>1, <1>2, <1>3

\* Every step keeps what growth rests on.
LEMMA GrowingStep ==
    ASSUME TypeOK, LockDiscipline, Shape, IoKept, Wiring, Growing, [Next]_vars
    PROVE  Growing'
<1>1. Inputs \subseteq registered'
  BY SectionsPersist DEF Growing
<1>2. \A b \in Blocks \ registered' : io'[b].inUse = 0
  BY SectionsPersist DEF Growing
<1>3. \A b \in Cores : Len(io'[b].slots) >= 1
  BY BlockFacts DEF Growing, IoKept, Keeps
<1>4. ASSUME NEW v \in Workers, UNCHANGED <<pc[v], task[v], sec[v], pick[v]>>
      PROVE  /\ pc'[v] \in {"select", "create"} => ~Connected(Section(v))'
             /\ pc'[v] = "select" => pick'[v] \in registered'
  <2>1. pc'[v] = "select" => pick'[v] \in registered'
    BY <1>4, SectionsPersist DEF Growing
  <2>2. ASSUME pc[v] \in {"select", "create"} PROVE ~Connected(Section(v))'
    <3> DEFINE b == task[v].block
    <3>1. b \in Blocks /\ sec[v] \in DOMAIN io[b].outs /\ lock[b] = v
      BY <2>2, OwnBlock DEF Shape, WorkerShape, Inside
    <3>2. ~Connected(io[b].outs[sec[v]])
      BY <2>2 DEF Growing, Section
    <3>3. ASSUME NEW w \in Workers, pc[w] \in {"select", "create"}, task[w].block = b
          PROVE  w = v
      BY <3>1, <3>3 DEF LockDiscipline, Inside
    <3>4. io'[b].outs[sec[v]].tpos = io[b].outs[sec[v]].tpos
      BY <1>4, <2>2, <3>1, <3>3, SectionsPersist
    <3> QED
      BY <1>4, <3>2, <3>4 DEF Section, Connected
  <2> QED
    BY <1>4, <2>1, <2>2
<1>5. ASSUME NEW v \in Workers
      PROVE  /\ pc'[v] \in {"select", "create"} => ~Connected(Section(v))'
             /\ pc'[v] = "select" => pick'[v] \in registered'
  <2>1. CASE WorkerStep(v)
    BY <2>1, SearchStep
  <2>2. ASSUME NEW w \in Workers, WorkerStep(w), w # v
        PROVE  UNCHANGED <<pc[v], task[v], sec[v], pick[v]>>
    BY <2>2, OneWorker
  <2>3. ASSUME ClientStep \/ UNCHANGED vars
        PROVE  UNCHANGED <<pc[v], task[v], sec[v], pick[v]>>
    <3>1. UNCHANGED <<pc, task, sec, pick>>
      BY <2>3 DEF ClientStep, BeginCall, ResetCounter, EndPhase, ApplyExpected, ResetRequested,
              NextInput, ApplyPlainInput, PollFinished, PollTimeout, CollectOutput, NextToSave,
              SaveBlock, EndCall, workerVars, vars
    <3> QED
      BY <3>1
  <2> QED
    BY <1>4, <2>1, <2>2, <2>3 DEF Next, Done
<1> QED
  BY <1>1, <1>2, <1>3, <1>5 DEF Growing

\* The sections and slots of a block that is wired up.
InLen(b)  == IF b \in Inputs THEN 0 ELSE IF b \in Cores THEN 2 ELSE 1
OutLen(b) == IF b \in Inputs THEN (IF From(b) = {} THEN 1 ELSE Width[b])
             ELSE IF b \in Cores THEN 1 ELSE 0

LEMMA WiredIoIs ==
    ASSUME NEW b \in Blocks
    PROVE  /\ InLen(b) \in Nat /\ OutLen(b) \in Nat
           /\ WiredIo(b) = [ slots    |-> [i \in 1..InLen(b) |-> WiredSlot(b, i)],
                             outs     |-> [j \in 1..OutLen(b) |-> WiredSection(b, j)],
                             inUse    |-> Cardinality(Into(b)),
                             inCount  |-> 0,
                             outCount |-> 0 ]
<1>1. b \in Inputs => Width[b] \in Nat
  BY BlockAssumption
<1>2. \A n, m \in Nat : /\ DOMAIN NewIo(n, m).slots = 1..n /\ DOMAIN NewIo(n, m).outs = 1..m
                        /\ NewIo(n, m).inCount = 0 /\ NewIo(n, m).outCount = 0
  BY DEF NewIo
<1>3. NewBlockIo(b) = NewIo(InLen(b), IF b \in Inputs \cup Cores THEN 1 ELSE 0)
  BY DEF NewBlockIo, InLen
<1> DEFINE new  == NewBlockIo(b)
           wide == IF b \in Inputs /\ From(b) # {} THEN Widen(new, Width[b]) ELSE new
           a == [i \in 1..InLen(b) |-> NewSlot]
           c == [j \in 1..(IF b \in Inputs \cup Cores THEN 1 ELSE 0) |-> NewSection]
<1>4. /\ new = [slots |-> a, outs |-> c, inUse |-> 0, inCount |-> 0, outCount |-> 0]
      /\ DOMAIN new.slots = 1..InLen(b)
  BY <1>3 DEF NewIo
<1>5. DOMAIN wide.outs = 1..OutLen(b)
  <2>1. CASE b \in Inputs /\ From(b) # {}
    BY <1>4, <2>1 DEF Widen, OutLen
  <2>2. CASE ~(b \in Inputs /\ From(b) # {})
    BY <1>2, <1>3, <2>2 DEF OutLen, InLen
  <2> QED
    BY <2>1, <2>2
<1> DEFINE slots == [i \in 1..InLen(b) |-> WiredSlot(b, i)]
           outs  == [j \in 1..OutLen(b) |-> WiredSection(b, j)]
<1>6. WiredIo(b) = [new EXCEPT !.slots = slots, !.outs = outs, !.inUse = Cardinality(Into(b))]
  BY <1>4, <1>5, Zenon DEF WiredIo
<1>7. InLen(b) \in Nat /\ OutLen(b) \in Nat
  BY <1>1 DEF InLen, OutLen
<1>8. WiredIo(b) = [slots |-> slots, outs |-> outs, inUse |-> Cardinality(Into(b)),
                    inCount |-> 0, outCount |-> 0]
  <2> HIDE DEF new, wide, slots, outs, a, c
  <2> QED
    BY <1>4, <1>6
<1> QED
  BY <1>7, <1>8

\* What a wire says of its two ends, and which wires there can be.
LEMMA WireFacts ==
    ASSUME NEW w \in Wires
    PROVE  /\ w.src \in Inputs \cup Cores /\ w.tgt \in Cores \cup Outputs
           /\ w.spos \in 1..OutLen(w.src) /\ w.tpos \in 1..InLen(w.tgt)
           /\ w.spos \in Nat /\ w.tpos \in 1..2
           /\ \A v \in Wires : (v.src = w.src /\ v.spos = w.spos) <=> (v.tgt = w.tgt /\ v.tpos = w.tpos)
<1>1. /\ w.src \in Inputs \cup Cores /\ w.tgt \in Cores \cup Outputs
      /\ w.spos \in Nat /\ w.tpos \in 1..2
  BY WireAssumption
<1>2. /\ w.tpos \in Slots(w.tgt)
      /\ w.spos \in 1..(IF w.src \in Inputs THEN Width[w.src] ELSE 1)
      /\ \A v \in Wires : (v.src = w.src /\ v.spos = w.spos) <=> (v.tgt = w.tgt /\ v.tpos = w.tpos)
  BY WireAssumption, Zenon
<1>3. From(w.src) # {}
  BY DEF From
<1>4. w.spos \in 1..OutLen(w.src)
  BY <1>1, <1>2, <1>3, BlockFacts DEF OutLen
<1>5. w.tpos \in 1..InLen(w.tgt)
  BY <1>1, <1>2, BlockFacts DEF InLen, Slots
<1> QED
  BY <1>1, <1>2, <1>4, <1>5

\* The wires of a slot and of a section are the same, and there is at most one.
LEMMA WiredEnds ==
    ASSUME NEW b \in Blocks
    PROVE  /\ \A w \in Into(b) : /\ WiredSlot(b, w.tpos) =
                                      [NewSlot EXCEPT !.src = w.src, !.spos = w.spos, !.done = b \in Outputs]
                                 /\ w.src # Nil
           /\ \A w \in From(b) : WiredSection(b, w.spos) =
                                      [NewSection EXCEPT !.tgt = w.tgt, !.tpos = w.tpos]
           /\ \A i : (\A w \in Into(b) : w.tpos # i) => WiredSlot(b, i) = NewSlot
           /\ \A j : (\A w \in From(b) : w.spos # j) => WiredSection(b, j) = NewSection
<1>1. ASSUME NEW w \in Into(b)
      PROVE  /\ WiredSlot(b, w.tpos) =
                    [NewSlot EXCEPT !.src = w.src, !.spos = w.spos, !.done = b \in Outputs]
             /\ w.src # Nil
  <2> DEFINE v == CHOOSE v \in Into(b) : v.tpos = w.tpos
  <2>1. v \in Into(b) /\ v.tpos = w.tpos
    OBVIOUS
  <2>2. v.src = w.src /\ v.spos = w.spos
    <3>1. v \in Wires /\ w \in Wires /\ v.tgt = w.tgt
      BY <2>1 DEF Into
    <3> HIDE DEF v
    <3> QED
      BY <2>1, <3>1, WireFacts, Zenon
  <2>3. w.src # Nil
    BY WireFacts, BlockFacts DEF Into
  <2> QED
    BY <2>2, <2>3 DEF WiredSlot
<1>2. ASSUME NEW w \in From(b)
      PROVE  WiredSection(b, w.spos) = [NewSection EXCEPT !.tgt = w.tgt, !.tpos = w.tpos]
  <2> DEFINE v == CHOOSE v \in From(b) : v.spos = w.spos
  <2>1. v \in From(b) /\ v.spos = w.spos
    OBVIOUS
  <2>2. v.tgt = w.tgt /\ v.tpos = w.tpos
    <3>1. v \in Wires /\ w \in Wires /\ v.src = w.src
      BY <2>1 DEF From
    <3> HIDE DEF v
    <3> QED
      BY <2>1, <3>1, WireFacts, Zenon
  <2> QED
    BY <2>2 DEF WiredSection
<1> QED
  BY <1>1, <1>2 DEF WiredSlot, WiredSection

\* A block has as many slots in use as wires lead to it, from the first slot on.
LEMMA IntoCount ==
    ASSUME NEW b \in Blocks
    PROVE  /\ Cardinality(Into(b)) \in 0..InLen(b)
           /\ \A w \in Into(b) : w.tpos \in 1..Cardinality(Into(b))
           /\ Into(b) = {} => Cardinality(Into(b)) = 0
<1>1. \A w \in Into(b) : w \in Wires /\ w.tgt = b /\ w.tpos \in 1..InLen(b) /\ w.tpos \in 1..2
  BY WireFacts DEF Into
<1>2. \A v, w \in Into(b) : v.tpos = w.tpos => v = w
  <2> SUFFICES ASSUME NEW v \in Into(b), NEW w \in Into(b), v.tpos = w.tpos PROVE v = w
    OBVIOUS
  <2>1. v \in Wires /\ w \in Wires /\ v.tgt = w.tgt
    BY <1>1
  <2>2. v.src = w.src /\ v.spos = w.spos
    BY <2>1, WireFacts, Zenon
  <2>3. Wires \subseteq [src : Inputs \cup Cores, spos : Nat \ {0}, tgt : Cores \cup Outputs, tpos : 1..2]
    BY WireAssumption, Zenon
  <2> QED
    BY <2>1, <2>2, <2>3
<1>3. ASSUME NEW w \in Into(b), w.tpos = 2 PROVE \E v \in Into(b) : v.tpos = 1
  <2>1. w \in Wires /\ w.tgt = b
    BY <1>1
  <2>2. \E v \in Wires : v.tgt = w.tgt /\ v.tpos = 1
    BY <1>3, <2>1, WireAssumption
  <2> QED
    BY <2>1, <2>2 DEF Into
<1>4. InLen(b) \in Nat
  BY DEF InLen
<1>5. CASE Into(b) = {}
  BY <1>4, <1>5, FS_EmptySet
<1>6. CASE Into(b) # {} /\ \A w \in Into(b) : w.tpos = 1
  <2>1. PICK w \in Into(b) : TRUE
    BY <1>6
  <2>2. Into(b) = {w}
    BY <1>2, <1>6
  <2>3. Cardinality(Into(b)) = 1
    BY <2>2, FS_Singleton
  <2> QED
    BY <1>1, <1>4, <1>6, <2>1, <2>3
<1>7. CASE \E w \in Into(b) : w.tpos = 2
  <2>1. PICK w \in Into(b) : w.tpos = 2
    BY <1>7
  <2>2. PICK v \in Into(b) : v.tpos = 1
    BY <1>3, <2>1
  <2>3. Into(b) = {v} \cup {w} /\ v # w
    BY <1>1, <1>2, <2>1, <2>2
  <2>4. IsFiniteSet({v}) /\ Cardinality({v}) = 1 /\ w \notin {v}
    BY <2>3, FS_Singleton
  <2>5. Cardinality(Into(b)) = 2
    BY <2>3, <2>4, FS_AddElement
  <2> QED
    BY <1>1, <1>4, <2>1, <2>5
<1> QED
  BY <1>1, <1>5, <1>6, <1>7

\* The io of a block that is wired up is sound.
LEMMA WiredSound ==
    ASSUME NEW b \in Blocks
    PROVE  /\ SoundIo(WiredIo(b))
           /\ Len(WiredIo(b).slots) = InLen(b) /\ Len(WiredIo(b).outs) = OutLen(b)
           /\ DOMAIN WiredIo(b).slots = 1..InLen(b) /\ DOMAIN WiredIo(b).outs = 1..OutLen(b)
<1> DEFINE slots == [i \in 1..InLen(b) |-> WiredSlot(b, i)]
           outs  == [j \in 1..OutLen(b) |-> WiredSection(b, j)]
<1>1. NewSlot \in SlotType /\ NewSection \in SectionType /\ ~Connected(NewSection)
  BY DEF NewSlot, SlotType, NewSection, SectionType, Connected
<1>2. ASSUME NEW i PROVE WiredSlot(b, i) \in SlotType
  <2>1. CASE \A w \in Into(b) : w.tpos # i
    BY <1>1, <2>1, WiredEnds
  <2>2. CASE \E w \in Into(b) : w.tpos = i
    <3>1. PICK w \in Into(b) : w.tpos = i
      BY <2>2
    <3>2. w.src \in Blocks /\ w.spos \in Nat
      BY WireFacts, BlockFacts DEF Into
    <3> DEFINE done == b \in Outputs
    <3>3. WiredSlot(b, i) = [NewSlot EXCEPT !.src = w.src, !.spos = w.spos, !.done = done]
      BY <3>1, WiredEnds, Zenon
    <3>4. done \in BOOLEAN
      OBVIOUS
    <3> HIDE DEF done
    <3> QED
      BY <1>1, <3>2, <3>3, <3>4 DEF SlotType
  <2> QED
    BY <2>1, <2>2
<1>3. ASSUME NEW j
      PROVE  /\ WiredSection(b, j) \in SectionType
             /\ Connected(WiredSection(b, j)) => WiredSection(b, j).tgt \in Blocks
  <2>1. CASE \A w \in From(b) : w.spos # j
    BY <1>1, <2>1, WiredEnds
  <2>2. CASE \E w \in From(b) : w.spos = j
    <3>1. PICK w \in From(b) : w.spos = j
      BY <2>2
    <3>2. w.tgt \in Blocks /\ w.tpos \in Nat
      BY WireFacts, BlockFacts DEF From
    <3>3. WiredSection(b, j) = [NewSection EXCEPT !.tgt = w.tgt, !.tpos = w.tpos]
      BY <3>1, WiredEnds
    <3> QED
      BY <1>1, <3>2, <3>3 DEF SectionType, NewSection
  <2> QED
    BY <2>1, <2>2
<1>4. slots \in [1..InLen(b) -> SlotType] /\ outs \in [1..OutLen(b) -> SectionType]
  BY <1>2, <1>3
<1>5. \A j \in 1..OutLen(b) : Connected(outs[j]) => outs[j].tgt \in Blocks
  BY <1>3
<1>6. WiredIo(b) = [slots |-> slots, outs |-> outs, inUse |-> Cardinality(Into(b)),
                    inCount |-> 0, outCount |-> 0]
  BY WiredIoIs
<1> HIDE DEF slots, outs
<1>7. /\ slots \in Seq(SlotType) /\ Len(slots) = InLen(b) /\ DOMAIN slots = 1..InLen(b)
      /\ outs \in Seq(SectionType) /\ Len(outs) = OutLen(b) /\ DOMAIN outs = 1..OutLen(b)
  BY <1>4, WiredIoIs, MakeSeq
<1>8. Cardinality(Into(b)) \in Nat
  BY IntoCount, WiredIoIs
<1> QED
  BY <1>5, <1>6, <1>7, <1>8 DEF SoundIo, IoType

\* Finitely many blocks are wired up.
LEMMA WiredFinite == IsFiniteSet(Wired)
<1> DEFINE f == [w \in Wires |-> w.tgt]
<1>1. f \in Surjection(Wires, Wired)
  BY DEF Surjection, Wired
<1> QED
  BY <1>1, WireAssumption, FS_Surjection

\* The network the calls start from is wired up correctly, and can grow.
LEMMA InitGrowing ==
    ASSUME Init
    PROVE  Wiring /\ Growing
<1>1. /\ \A b \in Blocks : io[b] = WiredIo(b)
      /\ registered = Inputs \cup Wired
      /\ \A w \in Workers : pc[w] = "idle"
  BY DEF Init
<1>2. ASSUME NEW b \in Blocks
      PROVE  /\ DOMAIN io[b].slots = 1..InLen(b) /\ Len(io[b].slots) = InLen(b)
             /\ DOMAIN io[b].outs = 1..OutLen(b)
             /\ \A i \in 1..InLen(b) : io[b].slots[i] = WiredSlot(b, i)
             /\ \A j \in 1..OutLen(b) : io[b].outs[j] = WiredSection(b, j)
             /\ io[b].inUse = Cardinality(Into(b))
  BY <1>1, WiredIoIs, WiredSound
<1>3. ASSUME NEW b \in Blocks, NEW j \in SectionsOf(b)
      PROVE  \E w \in From(b) : w.spos = j /\ io[b].outs[j].tgt = w.tgt /\ io[b].outs[j].tpos = w.tpos
  <2>1. j \in 1..OutLen(b) /\ Connected(WiredSection(b, j))
    BY <1>2 DEF SectionsOf
  <2>2. ~Connected(NewSection)
    BY DEF Connected, NewSection
  <2>3. PICK w \in From(b) : w.spos = j
    BY <2>1, <2>2, WiredEnds
  <2>4. WiredSection(b, j) = [NewSection EXCEPT !.tgt = w.tgt, !.tpos = w.tpos]
    BY <2>3, WiredEnds
  <2> QED
    BY <1>2, <2>1, <2>3, <2>4 DEF NewSection
<1>4. ASSUME NEW w \in Wires
      PROVE  /\ w.src \in Blocks /\ w.tgt \in Blocks
             /\ w.spos \in SectionsOf(w.src)
             /\ io[w.src].outs[w.spos].tgt = w.tgt /\ io[w.src].outs[w.spos].tpos = w.tpos
  <2>1. /\ w.src \in Blocks /\ w.tgt \in Blocks /\ w.spos \in 1..OutLen(w.src)
        /\ w.tpos \in 1..2 /\ w \in From(w.src)
    BY WireFacts, BlockFacts DEF From
  <2>2. io[w.src].outs[w.spos] = [NewSection EXCEPT !.tgt = w.tgt, !.tpos = w.tpos]
    <3>1. WiredSection(w.src, w.spos) = [NewSection EXCEPT !.tgt = w.tgt, !.tpos = w.tpos]
      BY <2>1, WiredEnds
    <3> QED
      BY <1>2, <2>1, <3>1
  <2>3. Connected(io[w.src].outs[w.spos])
    BY <2>1, <2>2 DEF Connected, NewSection
  <2> QED
    BY <1>2, <2>1, <2>2, <2>3 DEF SectionsOf, NewSection
<1>5. Wiring
  <2>1. ASSUME NEW b \in Blocks, NEW j \in SectionsOf(b)
        PROVE  /\ io[b].outs[j].tgt \in registered
               /\ io[b].outs[j].tpos \in 1..io[io[b].outs[j].tgt].inUse
               /\ \A c \in Blocks : \A k \in SectionsOf(c) :
                     io[c].outs[k].tgt = io[b].outs[j].tgt /\ io[c].outs[k].tpos = io[b].outs[j].tpos
                        => c = b /\ k = j
    <3>1. PICK w \in From(b) : /\ w.spos = j
                               /\ io[b].outs[j].tgt = w.tgt /\ io[b].outs[j].tpos = w.tpos
      BY <1>3
    <3>2. w \in Wires /\ w.src = b /\ w.tgt \in Blocks /\ w.tgt \in Wired /\ w \in Into(w.tgt)
      BY <3>1, WireFacts, BlockFacts DEF From, Into, Wired
    <3>3. w.tpos \in 1..io[w.tgt].inUse
      BY <1>2, <3>2, IntoCount
    <3>4. ASSUME NEW c \in Blocks, NEW k \in SectionsOf(c),
                 io[c].outs[k].tgt = w.tgt, io[c].outs[k].tpos = w.tpos
          PROVE  c = b /\ k = j
      <4>1. PICK v \in From(c) : /\ v.spos = k
                                 /\ io[c].outs[k].tgt = v.tgt /\ io[c].outs[k].tpos = v.tpos
        BY <1>3
      <4>2. v \in Wires /\ v.src = c /\ v.tgt = w.tgt /\ v.tpos = w.tpos
        BY <3>4, <4>1 DEF From
      <4>3. v.src = w.src /\ v.spos = w.spos
        BY <3>2, <4>2, WireFacts, Zenon
      <4> QED
        BY <3>1, <3>2, <4>1, <4>2, <4>3
    <3> QED
      BY <1>1, <3>1, <3>2, <3>3, <3>4
  <2>2. ASSUME NEW b \in Blocks
        PROVE  /\ io[b].inUse \in 0..Len(io[b].slots)
               /\ \A i \in DOMAIN io[b].slots :
                     io[b].slots[i].src # Nil =>
                        /\ io[b].slots[i].spos \in SectionsOf(io[b].slots[i].src)
                        /\ io[io[b].slots[i].src].outs[io[b].slots[i].spos].tgt = b
                        /\ io[io[b].slots[i].src].outs[io[b].slots[i].spos].tpos = i
    <3>1. io[b].inUse \in 0..Len(io[b].slots)
      BY <1>2, IntoCount
    <3>2. ASSUME NEW i \in DOMAIN io[b].slots, io[b].slots[i].src # Nil
          PROVE  \E w \in Wires : /\ io[b].slots[i].src = w.src /\ io[b].slots[i].spos = w.spos
                                  /\ w.tgt = b /\ w.tpos = i
      <4>1. io[b].slots[i] = WiredSlot(b, i)
        BY <1>2
      <4>2. NewSlot.src = Nil
        BY DEF NewSlot
      <4>3. PICK w \in Into(b) : w.tpos = i
        BY <3>2, <4>1, <4>2, WiredEnds
      <4>4. WiredSlot(b, i) = [NewSlot EXCEPT !.src = w.src, !.spos = w.spos, !.done = b \in Outputs]
        BY <4>3, WiredEnds
      <4> QED
        BY <4>1, <4>3, <4>4 DEF NewSlot, Into
    <3>3. ASSUME NEW i \in DOMAIN io[b].slots, io[b].slots[i].src # Nil
          PROVE  /\ io[b].slots[i].spos \in SectionsOf(io[b].slots[i].src)
                 /\ io[io[b].slots[i].src].outs[io[b].slots[i].spos].tgt = b
                 /\ io[io[b].slots[i].src].outs[io[b].slots[i].spos].tpos = i
      BY <1>4, <3>2, <3>3
    <3> QED
      BY <3>1, <3>3
  <2> QED
    BY <2>1, <2>2 DEF Wiring
<1>6. Growing
  <2>1. ASSUME NEW b \in Blocks \ registered PROVE io[b].inUse = 0
    <3>1. Into(b) = {}
      BY <1>1, <2>1 DEF Into, Wired
    <3> QED
      BY <1>2, <3>1, IntoCount
  <2>2. \A b \in Cores : Len(io[b].slots) >= 1
    BY <1>2, BlockFacts DEF InLen
  <2> QED
    BY <1>1, <2>1, <2>2 DEF Growing
<1> QED
  BY <1>5, <1>6

-----------------------------------------------------------------------------
(* The theorems.                                                           *)

\* The inductive invariant holds at the start.
LEMMA InitIInv ==
    ASSUME Init
    PROVE  IInv
<1> USE BlockFacts DEF Init
<1>1. \A b \in Blocks : /\ SoundIo(io[b])
                        /\ Len(io[b].slots) = InLen(b) /\ Len(io[b].outs) = OutLen(b)
  BY WiredSound
<1>2. io \in [Blocks -> IoType]
  BY <1>1 DEF SoundIo
<1>3. \A i \in Inputs : Width[i] \in Nat /\ Width[i] >= 1
  BY BlockAssumption
<1>4. buffer \in [Buffers -> BufferType]
  <2>1. NewBuffer \in BufferType
    BY DEF NewBuffer, BufferType, ValueType, Target
  <2>2. ASSUME NEW o \in Buffers
        PROVE  Cardinality({b \in Wired \cap Outputs : BufferOf[b] = o}) \in Nat
    BY WiredFinite, FS_Subset, FS_CardinalityType
  <2> QED
    BY <2>1, <2>2 DEF BufferType
<1>5. answer \in [Buffers -> ValueType] /\ queue \in Seq(TaskType)
  BY DEF ValueType
<1>6. call \in 0..Len(Calls)
  BY CallAssumption
<1>7. Wired \subseteq Blocks
  BY WireFacts DEF Wired
<1>8. TypeOK
  BY <1>2, <1>4, <1>5, <1>6, <1>7
     DEF TypeOK, Cycle, WorkerPlaces, ClientPlaces, Results
<1>9. LockDiscipline
  BY DEF LockDiscipline, Inside
<1>10. Shape
  BY <1>1, <1>3 DEF Shape, WorkerShape, InLen, OutLen
<1> QED
  BY <1>8, <1>9, <1>10 DEF IInv

\* The strengthened invariant holds in every state of every behaviour.
THEOREM Invariance == Spec => []IInv
<1>1. Init => IInv
  BY InitIInv
<1>2. IInv /\ [Next]_vars => IInv'
  BY TypeStep, LockStep, ShapeStep DEF IInv
<1> QED
  BY <1>1, <1>2, PTL DEF Spec

\* Every variable keeps its type: no task of a block that is None, no section
\* of a block that does not have it, whatever the workers and the client do.
THEOREM TypeCorrect == Spec => []TypeOK
<1>1. IInv => TypeOK
  BY DEF IInv
<1> QED
  BY <1>1, Invariance, PTL

\* A block is locked by exactly the worker that is inside it: two workers are
\* never inside the same block, and no step leaves a mutex behind
\* (process_task, finalize_task).
THEOREM MutualExclusion == Spec => []LockDiscipline
<1>1. IInv => LockDiscipline
  BY DEF IInv
<1> QED
  BY <1>1, Invariance, PTL

\* The invariant of a growing network.
GrowInv == IInv /\ Wiring /\ Growing

\* It holds in every state of every behaviour.
THEOREM GrowInvariance == Spec => []GrowInv
<1>1. Init => GrowInv
  BY InitIInv, InitGrowing DEF GrowInv
<1>2. ASSUME GrowInv, [Next]_vars PROVE GrowInv'
  <2>1. TypeOK /\ LockDiscipline /\ Shape /\ Wiring /\ Growing
    BY <1>2 DEF GrowInv, IInv
  <2>2. IoKept
    BY <1>2, <2>1, IoKeptStep
  <2>3. TypeOK' /\ LockDiscipline' /\ Shape'
    BY <1>2, <2>1, TypeStep, LockStep, ShapeStep
  <2>4. Wiring'
    BY <1>2, <2>1, <2>2, SectionsPersist
  <2>5. Growing'
    BY <1>2, <2>1, <2>2, GrowingStep
  <2> QED
    BY <2>3, <2>4, <2>5 DEF GrowInv, IInv
<1> QED
  BY <1>1, <1>2, PTL DEF Spec

\* A connected section leads to a slot in use of a registered block, no two
\* sections lead to the same slot, and a slot knows the section that leads to
\* it: however many workers grow the network at once, no connection is written
\* over by another and nothing is sent past the end of a buffer
\* (get_free_input, connect_to_new_target, send_forward, send_backward).
THEOREM WiringCorrect == Spec => []Wiring
<1>1. GrowInv => Wiring
  BY DEF GrowInv
<1> QED
  BY <1>1, GrowInvariance, PTL

\* A connection, once made, is never redirected and never dropped, although
\* every backpropagation writes the section over (send_backward,
\* send_backward_with_retry) and a target may be chosen by a worker that waited
\* while others grew the network (connect_to_new_target).
THEOREM ConnectionsKept == Spec => ConnectionsPersist
<1>1. ASSUME GrowInv, [Next]_vars
      PROVE  \A b \in Blocks : \A j \in SectionsOf(b) :
                /\ j \in DOMAIN io'[b].outs
                /\ io'[b].outs[j].tgt = io[b].outs[j].tgt
                /\ io'[b].outs[j].tpos = io[b].outs[j].tpos
  <2>1. TypeOK /\ LockDiscipline /\ Shape /\ Wiring /\ Growing
    BY <1>1 DEF GrowInv, IInv
  <2>2. IoKept
    BY <1>1, <2>1, IoKeptStep
  <2> QED
    BY <1>1, <2>1, <2>2, SectionsPersist DEF SectionsOf
<1> QED
  BY <1>1, GrowInvariance, PTL DEF Spec, ConnectionsPersist
=============================================================================
