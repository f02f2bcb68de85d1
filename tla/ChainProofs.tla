---------------------------- MODULE ChainProofs ----------------------------
(***************************************************************************)
(* What a call promises, proved for networks of separate chains: the       *)
(* blocks of a core hexagon are possible targets of one block only, and no *)
(* block grows past one section. There the work of a call on a chain is    *)
(* one task that moves from block to block, to the output and back.        *)
(***************************************************************************)
EXTENDS PropagationProofs, WellFoundedInduction

Receivers == Cores \cup Outputs

\* The order of numbers.
Below == {ss \in Nat \X Nat : ss[1] < ss[2]}

\* A set of numbers that is not empty has a least element.
LEMMA LeastNumber ==
    ASSUME NEW T, T \subseteq Nat, T # {}
    PROVE  \E k \in T : \A m \in T : k <= m
<1>1. IsWellFoundedOn(Below, Nat)
  BY NatLessThanWellFounded DEF OpToRel, Below
<1>2. PICK k \in T : \A m \in T : <<m, k>> \notin Below
  BY <1>1, WFMin
<1>3. ASSUME NEW m \in T PROVE k <= m
  <2>1. m \in Nat /\ k \in Nat
    OBVIOUS
  <2>2. ~ (m < k)
    BY <1>2, <2>1 DEF Below
  <2> QED BY <2>1, <2>2
<1> QED BY <1>3

-----------------------------------------------------------------------------
(* The state as the wave of a call sees it.                                *)

\* Where a block sends, of which call its potentials are and the gradient that
\* came back.
to   == [a \in Senders |-> IF Connected(io[a].outs[1]) THEN io[a].outs[1].tgt ELSE Nil]
age  == [a \in Senders |-> io[a].outs[1].data]
grad == [a \in Senders |-> io[a].outs[1].delta]

\* Where a block gets its input from, of which call it is, and of which call the
\* gradient is it has for its source.
from == [b \in Receivers |-> io[b].slots[1].src]
got  == [b \in Receivers |-> io[b].slots[1].data]
gave == [b \in Receivers |-> io[b].slots[1].delta]

\* The wave of this call on its way out: the blocks it has come to, those that
\* have their potentials ready; and back: those that have a gradient ready for
\* their source, those a gradient came back to, and those that, in this call or
\* before, have not sent one.
fresh   == {a \in Senders : call > 0 /\ age[a] = call}
reached == {b \in Blocks : IF b \in Inputs THEN b \in fresh
                           ELSE call > 0 /\ from[b] # Nil /\ got[b] = call}
paid    == {b \in Receivers : call > 0 /\ gave[b] = call}
back    == {a \in Senders : call > 0 /\ grad[a] = call}
owing   == {b \in Blocks : Pending(io[b]) # {}}

kind == IF call = 0 THEN "none" ELSE Calls[call].kind
Running == cpc \in {"input", "apply", "poll"}

\* The output blocks that added their part, those that wait for the others, and
\* the buffers that are complete.
counted  == {b \in Outputs : call > 0 /\ Part(b, call) \in Range(buffer[BufferOf[b]].value)}
parked   == {b \in Outputs : b \in Range(buffer[BufferOf[b]].unfinished)}
complete == {o \in Buffers : Sigmoid \in Range(buffer[o].value)}

\* The workers that have something left to do for a call; the blocks in the
\* queue and those the workers are busy with.
active == {w \in Workers : /\ pc[w] \notin {"idle", "release"}
                            /\ ~(pc[w] = "return" /\ task[w].block \notin owing)}
queued == {queue[k].block : k \in DOMAIN queue}
taken  == {task[w].block : w \in {v \in Workers : pc[v] # "idle"}}

-----------------------------------------------------------------------------
(* The invariant.                                                          *)

\* A block has one section and one slot in use.
Single ==
    /\ \A b \in Senders : Len(io[b].outs) = 1
    /\ \A b \in Outputs : Len(io[b].outs) = 0 /\ Len(io[b].slots) = 1
    /\ \A b \in Inputs : Len(io[b].slots) = 0
    /\ \A b \in Blocks : io[b].inUse <= 1 /\ io[b].inCount = 0 /\ io[b].outCount = 0
    /\ \A b \in Receivers \cap registered : io[b].inUse = 1
    /\ \A b \in Cores : level[b] = 1

\* A block was created by the one that sends to it.
Rooted ==
    /\ \A b \in Receivers \cap registered : \E a \in Senders : to[a] = b
    /\ \A a \in Senders : to[a] # Nil => HexOf[to[a]] \in Possible[HexOf[a]] /\ a \in registered

\* A worker looks for a target in a possible hexagon.
Looking ==
    \A w \in Workers :
        /\ pc[w] # "handover"
        /\ pc[w] \in {"select", "create"} =>
              goal[w] \in Possible[HexOf[task[w].block]] /\ IsTarget(goal[w])
        /\ pc[w] = "select" => HexOf[pick[w]] = goal[w]

\* Nothing is of a later call.
Bounded ==
    /\ \A a \in Senders : age[a] <= call /\ grad[a] <= call
    /\ \A b \in Receivers : got[b] <= call /\ gave[b] <= call

\* The wave comes to a block from the one that sends to it, and back the same
\* way.
Edges ==
    \A a \in Senders :
        /\ a \in back => to[a] # Nil /\ to[a] \in reached
        /\ to[a] \in reached => a \in reached /\ a \in fresh
        /\ a \in back /\ to[a] \in Cores => to[a] \in back
        /\ a \in back /\ to[a] \in Outputs => to[a] \in attached \cap sized

\* What a task of block b says, at place l of its way: on a sender when the wave
\* goes out and when it comes back, and on an output block.
Ahead(b, l) ==
    /\ b \notin back /\ to[b] \notin reached
    /\ l \in {"queue", "body", "final", "forward", "select", "create"}
    /\ l \notin {"queue", "body"} => b \in fresh
Home(b, l) ==
    /\ b \in back
    /\ l \in {"queue", "body", "final", "return", "count"}
    /\ l = "count" => b \in Inputs
    /\ b \in Cores => from[b] \notin back
    /\ b \in Cores /\ l \in {"final", "return"} => b \in paid
AtOutput(b, l, out) ==
    /\ b \notin parked
    /\ l \in {"queue", "body", "connect", "output", "gradient", "sendback", "count"}
    /\ l # "count" => from[b] \notin back
    /\ l \in {"queue", "body", "connect", "output"} /\ out => b \notin counted
    /\ ~out => b \in attached
    /\ l = "output" => out
    /\ l = "connect" => b \notin attached
    /\ l \in {"output", "gradient", "sendback"} => b \in attached
    /\ l \in {"gradient", "sendback"} => kind = "train"
    /\ l = "sendback" => b \in sized /\ b \in paid

Work(t, l) ==
    /\ Running /\ t.block \in registered /\ t.block \in reached
    /\ t.type = IF ~Forwards(t) THEN "Backpropagate" ELSE IF kind = "train" THEN "Train" ELSE "Process"
    /\ ~Forwards(t) => kind = "train"
    /\ t.block \in Senders /\ Forwards(t) => Ahead(t.block, l)
    /\ t.block \in Senders /\ ~Forwards(t) => Home(t.block, l)
    /\ t.block \in Outputs => AtOutput(t.block, l, Forwards(t))

Places == WorkerPlaces \cup {"queue"}
sound == {j \in TaskType \X Places : Work(j[1], j[2])}

\* What the tasks in the queue and at the workers say is so.
Working ==
    /\ \A k \in DOMAIN queue : <<queue[k], "queue">> \in sound
    /\ \A w \in active : <<task[w], pc[w]>> \in sound

\* There is one task for a block at most.
OneTask ==
    /\ \A j, k \in DOMAIN queue : queue[j].block = queue[k].block => j = k
    /\ \A v, w \in Workers :
          pc[v] # "idle" /\ pc[w] # "idle" /\ task[v].block = task[w].block => v = w
    /\ queued \cap taken = {}

\* All tasks are of the cycle that is counted.
Cycles ==
    /\ counter.expected = Cycle
    /\ \A k \in DOMAIN queue : queue[k].cycle = Cycle
    /\ \A w \in Workers : pc[w] # "idle" => task[w].cycle = Cycle

\* An output block that waits for the others has no task.
Parking ==
    /\ \A o \in Buffers : \A j, k \in DOMAIN buffer[o].unfinished :
          /\ buffer[o].unfinished[j] = buffer[o].unfinished[k] => j = k
          /\ BufferOf[buffer[o].unfinished[j]] = o
    /\ \A b \in parked :
          /\ Running /\ kind = "train" /\ b \in registered /\ b \in reached
          /\ from[b] \notin back /\ b \in attached

AttachedTo(o) == {b \in attached : BufferOf[b] = o}
CountedIn(o)  == {b \in AttachedTo(o) : b \in counted}

\* A buffer counts the blocks attached to it.
Attaching ==
    /\ IsFiniteSet(attached)
    /\ \A o \in Buffers : buffer[o].connected = Cardinality(AttachedTo(o))
    /\ attached \subseteq registered

\* A target is set for this call; the buffer is final when it is complete.
Training ==
    /\ Running /\ kind = "train" =>
          \A o \in Buffers : /\ buffer[o].expected.of = call
                             /\ buffer[o].finalized <=> o \in complete
    /\ cpc = "expect" =>
          \A o \in Buffers \ todo : /\ buffer[o].value = <<>> /\ ~buffer[o].finalized
                                    /\ buffer[o].expected.of = call
    /\ Running => counted \subseteq reached \cap attached

\* In a request it adds up the parts of those that are done.
Adding(o) ==
    /\ buffer[o].local = Cardinality(CountedIn(o))
    /\ o \notin complete => Len(buffer[o].value) = buffer[o].local
    /\ o \in complete =>
          /\ CountedIn(o) = AttachedTo(o)
          /\ Len(buffer[o].value) = buffer[o].local + 1
          /\ buffer[o].value[Len(buffer[o].value)] = Sigmoid
Requesting ==
    /\ Running /\ kind = "request" => \A o \in Buffers : Adding(o)
    /\ kind = "request" /\ cpc \in {"counter", "reset"} =>
          \A o \in Buffers : buffer[o].value = <<>> /\ buffer[o].local = 0

Counts(w, o) == counts[w] /\ task[w].block \in Outputs /\ BufferOf[task[w].block] = o
reportedInputs  == {i \in Inputs : i \in back /\ i \notin queued /\ i \notin taken}
reportedBuffers == {o \in complete : \A w \in Workers : ~Counts(w, o)}
InputReports == IF kind = "train" THEN Cardinality(reportedInputs) ELSE 0

\* Every input and every buffer is reported once.
Reporting ==
    /\ \A w \in Workers : /\ counts[w] => pc[w] \in {"gradient", "sendback", "count"}
                          /\ pc[w] = "count" => counts[w]
    /\ \A o \in Buffers, w \in Workers : Counts(w, o) =>
          o \in complete /\ \A v \in Workers : Counts(v, o) => v = w
    /\ cpc \in {"expect", "reset"} \/ Running =>
          counter.compare = (IF kind = "train" THEN Cardinality(Inputs) ELSE 0) + Cardinality(Buffers)
    /\ cpc \in {"expect", "reset"} => counter.n = 0
    /\ Running => counter.n <= InputReports + Cardinality(reportedBuffers)

\* One activation over the parts of all blocks attached to the buffer.
Exact(v, o) ==
    /\ Len(v) = Cardinality(AttachedTo(o)) + 1
    /\ v[Len(v)] = Sigmoid
    /\ \A b \in AttachedTo(o) : \E i \in 1..Len(v) - 1 : v[i] = Part(b, call)

\* So it is in the buffers, and in the answers of this call.
Readable  == \A o \in Buffers : Exact(buffer[o].value, o)
Collected == \A o \in Calls[call].outs \ todo : Exact(answer[o], o)
Answered  == \A o \in Calls[call].outs : Exact(answer[o], o)

\* Every chain ends in an output block that belongs to its buffer.
Grown ==
    /\ \A b \in Senders \cap registered : to[b] # Nil
    /\ Outputs \cap registered \subseteq attached \cap sized

Quiescent == queue = <<>> /\ active = {}

\* Outside of a wave nothing is at work, and no input was passed yet.
Client1 ==
    /\ cpc # "idle" => call > 0
    /\ cpc = "expect" => kind = "train" /\ todo \subseteq Buffers
    /\ cpc = "reset" => kind = "request" /\ todo \subseteq Buffers
    /\ cpc = "collect" => kind = "request" /\ todo \subseteq Calls[call].outs
    /\ cpc = "counter" \/ Running => kind \in {"train", "request"}
    /\ cpc \in {"save", "saving"} => kind = "checkpoint"
    /\ cpc \in {"counter", "expect", "reset"} => fresh = {}
    /\ cpc \in {"input", "apply"} => todo \subseteq Inputs /\ todo \cap fresh = {}
    /\ cpc = "apply" => arg \in Inputs \ todo /\ arg \notin fresh
    /\ ~Running => Quiescent

Promises ==
    /\ (\E d \in 1..call : Calls[d].kind = "train" /\ (d < call \/ cpc = "idle")) => Grown
    /\ cpc = "idle" /\ kind = "train" => Senders \cap registered \subseteq fresh \cap back
    /\ cpc = "collect" => Readable /\ Collected
    /\ cpc = "idle" /\ kind = "request" => Answered

-----------------------------------------------------------------------------
(* What the parts of the state say of each other.                          *)

\* The invariant that is proved for every network, and the first part of the
\* one proved here.
Base == TypeOK /\ LockDiscipline /\ Shape /\ Wiring /\ Growing /\ Single

\* A sender has one section, a receiver a first slot.
LEMMA Ends ==
    ASSUME Base
    PROVE  /\ io \in [Blocks -> IoType] /\ Senders \subseteq Blocks /\ Receivers \subseteq Blocks
           /\ Blocks = Inputs \cup Receivers /\ Blocks = Senders \cup Outputs
           /\ \A a \in Senders : DOMAIN io[a].outs = {1} /\ io[a].outs[1] \in SectionType
           /\ \A b \in Receivers : 1 \in DOMAIN io[b].slots /\ io[b].slots[1] \in SlotType
           /\ \A b \in Outputs : DOMAIN io[b].outs = {}
           /\ \A b \in Inputs : DOMAIN io[b].slots = {}
           /\ \A b \in Blocks : io[b].inUse \in 0..1
<1>1. /\ io \in [Blocks -> IoType] /\ Senders \subseteq Blocks /\ Receivers \subseteq Blocks
      /\ Blocks = Inputs \cup Receivers /\ Blocks = Senders \cup Outputs
  BY IoFacts DEF Base, Senders, Receivers, Blocks
<1>2. \A b \in Blocks : /\ io[b].outs \in Seq(SectionType) /\ io[b].slots \in Seq(SlotType)
                        /\ io[b].inUse \in Nat
  BY IoFacts DEF Base
<1>3. \A a \in Senders : DOMAIN io[a].outs = {1} /\ io[a].outs[1] \in SectionType
  <2> SUFFICES ASSUME NEW a \in Senders
               PROVE  DOMAIN io[a].outs = {1} /\ io[a].outs[1] \in SectionType
    OBVIOUS
  <2>1. Len(io[a].outs) = 1 /\ io[a].outs \in Seq(SectionType)
    BY <1>1, <1>2 DEF Base, Single
  <2> QED BY <2>1, Entries
<1>4. \A b \in Receivers : 1 \in DOMAIN io[b].slots /\ io[b].slots[1] \in SlotType
  <2> SUFFICES ASSUME NEW b \in Receivers
               PROVE  1 \in DOMAIN io[b].slots /\ io[b].slots[1] \in SlotType
    OBVIOUS
  <2>1. Len(io[b].slots) >= 1 /\ io[b].slots \in Seq(SlotType)
    BY <1>1, <1>2 DEF Base, Growing, Shape, Receivers
  <2> QED BY <2>1, Entries
<1>5. \A b \in Outputs : DOMAIN io[b].outs = {}
  <2> SUFFICES ASSUME NEW b \in Outputs PROVE DOMAIN io[b].outs = {}
    OBVIOUS
  <2>1. Len(io[b].outs) = 0 /\ io[b].outs \in Seq(SectionType)
    BY <1>1, <1>2 DEF Base, Single
  <2> QED BY <2>1, Entries
<1>6. \A b \in Inputs : DOMAIN io[b].slots = {}
  <2> SUFFICES ASSUME NEW b \in Inputs PROVE DOMAIN io[b].slots = {}
    OBVIOUS
  <2>1. Len(io[b].slots) = 0 /\ io[b].slots \in Seq(SlotType)
    BY <1>1, <1>2 DEF Base, Single
  <2> QED BY <2>1, Entries
<1>7. \A b \in Blocks : io[b].inUse \in 0..1
  BY <1>2 DEF Base, Single
<1> QED
  BY <1>1, <1>3, <1>4, <1>5, <1>6, <1>7

\* The types of what the wave sees.
LEMMA Views ==
    ASSUME Base
    PROVE  /\ to \in [Senders -> Receivers \cup {Nil}]
           /\ age \in [Senders -> Nat] /\ grad \in [Senders -> Nat]
           /\ from \in [Receivers -> Senders \cup {Nil}]
           /\ got \in [Receivers -> Nat] /\ gave \in [Receivers -> Nat]
           /\ Nil \notin Blocks
           /\ \A a \in Senders : to[a] # Nil => /\ io[a].outs[1].tgt = to[a]
                                                /\ io[a].outs[1].tpos = 1
                                                /\ to[a] \in registered
                                                /\ io[to[a]].inUse = 1
           /\ \A a \in Senders : Connected(io[a].outs[1]) <=> to[a] # Nil
<1>1. \A a \in Senders : Connected(io[a].outs[1]) =>
          /\ io[a].outs[1].tgt \in Receivers /\ io[a].outs[1].tgt # Nil
          /\ io[a].outs[1].tgt \in registered /\ io[a].outs[1].tpos = 1
          /\ io[io[a].outs[1].tgt].inUse = 1
  <2> SUFFICES ASSUME NEW a \in Senders, Connected(io[a].outs[1])
               PROVE  /\ io[a].outs[1].tgt \in Receivers /\ io[a].outs[1].tgt # Nil
                      /\ io[a].outs[1].tgt \in registered /\ io[a].outs[1].tpos = 1
                      /\ io[io[a].outs[1].tgt].inUse = 1
    OBVIOUS
  <2>1. a \in Blocks /\ 1 \in SectionsOf(a)
    BY Ends DEF SectionsOf
  <2> DEFINE t == io[a].outs[1].tgt
  <2>2. t \in registered /\ t \in Blocks /\ io[a].outs[1].tpos \in 1..io[t].inUse
    BY <2>1, WiringFacts DEF Base
  <2>3. io[t].inUse \in 0..1
    BY <2>2, Ends
  <2>4. t \notin Inputs
    <3> SUFFICES ASSUME t \in Inputs PROVE FALSE
      OBVIOUS
    <3>1. io[t].inUse \in 0..Len(io[t].slots) /\ Len(io[t].slots) = 0
      BY <2>2, WiringFacts, Zenon DEF Base, Single
    <3> HIDE DEF t
    <3> QED BY <2>2, <3>1
  <2>5. t \in Receivers /\ t # Nil
    BY <2>2, <2>4, BlockFacts, Ends
  <2> HIDE DEF t
  <2>6. io[a].outs[1].tpos = 1 /\ io[t].inUse = 1
    BY <2>2, <2>3
  <2> QED BY <2>2, <2>5, <2>6 DEF t
<1>2. \A b \in Receivers : io[b].slots[1].src \in Senders \cup {Nil}
  <2> SUFFICES ASSUME NEW b \in Receivers, io[b].slots[1].src # Nil
               PROVE  io[b].slots[1].src \in Senders
    OBVIOUS
  <2>1. b \in Blocks /\ 1 \in DOMAIN io[b].slots
    BY Ends
  <2>2. /\ io[b].slots[1].src \in Blocks
        /\ io[b].slots[1].spos \in SectionsOf(io[b].slots[1].src)
    BY <2>1, WiringFacts DEF Base
  <2> QED BY <2>2, Ends DEF SectionsOf
<1>3. /\ age \in [Senders -> Nat] /\ grad \in [Senders -> Nat]
      /\ got \in [Receivers -> Nat] /\ gave \in [Receivers -> Nat]
  BY Ends DEF age, grad, got, gave, SectionType, SlotType
<1>4. Nil \notin Blocks
  BY BlockFacts
<1>5. to \in [Senders -> Receivers \cup {Nil}] /\ from \in [Receivers -> Senders \cup {Nil}]
  BY <1>1, <1>2 DEF to, from
<1>6. \A a \in Senders : Connected(io[a].outs[1]) <=> to[a] # Nil
  BY <1>1 DEF to
<1>7. \A a \in Senders : to[a] # Nil => io[a].outs[1].tgt = to[a]
  BY DEF to
<1> QED
  BY <1>1, <1>3, <1>4, <1>5, <1>6, <1>7

\* A block has one source, and knows it or none.
LEMMA Pairs ==
    ASSUME Base
    PROVE  /\ \A a, c \in Senders : to[a] # Nil /\ to[a] = to[c] => a = c
           /\ \A b \in Receivers : from[b] # Nil => to[from[b]] = b /\ io[b].slots[1].spos = 1
           /\ \A b \in Receivers \ registered : from[b] = Nil
           /\ \A b \in Blocks : \A i \in DOMAIN io[b].slots : i # 1 => io[b].slots[i].src = Nil
           /\ \A b \in Blocks : Pending(io[b]) \subseteq {1}
           /\ owing = {b \in Receivers : from[b] # Nil /\ ~io[b].slots[1].done}
<1>1. ASSUME NEW a \in Senders, NEW c \in Senders, to[a] # Nil, to[a] = to[c]
      PROVE  a = c
  <2>1. a \in Blocks /\ c \in Blocks /\ 1 \in SectionsOf(a) /\ 1 \in SectionsOf(c)
    BY <1>1, Ends, Views DEF SectionsOf
  <2>2. /\ io[c].outs[1].tgt = io[a].outs[1].tgt
        /\ io[c].outs[1].tpos = io[a].outs[1].tpos
    BY <1>1, Views
  <2> QED BY <2>1, <2>2, OneSection DEF Base
<1>2. ASSUME NEW b \in Blocks, NEW i \in DOMAIN io[b].slots, io[b].slots[i].src # Nil
      PROVE  /\ i = 1 /\ b \in registered /\ b \in Receivers /\ io[b].slots[i].src \in Senders
             /\ io[b].slots[i].spos = 1 /\ to[io[b].slots[i].src] = b
  <2> DEFINE a == io[b].slots[i].src
  <2>1. /\ a \in Blocks /\ io[b].slots[i].spos \in SectionsOf(a)
        /\ io[a].outs[io[b].slots[i].spos].tgt = b
        /\ io[a].outs[io[b].slots[i].spos].tpos = i
    BY <1>2, WiringFacts, Zenon DEF Base
  <2>2. a \in Senders /\ io[b].slots[i].spos = 1 /\ Connected(io[a].outs[1])
    <3> DEFINE j == io[b].slots[i].spos
    <3>1. j \in DOMAIN io[a].outs /\ Connected(io[a].outs[j])
      BY <2>1 DEF SectionsOf
    <3> HIDE DEF a, j
    <3>2. a \in Blocks
      BY <2>1 DEF a
    <3>3. a \notin Outputs
      BY <3>1, Ends
    <3>4. a \in Senders /\ DOMAIN io[a].outs = {1}
      BY <3>2, <3>3, Ends
    <3>5. j = 1
      BY <3>1, <3>4
    <3> QED BY <3>1, <3>4, <3>5 DEF j
  <2> HIDE DEF a
  <2>3. to[a] # Nil /\ to[a] = b /\ i = 1 /\ b \in registered
    BY <2>1, <2>2, Views
  <2>4. b \in Receivers
    BY <2>2, <2>3, Views
  <2> QED BY <2>2, <2>3, <2>4 DEF a
<1>3. \A b \in Receivers : from[b] # Nil => to[from[b]] = b /\ io[b].slots[1].spos = 1
  BY <1>2, Ends DEF from
<1>4. \A b \in Receivers \ registered : from[b] = Nil
  BY <1>2, Ends DEF from
<1>5. \A b \in Blocks : \A i \in DOMAIN io[b].slots : i # 1 => io[b].slots[i].src = Nil
  BY <1>2
<1>6. \A b \in Blocks : Pending(io[b]) \subseteq {1}
  BY <1>5 DEF Pending
<1>7. owing = {b \in Receivers : from[b] # Nil /\ ~io[b].slots[1].done}
  <2>1. ASSUME NEW b \in Blocks PROVE b \in owing <=> 1 \in Pending(io[b])
    BY <1>6 DEF owing
  <2>2. ASSUME NEW b \in Receivers
        PROVE  1 \in Pending(io[b]) <=> from[b] # Nil /\ ~io[b].slots[1].done
    BY Ends DEF Pending, from
  <2>3. ASSUME NEW b \in Blocks, 1 \in Pending(io[b]) PROVE b \in Receivers
    BY <2>3, Ends DEF Pending
  <2>4. owing \subseteq Blocks
    BY DEF owing
  <2> QED BY <2>1, <2>2, <2>3, <2>4, Ends
<1> QED
  BY <1>1, <1>3, <1>4, <1>5, <1>6, <1>7
-----------------------------------------------------------------------------
(* What the steps change of what the wave sees.                            *)

\* One sender changes.
LEMMA SenderViews ==
    ASSUME NEW a \in Senders, \A c \in Senders : c # a => io'[c].outs = io[c].outs
    PROVE  /\ to' = [to EXCEPT ![a] = IF Connected(io'[a].outs[1]) THEN io'[a].outs[1].tgt ELSE Nil]
           /\ age' = [age EXCEPT ![a] = io'[a].outs[1].data]
           /\ grad' = [grad EXCEPT ![a] = io'[a].outs[1].delta]
BY DEF to, age, grad

\* One receiver changes.
LEMMA ReceiverViews ==
    ASSUME NEW b \in Receivers, \A c \in Receivers : c # b => io'[c].slots = io[c].slots
    PROVE  /\ from' = [from EXCEPT ![b] = io'[b].slots[1].src]
           /\ got' = [got EXCEPT ![b] = io'[b].slots[1].data]
           /\ gave' = [gave EXCEPT ![b] = io'[b].slots[1].delta]
BY DEF from, got, gave

\* No sender, no receiver changes.
LEMMA SameSenders ==
    ASSUME \A c \in Senders : io'[c].outs = io[c].outs
    PROVE  UNCHANGED <<to, age, grad>>
BY DEF to, age, grad

\* The same for what is received.
LEMMA SameReceivers ==
    ASSUME \A c \in Receivers : io'[c].slots = io[c].slots
    PROVE  UNCHANGED <<from, got, gave>>
BY DEF from, got, gave

\* What Single says of the io of block b.
Narrow(b, x) ==
    /\ b \in Senders => Len(x.outs) = 1
    /\ b \in Outputs => Len(x.outs) = 0 /\ Len(x.slots) = 1
    /\ b \in Inputs => Len(x.slots) = 0
    /\ x.inUse <= 1 /\ x.inCount = 0 /\ x.outCount = 0

\* Single is kept when the blocks that change stay narrow.
LEMMA SingleKept ==
    ASSUME Base, UNCHANGED level, registered' = registered,
           \A c \in Blocks : Narrow(c, io'[c]) /\ io'[c].inUse = io[c].inUse
    PROVE  Single'
<1>1. Senders \subseteq Blocks /\ Outputs \subseteq Blocks /\ Inputs \subseteq Blocks
      /\ Receivers \subseteq Blocks
  BY Ends, BlockFacts
<1> QED
  BY <1>1 DEF Base, Single, Narrow

\* Every block is narrow.
LEMMA AllNarrow ==
    ASSUME Base
    PROVE  \A c \in Blocks : Narrow(c, io[c])
BY DEF Base, Single, Narrow

\* apply_plain_input: the potentials of an input are those of this call.
LEMMA ApplyViews ==
    ASSUME Base, SeparateChains, ApplyPlainInput
    PROVE  /\ arg \in Inputs /\ age' = [age EXCEPT ![arg] = call]
           /\ UNCHANGED <<to, grad, from, got, gave, owing>>
           /\ Single'
<1> DEFINE x == IF Calls[call].kind = "train" /\ Len(io[arg].outs) < Width[arg]
                THEN Widen(io[arg], Width[arg]) ELSE io[arg]
<1>1. arg \in Inputs /\ arg \in Senders /\ arg \in Blocks
  BY BlockFacts DEF ApplyPlainInput, Base, Shape, Senders
<1>2. Len(io[arg].outs) = 1 /\ Width[arg] = 1
  BY <1>1 DEF SeparateChains, Base, Single
<1>3. x = io[arg]
  BY <1>2
<1>4. io' = [io EXCEPT ![arg] = PassForward(io[arg], call)]
  <2>1. io' = [io EXCEPT ![arg] = PassForward(x, call)]
    BY DEF ApplyPlainInput
  <2> HIDE DEF x
  <2> QED BY <1>3, <2>1
<1> HIDE DEF x
<1>5. /\ io \in [Blocks -> IoType] /\ DOMAIN io[arg].outs = {1} /\ io[arg].outs[1] \in SectionType
      /\ io[arg] \in IoType
  BY <1>1, Ends
<1>6. /\ io'[arg].outs = [j \in {1} |-> [io[arg].outs[j] EXCEPT !.data = call]]
      /\ io'[arg].slots = io[arg].slots /\ io'[arg].inUse = io[arg].inUse
      /\ io'[arg].inCount = io[arg].inCount /\ io'[arg].outCount = io[arg].outCount
      /\ \A c \in Blocks : c # arg => io'[c] = io[c]
  BY <1>1, <1>4, <1>5 DEF PassForward, IoType
<1>7. /\ io'[arg].outs[1].data = call /\ io'[arg].outs[1].delta = io[arg].outs[1].delta
      /\ io'[arg].outs[1].tgt = io[arg].outs[1].tgt /\ io'[arg].outs[1].tpos = io[arg].outs[1].tpos
  BY <1>5, <1>6 DEF SectionType
<1>8. age' = [age EXCEPT ![arg] = call] /\ UNCHANGED <<to, grad>>
  <2>1. \A c \in Senders : c # arg => io'[c].outs = io[c].outs
    BY <1>6, Ends
  <2>2. /\ to' = [to EXCEPT ![arg] = IF Connected(io'[arg].outs[1]) THEN io'[arg].outs[1].tgt ELSE Nil]
        /\ age' = [age EXCEPT ![arg] = io'[arg].outs[1].data]
        /\ grad' = [grad EXCEPT ![arg] = io'[arg].outs[1].delta]
    BY <1>1, <2>1, SenderViews
  <2>3. /\ to[arg] = IF Connected(io'[arg].outs[1]) THEN io'[arg].outs[1].tgt ELSE Nil
        /\ grad[arg] = io'[arg].outs[1].delta
    BY <1>1, <1>7 DEF to, grad, Connected
  <2>4. to = [to EXCEPT ![arg] = to[arg]] /\ grad = [grad EXCEPT ![arg] = grad[arg]]
    BY DEF to, grad
  <2> QED BY <1>7, <2>2, <2>3, <2>4
<1>9. UNCHANGED <<from, got, gave>>
  BY <1>1, <1>6, Ends, SameReceivers
<1>10. owing' = owing
  BY <1>6 DEF owing, Pending
<1>11. Single'
  <2>1. \A c \in Blocks : Narrow(c, io[c])
    BY AllNarrow
  <2>2. Len(io'[arg].outs) = 1
    BY <1>6
  <2>3. \A c \in Blocks : Narrow(c, io'[c]) /\ io'[c].inUse = io[c].inUse
    BY <1>1, <1>6, <2>1, <2>2, BlockFacts DEF Narrow
  <2>4. UNCHANGED <<level, registered>>
    BY DEF ApplyPlainInput
  <2> QED BY <2>3, <2>4, SingleKept
<1> QED BY <1>1, <1>8, <1>9, <1>10, <1>11

\* The oldest of one call.
LEMMA OldestOne ==
    ASSUME NEW d \in Nat
    PROVE  Oldest({d}) = d
BY DEF Oldest

\* A pass takes its age from the one slot in use, or the one section.
LEMMA PassAges ==
    ASSUME Base, NEW b \in Receivers, io[b].inUse = 1
    PROVE  /\ InputAge(io[b]) = got[b]
           /\ b \in Cores => DeltaAge(io[b]) = IF to[b] # Nil THEN grad[b] ELSE 0
<1>1. 1 \in DOMAIN io[b].slots /\ DOMAIN io[b].slots = 1..Len(io[b].slots)
  BY Ends, WiringFacts DEF Base
<1>2. {k \in DOMAIN io[b].slots : k <= io[b].inUse} = {1}
  BY <1>1
<1>3. InputAge(io[b]) = got[b]
  <2>1. {io[b].slots[i].data : i \in {k \in DOMAIN io[b].slots : k <= io[b].inUse}} = {got[b]}
    BY <1>2 DEF got
  <2>2. got[b] \in Nat
    BY Views
  <2> QED BY <2>1, <2>2, OldestOne DEF InputAge
<1>4. ASSUME b \in Cores PROVE DeltaAge(io[b]) = IF to[b] # Nil THEN grad[b] ELSE 0
  <2>1. b \in Senders /\ DOMAIN io[b].outs = {1} /\ grad[b] \in Nat
    BY <1>4, Ends, Views DEF Senders
  <2> DEFINE D == {io[b].outs[j].delta : j \in {k \in DOMAIN io[b].outs : Connected(io[b].outs[k])}}
  <2>2. CASE to[b] # Nil
    <3>1. D = {grad[b]}
      BY <2>1, <2>2, Views DEF grad
    <3> HIDE DEF D
    <3>2. Oldest(D) = grad[b]
      BY <2>1, <3>1, OldestOne
    <3> QED BY <2>2, <3>2 DEF DeltaAge, D
  <2>3. CASE to[b] = Nil
    <3>1. D = {}
      BY <2>1, <2>3, Views
    <3> HIDE DEF D
    <3>2. Oldest(D) = 0
      BY <3>1 DEF Oldest
    <3> QED BY <2>3, <3>2 DEF DeltaAge, D
  <2> QED BY <2>2, <2>3
<1> QED BY <1>3, <1>4

\* A forward pass of a core block: potentials from its source, no gradient.
LEMMA PassViews ==
    ASSUME Base, SeparateChains, NEW w \in Workers, TrainCore(w) \/ ProcessCore(w),
           io[task[w].block].inUse = 1
    PROVE  LET b == task[w].block
           IN  /\ b \in Cores
               /\ age' = [age EXCEPT ![b] = got[b]] /\ grad' = [grad EXCEPT ![b] = 0]
               /\ UNCHANGED <<to, from, got, gave, owing>>
               /\ Single'
<1> DEFINE b == task[w].block
<1>1. b \in Cores /\ b \in Senders /\ b \in Receivers /\ b \in Blocks /\ b \notin Inputs /\ b \notin Outputs
  BY BlockFacts DEF TrainCore, ProcessCore, At, Senders, Receivers
<1>2. Len(io[b].outs) = 1 /\ level[b] = 1 /\ MaxLevel = 1
  BY <1>1 DEF SeparateChains, Base, Single
<1>3. Resized(b) = io[b]
  BY <1>2 DEF Resized
<1>4. InputAge(io[b]) = got[b] /\ got[b] \in Nat
  BY <1>1, PassAges, Views
<1>5. io' = [io EXCEPT ![b] = ClearDeltas(PassForward(io[b], got[b]))]
  BY <1>3, <1>4 DEF TrainCore, ProcessCore
<1>6. level' = level /\ registered' = registered
  <2>1. CASE ProcessCore(w)
    BY <2>1 DEF ProcessCore
  <2>2. CASE TrainCore(w)
    <3>1. registered' = registered /\ \E l \in level[b]..MaxLevel : level' = [level EXCEPT ![b] = l]
      BY <2>2 DEF TrainCore
    <3>2. level' = [level EXCEPT ![b] = 1] /\ level \in [Cores -> Nat]
      BY <1>2, <3>1 DEF Base, TypeOK
    <3> QED BY <1>1, <1>2, <3>1, <3>2
  <2> QED BY <2>1, <2>2
<1>7. /\ io \in [Blocks -> IoType] /\ DOMAIN io[b].outs = {1} /\ io[b].outs[1] \in SectionType
      /\ io[b] \in IoType
  BY <1>1, Ends
<1> DEFINE y == PassForward(io[b], got[b])
<1>8. /\ y.outs = [j \in {1} |-> [io[b].outs[j] EXCEPT !.data = got[b]]]
      /\ y.slots = io[b].slots /\ y.inUse = io[b].inUse
      /\ y.inCount = io[b].inCount /\ y.outCount = io[b].outCount
      /\ y = [io[b] EXCEPT !.outs = [j \in {1} |-> [io[b].outs[j] EXCEPT !.data = got[b]]]]
  BY <1>7 DEF PassForward, IoType
<1>9. y.outs[1] = [io[b].outs[1] EXCEPT !.data = got[b]]
  BY <1>8
<1>10. /\ io'[b].outs = [j \in {1} |-> [y.outs[j] EXCEPT !.delta = 0]]
       /\ io'[b].slots = io[b].slots /\ io'[b].inUse = io[b].inUse
       /\ io'[b].inCount = io[b].inCount /\ io'[b].outCount = io[b].outCount
       /\ \A c \in Blocks : c # b => io'[c] = io[c]
  <2> DEFINE z == ClearDeltas(y)
  <2>1. DOMAIN y.outs = {1}
    BY <1>8
  <2>2. /\ z.outs = [j \in {1} |-> [y.outs[j] EXCEPT !.delta = 0]] /\ z.slots = y.slots
        /\ z.inUse = y.inUse /\ z.inCount = y.inCount /\ z.outCount = y.outCount
    BY <1>7, <1>8, <2>1 DEF ClearDeltas, IoType
  <2>3. io' = [io EXCEPT ![b] = z]
    BY <1>5
  <2> HIDE DEF z, y
  <2> QED BY <1>1, <1>7, <1>8, <2>2, <2>3
<1> HIDE DEF y
<1>11. /\ io'[b].outs[1].data = got[b] /\ io'[b].outs[1].delta = 0
       /\ io'[b].outs[1].tgt = io[b].outs[1].tgt /\ io'[b].outs[1].tpos = io[b].outs[1].tpos
  <2>1. io'[b].outs[1] = [y.outs[1] EXCEPT !.delta = 0]
    BY <1>10
  <2>2. io'[b].outs[1] = [[io[b].outs[1] EXCEPT !.data = got[b]] EXCEPT !.delta = 0]
    BY <1>9, <2>1
  <2> QED BY <1>7, <2>2 DEF SectionType
<1>12. age' = [age EXCEPT ![b] = got[b]] /\ grad' = [grad EXCEPT ![b] = 0] /\ to' = to
  <2>1. \A c \in Senders : c # b => io'[c].outs = io[c].outs
    BY <1>10, Ends
  <2>2. /\ to' = [to EXCEPT ![b] = IF Connected(io'[b].outs[1]) THEN io'[b].outs[1].tgt ELSE Nil]
        /\ age' = [age EXCEPT ![b] = io'[b].outs[1].data]
        /\ grad' = [grad EXCEPT ![b] = io'[b].outs[1].delta]
    BY <1>1, <2>1, SenderViews
  <2>3. to[b] = IF Connected(io'[b].outs[1]) THEN io'[b].outs[1].tgt ELSE Nil
    BY <1>1, <1>11 DEF to, Connected
  <2>4. to = [to EXCEPT ![b] = to[b]]
    BY DEF to
  <2> QED BY <1>11, <2>2, <2>3, <2>4
<1>13. UNCHANGED <<from, got, gave>>
  BY <1>1, <1>10, Ends, SameReceivers
<1>14. owing' = owing
  BY <1>10 DEF owing, Pending
<1>15. Single'
  <2>1. \A c \in Blocks : Narrow(c, io[c])
    BY AllNarrow
  <2>2. Len(io'[b].outs) = 1
    BY <1>10
  <2>3. \A c \in Blocks : Narrow(c, io'[c]) /\ io'[c].inUse = io[c].inUse
    BY <1>1, <1>10, <2>1, <2>2 DEF Narrow
  <2> QED BY <1>6, <2>3, SingleKept
<1> QED BY <1>1, <1>12, <1>13, <1>14, <1>15

\* A backpropagation over a block: the gradient for its source.
LEMMA GiveViews ==
    ASSUME Base, NEW b \in Receivers, NEW g, io[b].inUse = 1, UNCHANGED <<level, registered>>,
           io' = [io EXCEPT ![b] = PassBackward(io[b], g)]
    PROVE  /\ gave' = [gave EXCEPT ![b] = g]
           /\ UNCHANGED <<to, age, grad, from, got, owing>>
           /\ Single'
<1>1. /\ b \in Blocks /\ b \notin Inputs /\ 1 \in DOMAIN io[b].slots /\ io[b] \in IoType
      /\ io \in [Blocks -> IoType] /\ DOMAIN io[b].slots = 1..Len(io[b].slots)
      /\ \A i \in DOMAIN io[b].slots : io[b].slots[i] \in SlotType
  <2>1. b \in Blocks /\ b \notin Inputs /\ 1 \in DOMAIN io[b].slots /\ io \in [Blocks -> IoType]
    BY Ends, BlockFacts DEF Receivers
  <2>2. io[b].slots \in Seq(SlotType)
    BY <2>1, IoFacts DEF Base
  <2> QED BY <2>1, <2>2, Entries
<1> DEFINE y == PassBackward(io[b], g)
           s == [i \in DOMAIN io[b].slots |->
                   IF i <= io[b].inUse THEN [io[b].slots[i] EXCEPT !.delta = g] ELSE io[b].slots[i]]
<1>2. /\ y.slots = s /\ y.outs = io[b].outs /\ y.inUse = io[b].inUse
      /\ y.inCount = io[b].inCount /\ y.outCount = io[b].outCount
  BY <1>1 DEF PassBackward, IoType
<1>3. io'[b] = y /\ \A c \in Blocks : c # b => io'[c] = io[c]
  BY <1>1
<1> HIDE DEF y
<1>4. /\ s[1] = [io[b].slots[1] EXCEPT !.delta = g] /\ DOMAIN s = DOMAIN io[b].slots
      /\ \A i \in DOMAIN io[b].slots : s[i].src = io[b].slots[i].src
                                       /\ s[i].done = io[b].slots[i].done
  BY <1>1 DEF SlotType
<1>5. Len(s) = Len(io[b].slots)
  <2>1. DOMAIN s = 1..Len(io[b].slots) /\ Len(io[b].slots) \in Nat
    BY <1>1, <1>4, WiringFacts, Zenon DEF Base
  <2> QED BY <2>1
<1> HIDE DEF s
<1>6. /\ io'[b].slots[1].delta = g /\ io'[b].slots[1].src = io[b].slots[1].src
      /\ io'[b].slots[1].data = io[b].slots[1].data
  BY <1>1, <1>2, <1>3, <1>4 DEF SlotType
<1>7. gave' = [gave EXCEPT ![b] = g] /\ UNCHANGED <<from, got>>
  <2>1. /\ from' = [from EXCEPT ![b] = io'[b].slots[1].src]
        /\ got' = [got EXCEPT ![b] = io'[b].slots[1].data]
        /\ gave' = [gave EXCEPT ![b] = io'[b].slots[1].delta]
    <3>1. \A c \in Receivers : c # b => io'[c].slots = io[c].slots
      BY <1>3, Ends
    <3> QED BY <3>1, ReceiverViews
  <2>2. from = [from EXCEPT ![b] = io[b].slots[1].src] /\ got = [got EXCEPT ![b] = io[b].slots[1].data]
    BY DEF from, got
  <2> QED BY <1>6, <2>1, <2>2
<1>8. UNCHANGED <<to, age, grad>>
  <2>1. \A c \in Senders : io'[c].outs = io[c].outs
    BY <1>2, <1>3, Ends
  <2> QED BY <2>1, SameSenders
<1>9. owing' = owing
  <2>1. Pending(io'[b]) = Pending(io[b])
    BY <1>2, <1>3, <1>4 DEF Pending
  <2> QED BY <1>3, <2>1 DEF owing
<1>10. Single'
  <2>1. \A c \in Blocks : Narrow(c, io'[c]) /\ io'[c].inUse = io[c].inUse
    <3>1. \A c \in Blocks : Narrow(c, io[c])
      BY AllNarrow
    <3>2. Len(io'[b].slots) = Len(io[b].slots)
      BY <1>2, <1>3, <1>5
    <3> QED BY <1>1, <1>2, <1>3, <3>1, <3>2 DEF Narrow
  <2> QED BY <2>1, SingleKept
<1> QED BY <1>7, <1>8, <1>9, <1>10

\* A gradient goes back to the source.
LEMMA ReturnViews ==
    ASSUME Base, NEW b \in Receivers, from[b] # Nil, io' = SentBack(b, 1),
           UNCHANGED <<level, registered>>
    PROVE  LET a == from[b]
           IN  /\ a \in Senders /\ to[a] = b
               /\ age' = [age EXCEPT ![a] = got[b]] /\ grad' = [grad EXCEPT ![a] = gave[b]]
               /\ UNCHANGED <<to, from, got, gave>>
               /\ b \notin owing' /\ owing' \cup {b} = owing \cup {b}
               /\ Single'
<1> DEFINE a == from[b]
           slot == io[b].slots[1]
<1>1. /\ a \in Senders /\ to[a] = b /\ slot.spos = 1 /\ slot.src = a /\ b \in Blocks /\ a \in Blocks
      /\ 1 \in DOMAIN io[b].slots /\ slot \in SlotType /\ io[a].outs[1] \in SectionType
      /\ DOMAIN io[a].outs = {1} /\ io[a].outs[1].tgt = b /\ io[a].outs[1].tpos = 1
      /\ io \in [Blocks -> IoType] /\ io[b] \in IoType /\ io[a] \in IoType
      /\ io[a].outs \in Seq(SectionType) /\ io[b].slots \in Seq(SlotType)
  <2>1. a \in Senders /\ to[a] = b /\ slot.spos = 1 /\ slot.src = a
    <3>1. a \in Senders \cup {Nil}
      BY Views
    <3> QED BY <3>1, Pairs DEF from
  <2>2. b \in Blocks /\ a \in Blocks
    BY <2>1, Ends
  <2>3. to[a] # Nil
    BY <2>1, <2>2, Views
  <2> QED BY <2>1, <2>2, <2>3, Ends, Views, IoFacts DEF Base
<1>2. io'= [[io EXCEPT ![a] = TakeBack(io[a], b, 1, slot)] EXCEPT ![b] = MarkDone(@, 1)]
  BY <1>1 DEF SentBack
<1> DEFINE y == TakeBack(io[a], b, 1, slot)
           sect == [tgt |-> b, tpos |-> 1, data |-> slot.data, delta |-> slot.delta]
<1>3. Len(io[a].outs) = 1 /\ io[a].outCount = 0
  BY <1>1 DEF Base, Single
<1>4. /\ y.outs = [io[a].outs EXCEPT ![1] = sect] /\ y.slots = io[a].slots /\ y.inUse = io[a].inUse
      /\ y.inCount = io[a].inCount /\ y.outCount = 0
  BY <1>1, <1>3 DEF TakeBack, OutputsComplete, IoType
<1>5. y.outs[1] = sect /\ Len(y.outs) = 1
  <2>1. y.outs[1] = sect
    BY <1>1, <1>4
  <2>2. Len(y.outs) = Len(io[a].outs)
    BY <1>1, <1>4
  <2> QED BY <1>3, <2>1, <2>2
<1>6. y \in IoType
  <2>1. SoundIo(io[a])
    BY <1>1, IoFacts DEF Base
  <2> QED BY <1>1, <2>1, TakeBackSound DEF SoundIo
<1> HIDE DEF y, a, slot
<1> DEFINE f == [io EXCEPT ![a] = y]
           z == MarkDone(f[b], 1)
<1>7. io' = [f EXCEPT ![b] = z]
  BY <1>1, <1>2 DEF y
<1>8. /\ f[b] \in IoType /\ f[b].slots = io[b].slots /\ f[b].inUse = io[b].inUse
      /\ f[b].inCount = io[b].inCount
      /\ f[b].outs = (IF a = b THEN y.outs ELSE io[b].outs)
      /\ f[b].outCount = (IF a = b THEN 0 ELSE io[b].outCount)
      /\ f[a] = y /\ \A c \in Blocks : c # a => f[c] = io[c]
      /\ DOMAIN f = Blocks
  BY <1>1, <1>4, <1>6
<1> HIDE DEF f
<1>9. /\ z.outs = f[b].outs /\ z.inUse = f[b].inUse /\ z.inCount = f[b].inCount
      /\ z.outCount = f[b].outCount
      /\ z.slots = [io[b].slots EXCEPT ![1] = [io[b].slots[1] EXCEPT !.done = TRUE]]
  BY <1>8 DEF MarkDone, IoType
<1>10. /\ Len(z.slots) = Len(io[b].slots) /\ DOMAIN z.slots = DOMAIN io[b].slots
       /\ z.slots[1] = [io[b].slots[1] EXCEPT !.done = TRUE]
       /\ \A i \in DOMAIN io[b].slots : i # 1 => z.slots[i] = io[b].slots[i]
  <2> DEFINE s == io[b].slots
             v == [s[1] EXCEPT !.done = TRUE]
  <2>1. s \in Seq(SlotType) /\ 1 \in DOMAIN s /\ s[1] \in SlotType
    BY <1>1 DEF slot
  <2>2. v \in SlotType
    BY <2>1 DEF SlotType
  <2>3. z.slots = [s EXCEPT ![1] = v]
    BY <1>9
  <2> HIDE DEF s, v
  <2>4. /\ [s EXCEPT ![1] = v] \in Seq(SlotType) /\ Len([s EXCEPT ![1] = v]) = Len(s)
        /\ \A j \in 1..Len(s) : [s EXCEPT ![1] = v][j] = IF j = 1 THEN v ELSE s[j]
    BY <2>1, <2>2, SetEntry
  <2>5. DOMAIN s = 1..Len(s) /\ DOMAIN z.slots = 1..Len(z.slots)
    BY <2>1, <2>3, <2>4, Entries
  <2>6. /\ Len(z.slots) = Len(s) /\ DOMAIN z.slots = DOMAIN s /\ z.slots[1] = v
        /\ \A i \in DOMAIN s : i # 1 => z.slots[i] = s[i]
    BY <2>1, <2>3, <2>4, <2>5
  <2> QED BY <2>6 DEF s, v
<1> HIDE DEF z
<1>11. /\ io'[b] = z /\ (a # b => io'[a] = y) /\ \A c \in Blocks : c # a /\ c # b => io'[c] = io[c]
  BY <1>1, <1>7, <1>8
<1>12. io'[a].outs[1] = sect /\ Len(io'[a].outs) = 1
       /\ \A c \in Blocks : c # a => io'[c].outs = io[c].outs
  BY <1>1, <1>5, <1>8, <1>9, <1>11
<1>13. /\ z.slots[1].src = io[b].slots[1].src /\ z.slots[1].data = io[b].slots[1].data
       /\ z.slots[1].delta = io[b].slots[1].delta /\ z.slots[1].done = TRUE
  BY <1>1, <1>10 DEF SlotType, slot
<1>14. \A c \in Blocks : c # b => io'[c].slots = io[c].slots
  BY <1>1, <1>4, <1>8, <1>11
<1>15. to' = to /\ age' = [age EXCEPT ![a] = got[b]] /\ grad' = [grad EXCEPT ![a] = gave[b]]
  <2>1. /\ to' = [to EXCEPT ![a] = IF Connected(io'[a].outs[1]) THEN io'[a].outs[1].tgt ELSE Nil]
        /\ age' = [age EXCEPT ![a] = io'[a].outs[1].data]
        /\ grad' = [grad EXCEPT ![a] = io'[a].outs[1].delta]
    <3>1. \A c \in Senders : c # a => io'[c].outs = io[c].outs
      BY <1>12, Ends
    <3> QED BY <1>1, <3>1, SenderViews
  <2>2. io'[a].outs[1].data = got[b] /\ io'[a].outs[1].delta = gave[b]
    BY <1>12 DEF got, gave, slot
  <2>3. to[a] = IF Connected(io'[a].outs[1]) THEN io'[a].outs[1].tgt ELSE Nil
    BY <1>1, <1>12 DEF Connected
  <2>4. to = [to EXCEPT ![a] = to[a]]
    BY DEF to
  <2> QED BY <2>1, <2>2, <2>3, <2>4
<1>16. UNCHANGED <<from, got, gave>>
  <2>1. /\ from' = [from EXCEPT ![b] = io'[b].slots[1].src]
        /\ got' = [got EXCEPT ![b] = io'[b].slots[1].data]
        /\ gave' = [gave EXCEPT ![b] = io'[b].slots[1].delta]
    <3>1. \A c \in Receivers : c # b => io'[c].slots = io[c].slots
      BY <1>14, Ends
    <3> QED BY <3>1, ReceiverViews
  <2>2. /\ from = [from EXCEPT ![b] = io[b].slots[1].src] /\ got = [got EXCEPT ![b] = io[b].slots[1].data]
        /\ gave = [gave EXCEPT ![b] = io[b].slots[1].delta]
    BY DEF from, got, gave
  <2> QED BY <1>11, <1>13, <2>1, <2>2
<1>17. b \notin owing' /\ owing' \cup {b} = owing \cup {b}
  <2>1. \A c \in Blocks : c # b => Pending(io'[c]) = Pending(io[c])
    BY <1>14 DEF Pending
  <2>2. Pending(io'[b]) = {}
    <3>1. \A i \in DOMAIN io[b].slots : i # 1 => io[b].slots[i].src = Nil
      BY <1>1, Pairs
    <3>2. \A i \in DOMAIN io'[b].slots : io'[b].slots[i].done = TRUE \/ io'[b].slots[i].src = Nil
      <4>1. \A i \in DOMAIN z.slots : i # 1 => z.slots[i].src = Nil
        BY <1>10, <3>1
      <4>2. \A i \in DOMAIN z.slots : z.slots[i].done = TRUE \/ z.slots[i].src = Nil
        BY <1>13, <4>1
      <4> QED BY <1>11, <4>2
    <3> QED BY <3>2 DEF Pending
  <2>3. \A c \in Blocks : c \in owing' <=> Pending(io'[c]) # {}
    BY DEF owing
  <2>4. \A c \in Blocks : c \in owing <=> Pending(io[c]) # {}
    BY DEF owing
  <2>5. owing \subseteq Blocks /\ owing' \subseteq Blocks
    BY DEF owing
  <2>6. b \notin owing'
    BY <2>2, <2>3, <2>5
  <2>7. \A c \in Blocks : c # b => (c \in owing' <=> c \in owing)
    BY <2>1, <2>3, <2>4
  <2> QED BY <2>5, <2>6, <2>7
<1>18. Single'
  <2>1. \A c \in Blocks : Narrow(c, io[c])
    BY AllNarrow
  <2>2. \A c \in Blocks : c # a /\ c # b => Narrow(c, io'[c]) /\ io'[c].inUse = io[c].inUse
    BY <1>11, <2>1
  <2>3. b \notin Inputs /\ a \notin Outputs /\ a \notin Inputs \cap Receivers
    BY <1>1, BlockFacts DEF Senders, Receivers
  <2>4. Narrow(b, io'[b]) /\ io'[b].inUse = io[b].inUse
    <3>1. Narrow(b, io[b]) /\ Narrow(a, io[a])
      BY <1>1, <2>1
    <3> QED BY <1>1, <1>5, <1>8, <1>9, <1>10, <1>11, <2>3, <3>1 DEF Narrow
  <2>5. a # b => Narrow(a, io'[a]) /\ io'[a].inUse = io[a].inUse
    <3>1. Narrow(a, io[a])
      BY <1>1, <2>1
    <3> QED BY <1>1, <1>4, <1>5, <1>11, <2>3, <3>1 DEF Narrow
  <2> QED BY <2>2, <2>4, <2>5, SingleKept
<1>19. a \in Senders /\ to[a] = b
  BY <1>1
<1> QED BY <1>15, <1>16, <1>17, <1>18, <1>19 DEF a

\* One slot of a block is written.
LEMMA WriteSlot ==
    ASSUME Base, NEW b \in Receivers, NEW v \in SlotType, NEW x,
           x.slots = [io[b].slots EXCEPT ![1] = v]
    PROVE  /\ Len(x.slots) = Len(io[b].slots) /\ DOMAIN x.slots = DOMAIN io[b].slots
           /\ x.slots[1] = v /\ 1 \in DOMAIN x.slots
           /\ \A i \in DOMAIN io[b].slots : i # 1 => x.slots[i].src = Nil
<1> DEFINE s == io[b].slots
<1>1. b \in Blocks /\ s \in Seq(SlotType) /\ 1 \in DOMAIN s
  <2>1. b \in Blocks /\ 1 \in DOMAIN s
    BY Ends
  <2> QED BY <2>1, IoFacts DEF Base
<1>2. \A i \in DOMAIN s : i # 1 => s[i].src = Nil
  BY <1>1, Pairs
<1>3. x.slots = [s EXCEPT ![1] = v]
  OBVIOUS
<1> HIDE DEF s
<1>4. /\ [s EXCEPT ![1] = v] \in Seq(SlotType) /\ Len([s EXCEPT ![1] = v]) = Len(s)
      /\ \A j \in 1..Len(s) : [s EXCEPT ![1] = v][j] = IF j = 1 THEN v ELSE s[j]
  BY <1>1, SetEntry
<1>5. DOMAIN s = 1..Len(s) /\ DOMAIN x.slots = 1..Len(x.slots)
  BY <1>1, <1>3, <1>4, Entries
<1>6. /\ Len(x.slots) = Len(s) /\ DOMAIN x.slots = DOMAIN s /\ x.slots[1] = v /\ 1 \in DOMAIN x.slots
      /\ \A i \in DOMAIN s : i # 1 => x.slots[i] = s[i]
  BY <1>1, <1>3, <1>4, <1>5
<1> QED BY <1>2, <1>6 DEF s

\* A section is sent: the target has it, and its source.
LEMMA SendViews ==
    ASSUME Base, NEW b \in Senders, to[b] # Nil, UNCHANGED <<level, registered>>,
           io' = [io EXCEPT ![to[b]] = Receive(io[to[b]], b, 1, io[b].outs[1])]
    PROVE  LET t == to[b]
           IN  /\ InputsComplete(io[t])
               /\ from' = [from EXCEPT ![t] = b]
               /\ got' = [got EXCEPT ![t] = age[b]] /\ gave' = [gave EXCEPT ![t] = grad[b]]
               /\ UNCHANGED <<to, age, grad>>
               /\ owing' \cup {t} = owing \cup {t}
               /\ Single'
<1> DEFINE t == to[b]
           sect == io[b].outs[1]
           v == [src |-> b, spos |-> 1, done |-> io[t].slots[1].done,
                 data |-> sect.data, delta |-> sect.delta]
           y == Receive(io[t], b, 1, sect)
<1>1. /\ b \in Blocks /\ t \in Receivers /\ t \in Blocks /\ t \in registered /\ t \notin Inputs
      /\ sect \in SectionType /\ sect.tpos = 1 /\ io[t].inUse = 1 /\ io[t].inCount = 0
      /\ 1 \in DOMAIN io[t].slots /\ io[t].slots[1] \in SlotType
      /\ io[t] \in IoType /\ io \in [Blocks -> IoType]
  <2>1. b \in Blocks /\ t \in Receivers /\ t \in registered /\ sect \in SectionType
        /\ sect.tpos = 1 /\ io[t].inUse = 1
    BY Ends, Views
  <2>2. t \in Blocks /\ t \notin Inputs /\ 1 \in DOMAIN io[t].slots /\ io[t].slots[1] \in SlotType
        /\ io \in [Blocks -> IoType]
    BY <2>1, Ends, BlockFacts DEF Receivers
  <2> HIDE DEF t
  <2> QED BY <2>1, <2>2 DEF Base, Single
<1>2. v \in SlotType
  BY <1>1 DEF SlotType, SectionType
<1>3. InputsComplete(io[t])
  <2> HIDE DEF t
  <2> QED BY <1>1 DEF InputsComplete
<1>4. io' = [io EXCEPT ![t] = y]
  OBVIOUS
<1>5. /\ y.slots = [io[t].slots EXCEPT ![1] = v] /\ y.outs = io[t].outs /\ y.inUse = io[t].inUse
      /\ y.inCount = 0 /\ y.outCount = io[t].outCount
  <2> HIDE DEF t, sect
  <2> QED BY <1>1, <1>3 DEF Receive, IoType
<1>6. /\ Len(y.slots) = Len(io[t].slots) /\ DOMAIN y.slots = DOMAIN io[t].slots
      /\ y.slots[1] = v /\ 1 \in DOMAIN y.slots
      /\ \A i \in DOMAIN io[t].slots : i # 1 => y.slots[i].src = Nil
  <2> HIDE DEF t, v, y
  <2> QED BY <1>1, <1>2, <1>5, WriteSlot
<1>7. v.src = b /\ v.data = age[b] /\ v.delta = grad[b]
  BY DEF age, grad
<1> HIDE DEF t, v, y, sect
<1>8. io'[t] = y /\ \A c \in Blocks : c # t => io'[c] = io[c]
  BY <1>1, <1>4
<1>9. /\ from' = [from EXCEPT ![t] = b]
      /\ got' = [got EXCEPT ![t] = age[b]] /\ gave' = [gave EXCEPT ![t] = grad[b]]
  <2>1. \A c \in Receivers : c # t => io'[c].slots = io[c].slots
    BY <1>8, Ends
  <2>2. /\ from' = [from EXCEPT ![t] = io'[t].slots[1].src]
        /\ got' = [got EXCEPT ![t] = io'[t].slots[1].data]
        /\ gave' = [gave EXCEPT ![t] = io'[t].slots[1].delta]
    BY <1>1, <2>1, ReceiverViews
  <2> QED BY <1>6, <1>7, <1>8, <2>2
<1>10. UNCHANGED <<to, age, grad>>
  <2>1. \A c \in Senders : io'[c].outs = io[c].outs
    BY <1>5, <1>8, Ends
  <2> QED BY <2>1, SameSenders
<1>11. owing' \cup {t} = owing \cup {t}
  <2>1. \A c \in Blocks : c # t => Pending(io'[c]) = Pending(io[c])
    BY <1>8
  <2>2. \A c \in Blocks : (c \in owing' <=> Pending(io'[c]) # {}) /\ (c \in owing <=> Pending(io[c]) # {})
    BY DEF owing
  <2>3. owing \subseteq Blocks /\ owing' \subseteq Blocks
    BY DEF owing
  <2> QED BY <1>1, <2>1, <2>2, <2>3
<1>12. Single'
  <2>1. \A c \in Blocks : Narrow(c, io'[c]) /\ io'[c].inUse = io[c].inUse
    <3>1. \A c \in Blocks : Narrow(c, io[c])
      BY AllNarrow
    <3>2. io'[t].outs = io[t].outs /\ io'[t].inUse = io[t].inUse
          /\ io'[t].inCount = 0 /\ io'[t].outCount = io[t].outCount
          /\ Len(io'[t].slots) = Len(io[t].slots)
      BY <1>5, <1>6, <1>8
    <3>3. Narrow(t, io'[t])
      BY <1>1, <3>1, <3>2 DEF Narrow
    <3> QED BY <1>8, <3>1, <3>2, <3>3
  <2> QED BY <2>1, SingleKept
<1> QED BY <1>3, <1>9, <1>10, <1>11, <1>12 DEF t

\* A block is created and connected.
LEMMA CreateViews ==
    ASSUME Base, NEW b \in Senders, to[b] = Nil, NEW t \in Receivers, t \notin registered, b # t,
           UNCHANGED level, registered' = registered \cup {t},
           io' = [[io EXCEPT ![t] = TakeInput(io[t], 1, io[b].outs[1])]
                     EXCEPT ![b] = LinkSection(io[b], 1, t, io[t].inUse + 1)]
    PROVE  /\ to' = [to EXCEPT ![b] = t]
           /\ got' = [got EXCEPT ![t] = age[b]] /\ gave' = [gave EXCEPT ![t] = grad[b]]
           /\ UNCHANGED <<age, grad, from, owing>>
           /\ Single'
<1> DEFINE sect == io[b].outs[1]
           v == [NewSlot EXCEPT !.spos = 1, !.data = sect.data, !.delta = sect.delta]
           y == TakeInput(io[t], 1, sect)
           n == [sect EXCEPT !.tgt = t, !.tpos = 1]
           z == LinkSection(io[b], 1, t, 1)
<1>1. /\ b \in Blocks /\ t \in Blocks /\ t \notin Inputs /\ b \notin Outputs
      /\ sect \in SectionType /\ io[t].inUse = 0
      /\ 1 \in DOMAIN io[t].slots /\ DOMAIN io[b].outs = {1}
      /\ io[t] \in IoType /\ io[b] \in IoType /\ io \in [Blocks -> IoType]
  <2>1. b \in Blocks /\ t \in Blocks /\ sect \in SectionType /\ 1 \in DOMAIN io[t].slots
        /\ DOMAIN io[b].outs = {1} /\ io \in [Blocks -> IoType]
    BY Ends
  <2>2. io[t].inUse = 0
    BY <2>1 DEF Base, Growing
  <2> QED BY <2>1, <2>2, BlockFacts DEF Senders, Receivers
<1>2. v \in SlotType /\ v.src = Nil /\ v.data = age[b] /\ v.delta = grad[b]
  BY <1>1 DEF SlotType, SectionType, NewSlot, age, grad
<1>3. io' = [[io EXCEPT ![t] = y] EXCEPT ![b] = z]
  BY <1>1
<1>4. /\ y.slots = [io[t].slots EXCEPT ![1] = v] /\ y.outs = io[t].outs /\ y.inUse = 1
      /\ y.inCount = io[t].inCount /\ y.outCount = io[t].outCount
  <2> HIDE DEF sect
  <2> QED BY <1>1 DEF TakeInput, IoType
<1>5. /\ Len(y.slots) = Len(io[t].slots) /\ DOMAIN y.slots = DOMAIN io[t].slots
      /\ y.slots[1] = v /\ 1 \in DOMAIN y.slots
      /\ \A i \in DOMAIN io[t].slots : i # 1 => y.slots[i].src = Nil
  <2> HIDE DEF v, y
  <2> QED BY <1>2, <1>4, WriteSlot
<1>6. /\ z.outs = [io[b].outs EXCEPT ![1] = n] /\ z.slots = io[b].slots /\ z.inUse = io[b].inUse
      /\ z.inCount = io[b].inCount /\ z.outCount = io[b].outCount
  BY <1>1 DEF LinkSection, IoType
<1>7. /\ z.outs[1] = n /\ n.tgt = t /\ n.tpos = 1 /\ n.data = age[b] /\ n.delta = grad[b]
  BY <1>1, <1>6 DEF age, grad, SectionType
<1>8. Len(z.outs) = 1
  <2>1. io[b].outs \in Seq(SectionType) /\ Len(io[b].outs) = 1
    BY <1>1, IoFacts DEF Base, Single
  <2> QED BY <1>6, <2>1
<1> HIDE DEF v, y, sect, n, z
<1>9. io'[t] = y /\ io'[b] = z /\ \A c \in Blocks : c # t /\ c # b => io'[c] = io[c]
  BY <1>1, <1>3
<1>10. /\ to' = [to EXCEPT ![b] = t] /\ UNCHANGED <<age, grad>>
  <2>1. \A c \in Senders : c # b => io'[c].outs = io[c].outs
    BY <1>4, <1>9, Ends
  <2>2. /\ to' = [to EXCEPT ![b] = IF Connected(io'[b].outs[1]) THEN io'[b].outs[1].tgt ELSE Nil]
        /\ age' = [age EXCEPT ![b] = io'[b].outs[1].data]
        /\ grad' = [grad EXCEPT ![b] = io'[b].outs[1].delta]
    BY <2>1, SenderViews
  <2>3. age = [age EXCEPT ![b] = age[b]] /\ grad = [grad EXCEPT ![b] = grad[b]]
    BY DEF age, grad
  <2>4. io'[b].outs[1].tgt = t /\ Connected(io'[b].outs[1])
        /\ io'[b].outs[1].data = age[b] /\ io'[b].outs[1].delta = grad[b]
    BY <1>7, <1>9 DEF Connected
  <2> QED BY <2>2, <2>3, <2>4
<1>11. /\ got' = [got EXCEPT ![t] = age[b]] /\ gave' = [gave EXCEPT ![t] = grad[b]]
       /\ from' = from
  <2>1. \A c \in Receivers : c # t => io'[c].slots = io[c].slots
    BY <1>6, <1>9, Ends
  <2>2. /\ from' = [from EXCEPT ![t] = io'[t].slots[1].src]
        /\ got' = [got EXCEPT ![t] = io'[t].slots[1].data]
        /\ gave' = [gave EXCEPT ![t] = io'[t].slots[1].delta]
    BY <2>1, ReceiverViews
  <2>3. from[t] = Nil
    BY Pairs
  <2>4. from = [from EXCEPT ![t] = from[t]]
    BY DEF from
  <2> QED BY <1>2, <1>5, <1>9, <2>2, <2>3, <2>4
<1>12. owing' = owing
  <2>1. \A c \in Blocks : c # t => Pending(io'[c]) = Pending(io[c])
    <3>1. \A c \in Blocks : c # t => io'[c].slots = io[c].slots
      BY <1>6, <1>9
    <3> QED BY <3>1 DEF Pending
  <2>2. Pending(io'[t]) = {}
    <3>1. \A i \in DOMAIN io'[t].slots : io'[t].slots[i].src = Nil
      BY <1>2, <1>5, <1>9
    <3> QED BY <3>1 DEF Pending
  <2>3. Pending(io[t]) = {}
    <3>1. from[t] = Nil
      BY Pairs
    <3> QED BY <1>1, <3>1, Pairs DEF owing
  <2>4. \A c \in Blocks : (c \in owing' <=> Pending(io'[c]) # {}) /\ (c \in owing <=> Pending(io[c]) # {})
    BY DEF owing
  <2>5. owing \subseteq Blocks /\ owing' \subseteq Blocks
    BY DEF owing
  <2> QED BY <2>1, <2>2, <2>3, <2>4, <2>5
<1>13. Single'
  <2>1. \A c \in Blocks : Narrow(c, io[c])
    BY AllNarrow
  <2>2. Narrow(t, io'[t]) /\ io'[t].inUse = 1
    <3>1. io'[t].outs = io[t].outs /\ io'[t].inUse = 1
          /\ io'[t].inCount = io[t].inCount /\ io'[t].outCount = io[t].outCount
          /\ Len(io'[t].slots) = Len(io[t].slots)
      BY <1>4, <1>5, <1>9
    <3> QED BY <1>1, <2>1, <3>1 DEF Narrow
  <2>3. Narrow(b, io'[b]) /\ io'[b].inUse = io[b].inUse
    <3>1. io'[b].slots = io[b].slots /\ io'[b].inUse = io[b].inUse /\ Len(io'[b].outs) = 1
          /\ io'[b].inCount = io[b].inCount /\ io'[b].outCount = io[b].outCount
      BY <1>6, <1>8, <1>9
    <3> QED BY <1>1, <2>1, <3>1 DEF Narrow
  <2>4. \A c \in Blocks : Narrow(c, io'[c])
    BY <1>9, <2>1, <2>2, <2>3
  <2>5. \A c \in Receivers \cap registered' : io'[c].inUse = 1
    <3>1. \A c \in Receivers \cap registered : io[c].inUse = 1
      BY DEF Base, Single
    <3> QED BY <1>9, <2>2, <2>3, <3>1, Ends
  <2>6. \A c \in Cores : level[c] = 1
    BY DEF Base, Single
  <2>7. Senders \subseteq Blocks /\ Outputs \subseteq Blocks /\ Inputs \subseteq Blocks
    BY Ends, BlockFacts
  <2> QED BY <2>4, <2>5, <2>6, <2>7 DEF Single, Narrow
<1> QED BY <1>10, <1>11, <1>12, <1>13

\* The done flags are reset: the block owes its gradient for the next call.
LEMMA ResetViews ==
    ASSUME Base, NEW b \in Blocks, UNCHANGED <<level, registered>>,
           io' = [io EXCEPT ![b] = ResetDone(io[b])]
    PROVE  /\ UNCHANGED <<to, age, grad, from, got, gave>>
           /\ owing' \cup {b} = owing \cup {b}
           /\ Single'
<1> DEFINE s == [i \in DOMAIN io[b].slots |-> [io[b].slots[i] EXCEPT !.done = FALSE]]
           y == ResetDone(io[b])
<1>1. /\ io[b] \in IoType /\ io \in [Blocks -> IoType] /\ io[b].slots \in Seq(SlotType)
      /\ \A i \in DOMAIN io[b].slots : io[b].slots[i] \in SlotType
      /\ DOMAIN io[b].slots = 1..Len(io[b].slots) /\ Len(io[b].slots) \in Nat
  <2>1. io[b].slots \in Seq(SlotType) /\ io \in [Blocks -> IoType]
    BY IoFacts DEF Base
  <2> QED BY <2>1, Entries
<1>2. /\ y.slots = s /\ y.outs = io[b].outs /\ y.inUse = io[b].inUse
      /\ y.inCount = io[b].inCount /\ y.outCount = io[b].outCount
  BY <1>1 DEF ResetDone, IoType
<1>3. /\ DOMAIN s = DOMAIN io[b].slots
      /\ \A i \in DOMAIN s : /\ s[i].src = io[b].slots[i].src /\ s[i].data = io[b].slots[i].data
                             /\ s[i].delta = io[b].slots[i].delta
  BY <1>1 DEF SlotType
<1>4. Len(s) = Len(io[b].slots)
  BY <1>1, <1>3
<1> HIDE DEF s, y
<1>5. io'[b] = y /\ \A c \in Blocks : c # b => io'[c] = io[c]
  BY <1>1 DEF y
<1>6. UNCHANGED <<to, age, grad>>
  <2>1. \A c \in Senders : io'[c].outs = io[c].outs
    BY <1>2, <1>5, Ends
  <2> QED BY <2>1, SameSenders
<1>7. UNCHANGED <<from, got, gave>>
  <2>1. \A c \in Receivers : /\ io'[c].slots[1].src = io[c].slots[1].src
                             /\ io'[c].slots[1].data = io[c].slots[1].data
                             /\ io'[c].slots[1].delta = io[c].slots[1].delta
    <3> SUFFICES ASSUME NEW c \in Receivers
                 PROVE  /\ io'[c].slots[1].src = io[c].slots[1].src
                        /\ io'[c].slots[1].data = io[c].slots[1].data
                        /\ io'[c].slots[1].delta = io[c].slots[1].delta
      OBVIOUS
    <3>1. c \in Blocks /\ 1 \in DOMAIN io[c].slots
      BY Ends
    <3> QED BY <1>2, <1>3, <1>5, <3>1
  <2> QED BY <2>1 DEF from, got, gave
<1>8. owing' \cup {b} = owing \cup {b}
  <2>1. \A c \in Blocks : c # b => Pending(io'[c]) = Pending(io[c])
    BY <1>5
  <2>2. \A c \in Blocks : (c \in owing' <=> Pending(io'[c]) # {}) /\ (c \in owing <=> Pending(io[c]) # {})
    BY DEF owing
  <2>3. owing \subseteq Blocks /\ owing' \subseteq Blocks
    BY DEF owing
  <2> QED BY <2>1, <2>2, <2>3
<1>9. Single'
  <2>1. \A c \in Blocks : Narrow(c, io'[c]) /\ io'[c].inUse = io[c].inUse
    <3>1. \A c \in Blocks : Narrow(c, io[c])
      BY AllNarrow
    <3>2. Narrow(b, io'[b]) /\ io'[b].inUse = io[b].inUse
      BY <1>2, <1>4, <1>5, <3>1 DEF Narrow
    <3> QED BY <1>5, <3>1, <3>2
  <2> QED BY <2>1, SingleKept
<1> QED BY <1>6, <1>7, <1>8, <1>9

\* A step that leaves the io of all blocks alone.
LEMMA IdleViews ==
    ASSUME Base, UNCHANGED <<io, level, registered>>
    PROVE  UNCHANGED <<to, age, grad, from, got, gave, owing>> /\ Single'
<1>1. UNCHANGED <<to, age, grad, from, got, gave, owing>>
  BY DEF to, age, grad, from, got, gave, owing
<1>2. Single'
  BY DEF Base, Single
<1> QED BY <1>1, <1>2
-----------------------------------------------------------------------------
(* The wave, step by step: which blocks join the sets above.               *)

\* The types of what the wave sees.
LEMMA WaveTypes ==
    ASSUME Base
    PROVE  /\ call \in Nat
           /\ fresh \subseteq Senders /\ back \subseteq Senders /\ paid \subseteq Receivers
           /\ reached \subseteq Blocks /\ owing \subseteq Blocks
           /\ registered \subseteq Blocks /\ Senders \subseteq Blocks /\ Receivers \subseteq Blocks
           /\ Blocks = Inputs \cup Receivers /\ Blocks = Senders \cup Outputs
           /\ Nil \notin Blocks /\ Nil \notin reached
           /\ \A i \in Inputs : i \in Senders /\ i \notin Receivers /\ (i \in reached <=> i \in fresh)
           /\ \A b \in Receivers : b \notin Inputs
                                   /\ (b \in reached <=> call > 0 /\ from[b] # Nil /\ got[b] = call)
           /\ \A b \in Outputs : b \notin Senders /\ b \in Receivers
           /\ \A b \in Cores : b \in Senders /\ b \in Receivers
<1>1. call \in Nat /\ registered \subseteq Blocks
  BY CallAssumption DEF Base, TypeOK
<1>2. Senders \subseteq Blocks /\ Receivers \subseteq Blocks /\ Blocks = Inputs \cup Receivers
      /\ Blocks = Senders \cup Outputs /\ Nil \notin Blocks
  BY Ends, Views
<1>3. /\ fresh \subseteq Senders /\ back \subseteq Senders /\ paid \subseteq Receivers
      /\ reached \subseteq Blocks /\ owing \subseteq Blocks
  BY DEF fresh, back, paid, reached, owing
<1>4. /\ \A i \in Inputs : i \in Senders /\ i \notin Receivers
      /\ \A b \in Receivers : b \notin Inputs
      /\ \A b \in Outputs : b \notin Senders /\ b \in Receivers
      /\ \A b \in Cores : b \in Senders /\ b \in Receivers
  BY BlockFacts DEF Senders, Receivers
<1>5. /\ \A i \in Inputs : i \in reached <=> i \in fresh
      /\ \A b \in Receivers : b \in reached <=> call > 0 /\ from[b] # Nil /\ got[b] = call
  BY <1>2, <1>4 DEF reached
<1> QED BY <1>1, <1>2, <1>3, <1>4, <1>5

\* A worker that has something left to do.
LEMMA Busy ==
    ASSUME Base, Working, NEW w \in Workers, pc[w] \notin {"idle", "release"},
           pc[w] # "return" \/ task[w].block \in owing
    PROVE  /\ Work(task[w], pc[w]) /\ w \in active
           /\ task[w] \in TaskType /\ task[w].block \in Blocks
           /\ task[w].block \in registered /\ task[w].block \in reached /\ Running
           /\ call > 0
<1>1. w \in active
  BY DEF active
<1>2. <<task[w], pc[w]>> \in sound
  BY <1>1 DEF Working
<1>3. Work(task[w], pc[w])
  BY <1>2 DEF sound
<1>4. task[w].block \in registered /\ task[w].block \in reached /\ Running
  BY <1>3 DEF Work
<1>5. call > 0
  BY <1>4 DEF reached, fresh
<1> QED BY <1>1, <1>3, <1>4, <1>5, OwnBlock DEF Base

\* A block does not send to itself, and has one source at most.
LEMMA NoLoop ==
    ASSUME Base, SeparateChains, Rooted, NEW a \in Senders, to[a] # Nil
    PROVE  /\ to[a] # a /\ to[a] \in Receivers /\ a \in registered /\ to[a] \in registered
           /\ \A c \in Senders : to[c] = to[a] => c = a
           /\ from[to[a]] \in {a, Nil}
           /\ to[a] \in reached => from[to[a]] = a
<1>1. /\ to[a] \in Receivers /\ to[a] \in registered /\ a \in registered
      /\ \A c \in Senders : to[c] = to[a] => c = a
  BY Views, Pairs DEF Rooted
<1>2. from[to[a]] \in {a, Nil}
  <2>1. from[to[a]] \in Senders \cup {Nil}
    BY <1>1, Views
  <2>2. from[to[a]] # Nil => to[from[to[a]]] = to[a]
    BY <1>1, Pairs
  <2> QED BY <1>1, <2>1, <2>2
<1>3. to[a] \in reached => from[to[a]] = a
  BY <1>1, <1>2, WaveTypes
<1>4. to[a] # a
  <2> SUFFICES ASSUME to[a] = a PROVE FALSE
    OBVIOUS
  <2>1. a \in Cores
    BY <1>1, WaveTypes DEF Receivers
  <2>2. HexOf[a] \in Possible[HexOf[a]]
    BY DEF Rooted
  <2>3. PICK rank \in [Senders -> 0..Cardinality(Cores)] :
           \A b \in Senders, c \in Cores : HexOf[c] \in Possible[HexOf[b]] => rank[b] < rank[c]
    BY DEF SeparateChains
  <2>4. rank[a] < rank[a] /\ rank[a] \in 0..Cardinality(Cores)
    BY <2>1, <2>2, <2>3
  <2>5. Cardinality(Cores) \in Nat
    BY FS_CardinalityType DEF SeparateChains
  <2> QED BY <2>4, <2>5
<1> QED BY <1>1, <1>2, <1>3, <1>4

\* A step that leaves the io of all blocks alone, in the same call.
LEMMA QuietWave ==
    ASSUME Base, UNCHANGED <<io, level, registered, call>>
    PROVE  UNCHANGED <<to, age, grad, from, got, gave, owing, fresh, back, paid, reached>> /\ Single'
           /\ (Bounded => Bounded')
<1>1. UNCHANGED <<to, age, grad, from, got, gave, owing>> /\ Single'
  BY IdleViews
<1>2. UNCHANGED <<fresh, back, paid, reached>>
  BY <1>1 DEF fresh, back, paid, reached
<1> QED BY <1>1, <1>2 DEF Bounded

\* An input is given its potentials.
LEMMA ApplyWave ==
    ASSUME Base, SeparateChains, Client1, ApplyPlainInput
    PROVE  /\ arg \in Inputs /\ fresh' = fresh \cup {arg} /\ reached' = reached \cup {arg}
           /\ UNCHANGED <<to, from, owing, back, paid, registered, call>> /\ Single'
           /\ (Bounded => Bounded')
<1>1. /\ arg \in Inputs /\ age' = [age EXCEPT ![arg] = call]
      /\ UNCHANGED <<to, grad, from, got, gave, owing>> /\ Single'
      /\ UNCHANGED <<call, registered>> /\ call > 0
  BY ApplyViews DEF ApplyPlainInput, Client1
<1>2. arg \in Senders /\ age \in [Senders -> Nat] /\ call \in Nat /\ arg \notin Receivers
  BY <1>1, WaveTypes, Views
<1>3. fresh' = fresh \cup {arg}
  BY <1>1, <1>2 DEF fresh
<1>4. UNCHANGED <<back, paid>>
  BY <1>1 DEF back, paid
<1>5. reached' = reached \cup {arg}
  BY <1>1, <1>3, WaveTypes DEF reached
<1>6. Bounded => Bounded'
  BY <1>1, <1>2 DEF Bounded
<1> QED BY <1>1, <1>3, <1>4, <1>5, <1>6

\* A core block has its potentials ready.
LEMMA ForwardWave ==
    ASSUME Base, SeparateChains, Working, NEW w \in Workers, TrainCore(w) \/ ProcessCore(w)
    PROVE  LET b == task[w].block
           IN  /\ b \in Cores /\ fresh' = fresh \cup {b}
               /\ UNCHANGED <<to, from, owing, back, paid, reached, registered, call>> /\ Single'
               /\ (Bounded => Bounded')
<1> DEFINE b == task[w].block
<1>1. pc[w] = "body" /\ b \in Cores /\ task[w].type \in {"Train", "Process"}
      /\ UNCHANGED <<call, registered>>
  BY DEF TrainCore, ProcessCore, At, clientVars
<1>2. Work(task[w], "body") /\ b \in registered /\ b \in reached /\ call > 0
  BY <1>1, Busy
<1>3. b \in Senders /\ b \in Receivers /\ b \notin back /\ got[b] = call
  <2>1. b \in Senders /\ b \in Receivers
    BY <1>1, WaveTypes
  <2>2. b \notin back
    BY <1>1, <1>2, <2>1 DEF Work, Ahead, Forwards
  <2>3. got[b] = call
    BY <1>2, <2>1, WaveTypes
  <2> QED BY <2>1, <2>2, <2>3
<1>4. io[b].inUse = 1
  BY <1>2, <1>3 DEF Base, Single
<1>5. /\ age' = [age EXCEPT ![b] = got[b]] /\ grad' = [grad EXCEPT ![b] = 0]
      /\ UNCHANGED <<to, from, got, gave, owing>> /\ Single'
  BY <1>4, PassViews
<1>6. age \in [Senders -> Nat] /\ grad \in [Senders -> Nat] /\ call \in Nat
  BY WaveTypes, Views
<1> HIDE DEF b
<1>7. fresh' = fresh \cup {b}
  BY <1>1, <1>2, <1>3, <1>5, <1>6 DEF fresh
<1>8. back' = back
  BY <1>1, <1>2, <1>3, <1>5, <1>6 DEF back
<1>9. paid' = paid
  BY <1>1, <1>5 DEF paid
<1>10. reached' = reached
  <2>1. \A i \in Inputs : i \in fresh' <=> i \in fresh
    BY <1>1, <1>7, BlockFacts
  <2> QED BY <1>1, <1>5, <2>1 DEF reached
<1>11. Bounded => Bounded'
  BY <1>1, <1>2, <1>3, <1>5, <1>6 DEF Bounded
<1> QED BY <1>1, <1>5, <1>7, <1>8, <1>9, <1>10, <1>11 DEF b

\* A block has the gradient of this call for its source.
LEMMA GradientWave ==
    ASSUME Base, SeparateChains, Working, Edges, Training, NEW w \in Workers,
           BackpropagateCore(w) \/ BackpropagateOutput(w)
    PROVE  LET b == task[w].block
           IN  /\ b \in Receivers /\ paid' = paid \cup {b}
               /\ UNCHANGED <<to, from, owing, fresh, back, reached, registered, call>> /\ Single'
               /\ (Bounded => Bounded')
<1> DEFINE b == task[w].block
<1>1. /\ UNCHANGED <<call, registered, level>> /\ pc[w] \in {"body", "gradient"}
      /\ BackpropagateCore(w) => b \in Cores /\ pc[w] = "body" /\ task[w].type = "Backpropagate"
      /\ BackpropagateOutput(w) => pc[w] = "gradient"
  BY DEF BackpropagateCore, BackpropagateOutput, At, clientVars
<1>2. Work(task[w], pc[w]) /\ b \in registered /\ b \in reached /\ call > 0 /\ Running
  BY <1>1, Busy
<1>3. BackpropagateOutput(w) => b \in Outputs
  BY <1>1 DEF Base, LockDiscipline
<1>4. b \in Receivers
  BY <1>1, <1>3, WaveTypes
<1>5. io[b].inUse = 1
  BY <1>2, <1>4 DEF Base, Single
<1>6. io' = [io EXCEPT ![b] = PassBackward(io[b], call)]
  <2>1. CASE BackpropagateCore(w)
    <3>1. b \in Cores /\ b \in Senders /\ ~Forwards(task[w])
      BY <1>1, <2>1, WaveTypes DEF Forwards
    <3>2. b \in back
      BY <1>2, <3>1 DEF Work, Home
    <3>3. grad[b] = call /\ to[b] # Nil
      BY <3>1, <3>2 DEF back, Edges
    <3>4. DeltaAge(io[b]) = call
      BY <1>4, <1>5, <3>1, <3>3, PassAges
    <3> QED BY <2>1, <3>4 DEF BackpropagateCore
  <2>2. CASE BackpropagateOutput(w)
    <3>1. b \in Outputs /\ pc[w] = "gradient"
      BY <1>1, <1>3, <2>2
    <3>2. kind = "train"
      BY <1>2, <3>1 DEF Work, AtOutput
    <3>3. BufferOf[b] \in Buffers
      BY <3>1, BlockAssumption
    <3>4. buffer[BufferOf[b]].expected.of = call
      BY <1>2, <3>2, <3>3 DEF Training
    <3> QED BY <2>2, <3>4 DEF BackpropagateOutput
  <2> QED BY <2>1, <2>2
<1>7. /\ gave' = [gave EXCEPT ![b] = call]
      /\ UNCHANGED <<to, age, grad, from, got, owing>> /\ Single'
  BY <1>1, <1>4, <1>5, <1>6, GiveViews
<1>8. gave \in [Receivers -> Nat] /\ call \in Nat
  BY WaveTypes, Views
<1> HIDE DEF b
<1>9. paid' = paid \cup {b}
  BY <1>1, <1>2, <1>4, <1>7, <1>8 DEF paid
<1>10. UNCHANGED <<fresh, back, reached>>
  BY <1>1, <1>7 DEF fresh, back, reached
<1>11. Bounded => Bounded'
  BY <1>1, <1>4, <1>7, <1>8 DEF Bounded
<1> QED BY <1>1, <1>4, <1>7, <1>9, <1>10, <1>11 DEF b

\* A gradient goes back to the source.
LEMMA ReturnWave ==
    ASSUME Base, SeparateChains, Rooted, Edges, NEW b \in Receivers, b \in reached, b \in paid,
           io' = SentBack(b, 1), UNCHANGED <<level, registered, call>>
    PROVE  /\ from[b] \in Senders /\ to[from[b]] = b /\ back' = back \cup {from[b]}
           /\ b \notin owing' /\ owing' \cup {b} = owing \cup {b}
           /\ UNCHANGED <<to, from, fresh, reached, paid>> /\ Single'
           /\ (Bounded => Bounded')
<1> DEFINE a == from[b]
<1>1. a # Nil /\ got[b] = call /\ call > 0 /\ gave[b] = call
  BY WaveTypes DEF paid
<1>2. /\ a \in Senders /\ to[a] = b
      /\ age' = [age EXCEPT ![a] = call] /\ grad' = [grad EXCEPT ![a] = call]
      /\ UNCHANGED <<to, from, got, gave>>
      /\ b \notin owing' /\ owing' \cup {b} = owing \cup {b} /\ Single'
  BY <1>1, ReturnViews
<1>3. /\ age \in [Senders -> Nat] /\ grad \in [Senders -> Nat] /\ call \in Nat
      /\ gave \in [Receivers -> Nat] /\ got \in [Receivers -> Nat]
  BY WaveTypes, Views
<1> HIDE DEF a
<1>4. a \in fresh /\ age[a] = call
  BY <1>2 DEF Edges, fresh
<1>5. age' = age
  BY <1>2, <1>3, <1>4
<1>6. back' = back \cup {a}
  BY <1>1, <1>2, <1>3 DEF back
<1>7. UNCHANGED <<fresh, paid>>
  BY <1>2, <1>5 DEF fresh, paid
<1>8. UNCHANGED reached
  BY <1>2, <1>7 DEF reached
<1>9. Bounded => Bounded'
  BY <1>2, <1>3, <1>5 DEF Bounded
<1> QED BY <1>2, <1>6, <1>7, <1>8, <1>9 DEF a

\* A section is sent.
LEMMA SendWave ==
    ASSUME Base, NEW b \in Senders, to[b] # Nil, b \in fresh, b \notin back,
           UNCHANGED <<level, registered, call>>,
           io' = [io EXCEPT ![to[b]] = Receive(io[to[b]], b, 1, io[b].outs[1])]
    PROVE  LET t == to[b]
           IN  /\ InputsComplete(io[t])
               /\ t \in Receivers /\ from' = [from EXCEPT ![t] = b]
               /\ reached' = reached \cup {t} /\ paid' = paid \ {t}
               /\ UNCHANGED <<to, fresh, back>>
               /\ owing' \cup {t} = owing \cup {t} /\ Single'
               /\ (Bounded => Bounded')
<1> DEFINE t == to[b]
<1>1. t \in Receivers /\ age[b] = call /\ call > 0 /\ grad[b] # call /\ b # Nil /\ t \notin Inputs
      /\ t \in Blocks
  BY WaveTypes, Views DEF fresh, back
<1>2. /\ InputsComplete(io[t])
      /\ from' = [from EXCEPT ![t] = b]
      /\ got' = [got EXCEPT ![t] = age[b]] /\ gave' = [gave EXCEPT ![t] = grad[b]]
      /\ UNCHANGED <<to, age, grad>>
      /\ owing' \cup {t} = owing \cup {t} /\ Single'
  BY SendViews
<1>3. /\ age \in [Senders -> Nat] /\ grad \in [Senders -> Nat] /\ call \in Nat
      /\ gave \in [Receivers -> Nat] /\ got \in [Receivers -> Nat]
      /\ from \in [Receivers -> Senders \cup {Nil}]
  BY WaveTypes, Views
<1> HIDE DEF t
<1>4. UNCHANGED <<fresh, back>>
  BY <1>2 DEF fresh, back
<1>5. paid' = paid \ {t}
  BY <1>1, <1>2, <1>3 DEF paid
<1>6. reached' = reached \cup {t}
  <2>1. \A c \in Receivers : c # t => from'[c] = from[c] /\ got'[c] = got[c]
    BY <1>2, <1>3
  <2>2. from'[t] = b /\ got'[t] = call
    BY <1>1, <1>2, <1>3
  <2>3. \A c \in Blocks : c \notin Inputs => c \in Receivers
    BY WaveTypes
  <2>4. \A c \in Blocks : c # t => (c \in reached' <=> c \in reached)
    BY <1>4, <2>1, <2>3 DEF reached
  <2>5. t \in reached'
    BY <1>1, <2>2 DEF reached
  <2>6. reached' \subseteq Blocks /\ reached \subseteq Blocks
    BY DEF reached
  <2> QED BY <1>1, <2>4, <2>5, <2>6
<1>7. Bounded => Bounded'
  BY <1>1, <1>2, <1>3 DEF Bounded
<1> QED BY <1>1, <1>2, <1>4, <1>5, <1>6, <1>7 DEF t

\* A block is created and connected.
LEMMA CreateWave ==
    ASSUME Base, NEW b \in Senders, to[b] = Nil, NEW t \in Receivers, t \notin registered, b # t,
           b \notin back,
           UNCHANGED <<level, call>>, registered' = registered \cup {t},
           io' = [[io EXCEPT ![t] = TakeInput(io[t], 1, io[b].outs[1])]
                     EXCEPT ![b] = LinkSection(io[b], 1, t, io[t].inUse + 1)]
    PROVE  /\ to' = [to EXCEPT ![b] = t] /\ t \notin reached
           /\ paid' = paid \ {t}
           /\ UNCHANGED <<from, fresh, back, reached, owing>> /\ Single'
           /\ (Bounded => Bounded')
<1>1. /\ to' = [to EXCEPT ![b] = t]
      /\ got' = [got EXCEPT ![t] = age[b]] /\ gave' = [gave EXCEPT ![t] = grad[b]]
      /\ UNCHANGED <<age, grad, from, owing>> /\ Single'
  BY CreateViews
<1>2. /\ age \in [Senders -> Nat] /\ grad \in [Senders -> Nat] /\ call \in Nat
      /\ gave \in [Receivers -> Nat] /\ got \in [Receivers -> Nat]
  BY WaveTypes, Views
<1>3. from[t] = Nil /\ t \notin reached
  BY Pairs, WaveTypes
<1>4. call > 0 => grad[b] # call
  BY DEF back
<1>5. UNCHANGED <<fresh, back>>
  BY <1>1 DEF fresh, back
<1>6. paid' = paid \ {t}
  BY <1>1, <1>2, <1>4 DEF paid
<1>7. reached' = reached
  <2>1. \A c \in Receivers : c # t => from'[c] = from[c] /\ got'[c] = got[c]
    BY <1>1, <1>2
  <2>2. from'[t] = Nil /\ t \notin Inputs
    BY <1>1, <1>3, WaveTypes
  <2>3. \A c \in Blocks : c \notin Inputs => c \in Receivers
    BY WaveTypes
  <2>4. \A c \in Blocks : (c \in reached' <=> c \in reached)
    BY <1>3, <1>5, <2>1, <2>2, <2>3 DEF reached
  <2>5. reached' \subseteq Blocks /\ reached \subseteq Blocks
    BY DEF reached
  <2> QED BY <2>4, <2>5
<1>8. Bounded => Bounded'
  BY <1>1, <1>2 DEF Bounded
<1> QED BY <1>1, <1>3, <1>5, <1>6, <1>7, <1>8

\* The done flags of a block are reset.
LEMMA ResetWave ==
    ASSUME Base, NEW b \in Blocks, UNCHANGED <<level, registered, call>>,
           io' = [io EXCEPT ![b] = ResetDone(io[b])]
    PROVE  /\ UNCHANGED <<to, from, fresh, back, paid, reached>>
           /\ owing' \cup {b} = owing \cup {b} /\ Single'
           /\ (Bounded => Bounded')
<1>1. /\ UNCHANGED <<to, age, grad, from, got, gave>>
      /\ owing' \cup {b} = owing \cup {b} /\ Single'
  BY ResetViews
<1>2. UNCHANGED <<fresh, back, paid, reached>>
  BY <1>1 DEF fresh, back, paid, reached
<1> QED BY <1>1, <1>2 DEF Bounded

\* A call begins: nothing is of this call.
LEMMA BeginWave ==
    ASSUME Base, Bounded, BeginCall
    PROVE  /\ fresh' = {} /\ back' = {} /\ paid' = {} /\ reached' = {}
           /\ UNCHANGED <<to, from, owing, registered>> /\ Single' /\ Bounded'
<1>1. UNCHANGED <<io, level, registered>> /\ call' = call + 1
  BY DEF BeginCall
<1>2. UNCHANGED <<to, age, grad, from, got, gave, owing>> /\ Single'
  BY <1>1, IdleViews
<1>3. /\ age \in [Senders -> Nat] /\ grad \in [Senders -> Nat] /\ call \in Nat
      /\ gave \in [Receivers -> Nat] /\ got \in [Receivers -> Nat]
  BY WaveTypes, Views
<1>4. fresh' = {} /\ back' = {} /\ paid' = {}
  BY <1>1, <1>2, <1>3 DEF fresh, back, paid, Bounded
<1>5. reached' = {}
  <2>1. \A c \in Blocks : c \notin Inputs => c \in Receivers
    BY WaveTypes
  <2>2. \A c \in Receivers : got[c] # call'
    BY <1>1, <1>3 DEF Bounded
  <2>3. \A c \in Blocks : c \notin reached'
    BY <1>2, <1>4, <2>1, <2>2 DEF reached
  <2> QED BY <2>3 DEF reached
<1>6. Bounded'
  BY <1>1, <1>2, <1>3 DEF Bounded
<1> QED BY <1>1, <1>2, <1>4, <1>5, <1>6
-----------------------------------------------------------------------------
(* The tasks of a call, step by step.                                      *)

\* What a task of another block says is so after the step as well.
LEMMA SoundFrame ==
    ASSUME NEW j \in sound, UNCHANGED <<Running, kind>>,
           LET c == j[1].block
           IN  /\ c \in registered' /\ c \in reached' /\ (c \in fresh => c \in fresh')
               /\ c \in Senders => /\ to'[c] = to[c]
                                   /\ c \in back' <=> c \in back
                                   /\ to[c] \in reached' => to[c] \in reached
               /\ c \in Receivers => /\ from'[c] = from[c]
                                     /\ from[c] \in back' => from[c] \in back
                                     /\ c \in paid => c \in paid'
               /\ c \in attached' <=> c \in attached
               /\ c \in sized => c \in sized'
               /\ c \in counted' => c \in counted
               /\ c \in parked' => c \in parked
    PROVE  j \in sound'
<1> DEFINE c == j[1].block
           l == j[2]
<1>1. j \in TaskType \X Places /\ Work(j[1], l)
  BY DEF sound
<1>2. c \in Outputs => c \in Receivers
  BY DEF Receivers
<1>3. c \in Cores => c \in Receivers
  BY DEF Receivers
<1>4. c \in Senders /\ Forwards(j[1]) => Ahead(c, l)'
  BY <1>1 DEF Work, Ahead
<1>5. c \in Senders /\ ~Forwards(j[1]) => Home(c, l)'
  BY <1>1, <1>3 DEF Work, Home
<1>6. c \in Outputs => AtOutput(c, l, Forwards(j[1]))'
  BY <1>1, <1>2 DEF Work, AtOutput
<1>7. Work(j[1], l)'
  BY <1>1, <1>4, <1>5, <1>6 DEF Work, Forwards
<1> QED BY <1>1, <1>7 DEF sound

\* Nothing a task says changes.
LEMMA SameSound ==
    ASSUME UNCHANGED <<registered, to, from, fresh, back, paid, reached, attached, sized, counted,
                       parked, Running, kind>>
    PROVE  sound' = sound
BY DEF sound, Work, Ahead, Home, AtOutput

\* The entries of two sequences, one after the other.
LEMMA Joined ==
    ASSUME NEW S, NEW s \in Seq(S), NEW t \in Seq(S)
    PROVE  /\ s \o t \in Seq(S)
           /\ \A k \in DOMAIN (s \o t) :
                 \/ k \in DOMAIN s /\ (s \o t)[k] = s[k]
                 \/ k \notin DOMAIN s /\ k - Len(s) \in DOMAIN t /\ (s \o t)[k] = t[k - Len(s)]
           /\ \A k \in DOMAIN s : k \in DOMAIN (s \o t) /\ (s \o t)[k] = s[k]
           /\ \A k \in DOMAIN t : k + Len(s) \in DOMAIN (s \o t) /\ (s \o t)[k + Len(s)] = t[k]
           /\ t = <<>> => s \o t = s
OBVIOUS

\* The tasks in the queue, after some were added.
LEMMA QueuedAfter ==
    ASSUME Base, NEW ts \in Seq(TaskType), queue' = queue \o ts
    PROVE  queued' = queued \cup {ts[k].block : k \in DOMAIN ts}
<1> DEFINE q == queue \o ts
<1>1. queue \in Seq(TaskType)
  BY DEF Base, TypeOK
<1>2. /\ \A k \in DOMAIN q :
            \/ k \in DOMAIN queue /\ q[k] = queue[k]
            \/ k \notin DOMAIN queue /\ k - Len(queue) \in DOMAIN ts /\ q[k] = ts[k - Len(queue)]
      /\ \A k \in DOMAIN queue : k \in DOMAIN q /\ q[k] = queue[k]
      /\ \A k \in DOMAIN ts : k + Len(queue) \in DOMAIN q /\ q[k + Len(queue)] = ts[k]
  BY <1>1, Joined
<1> HIDE DEF q
<1>3. queue' = q
  BY DEF q
<1>4. queued' \subseteq queued \cup {ts[k].block : k \in DOMAIN ts}
  BY <1>2, <1>3 DEF queued
<1>5. queued \subseteq queued'
  BY <1>2, <1>3 DEF queued
<1>6. \A k \in DOMAIN ts : ts[k].block \in queued'
  BY <1>2, <1>3 DEF queued
<1> QED BY <1>4, <1>5, <1>6

\* A worker goes on or ends its task, and queues tasks of blocks without one.
LEMMA JobsStep ==
    ASSUME Base, Working, OneTask, Cycles, NEW w \in Workers, NEW ts \in Seq(TaskType),
           pc[w] # "idle", queue' = queue \o ts,
           \A v \in Workers : v # w => pc'[v] = pc[v] /\ task'[v] = task[v],
           task'[w] = task[w] \/ pc'[w] = "idle",
           \A v \in Workers : v # w /\ v \in active' => v \in active,
           \A j \in sound : j[1].block # task[w].block => j \in sound',
           w \in active' => <<task'[w], pc'[w]>> \in sound',
           \A k \in DOMAIN ts : /\ <<ts[k], "queue">> \in sound' /\ ts[k].cycle = Cycle
                                /\ ts[k].block \notin queued /\ ts[k].block \notin taken,
           \A i, k \in DOMAIN ts : ts[i].block = ts[k].block => i = k,
           counter'.expected = counter.expected
    PROVE  Working' /\ OneTask' /\ Cycles'
<1> DEFINE q == queue \o ts
<1>1. /\ queue \in Seq(TaskType)
      /\ \A k \in DOMAIN q :
            \/ k \in DOMAIN queue /\ q[k] = queue[k]
            \/ k \notin DOMAIN queue /\ k - Len(queue) \in DOMAIN ts /\ q[k] = ts[k - Len(queue)]
      /\ q \in Seq(TaskType)
  BY Joined DEF Base, TypeOK
<1> HIDE DEF q
<1>2. queue' = q
  BY DEF q
<1>3. /\ \A k \in DOMAIN queue : queue[k].block # task[w].block /\ queue[k].block \in queued
      /\ \A v \in Workers : pc[v] # "idle" => task[v].block \in taken
      /\ \A v \in Workers : v # w /\ pc[v] # "idle" => task[v].block # task[w].block
  <2>1. \A k \in DOMAIN queue : queue[k].block \in queued
    BY DEF queued
  <2>2. \A v \in Workers : pc[v] # "idle" => task[v].block \in taken
    BY DEF taken
  <2>3. \A k \in DOMAIN queue : queue[k].block # task[w].block
    BY <2>1, <2>2, Zenon DEF OneTask
  <2>4. \A v \in Workers : v # w /\ pc[v] # "idle" => task[v].block # task[w].block
    BY Zenon DEF OneTask
  <2> QED BY <2>1, <2>2, <2>3, <2>4
<1>4. \A k \in DOMAIN queue : <<queue[k], "queue">> \in sound'
  BY <1>3 DEF Working
<1>5. \A v \in active : v \in Workers /\ pc[v] # "idle"
  BY DEF active
<1>6. ASSUME NEW v \in Workers, v # w, v \in active'
      PROVE  <<task'[v], pc'[v]>> \in sound'
  <2>1. v \in active /\ task'[v] = task[v] /\ pc'[v] = pc[v]
    BY <1>6
  <2>2. <<task[v], pc[v]>> \in sound /\ task[v].block # task[w].block
    BY <1>3, <1>5, <1>6, <2>1 DEF Working
  <2> QED BY <2>1, <2>2
<1>7. active' \subseteq Workers
  BY DEF active
<1>8. Working'
  <2>1. \A k \in DOMAIN q : <<q[k], "queue">> \in sound'
    BY <1>1, <1>4
  <2>2. \A v \in active' : <<task'[v], pc'[v]>> \in sound'
    BY <1>6, <1>7
  <2> QED BY <1>2, <2>1, <2>2 DEF Working
<1>9. /\ \A v \in Workers : pc'[v] # "idle" => pc[v] # "idle" /\ task'[v] = task[v]
      /\ taken' \subseteq taken
  <2>1. \A v \in Workers : pc'[v] # "idle" => pc[v] # "idle" /\ task'[v] = task[v]
    OBVIOUS
  <2> QED BY <2>1 DEF taken
<1>10. queued' = queued \cup {ts[k].block : k \in DOMAIN ts}
  BY QueuedAfter
<1>11. OneTask'
  <2>1. ASSUME NEW i \in DOMAIN q, NEW k \in DOMAIN q, q[i].block = q[k].block
        PROVE  i = k
    <3>1. CASE i \in DOMAIN queue /\ k \in DOMAIN queue
      BY <1>1, <2>1, <3>1 DEF OneTask
    <3>2. CASE i \notin DOMAIN queue /\ k \notin DOMAIN queue
      <4>1. i - Len(queue) = k - Len(queue) /\ i \in Nat /\ k \in Nat /\ Len(queue) \in Nat
        <5>1. /\ i - Len(queue) \in DOMAIN ts /\ q[i] = ts[i - Len(queue)]
              /\ k - Len(queue) \in DOMAIN ts /\ q[k] = ts[k - Len(queue)]
          BY <1>1, <3>2
        <5>2. i \in Nat /\ k \in Nat /\ Len(queue) \in Nat
          BY <1>1
        <5> QED BY <2>1, <5>1, <5>2
      <4> QED BY <4>1
    <3>3. ASSUME NEW j \in DOMAIN q, j \notin DOMAIN queue PROVE q[j].block \notin queued
      <4>1. j - Len(queue) \in DOMAIN ts /\ q[j] = ts[j - Len(queue)]
        BY <1>1, <3>3
      <4> QED BY <4>1
    <3>4. ASSUME NEW j \in DOMAIN q, j \in DOMAIN queue PROVE q[j].block \in queued
      BY <1>1, <1>3, <3>4
    <3>5. CASE i \in DOMAIN queue /\ k \notin DOMAIN queue
      BY <2>1, <3>3, <3>4, <3>5
    <3>6. CASE i \notin DOMAIN queue /\ k \in DOMAIN queue
      BY <2>1, <3>3, <3>4, <3>6
    <3> QED BY <3>1, <3>2, <3>5, <3>6
  <2>2. \A u, v \in Workers :
          pc'[u] # "idle" /\ pc'[v] # "idle" /\ task'[u].block = task'[v].block => u = v
    <3>1. \A u, v \in Workers :
             pc[u] # "idle" /\ pc[v] # "idle" /\ task[u].block = task[v].block => u = v
      BY DEF OneTask
    <3> SUFFICES ASSUME NEW u \in Workers, NEW v \in Workers, pc'[u] # "idle", pc'[v] # "idle",
                        task'[u].block = task'[v].block
                 PROVE  u = v
      OBVIOUS
    <3>2. pc[u] # "idle" /\ pc[v] # "idle" /\ task[u].block = task[v].block
      BY <1>9
    <3> QED BY <3>1, <3>2
  <2>3. queued' \cap taken' = {}
    <3>1. queued \cap taken = {}
      BY DEF OneTask
    <3>2. \A b \in {ts[k].block : k \in DOMAIN ts} : b \notin taken
      OBVIOUS
    <3> QED BY <1>9, <1>10, <3>1, <3>2
  <2> QED BY <1>2, <2>1, <2>2, <2>3 DEF OneTask
<1>12. Cycles'
  <2>1. \A k \in DOMAIN q : q[k].cycle = Cycle
    <3>1. \A k \in DOMAIN queue : queue[k].cycle = Cycle
      BY DEF Cycles
    <3>2. \A k \in DOMAIN ts : ts[k].cycle = Cycle
      OBVIOUS
    <3> SUFFICES ASSUME NEW k \in DOMAIN q PROVE q[k].cycle = Cycle
      OBVIOUS
    <3>3. CASE k \in DOMAIN queue
      BY <1>1, <3>1, <3>3
    <3>4. CASE k \notin DOMAIN queue
      <4>1. k - Len(queue) \in DOMAIN ts /\ q[k] = ts[k - Len(queue)]
        BY <1>1, <3>4
      <4> QED BY <3>2, <4>1
    <3> QED BY <3>3, <3>4
  <2>2. \A v \in Workers : pc'[v] # "idle" => task'[v].cycle = Cycle
    BY <1>9 DEF Cycles
  <2> QED BY <1>2, <2>1, <2>2 DEF Cycles
<1> QED BY <1>8, <1>11, <1>12

\* The same for a step that queues nothing.
LEMMA JobsQuiet ==
    ASSUME Base, Working, OneTask, Cycles, NEW w \in Workers,
           pc[w] # "idle", queue' = queue,
           \A v \in Workers : v # w => pc'[v] = pc[v] /\ task'[v] = task[v],
           task'[w] = task[w] \/ pc'[w] = "idle",
           \A v \in Workers : v # w /\ v \in active' => v \in active,
           \A j \in sound : j[1].block # task[w].block => j \in sound',
           w \in active' => <<task'[w], pc'[w]>> \in sound',
           counter'.expected = counter.expected
    PROVE  Working' /\ OneTask' /\ Cycles' /\ queued' = queued
<1>1. queue \in Seq(TaskType) /\ <<>> \in Seq(TaskType)
  BY DEF Base, TypeOK
<1> DEFINE ts == <<>>
<1>2. queue' = queue \o ts /\ ts \in Seq(TaskType) /\ \A k : k \notin DOMAIN ts
  BY <1>1, Joined
<1>3. queued' = queued
  BY DEF queued
<1> HIDE DEF ts
<1>4. /\ \A k \in DOMAIN ts : /\ <<ts[k], "queue">> \in sound' /\ ts[k].cycle = Cycle
                              /\ ts[k].block \notin queued /\ ts[k].block \notin taken
      /\ \A i, k \in DOMAIN ts : ts[i].block = ts[k].block => i = k
  BY <1>2
<1>5. Working' /\ OneTask' /\ Cycles'
  BY <1>2, <1>4, JobsStep
<1> QED BY <1>3, <1>5

\* The same for a step that queues one task.
LEMMA JobsMore ==
    ASSUME Base, Working, OneTask, Cycles, NEW w \in Workers, NEW t \in TaskType,
           pc[w] # "idle", queue' = queue \o <<t>>,
           \A v \in Workers : v # w => pc'[v] = pc[v] /\ task'[v] = task[v],
           task'[w] = task[w] \/ pc'[w] = "idle",
           \A v \in Workers : v # w /\ v \in active' => v \in active,
           \A j \in sound : j[1].block # task[w].block => j \in sound',
           w \in active' => <<task'[w], pc'[w]>> \in sound',
           <<t, "queue">> \in sound', t.cycle = Cycle,
           t.block \notin queued, t.block \notin taken,
           counter'.expected = counter.expected
    PROVE  Working' /\ OneTask' /\ Cycles'
<1> DEFINE ts == <<t>>
<1>1. ts \in Seq(TaskType) /\ DOMAIN ts = {1} /\ ts[1] = t /\ queue' = queue \o ts
  OBVIOUS
<1> HIDE DEF ts
<1>2. /\ \A k \in DOMAIN ts : /\ <<ts[k], "queue">> \in sound' /\ ts[k].cycle = Cycle
                              /\ ts[k].block \notin queued /\ ts[k].block \notin taken
      /\ \A i, k \in DOMAIN ts : ts[i].block = ts[k].block => i = k
  BY <1>1
<1> QED BY <1>1, <1>2, JobsStep

\* A worker takes a task out of the queue.
LEMMA JobsTake ==
    ASSUME Base, Working, OneTask, Cycles, NEW w \in Workers, TakeTask(w),
           UNCHANGED owing, sound' = sound
    PROVE  Working' /\ OneTask' /\ Cycles'
<1> USE DEF Base, TypeOK
<1>1. /\ pc[w] = "idle" /\ queue # <<>> /\ task' = [task EXCEPT ![w] = Head(queue)]
      /\ queue' = Tail(queue) /\ pc' = [pc EXCEPT ![w] = "body"] /\ UNCHANGED counter
  BY DEF TakeTask, Goto
<1>2. /\ queue \in Seq(TaskType) /\ 1 \in DOMAIN queue /\ Head(queue) = queue[1]
      /\ queue[1] \in TaskType /\ Len(queue) \in Nat /\ DOMAIN queue = 1..Len(queue)
      /\ DOMAIN Tail(queue) = 1..(Len(queue) - 1)
      /\ \A k \in DOMAIN Tail(queue) : k + 1 \in DOMAIN queue /\ Tail(queue)[k] = queue[k + 1]
                                       /\ k \in Nat
  BY <1>1
<1>3. /\ task'[w] = queue[1] /\ pc'[w] = "body"
      /\ \A v \in Workers : v # w => task'[v] = task[v] /\ pc'[v] = pc[v]
  BY <1>1, <1>2
<1>4. <<queue[1], "queue">> \in sound
  BY <1>2 DEF Working
<1>5. <<queue[1], "body">> \in sound
  <2>1. Work(queue[1], "queue")
    BY <1>4 DEF sound
  <2>2. Work(queue[1], "body")
    BY <2>1 DEF Work, Ahead, Home, AtOutput
  <2> QED BY <1>2, <2>2 DEF sound, Places, WorkerPlaces
<1>6. Working'
  <2>1. \A k \in DOMAIN Tail(queue) : <<Tail(queue)[k], "queue">> \in sound
    BY <1>2 DEF Working
  <2>2. \A v \in active' : v = w \/ v \in active
    BY <1>3 DEF active
  <2>3. \A v \in active' : <<task'[v], pc'[v]>> \in sound
    <3>1. active' \subseteq Workers
      BY DEF active
    <3> QED BY <1>3, <1>5, <2>2, <3>1 DEF Working
  <2> QED BY <1>1, <2>1, <2>3 DEF Working
<1>7. /\ \A k \in DOMAIN queue : queue[k].block \in queued
      /\ \A v \in Workers : pc[v] # "idle" => task[v].block \in taken
  BY DEF queued, taken
<1>8. OneTask'
  <2>1. \A j, k \in DOMAIN Tail(queue) : Tail(queue)[j].block = Tail(queue)[k].block => j = k
    <3> SUFFICES ASSUME NEW j \in DOMAIN Tail(queue), NEW k \in DOMAIN Tail(queue),
                        Tail(queue)[j].block = Tail(queue)[k].block
                 PROVE  j = k
      OBVIOUS
    <3>1. /\ j \in Nat /\ j + 1 \in DOMAIN queue /\ Tail(queue)[j] = queue[j + 1]
          /\ k \in Nat /\ k + 1 \in DOMAIN queue /\ Tail(queue)[k] = queue[k + 1]
      BY <1>2
    <3>2. \A a, c \in DOMAIN queue : queue[a].block = queue[c].block => a = c
      BY DEF OneTask
    <3>3. j + 1 = k + 1
      BY <3>1, <3>2
    <3> QED BY <3>1, <3>3
  <2>2. \A u, v \in Workers :
          pc'[u] # "idle" /\ pc'[v] # "idle" /\ task'[u].block = task'[v].block => u = v
    <3>1. queue[1].block \in queued /\ queue[1].block \notin taken
      BY <1>2, <1>7 DEF OneTask
    <3>2. \A v \in Workers : v # w /\ pc[v] # "idle" => task[v].block # queue[1].block
      BY <1>7, <3>1
    <3>3. \A u, v \in Workers :
             pc[u] # "idle" /\ pc[v] # "idle" /\ task[u].block = task[v].block => u = v
      BY DEF OneTask
    <3>4. \A v \in Workers : v # w /\ pc'[v] # "idle" => task'[v].block # task'[w].block
      BY <1>3, <3>2
    <3> SUFFICES ASSUME NEW u \in Workers, NEW v \in Workers, pc'[u] # "idle", pc'[v] # "idle",
                        task'[u].block = task'[v].block
                 PROVE  u = v
      OBVIOUS
    <3>5. CASE u = w \/ v = w
      BY <3>4, <3>5
    <3>6. CASE u # w /\ v # w
      BY <1>3, <3>3, <3>6
    <3> QED BY <3>5, <3>6
  <2>3. queued' \cap taken' = {}
    <3>1. \A k \in DOMAIN Tail(queue) : Tail(queue)[k].block # queue[1].block
                                        /\ Tail(queue)[k].block \notin taken
      <4> SUFFICES ASSUME NEW k \in DOMAIN Tail(queue)
                   PROVE  Tail(queue)[k].block # queue[1].block
                          /\ Tail(queue)[k].block \notin taken
        OBVIOUS
      <4>1. k + 1 \in DOMAIN queue /\ k + 1 # 1 /\ Tail(queue)[k] = queue[k + 1]
        BY <1>2
      <4> QED BY <1>2, <1>7, <4>1 DEF OneTask
    <3>2. queued' = {Tail(queue)[k].block : k \in DOMAIN Tail(queue)}
      BY <1>1 DEF queued
    <3>3. taken' \subseteq taken \cup {queue[1].block}
      <4>1. \A v \in Workers : pc'[v] # "idle" => task'[v].block \in taken \cup {queue[1].block}
        BY <1>3, <1>7
      <4> QED BY <4>1 DEF taken
    <3>4. ASSUME NEW c \in queued', c \in taken' PROVE FALSE
      <4>1. PICK k \in DOMAIN Tail(queue) : c = Tail(queue)[k].block
        BY <3>2
      <4> QED BY <3>1, <3>3, <3>4, <4>1
    <3> QED BY <3>4
  <2> QED BY <1>1, <2>1, <2>2, <2>3 DEF OneTask
<1>9. Cycles'
  <2>1. \A k \in DOMAIN Tail(queue) : Tail(queue)[k].cycle = Cycle
    BY <1>2 DEF Cycles
  <2>2. \A v \in Workers : pc'[v] # "idle" => task'[v].cycle = Cycle
    <3>1. queue[1].cycle = Cycle
      BY <1>2 DEF Cycles
    <3>2. \A v \in Workers : pc[v] # "idle" => task[v].cycle = Cycle
      BY DEF Cycles
    <3> QED BY <1>3, <3>1, <3>2
  <2> QED BY <1>1, <2>1, <2>2 DEF Cycles
<1> QED BY <1>6, <1>8, <1>9
-----------------------------------------------------------------------------
(* The output buffers, step by step.                                       *)

\* What the operations of a buffer leave alone, and what they add.
LEMMA PartFields ==
    ASSUME NEW x \in BufferType, NEW b \in Outputs, NEW a \in Nat, NEW y, y = AddPart(x, b, a)
    PROVE  /\ y \in BufferType /\ y.value = Append(x.value, Part(b, a)) /\ y.value # <<>>
           /\ y.finalized = x.finalized /\ y.connected = x.connected /\ y.local = x.local
           /\ y.unfinished = x.unfinished /\ y.expected = x.expected
<1>1. y \in BufferType
  BY BufferOps
<1>2. Append(x.value, Part(b, a)) # <<>>
  <2>1. Part(b, a) \in [block : Outputs \cup {"sigmoid"}, data : Nat]
    BY DEF Part
  <2>2. x.value \in Seq([block : Outputs \cup {"sigmoid"}, data : Nat])
    BY DEF BufferType, ValueType
  <2> HIDE DEF Part
  <2> QED BY <2>1, <2>2
<1> QED BY <1>1, <1>2 DEF AddPart, BufferType

\* The block counter of a buffer.
LEMMA CountFields ==
    ASSUME NEW x \in BufferType, NEW y, y = CountBlock(x, Cycle, Cycle)
    PROVE  /\ y \in BufferType /\ y.local = x.local + 1 /\ y.value = x.value
           /\ y.finalized = x.finalized /\ y.connected = x.connected
           /\ y.unfinished = x.unfinished /\ y.expected = x.expected
           /\ CompletedBy(x, Cycle, Cycle) <=> x.local + 1 >= x.connected
<1>1. y \in BufferType
  BY BufferOps DEF Cycle
<1>2. CompletedBy(x, Cycle, Cycle) <=> x.local + 1 >= x.connected
  BY DEF CompletedBy
<1> QED BY <1>1, <1>2 DEF CountBlock, BufferType, Cycle

\* A block waits for the others.
LEMMA WaitFields ==
    ASSUME NEW x \in BufferType, NEW u, NEW y, y = [x EXCEPT !.unfinished = u]
    PROVE  /\ y.unfinished = u /\ y.local = x.local /\ y.value = x.value
           /\ y.finalized = x.finalized /\ y.connected = x.connected
           /\ y.expected = x.expected
BY DEF BufferType

\* The activation of the sum.
LEMMA SquashFields ==
    ASSUME NEW x \in BufferType, x.value # <<>>
    PROVE  Squash(x) = [x EXCEPT !.value = Append(x.value, Sigmoid), !.finalized = TRUE]
BY DEF Squash, BufferType

\* The end of a training.
LEMMA TrainFields ==
    ASSUME NEW x \in BufferType, x.value # <<>>, NEW y, y = FinalizeTrain(x)
    PROVE  /\ y.value = Append(x.value, Sigmoid) /\ y.finalized = TRUE
           /\ y.connected = x.connected /\ y.local = x.local /\ y.unfinished = <<>>
           /\ y.expected.of = x.expected.of
<1> DEFINE s == Append(x.value, Sigmoid)
           e == [x.expected EXCEPT !.gradient = TRUE]
<1>1. y = [[x EXCEPT !.value = s, !.finalized = TRUE] EXCEPT !.expected = e, !.unfinished = <<>>]
  <2>1. Squash(x) = [x EXCEPT !.value = s, !.finalized = TRUE]
    BY SquashFields
  <2> QED BY <2>1 DEF FinalizeTrain, BufferType
<1>2. e.of = x.expected.of
  BY DEF BufferType
<1> HIDE DEF s, e
<1>3. y = [x EXCEPT !.value = s, !.finalized = TRUE, !.expected = e, !.unfinished = <<>>]
  BY <1>1 DEF BufferType
<1>4. /\ y.value = s /\ y.finalized = TRUE
      /\ y.connected = x.connected /\ y.local = x.local /\ y.unfinished = <<>>
      /\ y.expected = e
  BY <1>3 DEF BufferType
<1> QED BY <1>2, <1>4 DEF s

\* The end of a request.
LEMMA ProcessFields ==
    ASSUME NEW x \in BufferType, x.value # <<>>, NEW y, y = FinalizeProcessing(x)
    PROVE  /\ y.value = Append(x.value, Sigmoid) /\ y.finalized = TRUE
           /\ y.connected = x.connected /\ y.local = x.local /\ y.unfinished = <<>>
           /\ y.expected = x.expected
<1> DEFINE s == Append(x.value, Sigmoid)
<1>1. y = [[x EXCEPT !.value = s, !.finalized = TRUE] EXCEPT !.unfinished = <<>>]
  BY SquashFields DEF FinalizeProcessing
<1> HIDE DEF s
<1>2. /\ y.value = s /\ y.finalized = TRUE
      /\ y.connected = x.connected /\ y.local = x.local /\ y.unfinished = <<>>
      /\ y.expected = x.expected
  BY <1>1 DEF BufferType
<1> QED BY <1>2 DEF s

\* What is in a sequence after an entry was appended.
LEMMA AppendRange ==
    ASSUME NEW S, NEW s \in Seq(S), NEW v
    PROVE  /\ Range(Append(s, v)) = Range(s) \cup {v}
           /\ Len(Append(s, v)) = Len(s) + 1 /\ Append(s, v)[Len(s) + 1] = v
           /\ \A k \in 1..Len(s) : Append(s, v)[k] = s[k]
           /\ DOMAIN Append(s, v) = 1..Len(s) + 1 /\ Len(s) \in Nat /\ DOMAIN s = 1..Len(s)
<1>1. /\ Len(Append(s, v)) = Len(s) + 1 /\ Append(s, v)[Len(s) + 1] = v
      /\ \A k \in 1..Len(s) : Append(s, v)[k] = s[k]
      /\ DOMAIN Append(s, v) = 1..Len(s) + 1 /\ Len(s) \in Nat /\ DOMAIN s = 1..Len(s)
  OBVIOUS
<1> DEFINE n == Len(s)
           t == Append(s, v)
<1>2. n \in Nat /\ DOMAIN t = 1..n + 1 /\ DOMAIN s = 1..n /\ t[n + 1] = v
      /\ \A k \in 1..n : t[k] = s[k]
  BY <1>1
<1> HIDE DEF n, t
<1>3. Range(t) = Range(s) \cup {v}
  <2>1. \A k \in 1..n + 1 : k \in 1..n \/ k = n + 1
    BY <1>2
  <2>2. n + 1 \in 1..n + 1 /\ \A k \in 1..n : k \in 1..n + 1
    BY <1>2
  <2> QED BY <1>2, <2>1, <2>2 DEF Range
<1> QED BY <1>1, <1>3 DEF t

LEMMA RangeAfter ==
    ASSUME NEW S, NEW s \in Seq(S), NEW v
    PROVE  Range(Append(s, v)) = Range(s) \cup {v}
BY AppendRange

\* The output blocks of o with a part among A.
PartsOf(o, A) == {c \in Outputs : call > 0 /\ BufferOf[c] = o /\ Part(c, call) \in A}

\* The blocks that wait for the parts of others when o is left with the blocks s.
ParkedAfter(o, s) == {c \in Outputs : IF BufferOf[c] = o THEN c \in Range(s) ELSE c \in parked}

\* One buffer changes, by what is in A.
LEMMA BufferViews ==
    ASSUME Base, NEW o \in Buffers, NEW n, NEW A, call' = call,
           buffer' = [buffer EXCEPT ![o] = n],
           Range(n.value) = Range(buffer[o].value) \cup A
    PROVE  /\ counted' = counted \cup PartsOf(o, A)
           /\ complete' = complete \cup (IF Sigmoid \in A THEN {o} ELSE {})
           /\ parked' = ParkedAfter(o, n.unfinished)
<1>1. /\ buffer'[o] = n /\ \A p \in Buffers : p # o => buffer'[p] = buffer[p]
      /\ \A c \in Outputs : BufferOf[c] \in Buffers
  BY BlockAssumption DEF Base, TypeOK
<1>2. counted' = counted \cup PartsOf(o, A)
  <2>1. \A c \in Outputs : c \in counted' <=>
           \/ c \in counted
           \/ call > 0 /\ BufferOf[c] = o /\ Part(c, call) \in A
    BY <1>1 DEF counted
  <2>2. counted' \subseteq Outputs /\ counted \subseteq Outputs
    BY DEF counted
  <2> QED BY <2>1, <2>2 DEF PartsOf
<1>3. complete' = complete \cup (IF Sigmoid \in A THEN {o} ELSE {})
  <2>1. \A p \in Buffers : p \in complete' <=> p \in complete \/ (p = o /\ Sigmoid \in A)
    BY <1>1 DEF complete
  <2>2. complete' \subseteq Buffers /\ complete \subseteq Buffers
    BY DEF complete
  <2> QED BY <2>1, <2>2
<1>4. parked' = ParkedAfter(o, n.unfinished)
  BY <1>1 DEF parked, ParkedAfter
<1> QED BY <1>2, <1>3, <1>4

\* Parts of different blocks differ, and no part of a call is the activation.
LEMMA PartFacts ==
    ASSUME Base, call > 0
    PROVE  /\ \A b, c : Part(b, call) = Part(c, call) => b = c
           /\ \A b : Part(b, call) # Sigmoid
<1>1. call \in Nat
  BY WaveTypes
<1> QED BY <1>1 DEF Part, Sigmoid

\* A part is added to a buffer, and the activation or not.
LEMMA AddViews ==
    ASSUME Base, NEW b \in Outputs, NEW o, o = BufferOf[b], NEW n, call' = call, call > 0,
           buffer' = [buffer EXCEPT ![o] = n],
           Range(n.value) = Range(buffer[o].value) \cup {Part(b, call)}
    PROVE  /\ counted' = counted \cup {b} /\ complete' = complete
           /\ parked' = ParkedAfter(o, n.unfinished)
<1> DEFINE A == {Part(b, call)}
<1>1. o \in Buffers
  BY BlockAssumption
<1>2. PartsOf(o, A) = {b}
      /\ Sigmoid \notin A
  <2>1. \A c : Part(c, call) \in A <=> c = b
    BY PartFacts
  <2>2. Sigmoid \notin A
    BY PartFacts
  <2> HIDE DEF A
  <2> QED BY <2>1, <2>2 DEF PartsOf
<1> HIDE DEF A
<1>3. Range(n.value) = Range(buffer[o].value) \cup A
  BY DEF A
<1>4. /\ counted' = counted \cup PartsOf(o, A)
      /\ complete' = complete \cup (IF Sigmoid \in A THEN {o} ELSE {})
      /\ parked' = ParkedAfter(o, n.unfinished)
  BY <1>1, <1>3, BufferViews
<1> QED BY <1>2, <1>4

\* What the last part of a buffer comes with.
LastPart(b) == {Part(b, call), Sigmoid}

\* The same with the activation.
LEMMA CloseViews ==
    ASSUME Base, NEW b \in Outputs, NEW o, o = BufferOf[b], NEW n, call' = call, call > 0,
           buffer' = [buffer EXCEPT ![o] = n],
           Range(n.value) = Range(buffer[o].value) \cup LastPart(b)
    PROVE  /\ counted' = counted \cup {b} /\ complete' = complete \cup {o}
           /\ parked' = ParkedAfter(o, n.unfinished)
<1> DEFINE A == {Part(b, call), Sigmoid}
<1>1. o \in Buffers
  BY BlockAssumption
<1>2. PartsOf(o, A) = {b}
      /\ Sigmoid \in A
  <2>1. \A c : Part(c, call) \in A <=> c = b
    BY PartFacts
  <2>2. Sigmoid \in A
    OBVIOUS
  <2> HIDE DEF A
  <2> QED BY <2>1, <2>2 DEF PartsOf
<1> HIDE DEF A
<1>3. Range(n.value) = Range(buffer[o].value) \cup A
  BY DEF A, LastPart
<1>4. /\ counted' = counted \cup PartsOf(o, A)
      /\ complete' = complete \cup (IF Sigmoid \in A THEN {o} ELSE {})
      /\ parked' = ParkedAfter(o, n.unfinished)
  BY <1>1, <1>3, BufferViews
<1> QED BY <1>2, <1>4

\* No buffer changes.
LEMMA SameBuffers ==
    ASSUME UNCHANGED <<buffer, call>>
    PROVE  UNCHANGED <<counted, parked, complete>>
BY DEF counted, parked, complete

\* An output block at its buffer.
LEMMA AtBuffer ==
    ASSUME Base, Working, Cycles, NEW w \in Workers, pc[w] \in {"connect", "output"}
    PROVE  LET b == task[w].block
               o == BufferOf[b]
           IN  /\ b \in Outputs /\ b \in Receivers /\ b \in Blocks /\ o \in Buffers /\ buffer[o] \in BufferType
               /\ Work(task[w], pc[w]) /\ Running /\ b \in registered /\ b \in reached
               /\ b \notin counted \/ ~Forwards(task[w])
               /\ task[w].cycle = Cycle /\ counter.expected = Cycle
               /\ InputAge(io[b]) = call /\ call > 0 /\ call \in Nat
               /\ pc[w] = "output" => b \in attached /\ Forwards(task[w]) /\ b \notin counted
               /\ pc[w] = "connect" => b \notin attached
<1> DEFINE b == task[w].block
           o == BufferOf[b]
<1>1. b \in Outputs
  BY DEF Base, LockDiscipline
<1>2. b \in Receivers /\ b \in Blocks /\ o \in Buffers /\ buffer[o] \in BufferType
  BY <1>1, WaveTypes, BlockAssumption DEF Base, TypeOK
<1>3. Work(task[w], pc[w]) /\ Running /\ b \in registered /\ b \in reached /\ call > 0
  BY Busy
<1>4. AtOutput(b, pc[w], Forwards(task[w]))
  BY <1>1, <1>3 DEF Work
<1>5. task[w].cycle = Cycle /\ counter.expected = Cycle
  BY DEF Cycles
<1>6. InputAge(io[b]) = call
  <2>1. io[b].inUse = 1
    BY <1>2, <1>3 DEF Base, Single
  <2>2. got[b] = call
    BY <1>2, <1>3, WaveTypes
  <2> QED BY <1>2, <2>1, <2>2, PassAges
<1>7. /\ b \notin counted \/ ~Forwards(task[w])
      /\ pc[w] = "output" => b \in attached /\ Forwards(task[w]) /\ b \notin counted
      /\ pc[w] = "connect" => b \notin attached
  BY <1>4 DEF AtOutput
<1> QED BY <1>1, <1>2, <1>3, <1>5, <1>6, <1>7, WaveTypes

\* A block is attached to its buffer.
LEMMA ConnectEffect ==
    ASSUME Base, Working, Cycles, NEW w \in Workers, ConnectOutputBuffer(w)
    PROVE  LET b == task[w].block
               o == BufferOf[b]
           IN  \E n : /\ buffer' = [buffer EXCEPT ![o] = n]
                      /\ n.connected = buffer[o].connected + 1
                      /\ n.local = buffer[o].local /\ n.value = buffer[o].value
                      /\ n.finalized = buffer[o].finalized /\ n.unfinished = buffer[o].unfinished
                      /\ n.expected = buffer[o].expected
                      /\ attached' = attached \cup {b}
                      /\ UNCHANGED <<counted, parked, complete>>
<1> DEFINE b == task[w].block
           o == BufferOf[b]
           x == buffer[o]
           n == [x EXCEPT !.connected = @ + 1]
<1>1. b \in Outputs /\ o \in Buffers /\ x \in BufferType
  BY AtBuffer DEF ConnectOutputBuffer
<1>2. buffer' = [buffer EXCEPT ![o] = n] /\ attached' = attached \cup {b} /\ call' = call
  BY <1>1 DEF ConnectOutputBuffer, Base, TypeOK, clientVars
<1>3. /\ n.connected = x.connected + 1 /\ n.local = x.local /\ n.value = x.value
      /\ n.finalized = x.finalized /\ n.unfinished = x.unfinished /\ n.expected = x.expected
  BY <1>1 DEF BufferType
<1> HIDE DEF n
<1>4. Range(n.value) = Range(x.value) \cup {}
  BY <1>3
<1>5. /\ counted' = counted \cup PartsOf(o, {}) /\ complete' = complete
      /\ parked' = ParkedAfter(o, n.unfinished)
  <2> DEFINE A == {}
  <2>1. Range(n.value) = Range(buffer[o].value) \cup A
    BY <1>4
  <2>2. Sigmoid \notin A
    OBVIOUS
  <2> HIDE DEF A, x, o
  <2>3. o \in Buffers /\ buffer' = [buffer EXCEPT ![o] = n] /\ call' = call
    BY <1>1, <1>2
  <2>4. /\ counted' = counted \cup PartsOf(o, A)
        /\ complete' = complete \cup (IF Sigmoid \in A THEN {o} ELSE {})
        /\ parked' = ParkedAfter(o, n.unfinished)
    BY <2>1, <2>3, BufferViews
  <2>5. counted' = counted \cup PartsOf(o, {})
    BY <2>4 DEF A
  <2> QED BY <2>2, <2>4, <2>5
<1>6. parked' = parked
  BY <1>3, <1>5 DEF parked, ParkedAfter
<1>7. UNCHANGED <<counted, parked, complete>>
  <2>1. PartsOf(o, {}) = {}
    BY DEF PartsOf
  <2> QED BY <1>5, <1>6, <2>1
<1> QED BY <1>2, <1>3, <1>7

\* The three ends of the forward pass of an output block in training.
LEMMA TrainEffect ==
    ASSUME Base, Working, Cycles, Training, NEW w \in Workers, TrainOutput(w)
    PROVE  LET b == task[w].block
               o == BufferOf[b]
               x == buffer[o]
               v == Append(x.value, Part(b, call))
           IN  /\ kind = "train" /\ counted' = counted \cup {b} /\ sized' = sized \cup {b}
               /\ \E n :
                     /\ buffer' = [buffer EXCEPT ![o] = n]
                     /\ n.connected = x.connected /\ n.expected.of = x.expected.of
                     /\ \/ /\ o \in complete /\ n.value = v /\ n.finalized = TRUE
                           /\ n.unfinished = x.unfinished
                           /\ UNCHANGED <<queue, lock, task, counts, parked, complete>>
                           /\ Goto(w, "gradient")
                        \/ /\ o \notin complete /\ n.value = Append(v, Sigmoid) /\ n.finalized = TRUE
                           /\ n.unfinished = <<>>
                           /\ Enqueue([i \in DOMAIN x.unfinished |->
                                         [task[w] EXCEPT !.type = "Backpropagate",
                                                         !.block = x.unfinished[i]]])
                           /\ counts' = [counts EXCEPT ![w] = TRUE]
                           /\ Goto(w, "gradient") /\ UNCHANGED <<lock, task>>
                           /\ parked' = {c \in parked : BufferOf[c] # o}
                           /\ complete' = complete \cup {o}
                        \/ /\ o \notin complete /\ n.value = v /\ ~n.finalized
                           /\ n.unfinished = Append(x.unfinished, b)
                           /\ Unlock(b) /\ Finish(w) /\ UNCHANGED <<queue, counts>>
                           /\ parked' = parked \cup {b} /\ complete' = complete
<1> DEFINE b == task[w].block
           o == BufferOf[b]
           x == buffer[o]
           v == Append(x.value, Part(b, call))
           y == AddPart(x, b, call)
           z == CountBlock(y, Cycle, Cycle)
<1>1. pc[w] = "output" /\ task[w].type = "Train" /\ call' = call
  BY Zenon DEF TrainOutput, clientVars
<1>2. /\ b \in Outputs /\ o \in Buffers /\ x \in BufferType /\ Work(task[w], pc[w]) /\ Running
      /\ b \notin counted /\ task[w].cycle = Cycle /\ counter.expected = Cycle
      /\ InputAge(io[b]) = call /\ call > 0 /\ call \in Nat
  BY <1>1, AtBuffer
<1>3. kind = "train"
  BY <1>1, <1>2 DEF Work, Forwards
<1>4. x.finalized <=> o \in complete
  BY <1>2, <1>3 DEF Training
<1>5. /\ y \in BufferType /\ y.value = v /\ y.value # <<>>
      /\ y.finalized = x.finalized /\ y.connected = x.connected /\ y.local = x.local
      /\ y.unfinished = x.unfinished /\ y.expected = x.expected
  <2>1. y = AddPart(x, b, call)
    OBVIOUS
  <2> HIDE DEF y, x
  <2>2. x \in BufferType /\ b \in Outputs /\ call \in Nat
    BY <1>2
  <2> HIDE DEF b
  <2>3. y \in BufferType /\ y.value = Append(x.value, Part(b, call)) /\ y.value # <<>>
    BY <2>1, <2>2, PartFields
  <2>4. y.connected = x.connected /\ y.local = x.local
        /\ y.unfinished = x.unfinished /\ y.expected = x.expected
    BY <2>1, <2>2, PartFields
  <2>5. y.finalized = x.finalized
    BY <2>1, <2>2, PartFields
  <2> QED BY <2>3, <2>4, <2>5
<1>6. /\ sized' = sized \cup {b}
      /\ IF y.finalized
         THEN /\ buffer' = [buffer EXCEPT ![o] = y]
              /\ Goto(w, "gradient")
              /\ UNCHANGED <<queue, lock, task, counts>>
         ELSE IF CompletedBy(y, Cycle, Cycle)
         THEN /\ buffer' = [buffer EXCEPT ![o] = FinalizeTrain(z)]
              /\ Enqueue([i \in DOMAIN z.unfinished |->
                            [task[w] EXCEPT !.type = "Backpropagate", !.block = z.unfinished[i]]])
              /\ counts' = [counts EXCEPT ![w] = TRUE]
              /\ Goto(w, "gradient")
              /\ UNCHANGED <<lock, task>>
         ELSE /\ buffer' = [buffer EXCEPT ![o] = [z EXCEPT !.unfinished = Append(@, b)]]
              /\ Unlock(b) /\ Finish(w)
              /\ UNCHANGED <<queue, counts>>
  BY <1>2, Zenon DEF TrainOutput
<1> DEFINE u == Append(x.unfinished, b)
           f == FinalizeTrain(z)
           p == [z EXCEPT !.unfinished = u]
<1>7. Range(v) = Range(x.value) \cup {Part(b, call)}
  <2>1. x.value \in Seq([block : Outputs \cup {"sigmoid"}, data : Nat])
    BY <1>2 DEF BufferType, ValueType
  <2> QED BY <2>1, AppendRange
<1>8. Range(Append(v, Sigmoid)) = Range(x.value) \cup {Part(b, call), Sigmoid}
  <2>1. v \in Seq([block : Outputs \cup {"sigmoid"}, data : Nat])
    BY <1>5, Zenon DEF BufferType, ValueType
  <2>2. Range(Append(v, Sigmoid)) = Range(v) \cup {Sigmoid}
    BY <2>1, AppendRange
  <2> QED BY <1>7, <2>2
<1>9. Range(u) = Range(x.unfinished) \cup {b} /\ Range(<<>>) = {}
  <2>1. x.unfinished \in Seq(Outputs)
    BY <1>2 DEF BufferType
  <2>2. Range(u) = Range(x.unfinished) \cup {b}
    BY <2>1, AppendRange
  <2>3. Range(<<>>) = {}
    BY DEF Range
  <2> QED BY <2>2, <2>3
<1>10. {c \in Outputs : call > 0 /\ BufferOf[c] = o /\ Part(c, call) \in {Part(b, call)}} = {b}
       /\ {c \in Outputs : call > 0 /\ BufferOf[c] = o /\ Part(c, call) \in {Part(b, call), Sigmoid}} = {b}
       /\ Sigmoid \notin {Part(b, call)}
  BY <1>2, PartFacts
<1>11. \A c \in Outputs : BufferOf[c] = o => (c \in parked <=> c \in Range(x.unfinished))
  BY DEF parked
<1>12. parked \subseteq Outputs
  BY DEF parked
<1>13. /\ z \in BufferType /\ z.value = v /\ z.finalized = x.finalized /\ z.connected = x.connected
       /\ z.unfinished = x.unfinished /\ z.expected = x.expected /\ z.value # <<>>
  <2>1. z = CountBlock(y, Cycle, Cycle)
    OBVIOUS
  <2> HIDE DEF z, y, x, v
  <2>2. /\ z \in BufferType /\ z.value = y.value
        /\ z.finalized = y.finalized /\ z.connected = y.connected
        /\ z.unfinished = y.unfinished /\ z.expected = y.expected
    BY <1>5, <2>1, CountFields
  <2> QED BY <1>5, <2>2
<1>14. /\ f.value = Append(v, Sigmoid) /\ f.finalized = TRUE
       /\ f.connected = x.connected /\ f.unfinished = <<>> /\ f.expected.of = x.expected.of
  <2>1. f = FinalizeTrain(z)
    OBVIOUS
  <2> HIDE DEF f, z, x, v
  <2>2. /\ f.value = Append(z.value, Sigmoid) /\ f.finalized = TRUE
        /\ f.connected = z.connected /\ f.unfinished = <<>> /\ f.expected.of = z.expected.of
    BY <1>13, <2>1, TrainFields
  <2> QED BY <1>13, <2>2
<1>15. /\ p.unfinished = u /\ p.value = v /\ p.finalized = x.finalized
       /\ p.connected = x.connected /\ p.expected = x.expected
       /\ p = [z EXCEPT !.unfinished = Append(@, b)]
  <2>1. p = [z EXCEPT !.unfinished = u]
    OBVIOUS
  <2> HIDE DEF p, z, x, v
  <2>2. /\ p.unfinished = u /\ p.value = z.value /\ p.finalized = z.finalized
        /\ p.connected = z.connected /\ p.expected = z.expected
    <3> HIDE DEF u
    <3> QED BY <1>13, <2>1, WaitFields
  <2>3. [z EXCEPT !.unfinished = Append(@, b)] = [z EXCEPT !.unfinished = u]
    BY <1>13
  <2> QED BY <1>13, <2>1, <2>2, <2>3
<1>16. kind = "train" /\ sized' = sized \cup {b}
  BY <1>3, <1>6, Zenon
<1> HIDE DEF y, z, f, p, u, v, x, o
<1>17. CASE y.finalized
  <2>1. buffer' = [buffer EXCEPT ![o] = y] /\ Goto(w, "gradient")
        /\ UNCHANGED <<queue, lock, task, counts>>
    BY <1>6, <1>17
  <2>2. /\ counted' = counted \cup {b} /\ complete' = complete
        /\ parked' = {c \in Outputs : IF BufferOf[c] = o THEN c \in Range(y.unfinished)
                                      ELSE c \in parked}
    <3>1. Range(y.value) = Range(buffer[o].value) \cup {Part(b, call)}
      BY <1>5, <1>7 DEF x
    <3>2. o = BufferOf[b]
      BY DEF o
    <3>3. b \in Outputs /\ call > 0 /\ call' = call /\ buffer' = [buffer EXCEPT ![o] = y]
      BY <1>1, <1>2, <2>1
    <3> HIDE DEF b
    <3>4. counted' = counted \cup {b} /\ complete' = complete
      BY <3>1, <3>2, <3>3, AddViews
    <3>5. parked' = ParkedAfter(o, y.unfinished)
      BY <3>1, <3>2, <3>3, AddViews
    <3> QED BY <3>4, <3>5 DEF ParkedAfter
  <2>3. counted' = counted \cup {b} /\ complete' = complete
    BY <2>2
  <2>4. parked' = parked
    BY <1>5, <1>11, <1>12, <2>2
  <2>5. o \in complete /\ y.finalized = TRUE
    BY <1>4, <1>5, <1>17
  <2> QED BY <1>5, <1>16, <2>1, <2>3, <2>4, <2>5, Zenon DEF v, x, o
<1>18. CASE ~y.finalized /\ CompletedBy(y, Cycle, Cycle)
  <2>1. /\ buffer' = [buffer EXCEPT ![o] = f]
        /\ Enqueue([i \in DOMAIN x.unfinished |->
                      [task[w] EXCEPT !.type = "Backpropagate", !.block = x.unfinished[i]]])
        /\ counts' = [counts EXCEPT ![w] = TRUE]
        /\ Goto(w, "gradient") /\ UNCHANGED <<lock, task>>
    BY <1>6, <1>13, <1>18 DEF f
  <2>2. /\ counted' = counted \cup {b} /\ complete' = complete \cup {o}
        /\ parked' = {c \in Outputs : IF BufferOf[c] = o THEN c \in Range(f.unfinished)
                                      ELSE c \in parked}
    <3>1. Range(f.value) = Range(buffer[o].value) \cup LastPart(b)
      BY <1>8, <1>14 DEF x, LastPart
    <3>2. o = BufferOf[b]
      BY DEF o
    <3>3. b \in Outputs /\ call > 0 /\ call' = call /\ buffer' = [buffer EXCEPT ![o] = f]
      BY <1>1, <1>2, <2>1
    <3> HIDE DEF b
    <3>4. counted' = counted \cup {b}
      BY <3>1, <3>2, <3>3, CloseViews
    <3>5. complete' = complete \cup {o}
      BY <3>1, <3>2, <3>3, CloseViews
    <3>6. parked' = ParkedAfter(o, f.unfinished)
      BY <3>1, <3>2, <3>3, CloseViews
    <3> QED BY <3>4, <3>5, <3>6 DEF ParkedAfter
  <2>3. counted' = counted \cup {b} /\ complete' = complete \cup {o}
    BY <2>2
  <2>4. parked' = {c \in parked : BufferOf[c] # o}
    BY <1>9, <1>12, <1>14, <2>2
  <2>5. o \notin complete
    BY <1>4, <1>5, <1>18
  <2> QED BY <1>14, <1>16, <2>1, <2>3, <2>4, <2>5, Zenon DEF v, x, o
<1>19. CASE ~y.finalized /\ ~CompletedBy(y, Cycle, Cycle)
  <2>1. buffer' = [buffer EXCEPT ![o] = p] /\ Unlock(b) /\ Finish(w) /\ UNCHANGED <<queue, counts>>
    BY <1>6, <1>15, <1>19
  <2>2. /\ counted' = counted \cup {b} /\ complete' = complete
        /\ parked' = {c \in Outputs : IF BufferOf[c] = o THEN c \in Range(p.unfinished)
                                      ELSE c \in parked}
    <3>1. Range(p.value) = Range(buffer[o].value) \cup {Part(b, call)}
      BY <1>7, <1>15 DEF x
    <3>2. o = BufferOf[b]
      BY DEF o
    <3>3. b \in Outputs /\ call > 0 /\ call' = call /\ buffer' = [buffer EXCEPT ![o] = p]
      BY <1>1, <1>2, <2>1
    <3> HIDE DEF b
    <3>4. counted' = counted \cup {b} /\ complete' = complete
      BY <3>1, <3>2, <3>3, AddViews
    <3>5. parked' = ParkedAfter(o, p.unfinished)
      BY <3>1, <3>2, <3>3, AddViews
    <3> QED BY <3>4, <3>5 DEF ParkedAfter
  <2>3. counted' = counted \cup {b} /\ complete' = complete
    BY <2>2
  <2>4. parked' = parked \cup {b}
    BY <1>2, <1>9, <1>11, <1>12, <1>15, <2>2 DEF o
  <2>5. o \notin complete /\ ~p.finalized
    BY <1>4, <1>5, <1>15, <1>19
  <2> QED BY <1>15, <1>16, <2>1, <2>3, <2>4, <2>5, Zenon DEF v, x, o, u
<1> QED BY <1>17, <1>18, <1>19, Zenon

\* A request runs on a network that was trained.
LEMMA RequestGrown ==
    ASSUME SeparateChains, Base, Client1, Promises, cpc # "idle", kind = "request"
    PROVE  Grown
<1>1. call > 0 /\ call \in DOMAIN Calls /\ Calls[call].kind = "request"
  BY CallAssumption DEF Client1, Base, TypeOK, kind
<1>2. PICK d \in 1..call - 1 : Calls[d].kind = "train"
  BY <1>1 DEF SeparateChains
<1>3. call \in Nat /\ d \in 1..call /\ d < call
  BY <1>2, WaveTypes
<1> QED BY <1>2, <1>3 DEF Promises

\* The two ends of a pass of an output block in a request.
LEMMA ProcessEffect ==
    ASSUME Base, SeparateChains, Working, Cycles, Client1, Promises, NEW w \in Workers, ProcessOutput(w)
    PROVE  LET b == task[w].block
               o == BufferOf[b]
               x == buffer[o]
               v == Append(x.value, Part(b, call))
           IN  /\ kind = "request" /\ counted' = counted \cup {b} /\ Unlock(b)
               /\ \E n :
                     /\ buffer' = [buffer EXCEPT ![o] = n]
                     /\ n.connected = x.connected /\ n.expected = x.expected
                     /\ n.local = x.local + 1
                     /\ \/ /\ x.local + 1 >= x.connected /\ n.value = Append(v, Sigmoid)
                           /\ counts' = [counts EXCEPT ![w] = TRUE]
                           /\ Goto(w, "count") /\ UNCHANGED task
                           /\ n.unfinished = <<>> /\ parked' \subseteq parked
                           /\ complete' = complete \cup {o}
                        \/ /\ x.local + 1 < x.connected /\ n.value = v
                           /\ Finish(w) /\ UNCHANGED counts
                           /\ n.unfinished = x.unfinished /\ parked' = parked
                           /\ complete' = complete
<1> DEFINE b == task[w].block
           o == BufferOf[b]
           x == buffer[o]
           v == Append(x.value, Part(b, call))
           y == AddPart(x, b, call)
           z == CountBlock(y, Cycle, Cycle)
           f == FinalizeProcessing(z)
<1>1. pc[w] = "output" /\ task[w].type = "Process" /\ call' = call /\ Unlock(b)
  BY DEF ProcessOutput, clientVars
<1>2. /\ b \in Outputs /\ o \in Buffers /\ x \in BufferType /\ Work(task[w], pc[w]) /\ Running
      /\ b \notin counted /\ task[w].cycle = Cycle /\ counter.expected = Cycle
      /\ InputAge(io[b]) = call /\ call > 0 /\ call \in Nat /\ b \in registered
  BY <1>1, AtBuffer
<1>3. kind = "request" /\ cpc # "idle"
  BY <1>1, <1>2 DEF Work, Forwards, Client1, Running
<1>4. b \in sized
  BY <1>2, <1>3, RequestGrown DEF Grown
<1>5. /\ y \in BufferType /\ y.value = v /\ y.value # <<>> /\ y.connected = x.connected /\ y.local = x.local
      /\ y.unfinished = x.unfinished /\ y.expected = x.expected
  <2>1. y = AddPart(x, b, call)
    OBVIOUS
  <2> HIDE DEF y, x
  <2>2. x \in BufferType /\ b \in Outputs /\ call \in Nat
    BY <1>2
  <2> HIDE DEF b
  <2>3. y \in BufferType /\ y.value = Append(x.value, Part(b, call)) /\ y.value # <<>>
    BY <2>1, <2>2, PartFields
  <2>4. y.connected = x.connected /\ y.local = x.local
        /\ y.unfinished = x.unfinished /\ y.expected = x.expected
    BY <2>1, <2>2, PartFields
  <2>5. y.finalized = x.finalized
    BY <2>1, <2>2, PartFields
  <2> QED BY <2>3, <2>4, <2>5
<1>6. IF CompletedBy(y, Cycle, Cycle)
      THEN /\ buffer' = [buffer EXCEPT ![o] = f]
           /\ counts' = [counts EXCEPT ![w] = TRUE]
           /\ Goto(w, "count")
           /\ UNCHANGED task
      ELSE /\ buffer' = [buffer EXCEPT ![o] = z]
           /\ Finish(w)
           /\ UNCHANGED counts
  BY <1>2, <1>4 DEF ProcessOutput
<1>7. Range(v) = Range(x.value) \cup {Part(b, call)}
  <2>1. x.value \in Seq([block : Outputs \cup {"sigmoid"}, data : Nat])
    BY <1>2 DEF BufferType, ValueType
  <2> QED BY <2>1, AppendRange
<1>8. Range(Append(v, Sigmoid)) = Range(x.value) \cup {Part(b, call), Sigmoid}
  <2>1. v \in Seq([block : Outputs \cup {"sigmoid"}, data : Nat])
    BY <1>5, Zenon DEF BufferType, ValueType
  <2>2. Range(Append(v, Sigmoid)) = Range(v) \cup {Sigmoid}
    BY <2>1, AppendRange
  <2> QED BY <1>7, <2>2
<1>9. Range(<<>>) = {}
  BY DEF Range
<1>10. {c \in Outputs : call > 0 /\ BufferOf[c] = o /\ Part(c, call) \in {Part(b, call)}} = {b}
       /\ {c \in Outputs : call > 0 /\ BufferOf[c] = o /\ Part(c, call) \in {Part(b, call), Sigmoid}} = {b}
       /\ Sigmoid \notin {Part(b, call)}
  BY <1>2, PartFacts
<1>11. \A c \in Outputs : BufferOf[c] = o => (c \in parked <=> c \in Range(x.unfinished))
  BY DEF parked
<1>12. parked \subseteq Outputs
  BY DEF parked
<1>13. /\ z \in BufferType /\ z.value = v /\ z.connected = x.connected /\ z.local = x.local + 1
       /\ z.unfinished = x.unfinished /\ z.expected = x.expected /\ z.value # <<>>
       /\ CompletedBy(y, Cycle, Cycle) <=> x.local + 1 >= x.connected
  <2>1. z = CountBlock(y, Cycle, Cycle)
    OBVIOUS
  <2> HIDE DEF z, y, x, v
  <2>2. /\ z \in BufferType /\ z.value = y.value /\ z.local = y.local + 1
        /\ z.connected = y.connected
        /\ z.unfinished = y.unfinished /\ z.expected = y.expected
        /\ CompletedBy(y, Cycle, Cycle) <=> y.local + 1 >= y.connected
    BY <1>5, <2>1, CountFields
  <2> QED BY <1>5, <2>2
<1>14. /\ f.value = Append(v, Sigmoid) /\ f.local = x.local + 1
       /\ f.connected = x.connected /\ f.unfinished = <<>> /\ f.expected = x.expected
  <2>1. f = FinalizeProcessing(z)
    OBVIOUS
  <2> HIDE DEF f, z, x, v
  <2>2. /\ f.value = Append(z.value, Sigmoid) /\ f.local = z.local
        /\ f.connected = z.connected /\ f.unfinished = <<>> /\ f.expected = z.expected
    BY <1>13, <2>1, ProcessFields
  <2> QED BY <1>13, <2>2
<1>15. CompletedBy(y, Cycle, Cycle) <=> x.local + 1 >= x.connected
  BY <1>13, Zenon
<1>16. x.local \in Nat /\ x.connected \in Nat
  BY <1>2 DEF BufferType
<1> HIDE DEF y, z, f, v, x, o
<1>17. CASE CompletedBy(y, Cycle, Cycle)
  <2>1. /\ buffer' = [buffer EXCEPT ![o] = f] /\ counts' = [counts EXCEPT ![w] = TRUE]
        /\ Goto(w, "count") /\ UNCHANGED task
    BY <1>6, <1>17
  <2>2. /\ counted' = counted \cup {b} /\ complete' = complete \cup {o}
        /\ parked' = {c \in Outputs : IF BufferOf[c] = o THEN c \in Range(f.unfinished)
                                      ELSE c \in parked}
    <3>1. Range(f.value) = Range(buffer[o].value) \cup LastPart(b)
      BY <1>8, <1>14 DEF x, LastPart
    <3>2. o = BufferOf[b]
      BY DEF o
    <3>3. b \in Outputs /\ call > 0 /\ call' = call /\ buffer' = [buffer EXCEPT ![o] = f]
      BY <1>1, <1>2, <2>1
    <3> HIDE DEF b
    <3>4. counted' = counted \cup {b}
      BY <3>1, <3>2, <3>3, CloseViews
    <3>5. complete' = complete \cup {o}
      BY <3>1, <3>2, <3>3, CloseViews
    <3>6. parked' = ParkedAfter(o, f.unfinished)
      BY <3>1, <3>2, <3>3, CloseViews
    <3> QED BY <3>4, <3>5, <3>6 DEF ParkedAfter
  <2>3. counted' = counted \cup {b} /\ complete' = complete \cup {o}
    BY <2>2
  <2>4. parked' \subseteq parked
    BY <1>9, <1>12, <1>14, <2>2
  <2> QED BY <1>1, <1>3, <1>14, <1>15, <1>17, <2>1, <2>3, <2>4, Zenon DEF v, x, o
<1>18. CASE ~CompletedBy(y, Cycle, Cycle)
  <2>1. buffer' = [buffer EXCEPT ![o] = z] /\ Finish(w) /\ UNCHANGED counts
    BY <1>6, <1>18
  <2>2. /\ counted' = counted \cup {b} /\ complete' = complete
        /\ parked' = {c \in Outputs : IF BufferOf[c] = o THEN c \in Range(z.unfinished)
                                      ELSE c \in parked}
    <3>1. Range(z.value) = Range(buffer[o].value) \cup {Part(b, call)}
      BY <1>7, <1>13 DEF x
    <3>2. o = BufferOf[b]
      BY DEF o
    <3>3. b \in Outputs /\ call > 0 /\ call' = call /\ buffer' = [buffer EXCEPT ![o] = z]
      BY <1>1, <1>2, <2>1
    <3> HIDE DEF b
    <3>4. counted' = counted \cup {b} /\ complete' = complete
      BY <3>1, <3>2, <3>3, AddViews
    <3>5. parked' = ParkedAfter(o, z.unfinished)
      BY <3>1, <3>2, <3>3, AddViews
    <3> QED BY <3>4, <3>5 DEF ParkedAfter
  <2>3. counted' = counted \cup {b} /\ complete' = complete
    BY <2>2
  <2>4. parked' = parked
    BY <1>11, <1>12, <1>13, <2>2
  <2>5. x.local + 1 < x.connected
    BY <1>15, <1>16, <1>18
  <2> QED BY <1>1, <1>3, <1>13, <2>1, <2>3, <2>4, <2>5, Zenon DEF v, x, o
<1> QED BY <1>17, <1>18
-----------------------------------------------------------------------------
(* The tasks, step by step.                                                *)

\* The blocks a task can be for.
tasked == {c \in registered \cap reached : c \in Senders => c \in back \/ to[c] \notin reached}

\* A block with a task is one of them.
LEMMA SoundTasked ==
    ASSUME NEW j \in sound
    PROVE  j[1].block \in tasked
BY DEF sound, Work, Ahead, Home, tasked

\* What the tasks of other blocks than b say is so after the step.
LEMMA OthersSound ==
    ASSUME NEW b, UNCHANGED <<Running, kind>>,
           \A c \in tasked : c # b =>
              /\ c \in registered' /\ c \in reached' /\ (c \in fresh => c \in fresh')
              /\ c \in Senders => /\ to'[c] = to[c]
                                  /\ c \in back' <=> c \in back
                                  /\ to[c] \in reached' => to[c] \in reached
              /\ c \in Receivers => /\ from'[c] = from[c]
                                    /\ from[c] \in back' => from[c] \in back
                                    /\ c \in paid => c \in paid'
              /\ c \in attached' <=> c \in attached
              /\ c \in sized => c \in sized'
              /\ c \in counted' => c \in counted
              /\ c \in parked' => c \in parked
    PROVE  \A j \in sound : j[1].block # b => j \in sound'
<1> SUFFICES ASSUME NEW j \in sound, j[1].block # b
             PROVE  j \in sound'
  OBVIOUS
<1>1. j[1].block \in tasked
  BY SoundTasked
<1> HIDE DEF tasked
<1> QED BY <1>1, SoundFrame

\* The task of a sender on the way out, at its next place.
LEMMA AheadSound ==
    ASSUME NEW t \in TaskType, NEW b, b = t.block, NEW k \in Places, NEW l \in Places, Work(t, k),
           UNCHANGED <<Running, kind>>, b \in Senders, Forwards(t),
           b \in registered', b \in reached', b \notin back', to'[b] \notin reached',
           l \in {"queue", "body", "final", "forward", "select", "create"},
           l \notin {"queue", "body"} => b \in fresh'
    PROVE  <<t, l>> \in sound'
<1>1. Ahead(b, l)'
  BY DEF Ahead
<1>2. b \notin Outputs
  BY BlockAssumption DEF Senders
<1>3. Work(t, l)'
  BY <1>1, <1>2 DEF Work, Forwards
<1> QED BY <1>3 DEF sound

\* The task of a sender on the way back.
LEMMA HomeSound ==
    ASSUME NEW t \in TaskType, NEW b, b = t.block, NEW k \in Places, NEW l \in Places, Work(t, k),
           UNCHANGED <<Running, kind>>, b \in Senders, ~Forwards(t),
           b \in registered', b \in reached', b \in back',
           l \in {"queue", "body", "final", "return", "count"},
           l = "count" => b \in Inputs,
           b \in Cores => from'[b] \notin back',
           b \in Cores /\ l \in {"final", "return"} => b \in paid'
    PROVE  <<t, l>> \in sound'
<1>1. Home(b, l)'
  BY DEF Home
<1>2. b \notin Outputs
  BY BlockAssumption DEF Senders
<1>3. Work(t, l)'
  BY <1>1, <1>2 DEF Work, Forwards
<1> QED BY <1>3 DEF sound

\* The task of an output block.
LEMMA OutputSound ==
    ASSUME NEW t \in TaskType, NEW b, b = t.block, NEW k \in Places, NEW l \in Places, Work(t, k),
           UNCHANGED <<Running, kind>>, b \in Outputs,
           b \in registered', b \in reached', b \notin parked',
           l \in {"queue", "body", "connect", "output", "gradient", "sendback", "count"},
           l # "count" => from'[b] \notin back',
           l \in {"queue", "body", "connect", "output"} /\ Forwards(t) => b \notin counted',
           ~Forwards(t) => b \in attached',
           l = "output" => Forwards(t),
           l = "connect" => b \notin attached',
           l \in {"output", "gradient", "sendback"} => b \in attached',
           l \in {"gradient", "sendback"} => kind = "train",
           l = "sendback" => b \in sized' /\ b \in paid'
    PROVE  <<t, l>> \in sound'
<1>1. AtOutput(b, l, Forwards(t))'
  BY DEF AtOutput, Forwards
<1>2. b \notin Senders
  BY BlockAssumption DEF Senders
<1>3. Work(t, l)'
  BY <1>1, <1>2 DEF Work, Forwards
<1> QED BY <1>3 DEF sound

\* A worker at rest does not become busy by what another does to a block c.
LEMMA OthersActive ==
    ASSUME NEW w \in Workers, NEW c, owing' \cup {c} = owing \cup {c},
           \A v \in Workers : v # w => pc'[v] = pc[v] /\ task'[v] = task[v],
           \A v \in Workers : v # w /\ pc[v] = "return" => task[v].block # c
    PROVE  \A v \in Workers : v # w /\ v \in active' => v \in active
<1> SUFFICES ASSUME NEW v \in Workers, v # w, v \in active'
             PROVE  v \in active
  OBVIOUS
<1>1. pc'[v] \notin {"idle", "release"} /\ ~(pc'[v] = "return" /\ task'[v].block \notin owing')
  BY DEF active
<1> QED BY <1>1 DEF active

\* The other workers have other blocks, and do not return a locked one.
LEMMA OtherBlocks ==
    ASSUME Base, OneTask, NEW w \in Workers, pc[w] # "idle", NEW c, c = task[w].block \/ Free(c)
    PROVE  \A v \in Workers : v # w /\ pc[v] = "return" => task[v].block # c
<1> SUFFICES ASSUME NEW v \in Workers, v # w, pc[v] = "return", task[v].block = c
             PROVE  FALSE
  OBVIOUS
<1>1. c # task[w].block
  BY DEF OneTask
<1>2. lock[c] = v
  BY OwnBlock DEF Base, Inside
<1>3. v # Nil
  BY BlockFacts
<1> QED BY <1>1, <1>2, <1>3 DEF Free

\* A worker does not change the client.
LEMMA WorkerLeavesClient ==
    ASSUME NEW w \in Workers, WorkerStep(w)
    PROVE  UNCHANGED clientVars
BY Zenon DEF WorkerStep, TakeTask, RunInput, TrainCore, ProcessCore, BackpropagateCore, LockOutput,
       ConnectOutputBuffer, TrainOutput, ProcessOutput, BackpropagateOutput, SendBackward,
       UpdateFinishCounter, StartForward, SelectTarget, SelectBlock, CreateBlock, SendForward,
       ReleaseBlock, StartBackward, FinishBackward, ReturnSlot, RetryBackward, clientVars

\* What a step of a worker leaves alone.
LEMMA WorkerFrame ==
    ASSUME Base, NEW w \in Workers, WorkerStep(w)
    PROVE  /\ UNCHANGED <<clientVars, kind, Running>>
           /\ counter'.expected = counter.expected /\ counter'.compare = counter.compare
           /\ \A v \in Workers : v # w => /\ pc'[v] = pc[v] /\ task'[v] = task[v]
                                          /\ counts'[v] = counts[v] /\ goal'[v] = goal[v]
                                          /\ pick'[v] = pick[v]
<1>1. UNCHANGED clientVars
  BY WorkerLeavesClient
<1>2. UNCHANGED counter \/ UpdateFinishCounter(w)
  BY Zenon DEF WorkerStep, TakeTask, RunInput, TrainCore, ProcessCore, BackpropagateCore, LockOutput,
         ConnectOutputBuffer, TrainOutput, ProcessOutput, BackpropagateOutput, SendBackward,
         StartForward, SelectTarget, SelectBlock, CreateBlock, SendForward, ReleaseBlock,
         StartBackward, FinishBackward, ReturnSlot, RetryBackward
<1>3. counter'.expected = counter.expected /\ counter'.compare = counter.compare
  <2>1. counter \in [n : Nat, compare : Nat, expected : Nat]
    BY DEF Base, TypeOK
  <2> QED BY <1>2, <2>1 DEF UpdateFinishCounter
<1>4. UNCHANGED <<kind, Running>>
  BY <1>1 DEF kind, Running, clientVars
<1> QED BY <1>1, <1>3, <1>4, OneWorker DEF Base
-----------------------------------------------------------------------------
(* The rest of the invariant, where a step does not touch it.              *)

\* The inductive invariant.
ChainInv ==
    /\ Base /\ Bounded /\ Rooted /\ Looking /\ Edges /\ Working /\ OneTask /\ Cycles
    /\ Parking /\ Attaching /\ Training /\ Requesting /\ Reporting /\ Client1 /\ Promises

\* Links and waves that only grow.
LEMMA EdgesKept ==
    ASSUME Edges, UNCHANGED <<to, back, reached>>, fresh \subseteq fresh',
           attached \subseteq attached', sized \subseteq sized'
    PROVE  Edges'
<1> SUFFICES ASSUME NEW a \in Senders
             PROVE  /\ a \in back => to[a] # Nil /\ to[a] \in reached
                    /\ to[a] \in reached => a \in reached /\ a \in fresh'
                    /\ a \in back /\ to[a] \in Cores => to[a] \in back
                    /\ a \in back /\ to[a] \in Outputs => to[a] \in attached' \cap sized'
  BY DEF Edges
<1> QED BY DEF Edges

\* No new worker looks for a target.
LEMMA LookingKept ==
    ASSUME Looking, NEW w \in Workers, pc'[w] \notin {"select", "create", "handover"},
           \A v \in Workers : v # w => /\ pc'[v] = pc[v] /\ task'[v] = task[v]
                                       /\ goal'[v] = goal[v] /\ pick'[v] = pick[v]
    PROVE  Looking'
<1> SUFFICES ASSUME NEW v \in Workers
             PROVE  /\ pc'[v] # "handover"
                    /\ pc'[v] \in {"select", "create"} =>
                          goal'[v] \in Possible[HexOf[task'[v].block]] /\ IsTarget(goal'[v])
                    /\ pc'[v] = "select" => HexOf[pick'[v]] = goal'[v]
  BY DEF Looking, IsTarget
<1>1. CASE v = w
  BY <1>1
<1>2. CASE v # w
  BY <1>2 DEF Looking
<1> QED BY <1>1, <1>2

\* No buffer changes.
LEMMA ParkingKept ==
    ASSUME Parking, UNCHANGED <<buffer, call, kind, Running>>, attached \subseteq attached',
           registered \subseteq registered', reached \subseteq reached',
           \A b \in parked : from'[b] \notin back'
    PROVE  Parking'
<1>1. parked' = parked
  BY SameBuffers
<1>2. \A o \in Buffers : \A j, k \in DOMAIN buffer'[o].unfinished :
          /\ buffer'[o].unfinished[j] = buffer'[o].unfinished[k] => j = k
          /\ BufferOf[buffer'[o].unfinished[j]] = o
  BY DEF Parking
<1>3. \A b \in parked' :
          /\ Running' /\ kind' = "train" /\ b \in registered' /\ b \in reached'
          /\ from'[b] \notin back' /\ b \in attached'
  BY <1>1 DEF Parking
<1> QED BY <1>2, <1>3 DEF Parking

\* Nothing is attached.
LEMMA AttachingKept ==
    ASSUME Attaching, UNCHANGED <<buffer, attached>>, registered \subseteq registered'
    PROVE  Attaching'
BY DEF Attaching, AttachedTo

\* Nothing is added.
LEMMA TrainingKept ==
    ASSUME Training, UNCHANGED <<buffer, call, cpc, todo, attached>>, reached \subseteq reached'
    PROVE  Training'
<1>1. UNCHANGED <<counted, complete, kind, Running>>
  BY SameBuffers DEF kind, Running
<1> QED BY <1>1 DEF Training

\* Nothing is counted.
LEMMA RequestingKept ==
    ASSUME Requesting, UNCHANGED <<buffer, call, cpc, attached>>
    PROVE  Requesting'
<1>1. UNCHANGED <<counted, complete, kind, Running>>
  BY SameBuffers DEF kind, Running
<1> QED BY <1>1 DEF Requesting, Adding, CountedIn, AttachedTo

\* A network that is grown stays so.
LEMMA GrownKept ==
    ASSUME Grown, UNCHANGED <<to, registered>>, attached \subseteq attached', sized \subseteq sized'
    PROVE  Grown'
BY DEF Grown

\* While a wave is under way the client promises nothing new.
LEMMA PromisesKept ==
    ASSUME Promises, Running, UNCHANGED <<call, cpc>>, Grown => Grown'
    PROVE  Promises'
<1>1. kind' = kind /\ cpc \notin {"idle", "collect"}
  BY DEF kind, Running
<1>2. (\E d \in 1..call' : Calls[d].kind = "train" /\ (d < call' \/ cpc' = "idle")) => Grown'
  BY DEF Promises
<1> QED BY <1>1, <1>2 DEF Promises

\* The client at work, while the workers pass its wave on.
LEMMA ClientKept ==
    ASSUME Client1, Running, UNCHANGED <<call, cpc, todo, arg>>, fresh' \cap Inputs \subseteq fresh
    PROVE  Client1'
<1>1. UNCHANGED <<kind, Running>> /\ cpc \in {"input", "apply", "poll"}
  BY DEF kind, Running
<1>2. call > 0 /\ kind \in {"train", "request"}
  BY <1>1 DEF Client1
<1>3. /\ cpc \in {"input", "apply"} => todo \subseteq Inputs /\ todo \cap fresh' = {}
      /\ cpc = "apply" => arg \in Inputs \ todo /\ arg \notin fresh'
  BY DEF Client1
<1> QED BY <1>1, <1>2, <1>3 DEF Client1

\* The blocks the workers are busy with, when one goes on or ends its task.
LEMMA TakenAfter ==
    ASSUME NEW w \in Workers, pc[w] # "idle", task'[w] = task[w] \/ pc'[w] = "idle",
           \A v \in Workers : v # w => pc'[v] = pc[v] /\ task'[v] = task[v]
    PROVE  taken' \subseteq taken
<1> SUFFICES ASSUME NEW v \in Workers, pc'[v] # "idle"
             PROVE  task'[v].block \in taken
  BY DEF taken
<1>1. pc[v] # "idle" /\ task'[v] = task[v]
  OBVIOUS
<1> QED BY <1>1 DEF taken

\* The reports are finitely many.
LEMMA ReportsFinite ==
    /\ IsFiniteSet(reportedInputs) /\ IsFiniteSet(reportedBuffers)
    /\ Cardinality(reportedInputs) \in Nat /\ Cardinality(reportedBuffers) \in Nat
    /\ InputReports \in Nat
<1>1. reportedInputs \subseteq Inputs /\ reportedBuffers \subseteq Buffers
  BY DEF reportedInputs, reportedBuffers, complete
<1>2. IsFiniteSet(reportedInputs) /\ IsFiniteSet(reportedBuffers)
  BY <1>1, FS_Subset, BlockAssumption
<1> QED BY <1>2, FS_CardinalityType DEF InputReports

\* The same in the next state.
LEMMA NextReportsFinite ==
    /\ IsFiniteSet(reportedInputs') /\ IsFiniteSet(reportedBuffers')
    /\ Cardinality(reportedInputs') \in Nat /\ Cardinality(reportedBuffers') \in Nat
<1>1. reportedInputs' \subseteq Inputs /\ reportedBuffers' \subseteq Buffers
  BY DEF reportedInputs, reportedBuffers, complete
<1>2. IsFiniteSet(reportedInputs') /\ IsFiniteSet(reportedBuffers')
  BY <1>1, FS_Subset, BlockAssumption
<1> QED BY <1>2, FS_CardinalityType

\* More inputs and buffers reported, and no report more.
LEMMA MoreReports ==
    ASSUME Base, counter.n <= InputReports + Cardinality(reportedBuffers), counter' = counter,
           kind' = kind,
           reportedInputs \subseteq reportedInputs', reportedBuffers \subseteq reportedBuffers'
    PROVE  counter'.n <= InputReports' + Cardinality(reportedBuffers')
<1>1. /\ Cardinality(reportedInputs) <= Cardinality(reportedInputs')
      /\ Cardinality(reportedBuffers) <= Cardinality(reportedBuffers')
  BY FS_Subset, NextReportsFinite
<1>2. InputReports <= InputReports'
  BY <1>1 DEF InputReports
<1>3. InputReports \in Nat /\ InputReports' \in Nat /\ counter.n \in Nat
  BY ReportsFinite, NextReportsFinite DEF InputReports, Base, TypeOK
<1>4. Cardinality(reportedBuffers) \in Nat /\ Cardinality(reportedBuffers') \in Nat
  BY ReportsFinite, NextReportsFinite
<1> QED BY <1>1, <1>2, <1>3, <1>4

\* No worker makes a report, and none has another to make.
LEMMA ReportingKept ==
    ASSUME Base, Reporting, NEW w \in Workers, UNCHANGED <<counter, complete, cpc, call>>,
           back \subseteq back',
           \A i \in Inputs \cap back : i \in queued' \/ i \in taken' => i \in queued \/ i \in taken,
           \A v \in Workers : v # w => /\ pc'[v] = pc[v] /\ task'[v] = task[v]
                                       /\ counts'[v] = counts[v],
           counts'[w] /\ task'[w].block \in Outputs => counts[w] /\ task'[w] = task[w],
           counts'[w] => pc'[w] \in {"gradient", "sendback", "count"},
           pc'[w] = "count" => counts'[w]
    PROVE  Reporting'
<1>1. UNCHANGED <<kind, Running>>
  BY DEF kind, Running
<1>2. \A v \in Workers : /\ counts'[v] => pc'[v] \in {"gradient", "sendback", "count"}
                         /\ pc'[v] = "count" => counts'[v]
  <2> SUFFICES ASSUME NEW v \in Workers
               PROVE  /\ counts'[v] => pc'[v] \in {"gradient", "sendback", "count"}
                      /\ pc'[v] = "count" => counts'[v]
    OBVIOUS
  <2>1. CASE v = w
    BY <2>1
  <2>2. CASE v # w
    BY <2>2 DEF Reporting
  <2> QED BY <2>1, <2>2
<1>3. \A v \in Workers, o \in Buffers : Counts(v, o)' => Counts(v, o)
  <2> SUFFICES ASSUME NEW v \in Workers, NEW o \in Buffers,
                      counts'[v], task'[v].block \in Outputs, BufferOf[task'[v].block] = o
               PROVE  counts[v] /\ task[v].block \in Outputs /\ BufferOf[task[v].block] = o
    BY DEF Counts
  <2>1. CASE v = w
    BY <2>1
  <2>2. CASE v # w
    BY <2>2
  <2> QED BY <2>1, <2>2
<1>4. \A o \in Buffers, v \in Workers : Counts(v, o)' =>
          o \in complete' /\ \A u \in Workers : Counts(u, o)' => u = v
  BY <1>3 DEF Reporting
<1>5. reportedInputs \subseteq reportedInputs' /\ reportedBuffers \subseteq reportedBuffers'
  <2>1. reportedInputs \subseteq reportedInputs'
    BY DEF reportedInputs
  <2>2. reportedBuffers \subseteq reportedBuffers'
    <3> SUFFICES ASSUME NEW o \in reportedBuffers PROVE o \in reportedBuffers'
      OBVIOUS
    <3>1. o \in Buffers /\ o \in complete' /\ \A v \in Workers : ~Counts(v, o)
      BY DEF reportedBuffers, complete
    <3>2. \A v \in Workers : ~Counts(v, o)'
      BY <1>3, <3>1
    <3> QED BY <3>1, <3>2 DEF reportedBuffers
  <2> QED BY <2>1, <2>2
<1>6. /\ cpc' \in {"expect", "reset"} \/ Running' =>
          counter'.compare = (IF kind' = "train" THEN Cardinality(Inputs) ELSE 0) + Cardinality(Buffers)
      /\ cpc' \in {"expect", "reset"} => counter'.n = 0
  BY <1>1 DEF Reporting
<1>7. Running' => counter'.n <= InputReports' + Cardinality(reportedBuffers')
  <2> SUFFICES ASSUME Running'
               PROVE  counter'.n <= InputReports' + Cardinality(reportedBuffers')
    OBVIOUS
  <2>1. counter.n <= InputReports + Cardinality(reportedBuffers)
    BY <1>1 DEF Reporting
  <2> QED BY <1>1, <1>5, <2>1, MoreReports
<1> QED BY <1>2, <1>4, <1>6, <1>7 DEF Reporting
-----------------------------------------------------------------------------
(* The steps of a worker.                                                  *)

\* What every step has to keep, besides what GrowInvariance says.
Kept == /\ Single' /\ Bounded' /\ Rooted' /\ Looking' /\ Edges' /\ Working' /\ OneTask' /\ Cycles'
        /\ Parking' /\ Attaching' /\ Training' /\ Requesting' /\ Reporting' /\ Client1' /\ Promises'

\* A step that adds no link and changes no buffer.
LEMMA QuietRest ==
    ASSUME ChainInv, NEW w \in Workers, WorkerStep(w), Running,
           UNCHANGED <<to, registered, buffer, attached>>, sized \subseteq sized',
           reached \subseteq reached', fresh' \cap Inputs \subseteq fresh,
           \A b \in parked : from'[b] \notin back'
    PROVE  /\ Rooted' /\ Parking' /\ Attaching' /\ Training' /\ Requesting'
           /\ Client1' /\ Promises'
<1>1. /\ Base /\ Rooted /\ Parking /\ Attaching /\ Training /\ Requesting
      /\ Client1 /\ Promises
  BY DEF ChainInv
<1>2. UNCHANGED <<call, cpc, todo, arg, kind, Running>>
  BY <1>1, WorkerFrame DEF clientVars
<1>3. Rooted'
  BY <1>1 DEF Rooted
<1>4. Parking'
  BY <1>1, <1>2, ParkingKept
<1>5. Attaching' /\ Training' /\ Requesting'
  BY <1>1, <1>2, AttachingKept, TrainingKept, RequestingKept
<1>6. Client1'
  BY <1>1, <1>2, ClientKept
<1>7. Promises'
  <2>1. Grown => Grown'
    BY GrownKept
  <2> QED BY <1>1, <1>2, <2>1, PromisesKept
<1> QED BY <1>3, <1>4, <1>5, <1>6, <1>7

\* Nor does it look for a target, or make a report.
LEMMA Quietly ==
    ASSUME ChainInv, NEW w \in Workers, WorkerStep(w), Running,
           UNCHANGED <<to, registered, buffer, attached, counter>>, sized \subseteq sized',
           back \subseteq back', reached \subseteq reached', fresh' \cap Inputs \subseteq fresh,
           \A b \in parked : from'[b] \notin back',
           pc'[w] \notin {"select", "create", "handover"},
           \A i \in Inputs \cap back : i \in queued' \/ i \in taken' => i \in queued \/ i \in taken,
           counts'[w] /\ task'[w].block \in Outputs => counts[w] /\ task'[w] = task[w],
           counts'[w] => pc'[w] \in {"gradient", "sendback", "count"},
           pc'[w] = "count" => counts'[w]
    PROVE  /\ Rooted' /\ Looking' /\ Parking' /\ Attaching' /\ Training' /\ Requesting'
           /\ Reporting' /\ Client1' /\ Promises'
<1>1. Base /\ Looking /\ Reporting
  BY DEF ChainInv
<1>2. /\ UNCHANGED <<call, cpc, todo, arg, kind, Running>>
      /\ \A v \in Workers : v # w => /\ pc'[v] = pc[v] /\ task'[v] = task[v]
                                     /\ counts'[v] = counts[v] /\ goal'[v] = goal[v]
                                     /\ pick'[v] = pick[v]
  BY <1>1, WorkerFrame DEF clientVars
<1>3. UNCHANGED <<counted, parked, complete>>
  BY <1>2, SameBuffers
<1>4. Looking'
  BY <1>1, <1>2, LookingKept
<1>5. Reporting'
  BY <1>1, <1>2, <1>3, ReportingKept
<1>6. /\ Rooted' /\ Parking' /\ Attaching' /\ Training' /\ Requesting' /\ Client1' /\ Promises'
  BY QuietRest
<1> QED BY <1>4, <1>5, <1>6

\* A worker goes on within its task, and changes no block that others see.
LEMMA QuietStep ==
    ASSUME ChainInv, NEW w \in Workers, WorkerStep(w), Running,
           pc[w] \notin {"idle", "release"}, pc[w] # "return" \/ task[w].block \in owing,
           UNCHANGED <<io, level, registered, buffer, attached, sized, counter, queue>>,
           task' = task,
           <<task[w], pc'[w]>> \in sound',
           pc'[w] \notin {"select", "create", "handover"},
           counts'[w] /\ task'[w].block \in Outputs => counts[w],
           counts'[w] => pc'[w] \in {"gradient", "sendback", "count"},
           pc'[w] = "count" => counts'[w]
    PROVE  Kept
<1>1. /\ Base /\ Bounded /\ Rooted /\ Edges /\ Working /\ OneTask /\ Cycles /\ Parking
  BY DEF ChainInv
<1>2. /\ UNCHANGED <<call, kind, Running>>
      /\ \A v \in Workers : v # w => pc'[v] = pc[v] /\ task'[v] = task[v]
  BY <1>1, WorkerFrame DEF clientVars
<1>3. /\ UNCHANGED <<to, from, owing, fresh, back, paid, reached>> /\ Single' /\ Bounded'
  BY <1>1, <1>2, QuietWave
<1>4. UNCHANGED <<counted, parked, complete>>
  BY <1>2, SameBuffers
<1>5. sound' = sound
  BY <1>2, <1>3, <1>4, SameSound
<1>6. \A v \in Workers : v # w /\ v \in active' => v \in active
  BY <1>2, <1>3 DEF active
<1>7. Working' /\ OneTask' /\ Cycles' /\ queued' = queued
  BY <1>1, <1>2, <1>5, <1>6, JobsQuiet
<1>8. taken' \subseteq taken
  BY <1>2, TakenAfter
<1>9. Edges'
  BY <1>1, <1>3, EdgesKept
<1>10. \A b \in parked : from'[b] \notin back'
  BY <1>1, <1>3 DEF Parking
<1>11. \A i \in Inputs \cap back : i \in queued' \/ i \in taken' => i \in queued \/ i \in taken
  BY <1>7, <1>8
<1>12. /\ Rooted' /\ Looking' /\ Parking' /\ Attaching' /\ Training' /\ Requesting'
       /\ Reporting' /\ Client1' /\ Promises'
  BY <1>3, <1>10, <1>11, Quietly
<1> QED BY <1>3, <1>7, <1>9, <1>12 DEF Kept

\* A worker takes the next task.
LEMMA TakeTaskKept ==
    ASSUME SeparateChains, ChainInv, NEW w \in Workers, TakeTask(w)
    PROVE  Kept
<1>1. /\ Base /\ Bounded /\ Rooted /\ Edges /\ Working /\ OneTask /\ Cycles /\ Parking
      /\ Reporting /\ Client1
  BY DEF ChainInv
<1>2. /\ UNCHANGED <<call, kind, Running>> /\ WorkerStep(w)
      /\ \A v \in Workers : v # w => pc'[v] = pc[v] /\ task'[v] = task[v]
  BY <1>1, WorkerFrame DEF clientVars, WorkerStep
<1>3. /\ UNCHANGED <<to, from, owing, fresh, back, paid, reached>> /\ Single' /\ Bounded'
  BY <1>1, <1>2, QuietWave DEF TakeTask, netVars
<1>4. UNCHANGED <<counted, parked, complete>>
  BY <1>2, SameBuffers DEF TakeTask, netVars
<1>5. UNCHANGED <<registered, buffer, attached, sized, counter>>
  BY DEF TakeTask, netVars, outBlocks
<1>6. sound' = sound
  BY <1>2, <1>3, <1>4, <1>5, SameSound
<1>7. Working' /\ OneTask' /\ Cycles'
  BY <1>1, <1>3, <1>6, JobsTake
<1>8. queue \in Seq(TaskType) /\ queue # <<>> /\ pc \in [Workers -> WorkerPlaces]
      /\ task \in [Workers -> TaskType \cup {NoTask}] /\ counts \in [Workers -> BOOLEAN]
  BY <1>1 DEF Base, TypeOK, TakeTask
<1>9. queue' = Tail(queue) /\ task'[w] = Head(queue) /\ pc'[w] = "body" /\ counts'[w] = counts[w]
      /\ pc[w] = "idle"
  BY <1>8 DEF TakeTask, Goto
<1>10. Running
  BY <1>1, <1>8 DEF Client1, Quiescent
<1>11. queued' \cup taken' \subseteq queued \cup taken
  <2>1. 1 \in DOMAIN queue /\ Head(queue) = queue[1]
    BY <1>8
  <2>2. \A k \in DOMAIN Tail(queue) : k + 1 \in DOMAIN queue /\ Tail(queue)[k] = queue[k + 1]
    BY <1>8
  <2>3. queued' \subseteq queued
    BY <1>9, <2>2 DEF queued
  <2>4. taken' \subseteq queued \cup taken
    <3> SUFFICES ASSUME NEW v \in Workers, pc'[v] # "idle"
                 PROVE  task'[v].block \in queued \cup taken
      BY DEF taken
    <3>1. CASE v = w
      BY <1>9, <2>1, <3>1 DEF queued
    <3>2. CASE v # w
      BY <1>2, <3>2 DEF taken
    <3> QED BY <3>1, <3>2
  <2> QED BY <2>3, <2>4
<1>12. ~counts'[w]
  BY <1>1, <1>9 DEF Reporting
<1>13. Edges'
  BY <1>1, <1>3, <1>5, EdgesKept
<1>14. \A b \in parked : from'[b] \notin back'
  BY <1>1, <1>3 DEF Parking
<1>15. \A i \in Inputs \cap back : i \in queued' \/ i \in taken' => i \in queued \/ i \in taken
  BY <1>11
<1>16. /\ Rooted' /\ Looking' /\ Parking' /\ Attaching' /\ Training' /\ Requesting'
       /\ Reporting' /\ Client1' /\ Promises'
  BY <1>2, <1>3, <1>5, <1>9, <1>10, <1>12, <1>14, <1>15, Quietly
<1> QED BY <1>3, <1>7, <1>13, <1>16 DEF Kept

\* What a worker at a place other than the return knows of its task.
LEMMA OwnTask ==
    ASSUME ChainInv, NEW w \in Workers, pc[w] \notin {"idle", "release"},
           pc[w] # "return" \/ task[w].block \in owing
    PROVE  /\ Work(task[w], pc[w]) /\ task[w] \in TaskType /\ pc[w] \in Places
           /\ task[w].block \in Blocks /\ task[w].block \in registered /\ task[w].block \in reached
           /\ Running /\ call > 0
           /\ task[w].block \in Inputs => task[w].block \in Senders /\ task[w].block \in fresh
           /\ task[w].block \in Cores => task[w].block \in Senders /\ task[w].block \in Receivers
           /\ task[w].block \in Outputs => task[w].block \in Receivers
<1>1. Base /\ Working /\ pc[w] \in Places
  BY DEF ChainInv, Base, TypeOK, Places
<1> QED BY <1>1, Busy, WaveTypes

\* run of an input block
LEMMA RunInputKept ==
    ASSUME SeparateChains, ChainInv, NEW w \in Workers, RunInput(w)
    PROVE  Kept
<1> DEFINE b == task[w].block
<1>1. /\ pc[w] = "body" /\ b \in Inputs /\ WorkerStep(w) /\ task' = task
      /\ UNCHANGED <<io, level, registered, buffer, attached, sized, counter, queue>>
  BY DEF RunInput, At, netVars, outBlocks, WorkerStep
<1>2. /\ Work(task[w], "body") /\ task[w] \in TaskType /\ Running
      /\ b \in registered /\ b \in reached /\ b \in Senders /\ b \in fresh
  BY <1>1, OwnTask
<1>3. /\ UNCHANGED <<call, kind, Running>>
      /\ UNCHANGED <<to, from, owing, fresh, back, paid, reached>>
  BY <1>1, QuietWave, WorkerFrame DEF ChainInv, clientVars
<1>4. pc \in [Workers -> WorkerPlaces] /\ counts \in [Workers -> BOOLEAN] /\ b \notin Outputs
      /\ b \notin Cores
  BY <1>1, BlockAssumption DEF ChainInv, Base, TypeOK
<1>5. \/ Forwards(task[w]) /\ pc'[w] = "final" /\ counts'[w] = counts[w]
      \/ ~Forwards(task[w]) /\ pc'[w] = "count" /\ counts'[w] = TRUE
  BY <1>4 DEF RunInput, Goto
<1>6. ~counts[w]
  BY <1>1 DEF ChainInv, Reporting
<1>7. <<task[w], pc'[w]>> \in sound'
  <2>1. CASE Forwards(task[w])
    <3>1. b \notin back /\ to[b] \notin reached
      BY <1>2, <2>1 DEF Work, Ahead
    <3>2. "final" \in Places /\ "body" \in Places
      BY DEF Places, WorkerPlaces
    <3>3. b \in registered' /\ b \in reached' /\ b \notin back' /\ to'[b] \notin reached' /\ b \in fresh'
      BY <1>1, <1>2, <1>3, <3>1
    <3>4. <<task[w], "final">> \in sound'
      BY <1>2, <1>3, <2>1, <3>2, <3>3, AheadSound
    <3> QED BY <1>5, <2>1, <3>4
  <2>2. CASE ~Forwards(task[w])
    <3>1. b \in back
      BY <1>2, <2>2 DEF Work, Home
    <3>2. "count" \in Places /\ "body" \in Places
      BY DEF Places, WorkerPlaces
    <3>3. b \in registered' /\ b \in reached' /\ b \in back'
      BY <1>1, <1>2, <1>3, <3>1
    <3>4. <<task[w], "count">> \in sound'
      BY <1>1, <1>2, <1>3, <1>4, <2>2, <3>2, <3>3, HomeSound
    <3> QED BY <1>5, <2>2, <3>4
  <2> QED BY <2>1, <2>2
<1> QED BY <1>1, <1>2, <1>4, <1>5, <1>6, <1>7, QuietStep

\* train and process of a core block
LEMMA ForwardKept ==
    ASSUME SeparateChains, ChainInv, NEW w \in Workers, TrainCore(w) \/ ProcessCore(w)
    PROVE  Kept
<1> DEFINE b == task[w].block
<1>1. /\ pc[w] = "body" /\ b \in Cores /\ WorkerStep(w) /\ task' = task /\ Forwards(task[w])
      /\ UNCHANGED <<registered, buffer, attached, sized, counter, queue, counts>>
  BY DEF TrainCore, ProcessCore, At, outBlocks, WorkerStep, Forwards
<1>2. /\ Work(task[w], "body") /\ task[w] \in TaskType /\ Running
      /\ b \in registered /\ b \in reached /\ b \in Senders
  BY <1>1, OwnTask
<1>3. /\ Base /\ Bounded /\ Rooted /\ Edges /\ Working /\ OneTask /\ Cycles /\ Parking /\ Reporting
  BY DEF ChainInv
<1>4. /\ UNCHANGED <<call, kind, Running>>
      /\ \A v \in Workers : v # w => pc'[v] = pc[v] /\ task'[v] = task[v]
  BY <1>1, <1>3, WorkerFrame DEF clientVars
<1>5. /\ fresh' = fresh \cup {b}
      /\ UNCHANGED <<to, from, owing, back, paid, reached, registered, call>> /\ Single' /\ Bounded'
  BY <1>3, ForwardWave
<1>6. UNCHANGED <<counted, parked, complete>>
  BY <1>1, <1>4, SameBuffers
<1>7. pc'[w] = "final"
  BY <1>3 DEF TrainCore, ProcessCore, Goto, Base, TypeOK
<1>8. ~counts'[w]
  BY <1>1, <1>3 DEF Reporting
<1>9. b \notin back /\ to[b] \notin reached
  BY <1>1, <1>2 DEF Work, Ahead
<1>10. <<task[w], pc'[w]>> \in sound'
  <2>1. "final" \in Places /\ "body" \in Places
    BY DEF Places, WorkerPlaces
  <2>2. b \in registered' /\ b \in reached' /\ b \notin back' /\ to'[b] \notin reached' /\ b \in fresh'
    BY <1>1, <1>2, <1>5, <1>9
  <2>3. <<task[w], "final">> \in sound'
    BY <1>1, <1>2, <1>4, <2>1, <2>2, AheadSound
  <2> QED BY <1>7, <2>3
<1>11. \A j \in sound : j[1].block # b => j \in sound'
  <2>1. \A c \in tasked :
              /\ c \in registered' /\ c \in reached' /\ (c \in fresh => c \in fresh')
              /\ c \in Senders => /\ to'[c] = to[c]
                                  /\ c \in back' <=> c \in back
                                  /\ to[c] \in reached' => to[c] \in reached
              /\ c \in Receivers => /\ from'[c] = from[c]
                                    /\ from[c] \in back' => from[c] \in back
                                    /\ c \in paid => c \in paid'
              /\ c \in attached' <=> c \in attached
              /\ c \in sized => c \in sized'
              /\ c \in counted' => c \in counted
              /\ c \in parked' => c \in parked
    BY <1>1, <1>5, <1>6 DEF tasked
  <2> QED BY <1>4, <2>1, OthersSound
<1>12. \A v \in Workers : v # w /\ v \in active' => v \in active
  BY <1>4, <1>5 DEF active
<1>13. Working' /\ OneTask' /\ Cycles' /\ queued' = queued
  BY <1>1, <1>3, <1>4, <1>10, <1>11, <1>12, JobsQuiet
<1>14. taken' \subseteq taken
  BY <1>1, <1>4, TakenAfter
<1>15. Edges'
  BY <1>1, <1>3, <1>5, EdgesKept
<1>16. \A c \in parked : from'[c] \notin back'
  BY <1>3, <1>5 DEF Parking
<1>17. \A i \in Inputs \cap back : i \in queued' \/ i \in taken' => i \in queued \/ i \in taken
  BY <1>13, <1>14
<1>18. fresh' \cap Inputs \subseteq fresh
  BY <1>1, <1>5, BlockAssumption
<1>19. /\ Rooted' /\ Looking' /\ Parking' /\ Attaching' /\ Training' /\ Requesting'
       /\ Reporting' /\ Client1' /\ Promises'
  BY <1>1, <1>2, <1>5, <1>7, <1>8, <1>16, <1>17, <1>18, Quietly
<1> QED BY <1>5, <1>13, <1>15, <1>19 DEF Kept

\* backpropagate of a core block and of an output block
LEMMA GradientKept ==
    ASSUME SeparateChains, ChainInv, NEW w \in Workers, BackpropagateCore(w) \/ BackpropagateOutput(w)
    PROVE  Kept
<1> DEFINE b == task[w].block
<1>1. /\ WorkerStep(w) /\ task' = task
      /\ UNCHANGED <<registered, buffer, attached, counter, queue, counts>>
      /\ sized \subseteq sized'
      /\ pc[w] \in {"body", "gradient"}
  BY DEF BackpropagateCore, BackpropagateOutput, At, outBlocks, WorkerStep
<1>2. /\ Work(task[w], pc[w]) /\ task[w] \in TaskType /\ Running /\ pc[w] \in Places
      /\ b \in registered /\ b \in reached
  BY <1>1, OwnTask
<1>3. /\ Base /\ Bounded /\ Rooted /\ Edges /\ Working /\ OneTask /\ Cycles /\ Parking /\ Reporting
      /\ Training
  BY DEF ChainInv
<1>4. /\ UNCHANGED <<call, kind, Running>>
      /\ \A v \in Workers : v # w => pc'[v] = pc[v] /\ task'[v] = task[v]
  BY <1>1, <1>3, WorkerFrame DEF clientVars
<1>5. /\ paid' = paid \cup {b} /\ b \in Receivers
      /\ UNCHANGED <<to, from, owing, fresh, back, reached, registered, call>> /\ Single' /\ Bounded'
  BY <1>3, GradientWave
<1>6. UNCHANGED <<counted, parked, complete>>
  BY <1>1, <1>4, SameBuffers
<1>7. pc \in [Workers -> WorkerPlaces]
  BY <1>3 DEF Base, TypeOK
<1>8. <<task[w], pc'[w]>> \in sound' /\ (counts'[w] => pc'[w] \in {"gradient", "sendback", "count"})
      /\ pc'[w] \in {"final", "sendback"}
  <2>1. CASE BackpropagateCore(w)
    <3>1. b \in Cores /\ pc[w] = "body" /\ ~Forwards(task[w]) /\ pc'[w] = "final" /\ b \in Senders
          /\ ~counts[w]
      BY <1>3, <1>7, <2>1, OwnTask DEF BackpropagateCore, At, Goto, Forwards, Reporting
    <3>2. b \in back /\ from[b] \notin back
      BY <1>2, <3>1 DEF Work, Home
    <3>3. "final" \in Places
      BY DEF Places, WorkerPlaces
    <3>4. b \in registered' /\ b \in reached' /\ b \in back' /\ from'[b] \notin back' /\ b \in paid'
      BY <1>1, <1>2, <1>5, <3>2
    <3>5. <<task[w], "final">> \in sound'
      BY <1>2, <1>4, <3>1, <3>3, <3>4, HomeSound
    <3> QED BY <1>1, <3>1, <3>5
  <2>2. CASE BackpropagateOutput(w)
    <3>1. pc[w] = "gradient" /\ pc'[w] = "sendback" /\ b \in Outputs
      BY <1>3, <1>7, <2>2 DEF BackpropagateOutput, Goto, Base, LockDiscipline
    <3>2. b \notin parked /\ from[b] \notin back /\ b \in attached /\ kind = "train" /\ b \in sized'
      BY <1>2, <2>2, <3>1 DEF Work, AtOutput, BackpropagateOutput
    <3>3. "sendback" \in Places
      BY DEF Places, WorkerPlaces
    <3>4. /\ b \in registered' /\ b \in reached' /\ b \notin parked' /\ from'[b] \notin back'
          /\ b \in attached' /\ b \in sized' /\ b \in paid'
      BY <1>1, <1>2, <1>5, <1>6, <3>2
    <3>5. <<task[w], "sendback">> \in sound'
      BY <1>2, <1>4, <3>1, <3>2, <3>3, <3>4, OutputSound
    <3> QED BY <3>1, <3>5
  <2> QED BY <2>1, <2>2
<1>9. \A j \in sound : j[1].block # b => j \in sound'
  <2>1. \A c \in tasked :
              /\ c \in registered' /\ c \in reached' /\ (c \in fresh => c \in fresh')
              /\ c \in Senders => /\ to'[c] = to[c]
                                  /\ c \in back' <=> c \in back
                                  /\ to[c] \in reached' => to[c] \in reached
              /\ c \in Receivers => /\ from'[c] = from[c]
                                    /\ from[c] \in back' => from[c] \in back
                                    /\ c \in paid => c \in paid'
              /\ c \in attached' <=> c \in attached
              /\ c \in sized => c \in sized'
              /\ c \in counted' => c \in counted
              /\ c \in parked' => c \in parked
    BY <1>1, <1>5, <1>6 DEF tasked
  <2> QED BY <1>4, <2>1, OthersSound
<1>10. \A v \in Workers : v # w /\ v \in active' => v \in active
  BY <1>4, <1>5 DEF active
<1>11. Working' /\ OneTask' /\ Cycles' /\ queued' = queued
  BY <1>1, <1>3, <1>4, <1>8, <1>9, <1>10, JobsQuiet
<1>12. taken' \subseteq taken
  BY <1>1, <1>4, TakenAfter
<1>13. Edges'
  BY <1>1, <1>3, <1>5, EdgesKept
<1>14. \A c \in parked : from'[c] \notin back'
  BY <1>3, <1>5 DEF Parking
<1>15. \A i \in Inputs \cap back : i \in queued' \/ i \in taken' => i \in queued \/ i \in taken
  BY <1>11, <1>12
<1>16. /\ Rooted' /\ Looking' /\ Parking' /\ Attaching' /\ Training' /\ Requesting'
       /\ Reporting' /\ Client1' /\ Promises'
  BY <1>1, <1>2, <1>5, <1>8, <1>14, <1>15, Quietly
<1> QED BY <1>5, <1>11, <1>13, <1>16 DEF Kept

\* An output block is locked for its task.
LEMMA LockOutputKept ==
    ASSUME SeparateChains, ChainInv, NEW w \in Workers, LockOutput(w)
    PROVE  Kept
<1> DEFINE b == task[w].block
<1>1. /\ pc[w] = "body" /\ b \in Outputs /\ WorkerStep(w) /\ task' = task
      /\ UNCHANGED <<io, level, registered, buffer, attached, sized, counter, queue, counts>>
  BY DEF LockOutput, At, netVars, outBlocks, WorkerStep
<1>2. /\ Work(task[w], "body") /\ task[w] \in TaskType /\ Running
      /\ b \in registered /\ b \in reached
  BY <1>1, OwnTask
<1>3. /\ UNCHANGED <<call, kind, Running>>
      /\ UNCHANGED <<to, from, owing, fresh, back, paid, reached, counted, parked>>
  BY <1>1, QuietWave, WorkerFrame, SameBuffers DEF ChainInv, clientVars
<1>4. pc'[w] = IF b \notin attached THEN "connect" ELSE IF Forwards(task[w]) THEN "output" ELSE "gradient"
  BY DEF LockOutput, Goto, ChainInv, Base, TypeOK
<1>5. ~counts[w]
  BY <1>1 DEF ChainInv, Reporting
<1>6. /\ b \notin parked /\ from[b] \notin back
      /\ Forwards(task[w]) => b \notin counted
      /\ ~Forwards(task[w]) => b \in attached /\ kind = "train"
  BY <1>1, <1>2 DEF Work, AtOutput
<1>7. <<task[w], pc'[w]>> \in sound'
  <2>1. {"connect", "output", "gradient", "body"} \subseteq Places
    BY DEF Places, WorkerPlaces
  <2>2. /\ b \in registered' /\ b \in reached' /\ b \notin parked' /\ from'[b] \notin back'
        /\ Forwards(task[w]) => b \notin counted'
    BY <1>1, <1>2, <1>3, <1>6
  <2>3. CASE b \notin attached
    <3>1. b \notin attached' /\ Forwards(task[w]) /\ pc'[w] = "connect"
      BY <1>1, <1>4, <1>6, <2>3
    <3> QED BY <1>1, <1>2, <1>3, <2>1, <2>2, <3>1, OutputSound
  <2>4. CASE b \in attached /\ Forwards(task[w])
    <3>1. b \in attached' /\ pc'[w] = "output"
      BY <1>1, <1>4, <2>4
    <3> QED BY <1>1, <1>2, <1>3, <2>1, <2>2, <2>4, <3>1, OutputSound
  <2>5. CASE b \in attached /\ ~Forwards(task[w])
    <3>1. b \in attached' /\ pc'[w] = "gradient"
      BY <1>1, <1>4, <2>5
    <3> QED BY <1>1, <1>2, <1>3, <1>6, <2>1, <2>2, <2>5, <3>1, OutputSound
  <2> QED BY <2>3, <2>4, <2>5
<1>8. pc'[w] \in {"connect", "output", "gradient"}
  BY <1>4
<1> QED BY <1>1, <1>2, <1>5, <1>7, <1>8, QuietStep

\* A sender is locked to send its section, or to return its gradient; it is
\* released to try again.
LEMMA StartKept ==
    ASSUME SeparateChains, ChainInv, NEW w \in Workers,
           StartForward(w) \/ StartBackward(w) \/ \E i \in 1..2 : RetryBackward(w, i)
    PROVE  Kept
<1> DEFINE b == task[w].block
<1>1. /\ WorkerStep(w) /\ pc[w] \in {"final", "return"}
      /\ UNCHANGED <<io, level, registered, buffer, attached, sized, counter, queue, counts>>
  BY DEF StartForward, StartBackward, RetryBackward, At, netVars, outBlocks, WorkerStep
<1>2. Base /\ Reporting
  BY DEF ChainInv
<1>3. pc \in [Workers -> WorkerPlaces] /\ ~counts[w]
  BY <1>1, <1>2 DEF Base, TypeOK, Reporting
<1>4. {"final", "forward", "return"} \subseteq Places
  BY DEF Places, WorkerPlaces
<1>5. /\ UNCHANGED <<call, kind, Running>>
      /\ UNCHANGED <<to, from, owing, fresh, back, paid, reached>>
  BY <1>1, <1>2, QuietWave, WorkerFrame DEF clientVars
<1>6. CASE StartForward(w)
  <2>1. /\ pc[w] = "final" /\ pc'[w] = "forward" /\ Forwards(task[w])
        /\ b \in Inputs \cup Cores /\ task' = task
    BY <1>3, <1>6 DEF StartForward, At, Goto
  <2>2. /\ Work(task[w], "final") /\ task[w] \in TaskType /\ Running
        /\ b \in registered /\ b \in reached /\ b \in Senders
    BY <2>1, OwnTask
  <2>3. b \notin back /\ to[b] \notin reached /\ b \in fresh
    BY <2>1, <2>2 DEF Work, Ahead
  <2>4. b \in registered' /\ b \in reached' /\ b \notin back' /\ to'[b] \notin reached' /\ b \in fresh'
    BY <1>1, <1>5, <2>2, <2>3
  <2>5. <<task[w], pc'[w]>> \in sound'
    BY <1>4, <1>5, <2>1, <2>2, <2>4, AheadSound
  <2> QED BY <1>1, <1>3, <2>1, <2>2, <2>5, QuietStep
<1>7. CASE StartBackward(w)
  <2>1. /\ pc[w] = "final" /\ pc'[w] = "return" /\ ~Forwards(task[w]) /\ b \in Cores /\ task' = task
    BY <1>3, <1>7 DEF StartBackward, At, Goto
  <2>2. /\ Work(task[w], "final") /\ task[w] \in TaskType /\ Running
        /\ b \in registered /\ b \in reached /\ b \in Senders
    BY <2>1, OwnTask
  <2>3. b \in back /\ from[b] \notin back /\ b \in paid
    BY <2>1, <2>2 DEF Work, Home
  <2>4. b \in registered' /\ b \in reached' /\ b \in back' /\ from'[b] \notin back' /\ b \in paid'
    BY <1>1, <1>5, <2>2, <2>3
  <2>5. <<task[w], pc'[w]>> \in sound'
    BY <1>4, <1>5, <2>1, <2>2, <2>4, HomeSound
  <2> QED BY <1>1, <1>3, <2>1, <2>2, <2>5, QuietStep
<1>8. ASSUME NEW i \in 1..2, RetryBackward(w, i)
      PROVE  Kept
  <2>1. /\ pc[w] = "return" /\ pc'[w] = "final" /\ task' = task /\ i \in Pending(io[b])
    BY <1>3, <1>8 DEF RetryBackward, IsNext, Goto, SeparateChains
  <2>2. b \in Cores /\ b \in owing
    BY <1>2, <2>1, OwnBlock DEF owing, Base, LockDiscipline
  <2>3. /\ Work(task[w], "return") /\ task[w] \in TaskType /\ Running
        /\ b \in registered /\ b \in reached /\ b \in Senders
    BY <2>1, <2>2, OwnTask
  <2>4. b \notin Outputs
    BY <2>2, BlockAssumption
  <2>5. ~Forwards(task[w])
    BY <2>3 DEF Work, Ahead
  <2>6. b \in back /\ from[b] \notin back /\ b \in paid
    BY <2>2, <2>3, <2>5 DEF Work, Home
  <2>7. b \in registered' /\ b \in reached' /\ b \in back' /\ from'[b] \notin back' /\ b \in paid'
    BY <1>1, <1>5, <2>3, <2>6
  <2>8. <<task[w], pc'[w]>> \in sound'
    BY <1>4, <1>5, <2>1, <2>2, <2>3, <2>5, <2>7, HomeSound
  <2> QED BY <1>1, <1>3, <2>1, <2>2, <2>3, <2>8, QuietStep
<1> QED BY <1>6, <1>7, <1>8

\* One more in a finite set.
LEMMA OneMore ==
    ASSUME NEW S, NEW T, IsFiniteSet(T), S \subseteq T, NEW x \in T, x \notin S
    PROVE  Cardinality(S) + 1 <= Cardinality(T) /\ Cardinality(S) \in Nat /\ Cardinality(T) \in Nat
<1>1. IsFiniteSet(S)
  BY FS_Subset
<1>2. /\ IsFiniteSet(S \cup {x}) /\ Cardinality(S \cup {x}) = Cardinality(S) + 1
  BY <1>1, FS_AddElement
<1>3. Cardinality(S \cup {x}) <= Cardinality(T)
  BY FS_Subset
<1> QED BY <1>1, <1>2, <1>3, FS_CardinalityType

\* A report: one input or one buffer more, and the counter one further.
LEMMA CountKept ==
    ASSUME SeparateChains, ChainInv, NEW w \in Workers, UpdateFinishCounter(w)
    PROVE  Kept
<1> DEFINE b == task[w].block
<1>1. /\ pc[w] = "count" /\ WorkerStep(w)
      /\ UNCHANGED <<io, level, registered, buffer, attached, sized, queue>>
  BY DEF UpdateFinishCounter, netVars, outBlocks, WorkerStep
<1>2. /\ Base /\ Bounded /\ Rooted /\ Edges /\ Working /\ OneTask /\ Cycles /\ Parking /\ Reporting
      /\ Looking
  BY DEF ChainInv
<1>3. /\ Work(task[w], "count") /\ Running /\ b \in Blocks /\ Blocks = Senders \cup Outputs
  BY <1>1, <1>2, OwnTask, WaveTypes
<1>4. /\ UNCHANGED <<call, cpc, kind, Running>>
      /\ counter'.expected = counter.expected /\ counter'.compare = counter.compare
      /\ \A v \in Workers : v # w => /\ pc'[v] = pc[v] /\ task'[v] = task[v] /\ counts'[v] = counts[v]
                                     /\ goal'[v] = goal[v] /\ pick'[v] = pick[v]
  BY <1>1, <1>2, WorkerFrame DEF clientVars
<1>5. /\ UNCHANGED <<to, from, owing, fresh, back, paid, reached>> /\ Single' /\ Bounded'
  BY <1>1, <1>2, <1>4, QuietWave
<1>6. UNCHANGED <<counted, parked, complete>>
  BY <1>1, <1>4, SameBuffers
<1>7. /\ pc'[w] = "idle" /\ ~counts'[w] /\ counter'.n = counter.n + 1
      /\ counter.n \in Nat
  <2>1. task[w].cycle = counter.expected
    BY <1>1, <1>2 DEF Cycles
  <2>2. /\ pc \in [Workers -> WorkerPlaces] /\ counts \in [Workers -> BOOLEAN]
        /\ counter \in [n : Nat, compare : Nat, expected : Nat]
    BY <1>2 DEF Base, TypeOK
  <2>3. pc'[w] = "idle" /\ counts'[w] = FALSE
    BY <2>2 DEF UpdateFinishCounter, Finish, Goto
  <2>4. counter' = [counter EXCEPT !.n = @ + 1]
    BY <2>1 DEF UpdateFinishCounter
  <2> QED BY <2>2, <2>3, <2>4
<1>8. sound' = sound
  BY <1>1, <1>4, <1>5, <1>6, SameSound
<1>9. \A v \in Workers : v # w /\ v \in active' => v \in active
  BY <1>4, <1>5 DEF active
<1>10. w \notin active'
  BY <1>7 DEF active
<1>11. Working' /\ OneTask' /\ Cycles' /\ queued' = queued
  BY <1>1, <1>2, <1>4, <1>7, <1>8, <1>9, <1>10, JobsQuiet
<1>12. taken' \subseteq taken
  BY <1>1, <1>4, <1>7, TakenAfter
<1>13. Edges'
  BY <1>1, <1>2, <1>5, EdgesKept
<1>14. Looking'
  BY <1>2, <1>4, <1>7, LookingKept
<1>15. \A c \in parked : from'[c] \notin back'
  BY <1>2, <1>5 DEF Parking
<1>16. /\ Rooted' /\ Parking' /\ Attaching' /\ Training' /\ Requesting' /\ Client1' /\ Promises'
  BY <1>1, <1>3, <1>5, <1>15, QuietRest
<1>17. counts[w] /\ b \in taken /\ b \notin queued
  <2>1. counts[w]
    BY <1>1, <1>2 DEF Reporting
  <2>2. b \in taken
    BY <1>1 DEF taken
  <2> QED BY <1>2, <2>1, <2>2 DEF OneTask
<1>18. \A v \in Workers, o \in Buffers : Counts(v, o)' => v # w /\ Counts(v, o)
  BY <1>4, <1>7 DEF Counts
<1>19. /\ reportedInputs \subseteq reportedInputs' /\ reportedBuffers \subseteq reportedBuffers'
  <2>1. reportedInputs \subseteq reportedInputs'
    BY <1>5, <1>11, <1>12 DEF reportedInputs
  <2>2. reportedBuffers \subseteq reportedBuffers'
    BY <1>6, <1>18 DEF reportedBuffers, complete
  <2> QED BY <2>1, <2>2
<1>20. counter.n <= InputReports + Cardinality(reportedBuffers)
  BY <1>2, <1>3 DEF Reporting
<1>21. counter'.n <= InputReports' + Cardinality(reportedBuffers')
  <2>1. CASE b \in Outputs
    <3> DEFINE o == BufferOf[b]
    <3>1. o \in Buffers /\ Counts(w, o)
      BY <1>17, <2>1, BlockAssumption DEF Counts
    <3>2. o \in complete /\ \A v \in Workers : Counts(v, o) => v = w
      BY <1>2, <3>1 DEF Reporting
    <3>3. o \notin reportedBuffers /\ o \in reportedBuffers'
      BY <1>6, <1>18, <3>1, <3>2 DEF reportedBuffers
    <3>4. Cardinality(reportedBuffers) + 1 <= Cardinality(reportedBuffers')
      BY <1>19, <3>3, OneMore, NextReportsFinite
    <3>5. InputReports <= InputReports'
      <4>1. Cardinality(reportedInputs) <= Cardinality(reportedInputs')
        BY <1>19, FS_Subset, NextReportsFinite
      <4> QED BY <1>4, <4>1 DEF InputReports
    <3>6. InputReports' \in Nat
      BY NextReportsFinite DEF InputReports
    <3> QED BY <1>7, <1>20, <3>4, <3>5, <3>6, ReportsFinite, NextReportsFinite
  <2>2. CASE b \in Senders
    <3>1. ~Forwards(task[w])
      BY <1>3, <2>2 DEF Work, Ahead
    <3>2. b \in Inputs /\ b \in back /\ kind = "train"
      BY <1>3, <2>2, <3>1 DEF Work, Home
    <3>3. b \notin taken'
      <4> SUFFICES ASSUME NEW v \in Workers, pc'[v] # "idle", task'[v].block = b PROVE FALSE
        BY DEF taken
      <4>1. v # w /\ pc[v] # "idle" /\ task[v].block = b
        BY <1>4, <1>7
      <4> QED BY <1>1, <1>2, <4>1 DEF OneTask
    <3>4. b \notin reportedInputs /\ b \in reportedInputs'
      BY <1>5, <1>11, <1>17, <3>2, <3>3 DEF reportedInputs
    <3>5. Cardinality(reportedInputs) + 1 <= Cardinality(reportedInputs')
      BY <1>19, <3>4, OneMore, NextReportsFinite
    <3>6. Cardinality(reportedBuffers) <= Cardinality(reportedBuffers')
      BY <1>19, FS_Subset, NextReportsFinite
    <3>7. /\ InputReports = Cardinality(reportedInputs)
          /\ InputReports' = Cardinality(reportedInputs')
      BY <1>4, <3>2 DEF InputReports
    <3> QED BY <1>7, <1>20, <3>5, <3>6, <3>7, ReportsFinite, NextReportsFinite
  <2> QED BY <1>3, <2>1, <2>2
<1>22. Reporting'
  <2>1. \A v \in Workers : /\ counts'[v] => pc'[v] \in {"gradient", "sendback", "count"}
                           /\ pc'[v] = "count" => counts'[v]
    <3> SUFFICES ASSUME NEW v \in Workers
                 PROVE  /\ counts'[v] => pc'[v] \in {"gradient", "sendback", "count"}
                        /\ pc'[v] = "count" => counts'[v]
      OBVIOUS
    <3>1. CASE v = w
      BY <1>7, <3>1
    <3>2. CASE v # w
      BY <1>2, <1>4, <3>2 DEF Reporting
    <3> QED BY <3>1, <3>2
  <2>2. \A o \in Buffers, v \in Workers : Counts(v, o)' =>
            o \in complete' /\ \A u \in Workers : Counts(u, o)' => u = v
    BY <1>2, <1>6, <1>18 DEF Reporting
  <2>3. /\ cpc' \in {"expect", "reset"} \/ Running' =>
            counter'.compare = (IF kind' = "train" THEN Cardinality(Inputs) ELSE 0) + Cardinality(Buffers)
        /\ ~(cpc' \in {"expect", "reset"})
    BY <1>2, <1>3, <1>4 DEF Reporting, Running
  <2> QED BY <1>21, <2>1, <2>2, <2>3 DEF Reporting
<1> QED BY <1>5, <1>11, <1>13, <1>14, <1>16, <1>22 DEF Kept

\* A block with nothing left to return is released; this may be after the call.
LEMMA FinishBackwardKept ==
    ASSUME SeparateChains, ChainInv, NEW w \in Workers, FinishBackward(w)
    PROVE  Kept
<1> DEFINE b == task[w].block
<1>1. /\ pc[w] = "return" /\ WorkerStep(w)
      /\ UNCHANGED <<level, registered, buffer, attached, sized, queue, counter, counts>>
      /\ io' = [io EXCEPT ![b] = ResetDone(@)]
  BY DEF FinishBackward, outBlocks, WorkerStep
<1>2. /\ Base /\ Bounded /\ Rooted /\ Edges /\ Working /\ OneTask /\ Cycles /\ Parking /\ Reporting
      /\ Looking /\ Attaching /\ Training /\ Requesting /\ Client1 /\ Promises
  BY DEF ChainInv
<1>3. b \in Blocks
  BY <1>1, <1>2, OwnBlock DEF Base
<1>4. /\ UNCHANGED <<call, cpc, todo, arg, answer, kind, Running>>
      /\ \A v \in Workers : v # w => /\ pc'[v] = pc[v] /\ task'[v] = task[v] /\ counts'[v] = counts[v]
                                     /\ goal'[v] = goal[v] /\ pick'[v] = pick[v]
  BY <1>1, <1>2, WorkerFrame DEF clientVars
<1>5. /\ UNCHANGED <<to, from, fresh, back, paid, reached>> /\ Single' /\ Bounded'
      /\ owing' \cup {b} = owing \cup {b}
  <2>1. io' = [io EXCEPT ![b] = ResetDone(io[b])]
    BY <1>1, <1>2, <1>3 DEF Base, TypeOK
  <2> QED BY <1>1, <1>2, <1>3, <1>4, <2>1, ResetWave
<1>6. UNCHANGED <<counted, parked, complete>>
  BY <1>1, <1>4, SameBuffers
<1>7. pc'[w] = "idle" /\ ~counts'[w]
  BY <1>1, <1>2 DEF Base, TypeOK, FinishBackward, Finish, Goto, Reporting
<1>8. sound' = sound
  BY <1>1, <1>4, <1>5, <1>6, SameSound
<1>9. \A v \in Workers : v # w /\ v \in active' => v \in active
  <2>1. \A v \in Workers : v # w /\ pc[v] = "return" => task[v].block # b
    BY <1>1, <1>2, OtherBlocks
  <2> QED BY <1>4, <1>5, <2>1, OthersActive
<1>10. w \notin active'
  BY <1>7 DEF active
<1>11. Working' /\ OneTask' /\ Cycles' /\ queued' = queued
  BY <1>1, <1>2, <1>4, <1>7, <1>8, <1>9, <1>10, JobsQuiet
<1>12. taken' \subseteq taken
  BY <1>1, <1>4, <1>7, TakenAfter
<1>13. Edges'
  BY <1>1, <1>2, <1>5, EdgesKept
<1>14. Looking'
  BY <1>2, <1>4, <1>7, LookingKept
<1>15. \A c \in parked : from'[c] \notin back'
  BY <1>2, <1>5 DEF Parking
<1>16. Rooted'
  BY <1>1, <1>2, <1>5 DEF Rooted
<1>17. Parking'
  BY <1>1, <1>2, <1>4, <1>5, <1>15, ParkingKept
<1>18. Attaching' /\ Training' /\ Requesting'
  BY <1>1, <1>2, <1>4, <1>5, AttachingKept, TrainingKept, RequestingKept
<1>19. Reporting'
  <2>1. \A i \in Inputs \cap back : i \in queued' \/ i \in taken' => i \in queued \/ i \in taken
    BY <1>11, <1>12
  <2> QED BY <1>1, <1>2, <1>4, <1>5, <1>6, <1>7, <2>1, ReportingKept
<1>20. Client1'
  <2>1. Quiescent => Quiescent'
    <3>1. active' \subseteq active
      BY <1>9, <1>10 DEF active
    <3> QED BY <1>1, <3>1 DEF Quiescent
  <2> QED BY <1>2, <1>4, <1>5, <2>1 DEF Client1
<1>21. Promises'
  <2>1. Grown' = Grown
    BY <1>1, <1>5 DEF Grown
  <2>2. Readable' = Readable /\ Collected' = Collected /\ Answered' = Answered
    BY <1>1, <1>4 DEF Readable, Collected, Answered, Exact, AttachedTo
  <2> QED BY <1>1, <1>2, <1>4, <1>5, <2>1, <2>2 DEF Promises
<1> QED BY <1>5, <1>11, <1>13, <1>14, <1>16, <1>17, <1>18, <1>19, <1>20, <1>21 DEF Kept

\* A block that has sent its section is released; this may be after the call.
LEMMA ReleaseBlockKept ==
    ASSUME SeparateChains, ChainInv, NEW w \in Workers, ReleaseBlock(w)
    PROVE  Kept
<1>1. /\ pc[w] = "release" /\ WorkerStep(w)
      /\ UNCHANGED <<io, level, registered, buffer, attached, sized, queue, counter, counts>>
  BY DEF ReleaseBlock, netVars, outBlocks, WorkerStep
<1>2. /\ Base /\ Bounded /\ Rooted /\ Edges /\ Working /\ OneTask /\ Cycles /\ Parking /\ Reporting
      /\ Looking /\ Attaching /\ Training /\ Requesting /\ Client1 /\ Promises
  BY DEF ChainInv
<1>3. /\ UNCHANGED <<call, cpc, todo, arg, answer, kind, Running>>
      /\ \A v \in Workers : v # w => /\ pc'[v] = pc[v] /\ task'[v] = task[v] /\ counts'[v] = counts[v]
                                     /\ goal'[v] = goal[v] /\ pick'[v] = pick[v]
  BY <1>1, <1>2, WorkerFrame DEF clientVars
<1>4. /\ UNCHANGED <<to, from, owing, fresh, back, paid, reached>> /\ Single' /\ Bounded'
  BY <1>1, <1>2, <1>3, QuietWave
<1>5. UNCHANGED <<counted, parked, complete>>
  BY <1>1, <1>3, SameBuffers
<1>6. pc'[w] = "idle" /\ ~counts'[w]
  BY <1>1, <1>2 DEF Base, TypeOK, ReleaseBlock, Finish, Goto, Reporting
<1>7. sound' = sound
  BY <1>1, <1>3, <1>4, <1>5, SameSound
<1>8. \A v \in Workers : v # w /\ v \in active' => v \in active
  BY <1>3, <1>4 DEF active
<1>9. w \notin active'
  BY <1>6 DEF active
<1>10. Working' /\ OneTask' /\ Cycles' /\ queued' = queued
  BY <1>1, <1>2, <1>3, <1>6, <1>7, <1>8, <1>9, JobsQuiet
<1>11. taken' \subseteq taken
  BY <1>1, <1>3, <1>6, TakenAfter
<1>12. Edges'
  BY <1>1, <1>2, <1>4, EdgesKept
<1>13. Looking'
  BY <1>2, <1>3, <1>6, LookingKept
<1>14. \A c \in parked : from'[c] \notin back'
  BY <1>2, <1>4 DEF Parking
<1>15. Rooted'
  BY <1>1, <1>2, <1>4 DEF Rooted
<1>16. Parking'
  BY <1>1, <1>2, <1>3, <1>4, <1>14, ParkingKept
<1>17. Attaching' /\ Training' /\ Requesting'
  BY <1>1, <1>2, <1>3, <1>4, AttachingKept, TrainingKept, RequestingKept
<1>18. Reporting'
  <2>1. \A i \in Inputs \cap back : i \in queued' \/ i \in taken' => i \in queued \/ i \in taken
    BY <1>10, <1>11
  <2> QED BY <1>1, <1>2, <1>3, <1>4, <1>5, <1>6, <2>1, ReportingKept
<1>19. Client1'
  <2>1. Quiescent => Quiescent'
    <3>1. active' \subseteq active
      BY <1>8, <1>9 DEF active
    <3> QED BY <1>1, <3>1 DEF Quiescent
  <2> QED BY <1>2, <1>3, <1>4, <2>1 DEF Client1
<1>20. Promises'
  <2>1. Grown' = Grown
    BY <1>1, <1>4 DEF Grown
  <2>2. Readable' = Readable /\ Collected' = Collected /\ Answered' = Answered
    BY <1>1, <1>3 DEF Readable, Collected, Answered, Exact, AttachedTo
  <2> QED BY <1>1, <1>2, <1>3, <1>4, <2>1, <2>2 DEF Promises
<1> QED BY <1>4, <1>10, <1>12, <1>13, <1>15, <1>16, <1>17, <1>18, <1>19, <1>20 DEF Kept
-----------------------------------------------------------------------------
(* The way back.                                                           *)

\* A new task for a block on the way back.
LEMMA NewHome ==
    ASSUME NEW t \in TaskType, NEW b, b = t.block, t.type = "Backpropagate", b \in Senders,
           Running', kind' = "train", b \in registered', b \in reached', b \in back',
           b \in Cores => from'[b] \notin back'
    PROVE  <<t, "queue">> \in sound'
<1>1. "queue" \in Places /\ ~Forwards(t) /\ b \notin Outputs
  BY BlockAssumption DEF Places, Forwards, Senders
<1>2. Home(b, "queue")'
  BY DEF Home
<1>3. Work(t, "queue")'
  BY <1>1, <1>2 DEF Work, Forwards
<1> QED BY <1>1, <1>3 DEF sound

\* A block that no task can be for has none, unless it is locked by a worker at
\* rest.
LEMMA Untasked ==
    ASSUME Base, Working, NEW a, a \notin tasked, Free(a)
    PROVE  a \notin queued /\ a \notin taken
<1>1. a \notin queued
  <2> SUFFICES ASSUME NEW k \in DOMAIN queue, queue[k].block = a PROVE FALSE
    BY DEF queued
  <2>1. <<queue[k], "queue">> \in sound
    BY DEF Working
  <2> DEFINE j == <<queue[k], "queue">>
  <2>2. j \in sound /\ j[1].block = a
    BY <2>1
  <2> HIDE DEF j
  <2> QED BY <2>2, SoundTasked
<1>2. a \notin taken
  <2> SUFFICES ASSUME NEW v \in Workers, pc[v] # "idle", task[v].block = a PROVE FALSE
    BY DEF taken
  <2>1. CASE v \in active
    <3> DEFINE j == <<task[v], pc[v]>>
    <3>1. j \in sound /\ j[1].block = a
      BY <2>1 DEF Working
    <3> HIDE DEF j
    <3> QED BY <3>1, SoundTasked
  <2>2. CASE v \notin active
    <3>1. pc[v] \in {"return", "release"}
      BY <2>2 DEF active
    <3>2. lock[a] = v /\ v # Nil
      BY <3>1, OwnBlock, BlockFacts DEF Base, Inside
    <3> QED BY <3>2 DEF Free
  <2> QED BY <2>1, <2>2
<1> QED BY <1>1, <1>2

\* A gradient comes back to the source of a block, which has a task now.
LEMMA ReturnKept ==
    ASSUME SeparateChains, ChainInv, NEW w \in Workers, WorkerStep(w), Running, pc[w] # "idle",
           task[w] \in TaskType, Work(task[w], pc[w]), pc[w] \in Places,
           NEW b, b = task[w].block, b \in Receivers, b \in registered, b \in reached, b \in paid,
           from[b] \notin back, kind = "train", b \notin parked,
           b \in Outputs => b \in attached \cap sized, b \in Cores => b \in back,
           Free(from[b]), io' = SentBack(b, 1), Enqueue(BackTasks(w, from[b])),
           UNCHANGED <<level, registered, buffer, attached, sized, counter, counts>>,
           \/ pc'[w] = "return" /\ task'[w] = task[w] /\ ~counts[w]
           \/ pc'[w] = "count" /\ task'[w] = task[w] /\ counts[w] /\ b \in Outputs
           \/ pc'[w] = "idle" /\ ~counts[w]
    PROVE  Kept
<1> DEFINE a == from[b]
           t == [task[w] EXCEPT !.type = "Backpropagate", !.block = a]
<1>1. /\ Base /\ Bounded /\ Rooted /\ Edges /\ Working /\ OneTask /\ Cycles /\ Parking /\ Reporting
  BY DEF ChainInv
<1>2. /\ UNCHANGED <<call, cpc, kind, Running>> /\ counter'.expected = counter.expected
      /\ \A v \in Workers : v # w => pc'[v] = pc[v] /\ task'[v] = task[v]
  BY <1>1, WorkerFrame DEF clientVars
<1>3. /\ a \in Senders /\ to[a] = b /\ back' = back \cup {a}
      /\ b \notin owing' /\ owing' \cup {b} = owing \cup {b}
      /\ UNCHANGED <<to, from, fresh, reached, paid>> /\ Single' /\ Bounded'
  BY <1>1, <1>2, ReturnWave
<1>4. /\ a \in Blocks /\ a # Nil /\ b # Nil /\ a \notin Outputs
      /\ Receivers \subseteq Blocks
  BY <1>1, <1>3, WaveTypes
<1>5. a \in registered /\ a \in reached /\ a # b
  BY <1>1, <1>3, <1>4, NoLoop DEF Edges
<1>6. a \notin tasked
  BY <1>3 DEF tasked
<1>7. a \notin queued /\ a \notin taken
  BY <1>1, <1>6, Untasked
<1>8. BackTasks(w, a) = <<t>>
  <2>1. io[a].outCount = 0 /\ Len(io[a].outs) = 1
    BY <1>1, <1>3, <1>4 DEF Base, Single
  <2> QED BY <2>1 DEF BackTasks, OutputsComplete
<1>9. t \in TaskType /\ t.block = a /\ t.type = "Backpropagate" /\ t.cycle = Cycle
  <2>1. task[w].cycle = Cycle
    BY <1>1 DEF Cycles
  <2>2. t \in TaskType
    BY <1>4, TaskFacts
  <2> QED BY <2>1, <2>2 DEF TaskType
<1> HIDE DEF t
<1>10. a \in Cores => from[a] \notin back'
  <2> SUFFICES ASSUME a \in Cores, from[a] \in back' PROVE FALSE
    OBVIOUS
  <2>1. a \in Receivers /\ from[a] \in Senders /\ from[a] # Nil
    BY <1>1, <1>3, WaveTypes
  <2>2. to[from[a]] = a
    BY <1>1, <2>1, Pairs
  <2>3. from[a] # a
    BY <1>1, <1>3, <1>4, <1>5, <2>1, <2>2
  <2>4. from[a] \in back
    BY <1>3, <2>3
  <2> QED BY <1>1, <2>1, <2>2, <2>4 DEF Edges
<1>11. <<t, "queue">> \in sound'
  BY <1>2, <1>3, <1>5, <1>9, <1>10, NewHome
<1>12. UNCHANGED <<counted, parked, complete>>
  BY <1>2, SameBuffers
<1>13. \A c \in Receivers : from[c] = a => c = b
  BY <1>1, <1>3, <1>4, Pairs
<1>14. \A j \in sound : j[1].block # b => j \in sound'
  <2>1. \A c \in tasked : c # b =>
              /\ c \in registered' /\ c \in reached' /\ (c \in fresh => c \in fresh')
              /\ c \in Senders => /\ to'[c] = to[c]
                                  /\ c \in back' <=> c \in back
                                  /\ to[c] \in reached' => to[c] \in reached
              /\ c \in Receivers => /\ from'[c] = from[c]
                                    /\ from[c] \in back' => from[c] \in back
                                    /\ c \in paid => c \in paid'
              /\ c \in attached' <=> c \in attached
              /\ c \in sized => c \in sized'
              /\ c \in counted' => c \in counted
              /\ c \in parked' => c \in parked
    <3>1. tasked \subseteq registered /\ tasked \subseteq reached
      BY DEF tasked
    <3> QED BY <1>3, <1>6, <1>12, <1>13, <3>1
  <2> QED BY <1>2, <2>1, OthersSound
<1>15. \A v \in Workers : v # w /\ v \in active' => v \in active
  <2>1. \A v \in Workers : v # w /\ pc[v] = "return" => task[v].block # b
    BY <1>1, OtherBlocks
  <2> QED BY <1>2, <1>3, <2>1, OthersActive
<1>16. w \in active' => <<task'[w], pc'[w]>> \in sound'
  <2> SUFFICES ASSUME w \in active' PROVE <<task'[w], pc'[w]>> \in sound'
    OBVIOUS
  <2>1. pc'[w] \notin {"idle", "release"} /\ ~(pc'[w] = "return" /\ task'[w].block \notin owing')
    BY DEF active
  <2>2. pc'[w] = "count" /\ task'[w] = task[w] /\ b \in Outputs
    BY <1>3, <2>1
  <2>3. "count" \in Places
    BY DEF Places, WorkerPlaces
  <2>4. b \in registered' /\ b \in reached' /\ b \notin parked' /\ b \in attached'
    BY <1>3, <1>12, <2>2
  <2>5. <<task[w], "count">> \in sound'
    BY <1>2, <2>2, <2>3, <2>4, OutputSound
  <2> QED BY <2>2, <2>5
<1>17. queue' = queue \o <<t>>
  BY <1>8 DEF Enqueue
<1>18. Working' /\ OneTask' /\ Cycles'
  BY <1>1, <1>2, <1>7, <1>9, <1>11, <1>14, <1>15, <1>16, <1>17, JobsMore
<1>19. Edges'
  <2> SUFFICES ASSUME NEW c \in Senders
               PROVE  /\ c \in back' => to[c] # Nil /\ to[c] \in reached
                      /\ to[c] \in reached => c \in reached /\ c \in fresh
                      /\ c \in back' /\ to[c] \in Cores => to[c] \in back'
                      /\ c \in back' /\ to[c] \in Outputs => to[c] \in attached \cap sized
    BY <1>3 DEF Edges
  <2>1. CASE c = a
    BY <1>1, <1>3, <1>4, <2>1 DEF Edges
  <2>2. CASE c # a
    BY <1>1, <1>3, <2>2 DEF Edges
  <2> QED BY <2>1, <2>2
<1>20. \A c \in parked : from'[c] \notin back'
  <2>1. \A c \in parked : c \in Receivers
    BY DEF parked, Receivers
  <2> QED BY <1>1, <1>3, <1>13, <2>1 DEF Parking
<1>21. queued' = queued \cup {a}
  <2>1. <<t>> \in Seq(TaskType) /\ DOMAIN <<t>> = {1} /\ <<t>>[1] = t
    BY <1>9
  <2>2. queued' = queued \cup {<<t>>[k].block : k \in DOMAIN <<t>>}
    BY <1>1, <1>17, <2>1, QueuedAfter
  <2>3. {<<t>>[k].block : k \in DOMAIN <<t>>} = {a}
    BY <1>9, <2>1
  <2> QED BY <2>2, <2>3
<1>22. taken' \subseteq taken
  BY <1>2, TakenAfter
<1>23. \A i \in Inputs \cap back : i \in queued' \/ i \in taken' => i \in queued \/ i \in taken
  BY <1>21, <1>22
<1>24. /\ Rooted' /\ Looking' /\ Parking' /\ Attaching' /\ Training' /\ Requesting'
       /\ Reporting' /\ Client1' /\ Promises'
  <2>1. back \subseteq back' /\ reached \subseteq reached' /\ fresh' \cap Inputs \subseteq fresh
    BY <1>3
  <2>2. /\ counts'[w] /\ task'[w].block \in Outputs => counts[w] /\ task'[w] = task[w]
        /\ counts'[w] => pc'[w] \in {"gradient", "sendback", "count"}
        /\ pc'[w] = "count" => counts'[w]
        /\ pc'[w] \notin {"select", "create", "handover"}
    OBVIOUS
  <2> QED BY <1>3, <1>20, <1>23, <2>1, <2>2, Quietly
<1> QED BY <1>3, <1>18, <1>19, <1>24 DEF Kept

\* send_backward and send_backward_with_retry
LEMMA BackwardKept ==
    ASSUME SeparateChains, ChainInv, NEW w \in Workers,
           SendBackward(w) \/ \E i \in 1..2 : ReturnSlot(w, i)
    PROVE  Kept
<1> DEFINE b == task[w].block
<1>1. Base /\ Reporting /\ WorkerStep(w)
  BY DEF ChainInv, WorkerStep
<1>2. CASE SendBackward(w)
  <2>1. pc[w] = "sendback" /\ b \in Outputs
    BY <1>1, <1>2 DEF SendBackward, Base, LockDiscipline
  <2>2. /\ Work(task[w], pc[w]) /\ task[w] \in TaskType /\ pc[w] \in Places
        /\ b \in Blocks /\ b \in registered /\ b \in reached /\ Running /\ b \in Receivers
    BY <2>1, OwnTask
  <2>3. /\ b \notin parked /\ from[b] \notin back /\ b \in attached /\ kind = "train"
        /\ b \in sized /\ b \in paid /\ b \notin Cores
    BY <2>1, <2>2, BlockAssumption DEF Work, AtOutput
  <2>4. from[b] # Nil /\ from[b] = io[b].slots[1].src
    BY <1>1, <2>2, WaveTypes DEF from
  <2>5. /\ Free(from[b]) /\ io' = SentBack(b, 1) /\ Enqueue(BackTasks(w, from[b]))
        /\ UNCHANGED <<level, registered, buffer, attached, sized, counter, counts>>
    BY <1>2, <2>4 DEF SendBackward, outBlocks
  <2>6. pc \in [Workers -> WorkerPlaces] /\ task \in [Workers -> TaskType \cup {NoTask}]
    BY <1>1 DEF Base, TypeOK
  <2>7. \/ pc'[w] = "count" /\ task'[w] = task[w] /\ counts[w] /\ b \in Outputs
        \/ pc'[w] = "idle" /\ ~counts[w]
    <3>1. CASE counts[w]
      <4>1. pc'[w] = "count" /\ task' = task
        BY <1>2, <2>6, <3>1 DEF SendBackward, Goto
      <4> QED BY <2>1, <3>1, <4>1
    <3>2. CASE ~counts[w]
      BY <1>2, <2>6, <3>2 DEF SendBackward, Finish, Goto
    <3> QED BY <3>1, <3>2
  <2> HIDE DEF b
  <2>8. b = task[w].block
    BY DEF b
  <2> QED BY <1>1, <2>1, <2>2, <2>3, <2>5, <2>7, <2>8, ReturnKept
<1>3. ASSUME NEW i \in 1..2, ReturnSlot(w, i)
      PROVE  Kept
  <2>1. pc[w] = "return" /\ b \in Cores /\ i \in Pending(io[b])
    BY <1>1, <1>3 DEF ReturnSlot, IsNext, Base, LockDiscipline
  <2>2. b \in Blocks
    BY <2>1, BlockFacts
  <2>3. b \in owing /\ i = 1
    BY <1>1, <2>1, <2>2, Pairs DEF owing
  <2>4. /\ Work(task[w], pc[w]) /\ task[w] \in TaskType /\ pc[w] \in Places
        /\ b \in registered /\ b \in reached /\ Running /\ b \in Receivers /\ b \in Senders
    BY <2>1, <2>3, OwnTask
  <2>5. b \notin Outputs /\ b \notin parked
    BY <2>1, BlockAssumption DEF parked
  <2>6. ~Forwards(task[w])
    BY <2>1, <2>4 DEF Work, Ahead
  <2>7. b \in back /\ from[b] \notin back /\ b \in paid /\ kind = "train"
    BY <2>1, <2>4, <2>6 DEF Work, Home
  <2>8. from[b] = io[b].slots[1].src
    BY <2>4 DEF from
  <2>9. /\ Free(from[b]) /\ io' = SentBack(b, 1) /\ Enqueue(BackTasks(w, from[b]))
        /\ UNCHANGED <<level, registered, buffer, attached, sized, counter, counts, pc, task>>
    BY <1>3, <2>3, <2>8 DEF ReturnSlot, outBlocks
  <2>10. pc'[w] = "return" /\ task'[w] = task[w] /\ ~counts[w]
    BY <1>1, <2>1, <2>9 DEF Reporting
  <2> HIDE DEF b
  <2>11. b = task[w].block
    BY DEF b
  <2> QED BY <1>1, <2>1, <2>4, <2>5, <2>7, <2>9, <2>10, <2>11, ReturnKept
<1> QED BY <1>2, <1>3
-----------------------------------------------------------------------------
(* The way out.                                                            *)

\* The one section of a worker that sends.
LEMMA OwnSection ==
    ASSUME ChainInv, NEW w \in Workers, pc[w] \in {"forward", "select", "create"}
    PROVE  LET b == task[w].block
           IN  /\ b \in Senders /\ b \in registered /\ b \in reached /\ b \in fresh /\ b \in Blocks
               /\ Work(task[w], pc[w]) /\ task[w] \in TaskType /\ pc[w] \in Places /\ Running
               /\ call > 0 /\ Forwards(task[w]) /\ b \notin back /\ to[b] \notin reached
               /\ sec[w] = 1 /\ Section(w) = io[b].outs[1] /\ Len(io[b].outs) = 1
               /\ pc[w] \in {"select", "create"} => to[b] = Nil
               /\ Connected(Section(w)) <=> to[b] # Nil
               /\ to[b] # Nil => Section(w).tgt = to[b]
<1> DEFINE b == task[w].block
<1>1. Base
  BY DEF ChainInv
<1>2. /\ Work(task[w], pc[w]) /\ task[w] \in TaskType /\ pc[w] \in Places
      /\ b \in registered /\ b \in reached /\ Running /\ call > 0 /\ b \in Blocks
  BY OwnTask
<1>3. b \in Inputs \cup Cores
  BY <1>1 DEF Base, LockDiscipline
<1>4. b \in Senders
  BY <1>3 DEF Senders
<1>5. Forwards(task[w])
  BY <1>2, <1>4 DEF Work, Home
<1>6. b \notin back /\ to[b] \notin reached /\ b \in fresh
  BY <1>2, <1>4, <1>5 DEF Work, Ahead
<1>7. DOMAIN io[b].outs = {1} /\ Len(io[b].outs) = 1
  BY <1>1, <1>2, <1>4, Ends DEF Base, Single
<1>8. sec[w] = 1
  BY <1>1, <1>7 DEF Base, Shape, WorkerShape
<1>9. Section(w) = io[b].outs[1]
  BY <1>8 DEF Section
<1>10. pc[w] \in {"select", "create"} => ~Connected(Section(w))
  BY <1>1 DEF Base, Growing
<1>11. (Connected(io[b].outs[1]) <=> to[b] # Nil) /\ (to[b] # Nil => io[b].outs[1].tgt = to[b])
  BY <1>1, <1>4, Views
<1> QED BY <1>2, <1>4, <1>5, <1>6, <1>7, <1>8, <1>9, <1>10, <1>11

\* After its one section the block is about to be released.
LEMMA LastSection ==
    ASSUME ChainInv, NEW w \in Workers, pc[w] \in {"forward", "select", "create"}, NextSection(w)
    PROVE  pc'[w] = "release"
<1>1. sec[w] = 1 /\ Len(io[task[w].block].outs) = 1
  BY OwnSection
<1>2. pc \in [Workers -> WorkerPlaces]
  BY DEF ChainInv, Base, TypeOK
<1> QED BY <1>1, <1>2 DEF NextSection, Goto

\* A worker looks for a target, and has found none.
LEMMA SearchKept ==
    ASSUME ChainInv, NEW w \in Workers, WorkerStep(w), pc[w] \in {"forward", "select"},
           UNCHANGED <<io, level, registered, buffer, attached, sized, counter, queue, counts>>,
           task'[w] = task[w], pc'[w] \in {"select", "create", "release"},
           Looking'
    PROVE  Kept
<1> DEFINE b == task[w].block
<1>1. /\ Base /\ Bounded /\ Rooted /\ Edges /\ Working /\ OneTask /\ Cycles /\ Parking /\ Reporting
  BY DEF ChainInv
<1>2. /\ UNCHANGED <<call, cpc, kind, Running>>
      /\ \A v \in Workers : v # w => pc'[v] = pc[v] /\ task'[v] = task[v] /\ counts'[v] = counts[v]
  BY <1>1, WorkerFrame DEF clientVars
<1>3. /\ b \in Senders /\ b \in registered /\ b \in reached /\ b \in fresh
      /\ Work(task[w], pc[w]) /\ task[w] \in TaskType /\ pc[w] \in Places /\ Running
      /\ Forwards(task[w]) /\ b \notin back /\ to[b] \notin reached
  BY OwnSection
<1>4. /\ UNCHANGED <<to, from, owing, fresh, back, paid, reached>> /\ Single' /\ Bounded'
  BY <1>1, <1>2, QuietWave
<1>5. UNCHANGED <<counted, parked, complete>>
  BY <1>2, SameBuffers
<1>6. sound' = sound
  BY <1>2, <1>4, <1>5, SameSound
<1>7. \A v \in Workers : v # w /\ v \in active' => v \in active
  BY <1>2, <1>4 DEF active
<1>8. w \in active' => <<task'[w], pc'[w]>> \in sound'
  <2> SUFFICES ASSUME pc'[w] # "release" PROVE <<task'[w], pc'[w]>> \in sound'
    BY DEF active
  <2>1. task'[w] = task[w] /\ pc'[w] \in {"select", "create"}
    OBVIOUS
  <2>2. pc'[w] \in Places
    BY <2>1 DEF Places, WorkerPlaces
  <2>3. b \in registered' /\ b \in reached' /\ b \notin back' /\ to'[b] \notin reached' /\ b \in fresh'
    BY <1>3, <1>4
  <2>4. pc'[w] \in {"queue", "body", "final", "forward", "select", "create"}
    BY <2>1
  <2>5. <<task[w], pc'[w]>> \in sound'
    BY <1>2, <1>3, <2>2, <2>3, <2>4, AheadSound
  <2> QED BY <2>1, <2>5
<1>9. Working' /\ OneTask' /\ Cycles' /\ queued' = queued
  BY <1>1, <1>2, <1>6, <1>7, <1>8, JobsQuiet
<1>10. taken' \subseteq taken
  BY <1>2, TakenAfter
<1>11. Edges'
  BY <1>1, <1>4, EdgesKept
<1>12. \A c \in parked : from'[c] \notin back'
  BY <1>1, <1>4 DEF Parking
<1>13. \A i \in Inputs \cap back : i \in queued' \/ i \in taken' => i \in queued \/ i \in taken
  BY <1>9, <1>10
<1>14. ~counts'[w] /\ pc'[w] # "count"
  BY <1>1 DEF Reporting
<1>15. Reporting'
  BY <1>1, <1>2, <1>4, <1>5, <1>13, <1>14, ReportingKept
<1>16. /\ Rooted' /\ Parking' /\ Attaching' /\ Training' /\ Requesting'
       /\ Client1' /\ Promises'
  BY <1>3, <1>4, <1>12, QuietRest
<1> QED BY <1>4, <1>9, <1>11, <1>15, <1>16 DEF Kept

\* connect_to_new_target draws a hexagon.
LEMMA SelectTargetKept ==
    ASSUME SeparateChains, ChainInv, NEW w \in Workers, SelectTarget(w)
    PROVE  Kept
<1> DEFINE b == task[w].block
<1>1. Base /\ Looking /\ pc \in [Workers -> WorkerPlaces]
      /\ goal \in [Workers -> DOMAIN Possible \cup {Nil}] /\ pick \in [Workers -> Blocks \cup {Nil}]
  BY DEF ChainInv, Base, TypeOK
<1>2. /\ pc[w] = "forward" /\ WorkerStep(w)
      /\ UNCHANGED <<io, level, registered, buffer, attached, sized, counter, queue, counts, task>>
  BY DEF SelectTarget, netVars, outBlocks, WorkerStep
<1>3. \A v \in Workers : v # w => /\ pc'[v] = pc[v] /\ task'[v] = task[v] /\ goal'[v] = goal[v]
                                  /\ pick'[v] = pick[v]
  BY <1>1, <1>2, WorkerFrame
<1>4. PICK h \in Possible[HexOf[b]] :
          \/ ~IsTarget(h) /\ NextSection(w)
          \/ /\ IsTarget(h)
             /\ goal' = [goal EXCEPT ![w] = h]
             /\ IF BlocksOf(h) = {}
                THEN Goto(w, "create") /\ UNCHANGED pick
                ELSE /\ \E t \in BlocksOf(h) : pick' = [pick EXCEPT ![w] = t]
                     /\ Goto(w, "select")
             /\ UNCHANGED sec
  BY DEF SelectTarget
<1>5. CASE ~IsTarget(h) /\ NextSection(w)
  <2>1. pc'[w] = "release" /\ task'[w] = task[w]
    BY <1>2, <1>5, LastSection
  <2>2. Looking'
    BY <1>1, <1>3, <2>1, LookingKept
  <2> QED BY <1>2, <2>1, <2>2, SearchKept
<1>6. CASE /\ IsTarget(h)
           /\ goal' = [goal EXCEPT ![w] = h]
           /\ IF BlocksOf(h) = {}
              THEN Goto(w, "create") /\ UNCHANGED pick
              ELSE /\ \E t \in BlocksOf(h) : pick' = [pick EXCEPT ![w] = t]
                   /\ Goto(w, "select")
           /\ UNCHANGED sec
  <2>1. /\ task' = task /\ pc'[w] \in {"select", "create"} /\ goal'[w] = h
        /\ pc'[w] = "select" => HexOf[pick'[w]] = h
    <3>1. CASE BlocksOf(h) = {}
      BY <1>1, <1>2, <1>6, <3>1 DEF Goto
    <3>2. CASE BlocksOf(h) # {}
      <4>1. PICK t \in BlocksOf(h) : pick' = [pick EXCEPT ![w] = t]
        BY <1>6, <3>2
      <4>2. pick'[w] = t /\ HexOf[t] = h
        BY <1>1, <4>1 DEF BlocksOf
      <4>3. pc'[w] = "select" /\ goal'[w] = h /\ task' = task
        BY <1>1, <1>2, <1>6, <3>2 DEF Goto
      <4> QED BY <4>2, <4>3
    <3> QED BY <3>1, <3>2
  <2>2. Looking'
    <3> SUFFICES ASSUME NEW v \in Workers
                 PROVE  /\ pc'[v] # "handover"
                        /\ pc'[v] \in {"select", "create"} =>
                              goal'[v] \in Possible[HexOf[task'[v].block]] /\ IsTarget(goal'[v])
                        /\ pc'[v] = "select" => HexOf[pick'[v]] = goal'[v]
      BY DEF Looking, IsTarget
    <3>1. CASE v = w
      <4>1. pc'[w] # "handover" /\ task'[w].block = b /\ goal'[w] \in Possible[HexOf[b]]
        BY <2>1
      <4>2. IsTarget(goal'[w])
        BY <1>6, <2>1
      <4> QED BY <2>1, <3>1, <4>1, <4>2
    <3>2. CASE v # w
      BY <1>1, <1>3, <3>2 DEF Looking
    <3> QED BY <3>1, <3>2
  <2> QED BY <1>2, <2>1, <2>2, SearchKept
<1> QED BY <1>4, <1>5, <1>6

\* The block selected is an output block: a core block belongs to another chain.
LEMMA SelectedOutput ==
    ASSUME SeparateChains, ChainInv, NEW w \in Workers, pc[w] = "select"
    PROVE  pick[w] \in Outputs /\ pick[w] \in registered
<1> DEFINE b == task[w].block
           t == pick[w]
<1>1. Base /\ Rooted /\ Looking
  BY DEF ChainInv
<1>2. /\ t \in registered /\ HexOf[t] = goal[w] /\ IsTarget(goal[w])
      /\ goal[w] \in Possible[HexOf[b]] /\ t \in Blocks
  BY <1>1 DEF Base, Growing, Looking, Shape, WorkerShape
<1>3. t \in Receivers
  BY <1>2 DEF IsTarget, Receivers, Blocks
<1>4. b \in Senders /\ to[b] = Nil
  BY OwnSection
<1>5. t \notin Cores
  <2> SUFFICES ASSUME t \in Cores PROVE FALSE
    OBVIOUS
  <2>1. PICK a \in Senders : to[a] = t
    BY <1>1, <1>2, <1>3 DEF Rooted
  <2>2. t # Nil
    BY <1>1, <1>2, WaveTypes
  <2>3. HexOf[t] \in Possible[HexOf[a]]
    BY <1>1, <2>1, <2>2 DEF Rooted
  <2>4. a = b
    BY <1>2, <1>4, <2>3 DEF SeparateChains
  <2> QED BY <1>4, <2>1, <2>2, <2>4
<1> QED BY <1>2, <1>3, <1>5 DEF Receivers

\* It has no slot left: its one slot belongs to the chain that created it.
LEMMA SelectedFull ==
    ASSUME SeparateChains, ChainInv, NEW w \in Workers, pc[w] = "select"
    PROVE  ~HasFreeInput(io[pick[w]])
<1>1. Base
  BY DEF ChainInv
<1>2. pick[w] \in Outputs /\ pick[w] \in registered
  BY SelectedOutput
<1>3. Len(io[pick[w]].slots) = 1 /\ io[pick[w]].inUse = 1
  BY <1>1, <1>2 DEF Base, Single, Receivers, Blocks
<1> QED BY <1>3 DEF HasFreeInput

\* get_free_input of the selected block finds no slot.
LEMMA SelectBlockKept ==
    ASSUME SeparateChains, ChainInv, NEW w \in Workers, SelectBlock(w)
    PROVE  Kept
<1>1. Base /\ Looking /\ pc \in [Workers -> WorkerPlaces]
  BY DEF ChainInv, Base, TypeOK
<1>2. pc[w] = "select" /\ WorkerStep(w)
  BY DEF SelectBlock, WorkerStep
<1>3. ~HasFreeInput(io[pick[w]])
  BY <1>2, SelectedFull
<1>4. /\ Goto(w, "create")
      /\ UNCHANGED <<io, goal, level, registered, buffer, attached, sized, counter, queue, counts,
                     task>>
  BY <1>3 DEF SelectBlock, outBlocks
<1>5. pc'[w] = "create"
  BY <1>1, <1>4 DEF Goto
<1>6. \A v \in Workers : v # w => /\ pc'[v] = pc[v] /\ task'[v] = task[v] /\ goal'[v] = goal[v]
                                  /\ pick'[v] = pick[v]
  BY <1>1, <1>2, WorkerFrame
<1>7. Looking'
  <2> SUFFICES ASSUME NEW v \in Workers
               PROVE  /\ pc'[v] # "handover"
                      /\ pc'[v] \in {"select", "create"} =>
                            goal'[v] \in Possible[HexOf[task'[v].block]] /\ IsTarget(goal'[v])
                      /\ pc'[v] = "select" => HexOf[pick'[v]] = goal'[v]
    BY DEF Looking, IsTarget
  <2>1. CASE v = w
    BY <1>1, <1>2, <1>4, <1>5, <2>1 DEF Looking
  <2>2. CASE v # w
    BY <1>1, <1>6, <2>2 DEF Looking
  <2> QED BY <2>1, <2>2
<1> QED BY <1>2, <1>4, <1>5, <1>7, SearchKept

\* The next target of a worker that looked for one is not looked for any more.
LEMMA CreateBlockKept ==
    ASSUME SeparateChains, ChainInv, NEW w \in Workers, CreateBlock(w)
    PROVE  Kept
<1> DEFINE b == task[w].block
           t == CHOOSE t \in Unused(goal[w]) : TRUE
<1>1. /\ Base /\ Bounded /\ Rooted /\ Looking /\ Edges /\ Working /\ OneTask /\ Cycles
      /\ Parking /\ Reporting /\ Attaching /\ Training /\ Requesting /\ Client1 /\ Promises
  BY DEF ChainInv
<1>2. /\ pc[w] = "create" /\ WorkerStep(w) /\ task' = task
      /\ UNCHANGED <<level, buffer, attached, sized, counter, queue, counts>>
      /\ Unused(goal[w]) # {} /\ registered' = registered \cup {t}
      /\ Attach(w, t) /\ Goto(w, "forward")
  BY DEF CreateBlock, outBlocks, WorkerStep
<1>3. /\ b \in Senders /\ b \in registered /\ b \in reached /\ b \in fresh /\ b \in Blocks
      /\ Work(task[w], pc[w]) /\ task[w] \in TaskType /\ pc[w] \in Places /\ Running
      /\ Forwards(task[w]) /\ b \notin back /\ to[b] \notin reached
      /\ sec[w] = 1 /\ Section(w) = io[b].outs[1] /\ to[b] = Nil
  BY <1>2, OwnSection
<1>4. t \in Blocks /\ t \notin registered /\ HexOf[t] = goal[w]
  BY <1>2 DEF Unused
<1>5. HexOf[t] \in Possible[HexOf[b]] /\ IsTarget(HexOf[t])
  BY <1>1, <1>2, <1>4 DEF Looking
<1>6. t \in Receivers /\ b # t /\ t # Nil
  BY <1>1, <1>3, <1>4, <1>5, WaveTypes DEF IsTarget, Receivers, Blocks
<1> HIDE DEF t
<1>7. io' = [[io EXCEPT ![t] = TakeInput(io[t], 1, io[b].outs[1])]
                EXCEPT ![b] = LinkSection(io[b], 1, t, io[t].inUse + 1)]
  <2>1. io' = [[io EXCEPT ![t] = TakeInput(@, sec[w], Section(w))]
                  EXCEPT ![b] = LinkSection(@, sec[w], t, io[t].inUse + 1)]
    BY <1>2 DEF Attach
  <2>2. DOMAIN io = Blocks
    BY <1>1 DEF Base, TypeOK
  <2>3. [io EXCEPT ![t] = TakeInput(io[t], sec[w], Section(w))][b] = io[b]
    BY <1>3, <1>4, <1>6, <2>2
  <2>4. io' = [[io EXCEPT ![t] = TakeInput(io[t], sec[w], Section(w))]
                  EXCEPT ![b] = LinkSection(io[b], sec[w], t, io[t].inUse + 1)]
    BY <2>1, <2>3
  <2>5. sec[w] = 1 /\ Section(w) = io[b].outs[1]
    BY <1>3
  <2> QED BY <2>4, <2>5
<1>8. /\ UNCHANGED <<call, cpc, todo, arg, kind, Running>>
      /\ \A v \in Workers : v # w => /\ pc'[v] = pc[v] /\ task'[v] = task[v] /\ counts'[v] = counts[v]
                                     /\ goal'[v] = goal[v] /\ pick'[v] = pick[v]
  BY <1>1, <1>2, WorkerFrame DEF clientVars
<1>9. /\ to' = [to EXCEPT ![b] = t] /\ t \notin reached /\ paid' = paid \ {t}
      /\ UNCHANGED <<from, fresh, back, reached, owing>> /\ Single' /\ Bounded'
  <2>1. /\ Base /\ Bounded /\ b \in Senders /\ to[b] = Nil /\ b # t /\ b \notin back
        /\ t \in Receivers /\ t \notin registered
        /\ level' = level /\ call' = call /\ registered' = registered \cup {t}
    BY <1>1, <1>2, <1>3, <1>4, <1>6, <1>8
  <2> QED BY <1>7, <2>1, CreateWave
<1>10. to'[b] = t /\ \A a \in Senders : a # b => to'[a] = to[a]
  <2>1. to \in [Senders -> Receivers \cup {Nil}]
    BY <1>1, Views
  <2> QED BY <1>3, <1>9, <2>1
<1>11. UNCHANGED <<counted, parked, complete>>
  BY <1>2, <1>8, SameBuffers
<1>12. pc'[w] = "forward" /\ task'[w] = task[w]
  BY <1>1, <1>2 DEF Goto, Base, TypeOK
<1>13. <<task[w], pc'[w]>> \in sound'
  <2>1. "forward" \in Places
    BY DEF Places, WorkerPlaces
  <2>2. b \in registered' /\ b \in reached' /\ b \notin back' /\ to'[b] \notin reached' /\ b \in fresh'
    BY <1>2, <1>3, <1>9, <1>10
  <2>3. <<task[w], "forward">> \in sound'
    BY <1>3, <1>8, <2>1, <2>2, AheadSound
  <2> QED BY <1>12, <2>3
<1>14. \A j \in sound : j[1].block # b => j \in sound'
  <2>1. \A c \in tasked : c # b =>
              /\ c \in registered' /\ c \in reached' /\ (c \in fresh => c \in fresh')
              /\ c \in Senders => /\ to'[c] = to[c]
                                  /\ c \in back' <=> c \in back
                                  /\ to[c] \in reached' => to[c] \in reached
              /\ c \in Receivers => /\ from'[c] = from[c]
                                    /\ from[c] \in back' => from[c] \in back
                                    /\ c \in paid => c \in paid'
              /\ c \in attached' <=> c \in attached
              /\ c \in sized => c \in sized'
              /\ c \in counted' => c \in counted
              /\ c \in parked' => c \in parked
    <3>1. tasked \subseteq registered /\ tasked \subseteq reached /\ t \notin tasked
      BY <1>4 DEF tasked
    <3> QED BY <1>2, <1>9, <1>10, <1>11, <3>1
  <2> QED BY <1>8, <2>1, OthersSound
<1>15. \A v \in Workers : v # w /\ v \in active' => v \in active
  BY <1>8, <1>9 DEF active
<1>16. Working' /\ OneTask' /\ Cycles' /\ queued' = queued
  BY <1>1, <1>2, <1>8, <1>12, <1>13, <1>14, <1>15, JobsQuiet
<1>17. taken' \subseteq taken
  BY <1>2, <1>8, <1>12, TakenAfter
<1>18. Edges'
  <2> SUFFICES ASSUME NEW a \in Senders
               PROVE  /\ a \in back => to'[a] # Nil /\ to'[a] \in reached
                      /\ to'[a] \in reached => a \in reached /\ a \in fresh
                      /\ a \in back /\ to'[a] \in Cores => to'[a] \in back
                      /\ a \in back /\ to'[a] \in Outputs => to'[a] \in attached \cap sized
    BY <1>2, <1>9 DEF Edges
  <2>1. CASE a = b
    BY <1>3, <1>9, <1>10, <2>1
  <2>2. CASE a # b
    BY <1>1, <1>10, <2>2 DEF Edges
  <2> QED BY <2>1, <2>2
<1>19. Looking'
  BY <1>1, <1>8, <1>12, LookingKept
<1>20. Rooted'
  <2>1. \A c \in Receivers \cap registered' : \E a \in Senders : to'[a] = c
    <3> SUFFICES ASSUME NEW c \in Receivers, c \in registered \cup {t}
                 PROVE  \E a \in Senders : to'[a] = c
      BY <1>2
    <3>1. CASE c = t
      BY <1>3, <1>10, <3>1
    <3>2. CASE c # t
      <4>1. PICK a \in Senders : to[a] = c
        BY <1>1, <3>2 DEF Rooted
      <4>2. a # b
        BY <1>1, <1>3, <4>1, WaveTypes
      <4> QED BY <1>10, <4>1, <4>2
    <3> QED BY <3>1, <3>2
  <2>2. \A a \in Senders : to'[a] # Nil => HexOf[to'[a]] \in Possible[HexOf[a]] /\ a \in registered'
    BY <1>1, <1>2, <1>3, <1>5, <1>10 DEF Rooted
  <2> QED BY <2>1, <2>2 DEF Rooted
<1>21. \A c \in parked : from'[c] \notin back'
  BY <1>1, <1>9 DEF Parking
<1>22. registered \subseteq registered' /\ reached \subseteq reached'
  BY <1>2, <1>9
<1>23. Parking'
  BY <1>1, <1>2, <1>8, <1>21, <1>22, ParkingKept
<1>24. Attaching' /\ Training' /\ Requesting'
  BY <1>1, <1>2, <1>8, <1>22, AttachingKept, TrainingKept, RequestingKept
<1>25. Reporting'
  <2>1. \A i \in Inputs \cap back : i \in queued' \/ i \in taken' => i \in queued \/ i \in taken
    BY <1>16, <1>17
  <2>2. ~counts'[w]
    BY <1>1, <1>2 DEF Reporting
  <2> QED BY <1>1, <1>2, <1>8, <1>9, <1>11, <1>12, <2>1, <2>2, ReportingKept
<1>26. Client1'
  BY <1>1, <1>3, <1>8, <1>9, ClientKept
<1>27. Promises'
  <2>1. ~Grown
    BY <1>3 DEF Grown
  <2> QED BY <1>1, <1>3, <1>8, <2>1, PromisesKept
<1> QED BY <1>9, <1>16, <1>18, <1>19, <1>20, <1>23, <1>24, <1>25, <1>26, <1>27 DEF Kept

\* A new task for a block on the way out.
LEMMA NewAhead ==
    ASSUME NEW j \in TaskType, NEW t, t = j.block, t \in Blocks, Forwards(j),
           j.type = IF kind' = "train" THEN "Train" ELSE "Process",
           Running', t \in registered', t \in reached',
           t \in Senders => t \notin back' /\ to'[t] \notin reached',
           t \in Outputs => t \notin parked' /\ t \notin counted' /\ from'[t] \notin back'
    PROVE  <<j, "queue">> \in sound'
<1>1. "queue" \in Places
  BY DEF Places
<1>2. t \in Senders => Ahead(t, "queue")'
  BY DEF Ahead
<1>3. t \in Outputs => AtOutput(t, "queue", TRUE)'
  BY DEF AtOutput
<1>4. Forwards(j)'
  BY DEF Forwards
<1>5. t \in Outputs => AtOutput(t, "queue", Forwards(j))'
  <2>1. Forwards(j) = TRUE
    BY DEF Forwards
  <2> QED BY <1>3, <2>1
<1>6. Work(j, "queue")'
  BY <1>2, <1>4, <1>5 DEF Work, Forwards
<1> QED BY <1>1, <1>6 DEF sound

\* send_forward to the target
LEMMA SendForwardKept ==
    ASSUME SeparateChains, ChainInv, NEW w \in Workers, SendForward(w)
    PROVE  Kept
<1> DEFINE b == task[w].block
           t == to[b]
           j == [task[w] EXCEPT !.block = t]
<1>1. /\ Base /\ Bounded /\ Rooted /\ Looking /\ Edges /\ Working /\ OneTask /\ Cycles
      /\ Parking /\ Reporting /\ Attaching /\ Training /\ Requesting /\ Client1 /\ Promises
  BY DEF ChainInv
<1>2. /\ pc[w] = "forward" /\ WorkerStep(w)
      /\ UNCHANGED <<level, registered, buffer, attached, sized, counter, counts, task>>
      /\ NextSection(w) /\ Connected(Section(w)) /\ Free(Section(w).tgt)
      /\ io' = [io EXCEPT ![Section(w).tgt] = Receive(@, task[w].block, sec[w], Section(w))]
      /\ Enqueue(IF InputsComplete(io[Section(w).tgt]) /\ pc[w] = "forward"
                 THEN <<[task[w] EXCEPT !.block = Section(w).tgt]>> ELSE <<>>)
  <2>1. pc[w] = "forward"
    BY <1>1 DEF SendForward, Looking
  <2>2. WorkerStep(w) /\ NextSection(w) /\ Connected(Section(w)) /\ Free(Section(w).tgt)
    BY DEF SendForward, WorkerStep
  <2>3. /\ UNCHANGED <<level, registered, buffer, attached, sized, counter, counts, task>>
        /\ io' = [io EXCEPT ![Section(w).tgt] = Receive(@, task[w].block, sec[w], Section(w))]
        /\ Enqueue(IF InputsComplete(io[Section(w).tgt]) /\ pc[w] = "forward"
                   THEN <<[task[w] EXCEPT !.block = Section(w).tgt]>> ELSE <<>>)
    BY DEF SendForward, outBlocks
  <2> QED BY <2>1, <2>2, <2>3
<1>3. /\ b \in Senders /\ b \in registered /\ b \in reached /\ b \in fresh /\ b \in Blocks
      /\ Work(task[w], pc[w]) /\ task[w] \in TaskType /\ pc[w] \in Places /\ Running
      /\ Forwards(task[w]) /\ b \notin back /\ t \notin reached
      /\ sec[w] = 1 /\ Section(w) = io[b].outs[1] /\ t # Nil /\ Section(w).tgt = t
  BY <1>2, OwnSection
<1>4. /\ UNCHANGED <<call, cpc, todo, arg, kind, Running>> /\ counter'.expected = counter.expected
      /\ \A v \in Workers : v # w => /\ pc'[v] = pc[v] /\ task'[v] = task[v] /\ counts'[v] = counts[v]
                                     /\ goal'[v] = goal[v] /\ pick'[v] = pick[v]
  BY <1>1, <1>2, WorkerFrame DEF clientVars
<1>5. /\ t \in Receivers /\ t \in registered /\ t # b /\ \A c \in Senders : to[c] = t => c = b
  BY <1>1, <1>3, NoLoop
<1>6. t \in Blocks
  BY <1>1, <1>5, WaveTypes
<1>7. io' = [io EXCEPT ![t] = Receive(io[t], b, 1, io[b].outs[1])]
  BY <1>1, <1>2, <1>3, <1>6 DEF Base, TypeOK
<1>8. /\ InputsComplete(io[t])
      /\ from' = [from EXCEPT ![t] = b]
      /\ reached' = reached \cup {t} /\ paid' = paid \ {t}
      /\ UNCHANGED <<to, fresh, back>>
      /\ owing' \cup {t} = owing \cup {t} /\ Single' /\ Bounded'
  BY <1>1, <1>2, <1>3, <1>4, <1>7, SendWave
<1>9. queue' = queue \o <<j>>
  BY <1>2, <1>3, <1>8 DEF Enqueue
<1>10. j \in TaskType /\ j.block = t /\ j.type = task[w].type /\ j.cycle = Cycle
  <2>1. task[w].cycle = Cycle
    BY <1>1, <1>2 DEF Cycles
  <2>2. j \in TaskType
    BY <1>3, <1>6, TaskFacts
  <2> QED BY <1>3, <2>1, <2>2 DEF TaskType
<1> HIDE DEF j
<1>11. from'[t] = b /\ \A c \in Receivers : c # t => from'[c] = from[c]
  <2>1. from \in [Receivers -> Senders \cup {Nil}]
    BY <1>1, Views
  <2> QED BY <1>5, <1>8, <2>1
<1>12. UNCHANGED <<counted, parked, complete>>
  BY <1>2, <1>4, SameBuffers
<1>13. pc'[w] = "release" /\ task'[w] = task[w]
  BY <1>2, LastSection
<1>14. t \notin tasked /\ t \notin queued /\ t \notin taken
  <2>1. t \notin tasked
    BY <1>3 DEF tasked
  <2>2. Free(t)
    BY <1>2, <1>3
  <2> QED BY <1>1, <2>1, <2>2, Untasked
<1>15. t \in Senders => t \notin back' /\ to'[t] \notin reached'
  <2> SUFFICES ASSUME t \in Senders PROVE t \notin back /\ to[t] \notin reached \cup {t}
    BY <1>8
  <2>1. to[t] \notin reached
    BY <1>1, <1>3 DEF Edges
  <2>2. t \notin back
    BY <1>1, <2>1 DEF Edges
  <2>3. to[t] # t
    BY <1>1, <1>3, NoLoop
  <2> QED BY <2>1, <2>2, <2>3
<1>16. t \in Outputs => t \notin parked' /\ t \notin counted' /\ from'[t] \notin back'
  <2>1. t \notin parked' /\ t \notin counted'
    BY <1>1, <1>3, <1>12 DEF Parking, Training
  <2>2. from'[t] \notin back'
    BY <1>3, <1>8, <1>11
  <2> QED BY <2>1, <2>2
<1>17. <<j, "queue">> \in sound'
  <2>1. Forwards(j) /\ j.type = IF kind' = "train" THEN "Train" ELSE "Process"
    BY <1>3, <1>4, <1>10 DEF Work, Forwards
  <2>2. Running' /\ t \in registered' /\ t \in reached'
    BY <1>2, <1>3, <1>4, <1>5, <1>8
  <2> HIDE DEF t
  <2> QED BY <1>6, <1>10, <1>15, <1>16, <2>1, <2>2, NewAhead
<1>18. \A k \in sound : k[1].block # b => k \in sound'
  <2>1. \A c \in tasked : c # b =>
              /\ c \in registered' /\ c \in reached' /\ (c \in fresh => c \in fresh')
              /\ c \in Senders => /\ to'[c] = to[c]
                                  /\ c \in back' <=> c \in back
                                  /\ to[c] \in reached' => to[c] \in reached
              /\ c \in Receivers => /\ from'[c] = from[c]
                                    /\ from[c] \in back' => from[c] \in back
                                    /\ c \in paid => c \in paid'
              /\ c \in attached' <=> c \in attached
              /\ c \in sized => c \in sized'
              /\ c \in counted' => c \in counted
              /\ c \in parked' => c \in parked
    <3>1. tasked \subseteq registered /\ tasked \subseteq reached
      BY DEF tasked
    <3> HIDE DEF t
    <3> QED BY <1>2, <1>5, <1>8, <1>11, <1>12, <1>14, <3>1
  <2> QED BY <1>4, <2>1, OthersSound
<1>19. \A v \in Workers : v # w /\ v \in active' => v \in active
  <2>1. \A v \in Workers : v # w /\ pc[v] = "return" => task[v].block # t
    BY <1>1, <1>2, <1>3, OtherBlocks
  <2> QED BY <1>4, <1>8, <2>1, OthersActive
<1>20. w \notin active'
  BY <1>13 DEF active
<1>21. Working' /\ OneTask' /\ Cycles'
  BY <1>1, <1>2, <1>4, <1>9, <1>10, <1>13, <1>14, <1>17, <1>18, <1>19, <1>20, JobsMore
<1>22. queued' = queued \cup {t}
  <2>1. <<j>> \in Seq(TaskType) /\ DOMAIN <<j>> = {1} /\ <<j>>[1] = j
    BY <1>10
  <2>2. queued' = queued \cup {<<j>>[k].block : k \in DOMAIN <<j>>}
    BY <1>1, <1>9, <2>1, QueuedAfter
  <2>3. {<<j>>[k].block : k \in DOMAIN <<j>>} = {t}
    BY <1>10, <2>1
  <2> QED BY <2>2, <2>3
<1>23. taken' \subseteq taken
  BY <1>2, <1>4, <1>13, TakenAfter
<1>24. \A i \in Inputs \cap back : i \in queued' \/ i \in taken' => i \in queued \/ i \in taken
  <2>1. t \notin Inputs
    BY <1>1, <1>5, WaveTypes
  <2> QED BY <1>22, <1>23, <2>1
<1>25. Edges'
  <2> SUFFICES ASSUME NEW a \in Senders
               PROVE  /\ a \in back => to[a] # Nil /\ to[a] \in reached'
                      /\ to[a] \in reached' => a \in reached' /\ a \in fresh
                      /\ a \in back /\ to[a] \in Cores => to[a] \in back
                      /\ a \in back /\ to[a] \in Outputs => to[a] \in attached \cap sized
    BY <1>2, <1>8 DEF Edges
  <2>1. CASE a = b
    BY <1>3, <1>8, <2>1
  <2>2. CASE a # b
    BY <1>1, <1>5, <1>8, <2>2 DEF Edges
  <2> QED BY <2>1, <2>2
<1>26. \A c \in parked : from'[c] \notin back'
  <2>1. \A c \in parked : c \in Receivers /\ c # t /\ from[c] \notin back
    BY <1>1, <1>3 DEF Parking, parked, Receivers
  <2> QED BY <1>8, <1>11, <2>1
<1>27. /\ Rooted' /\ Looking' /\ Parking' /\ Attaching' /\ Training' /\ Requesting'
       /\ Reporting' /\ Client1' /\ Promises'
  <2>1. ~counts'[w]
    BY <1>1, <1>2 DEF Reporting
  <2>2. /\ counts'[w] /\ task'[w].block \in Outputs => counts[w] /\ task'[w] = task[w]
        /\ counts'[w] => pc'[w] \in {"gradient", "sendback", "count"}
        /\ pc'[w] = "count" => counts'[w]
        /\ pc'[w] \notin {"select", "create", "handover"}
    BY <1>13, <2>1
  <2>3. back \subseteq back' /\ reached \subseteq reached' /\ fresh' \cap Inputs \subseteq fresh
    BY <1>8
  <2> HIDE DEF t
  <2> QED BY <1>2, <1>3, <1>8, <1>24, <1>26, <2>2, <2>3, Quietly
<1> QED BY <1>8, <1>21, <1>25, <1>27 DEF Kept
-----------------------------------------------------------------------------
(* The output blocks at their buffer.                                      *)

\* A step at an output block leaves the network as it is.
LEMMA OutputRest ==
    ASSUME ChainInv, NEW w \in Workers, WorkerStep(w), Running, UNCHANGED <<io, level, registered>>,
           attached \subseteq attached', sized \subseteq sized',
           pc'[w] \notin {"select", "create", "handover"}
    PROVE  /\ UNCHANGED <<to, from, owing, fresh, back, paid, reached>>
           /\ Single' /\ Bounded' /\ Rooted' /\ Looking' /\ Edges' /\ Client1' /\ Promises'
           /\ \A v \in Workers : v # w /\ v \in active' => v \in active
<1>1. /\ Base /\ Bounded /\ Rooted /\ Looking /\ Edges /\ Client1 /\ Promises
  BY DEF ChainInv
<1>2. /\ UNCHANGED <<call, cpc, todo, arg, kind, Running>>
      /\ \A v \in Workers : v # w => /\ pc'[v] = pc[v] /\ task'[v] = task[v]
                                     /\ goal'[v] = goal[v] /\ pick'[v] = pick[v]
  BY <1>1, WorkerFrame DEF clientVars
<1>3. /\ UNCHANGED <<to, from, owing, fresh, back, paid, reached>> /\ Single' /\ Bounded'
  BY <1>1, <1>2, QuietWave
<1>4. Rooted'
  BY <1>1, <1>3 DEF Rooted
<1>5. Looking'
  BY <1>1, <1>2, LookingKept
<1>6. Edges'
  BY <1>1, <1>3, EdgesKept
<1>7. Client1'
  BY <1>1, <1>2, <1>3, ClientKept
<1>8. Promises'
  <2>1. Grown => Grown'
    BY <1>3, GrownKept
  <2> QED BY <1>1, <1>2, <2>1, PromisesKept
<1>9. \A v \in Workers : v # w /\ v \in active' => v \in active
  BY <1>2, <1>3 DEF active
<1> QED BY <1>3, <1>4, <1>5, <1>6, <1>7, <1>8, <1>9

\* Nor do other tasks notice what it does at its buffer.
LEMMA OutputOthers ==
    ASSUME NEW b, UNCHANGED <<Running, kind, registered, to, from, fresh, back, paid, reached>>,
           \A c \in Blocks : c # b => /\ c \in attached' <=> c \in attached
                                      /\ c \in sized => c \in sized'
                                      /\ c \in counted' => c \in counted
                                      /\ c \in parked' => c \in parked
    PROVE  \A j \in sound : j[1].block # b => j \in sound'
<1>1. \A c \in tasked : c # b =>
              /\ c \in registered' /\ c \in reached' /\ (c \in fresh => c \in fresh')
              /\ c \in Senders => /\ to'[c] = to[c]
                                  /\ c \in back' <=> c \in back
                                  /\ to[c] \in reached' => to[c] \in reached
              /\ c \in Receivers => /\ from'[c] = from[c]
                                    /\ from[c] \in back' => from[c] \in back
                                    /\ c \in paid => c \in paid'
              /\ c \in attached' <=> c \in attached
              /\ c \in sized => c \in sized'
              /\ c \in counted' => c \in counted
              /\ c \in parked' => c \in parked
  <2>1. tasked \subseteq registered /\ tasked \subseteq reached /\ reached \subseteq Blocks
    BY DEF tasked, reached
  <2> QED BY <2>1
<1> QED BY <1>1, OthersSound

\* A block that waits for the others has no task.
LEMMA ParkedFree ==
    ASSUME Base, Working, NEW u \in parked
    PROVE  u \notin queued /\ u \notin taken
<1>1. u \in Outputs /\ u \notin Senders /\ u \notin Cores
  BY BlockAssumption DEF parked, Senders
<1>2. u \notin queued
  <2> SUFFICES ASSUME NEW k \in DOMAIN queue, queue[k].block = u PROVE FALSE
    BY DEF queued
  <2> DEFINE j == <<queue[k], "queue">>
  <2>1. j \in sound /\ j[1].block = u
    BY DEF Working
  <2> HIDE DEF j
  <2>2. AtOutput(u, j[2], Forwards(j[1]))
    BY <1>1, <2>1 DEF sound, Work
  <2> QED BY <2>2 DEF AtOutput
<1>3. u \notin taken
  <2> SUFFICES ASSUME NEW v \in Workers, pc[v] # "idle", task[v].block = u PROVE FALSE
    BY DEF taken
  <2>1. CASE v \in active
    <3> DEFINE j == <<task[v], pc[v]>>
    <3>1. j \in sound /\ j[1].block = u
      BY <2>1 DEF Working
    <3> HIDE DEF j
    <3>2. AtOutput(u, j[2], Forwards(j[1]))
      BY <1>1, <3>1 DEF sound, Work
    <3> QED BY <3>2 DEF AtOutput
  <2>2. CASE v \notin active
    <3>1. pc[v] \in {"return", "release"}
      BY <2>2 DEF active
    <3>2. task[v].block \in Inputs \cup Cores
      BY <1>1, <3>1 DEF Base, LockDiscipline
    <3> QED BY <1>1, <3>2, BlockAssumption DEF Senders
  <2> QED BY <2>1, <2>2
<1> QED BY <1>2, <1>3

\* The new task of such a block.
LEMMA NewParked ==
    ASSUME NEW t \in TaskType, NEW u, u = t.block, t.type = "Backpropagate", u \in Outputs,
           Running', kind' = "train", u \in registered', u \in reached', u \notin parked',
           from'[u] \notin back', u \in attached'
    PROVE  <<t, "queue">> \in sound'
<1>1. "queue" \in Places /\ ~Forwards(t) /\ u \notin Senders
  BY BlockAssumption DEF Places, Forwards, Senders
<1>2. AtOutput(u, "queue", FALSE)'
  BY DEF AtOutput
<1>3. AtOutput(u, "queue", Forwards(t))'
  <2>1. Forwards(t) = FALSE
    BY DEF Forwards
  <2> QED BY <1>2, <2>1
<1>4. Work(t, "queue")'
  BY <1>1, <1>3 DEF Work, Forwards
<1> QED BY <1>1, <1>4 DEF sound

\* A buffer is complete: the block that completed it has a report to make.
LEMMA CompleteReports ==
    ASSUME Base, Reporting, Running, NEW w \in Workers, NEW o \in Buffers,
           task[w].block \in Outputs, o = BufferOf[task[w].block],
           o \notin complete, complete' = complete \cup {o},
           UNCHANGED <<counter, cpc, call>>, back \subseteq back',
           \A i \in Inputs \cap back : i \in queued' \/ i \in taken' => i \in queued \/ i \in taken,
           \A v \in Workers : v # w => /\ pc'[v] = pc[v] /\ task'[v] = task[v]
                                       /\ counts'[v] = counts[v],
           task'[w] = task[w], counts'[w], pc'[w] \in {"gradient", "count"},
           ~counts[w]
    PROVE  Reporting'
<1>1. kind' = kind /\ Running'
  BY DEF kind, Running
<1>2. \A v \in Workers, p \in Buffers : Counts(v, p)' <=> (v = w /\ p = o) \/ Counts(v, p)
  <2> SUFFICES ASSUME NEW v \in Workers, NEW p \in Buffers
               PROVE  Counts(v, p)' <=> (v = w /\ p = o) \/ Counts(v, p)
    OBVIOUS
  <2>1. CASE v = w
    BY <2>1 DEF Counts
  <2>2. CASE v # w
    BY <2>2 DEF Counts
  <2> QED BY <2>1, <2>2
<1>3. \A v \in Workers : ~Counts(v, o)
  BY DEF Reporting
<1>4. \A v \in Workers : /\ counts'[v] => pc'[v] \in {"gradient", "sendback", "count"}
                         /\ pc'[v] = "count" => counts'[v]
  <2> SUFFICES ASSUME NEW v \in Workers
               PROVE  /\ counts'[v] => pc'[v] \in {"gradient", "sendback", "count"}
                      /\ pc'[v] = "count" => counts'[v]
    OBVIOUS
  <2>1. CASE v = w
    BY <2>1
  <2>2. CASE v # w
    BY <2>2 DEF Reporting
  <2> QED BY <2>1, <2>2
<1>5. \A p \in Buffers, v \in Workers : Counts(v, p)' =>
            p \in complete' /\ \A u \in Workers : Counts(u, p)' => u = v
  <2> SUFFICES ASSUME NEW p \in Buffers, NEW v \in Workers, Counts(v, p)'
               PROVE  p \in complete' /\ \A u \in Workers : Counts(u, p)' => u = v
    OBVIOUS
  <2>1. CASE p = o
    BY <1>2, <1>3, <2>1
  <2>2. CASE p # o
    BY <1>2, <2>2 DEF Reporting
  <2> QED BY <2>1, <2>2
<1>6. reportedInputs \subseteq reportedInputs'
  BY DEF reportedInputs
<1>7. reportedBuffers \subseteq reportedBuffers'
  <2>1. \A p \in reportedBuffers : p \in complete /\ p # o /\ p \in Buffers
    BY DEF reportedBuffers, complete
  <2>2. \A p \in reportedBuffers : p \in complete' /\ \A v \in Workers : ~Counts(v, p)'
    BY <1>2, <2>1 DEF reportedBuffers
  <2> QED BY <2>2 DEF reportedBuffers
<1>8. counter.n <= InputReports + Cardinality(reportedBuffers)
  BY DEF Reporting
<1>9. counter'.n <= InputReports' + Cardinality(reportedBuffers')
  BY <1>1, <1>6, <1>7, <1>8, MoreReports
<1>10. /\ cpc' \in {"expect", "reset"} \/ Running' =>
             counter'.compare = (IF kind' = "train" THEN Cardinality(Inputs) ELSE 0) + Cardinality(Buffers)
       /\ ~(cpc' \in {"expect", "reset"})
  BY <1>1 DEF Reporting, Running
<1> QED BY <1>4, <1>5, <1>9, <1>10 DEF Reporting

\* A set of blocks and one more.
LEMMA OneAttached ==
    ASSUME NEW S, NEW b, b \notin S, IsFiniteSet(S)
    PROVE  IsFiniteSet(S \cup {b}) /\ Cardinality(S \cup {b}) = Cardinality(S) + 1
           /\ Cardinality(S) \in Nat
BY FS_AddElement, FS_CardinalityType

\* connect_output_buffer
LEMMA ConnectKept ==
    ASSUME SeparateChains, ChainInv, NEW w \in Workers, ConnectOutputBuffer(w)
    PROVE  Kept
<1> DEFINE b == task[w].block
           o == BufferOf[b]
<1>1. /\ Base /\ Working /\ OneTask /\ Cycles /\ Parking /\ Attaching /\ Training /\ Requesting
      /\ Reporting /\ Client1 /\ Promises
  BY DEF ChainInv
<1>2. /\ pc[w] = "connect" /\ WorkerStep(w) /\ task' = task
      /\ UNCHANGED <<io, level, registered, sized, counter, queue, counts>>
  BY DEF ConnectOutputBuffer, WorkerStep
<1>3. /\ b \in Outputs /\ b \in Blocks /\ o \in Buffers /\ buffer[o] \in BufferType
      /\ Work(task[w], pc[w]) /\ Running /\ b \in registered /\ b \in reached /\ b \notin attached
  BY <1>1, <1>2, AtBuffer
<1>4. task[w] \in TaskType /\ pc[w] \in Places
  BY <1>2, OwnTask
<1>5. AtOutput(b, "connect", Forwards(task[w]))
  BY <1>2, <1>3 DEF Work
<1>6. /\ Forwards(task[w]) /\ b \notin parked /\ from[b] \notin back /\ b \notin counted
  BY <1>3, <1>5 DEF AtOutput
<1>7. PICK n : /\ buffer' = [buffer EXCEPT ![o] = n]
               /\ n.connected = buffer[o].connected + 1
               /\ n.local = buffer[o].local /\ n.value = buffer[o].value
               /\ n.finalized = buffer[o].finalized /\ n.unfinished = buffer[o].unfinished
               /\ n.expected = buffer[o].expected
               /\ attached' = attached \cup {b}
               /\ UNCHANGED <<counted, parked, complete>>
  BY <1>1, ConnectEffect
<1>8. buffer'[o] = n /\ \A p \in Buffers : p # o => buffer'[p] = buffer[p]
  BY <1>1, <1>3, <1>7 DEF Base, TypeOK
<1>9. /\ UNCHANGED <<call, cpc, todo, arg, kind, Running>> /\ counter'.expected = counter.expected
      /\ \A v \in Workers : v # w => /\ pc'[v] = pc[v] /\ task'[v] = task[v] /\ counts'[v] = counts[v]
  BY <1>1, <1>2, WorkerFrame DEF clientVars
<1>10. pc'[w] = "output" /\ task'[w] = task[w] /\ ~counts'[w]
  BY <1>1, <1>2, <1>6 DEF ConnectOutputBuffer, Goto, Base, TypeOK, Reporting
<1>11. /\ UNCHANGED <<to, from, owing, fresh, back, paid, reached>>
       /\ Single' /\ Bounded' /\ Rooted' /\ Looking' /\ Edges' /\ Client1' /\ Promises'
       /\ \A v \in Workers : v # w /\ v \in active' => v \in active
  BY <1>2, <1>3, <1>7, <1>10, OutputRest
<1>12. <<task'[w], pc'[w]>> \in sound'
  <2>1. "output" \in Places
    BY DEF Places, WorkerPlaces
  <2>2. /\ b \in registered' /\ b \in reached' /\ b \notin parked' /\ from'[b] \notin back'
        /\ b \notin counted' /\ b \in attached'
    BY <1>2, <1>3, <1>6, <1>7, <1>11
  <2>3. <<task[w], "output">> \in sound'
    BY <1>3, <1>4, <1>6, <1>9, <2>1, <2>2, OutputSound
  <2> QED BY <1>10, <2>3
<1>13. \A j \in sound : j[1].block # b => j \in sound'
  BY <1>2, <1>7, <1>9, <1>11, OutputOthers
<1>14. Working' /\ OneTask' /\ Cycles' /\ queued' = queued
  BY <1>1, <1>2, <1>9, <1>10, <1>11, <1>12, <1>13, JobsQuiet
<1>15. taken' \subseteq taken
  BY <1>2, <1>9, <1>10, TakenAfter
<1>16. Parking'
  <2>1. \A p \in Buffers : buffer'[p].unfinished = buffer[p].unfinished
    BY <1>7, <1>8
  <2>2. \A p \in Buffers : \A j, k \in DOMAIN buffer'[p].unfinished :
          /\ buffer'[p].unfinished[j] = buffer'[p].unfinished[k] => j = k
          /\ BufferOf[buffer'[p].unfinished[j]] = p
    BY <1>1, <2>1 DEF Parking
  <2>3. \A c \in parked' :
          /\ Running' /\ kind' = "train" /\ c \in registered' /\ c \in reached'
          /\ from'[c] \notin back' /\ c \in attached'
    BY <1>1, <1>2, <1>7, <1>9, <1>11 DEF Parking
  <2> QED BY <2>2, <2>3 DEF Parking
<1>17. Attaching'
  <2>1. \A p \in Buffers : /\ p = o => AttachedTo(p)' = AttachedTo(p) \cup {b} /\ b \notin AttachedTo(p)
                           /\ p # o => AttachedTo(p)' = AttachedTo(p)
    BY <1>3, <1>7 DEF AttachedTo
  <2>2. IsFiniteSet(attached) /\ IsFiniteSet(attached')
    BY <1>1, <1>3, <1>7, OneAttached DEF Attaching
  <2>3. \A p \in Buffers : IsFiniteSet(AttachedTo(p))
    <3>1. \A p \in Buffers : AttachedTo(p) \subseteq attached
      BY DEF AttachedTo
    <3> QED BY <2>2, <3>1, FS_Subset
  <2>4. \A p \in Buffers : buffer[p].connected = Cardinality(AttachedTo(p))
    BY <1>1 DEF Attaching
  <2>5. \A p \in Buffers : buffer'[p].connected = Cardinality(AttachedTo(p)')
    <3> SUFFICES ASSUME NEW p \in Buffers PROVE buffer'[p].connected = Cardinality(AttachedTo(p)')
      OBVIOUS
    <3>1. CASE p = o
      <4>1. Cardinality(AttachedTo(p) \cup {b}) = Cardinality(AttachedTo(p)) + 1
        BY <2>1, <2>3, <3>1, OneAttached
      <4>2. AttachedTo(p)' = AttachedTo(p) \cup {b}
        BY <2>1, <3>1
      <4>3. buffer'[p].connected = buffer[p].connected + 1
        BY <1>7, <1>8, <3>1
      <4> QED BY <2>4, <4>1, <4>2, <4>3
    <3>2. CASE p # o
      <4>1. AttachedTo(p)' = AttachedTo(p)
        BY <2>1, <3>2
      <4>2. buffer'[p].connected = buffer[p].connected
        BY <1>8, <3>2
      <4> QED BY <2>4, <4>1, <4>2
    <3> QED BY <3>1, <3>2
  <2>6. attached' \subseteq registered'
    BY <1>1, <1>2, <1>3, <1>7 DEF Attaching
  <2> QED BY <2>2, <2>5, <2>6 DEF Attaching
<1>18. Training'
  <2>1. \A p \in Buffers : /\ buffer'[p].expected = buffer[p].expected
                           /\ buffer'[p].finalized = buffer[p].finalized
    BY <1>7, <1>8
  <2>2. counted' \subseteq reached' \cap attached'
    BY <1>1, <1>3, <1>7, <1>11 DEF Training
  <2>3. kind = "train" =>
          \A p \in Buffers : /\ buffer[p].expected.of = call
                             /\ buffer[p].finalized <=> p \in complete
    BY <1>1, <1>3 DEF Training
  <2>4. kind' = "train" =>
          \A p \in Buffers : /\ buffer'[p].expected.of = call'
                             /\ buffer'[p].finalized <=> p \in complete'
    BY <1>7, <1>9, <2>1, <2>3
  <2>5. cpc' # "expect"
    BY <1>3, <1>9 DEF Running
  <2> QED BY <2>2, <2>4, <2>5 DEF Training
<1>19. Requesting'
  <2>1. kind # "request"
    <3> SUFFICES ASSUME kind = "request" PROVE FALSE
      OBVIOUS
    <3>1. Grown
      BY <1>1, <1>3, RequestGrown DEF Running
    <3> QED BY <1>3, <3>1 DEF Grown
  <2> QED BY <1>9, <2>1 DEF Requesting
<1>20. Reporting'
  <2>1. \A i \in Inputs \cap back : i \in queued' \/ i \in taken' => i \in queued \/ i \in taken
    BY <1>14, <1>15
  <2> QED BY <1>1, <1>2, <1>7, <1>9, <1>10, <1>11, <2>1, ReportingKept
<1> QED BY <1>11, <1>14, <1>16, <1>17, <1>18, <1>19, <1>20 DEF Kept

\* No block is attached to a buffer.
LEMMA AttachingSame ==
    ASSUME Attaching, UNCHANGED <<attached, registered>>,
           \A p \in Buffers : buffer'[p].connected = buffer[p].connected
    PROVE  Attaching'
<1>1. \A p \in Buffers : AttachedTo(p)' = AttachedTo(p)
  BY DEF AttachedTo
<1>2. \A p \in Buffers : buffer'[p].connected = Cardinality(AttachedTo(p)')
  BY <1>1 DEF Attaching
<1> QED BY <1>2 DEF Attaching

\* The tasks for the blocks that wait at a buffer.
Woken(t, u) == [i \in DOMAIN u |-> [t EXCEPT !.type = "Backpropagate", !.block = u[i]]]

\* They are tasks, one for each block.
LEMMA WokenTasks ==
    ASSUME NEW t \in TaskType, NEW u \in Seq(Outputs)
    PROVE  /\ Woken(t, u) \in Seq(TaskType) /\ DOMAIN Woken(t, u) = DOMAIN u
           /\ \A i \in DOMAIN u : /\ Woken(t, u)[i] \in TaskType
                                 /\ Woken(t, u)[i].type = "Backpropagate"
                                 /\ Woken(t, u)[i].block = u[i]
                                 /\ Woken(t, u)[i].cycle = t.cycle
<1> DEFINE q == Woken(t, u)
<1>1. DOMAIN q = DOMAIN u
  BY DEF Woken
<1>2. \A i \in DOMAIN u : q[i] = [t EXCEPT !.type = "Backpropagate", !.block = u[i]]
  BY DEF Woken
<1>3. \A i \in DOMAIN u : u[i] \in Blocks
  BY Entries, BlockFacts
<1>4. q = [i \in DOMAIN u |-> q[i]]
  BY DEF Woken
<1> HIDE DEF q
<1>5. ASSUME NEW i \in DOMAIN u PROVE q[i] \in TaskType
  <2>1. q[i] = [t EXCEPT !.type = "Backpropagate", !.block = u[i]] /\ u[i] \in Blocks
    BY <1>2, <1>3
  <2> QED BY <2>1, TaskFacts
<1>6. \A i \in DOMAIN u : /\ q[i].type = "Backpropagate" /\ q[i].block = u[i]
                         /\ q[i].cycle = t.cycle
  <2> SUFFICES ASSUME NEW i \in DOMAIN u
               PROVE  q[i].type = "Backpropagate" /\ q[i].block = u[i] /\ q[i].cycle = t.cycle
    OBVIOUS
  <2>1. q[i] = [t EXCEPT !.type = "Backpropagate", !.block = u[i]]
    BY <1>2
  <2> QED BY <2>1 DEF TaskType
<1>7. q \in Seq(TaskType)
  BY <1>4, <1>5, MapSeq
<1>8. /\ q \in Seq(TaskType) /\ DOMAIN q = DOMAIN u
      /\ \A i \in DOMAIN u : /\ q[i] \in TaskType /\ q[i].type = "Backpropagate"
                            /\ q[i].block = u[i] /\ q[i].cycle = t.cycle
  BY <1>1, <1>5, <1>6, <1>7
<1> QED BY <1>8 DEF q

\* The blocks that wait at a buffer are parked, and each has one task now.
ParkedAt(o) == {c \in parked : BufferOf[c] = o}
WakesUp(t, o) == /\ t \in TaskType /\ t.type = "Backpropagate" /\ t.cycle = Cycle
                 /\ t.block \in ParkedAt(o)
Wakes(ts, o) == /\ \A k \in DOMAIN ts : WakesUp(ts[k], o)
                /\ \A i, k \in DOMAIN ts : ts[i].block = ts[k].block => i = k

\* They are tasks for blocks without one.
LEMMA WakeTasks ==
    ASSUME Base, Parking, Cycles, NEW w \in Workers, pc[w] # "idle", NEW o \in Buffers, NEW ts,
           ts = Woken(task[w], buffer[o].unfinished)
    PROVE  ts \in Seq(TaskType) /\ Wakes(ts, o)
<1> DEFINE u == buffer[o].unfinished
<1>1. buffer[o] \in BufferType
  BY DEF Base, TypeOK
<1>2. u \in Seq(Outputs)
  BY <1>1 DEF BufferType
<1>3. \A i \in DOMAIN u : u[i] \in Outputs
  BY <1>2, Entries
<1>4. task[w] \in TaskType /\ task[w].cycle = Cycle
  BY OwnBlock DEF Base, Cycles
<1>5. \A i, k \in DOMAIN u : /\ u[i] = u[k] => i = k
                             /\ BufferOf[u[i]] = o
  BY DEF Parking
<1>6. \A i \in DOMAIN u : u[i] \in parked
  <2> SUFFICES ASSUME NEW i \in DOMAIN u PROVE u[i] \in parked
    OBVIOUS
  <2>1. u[i] \in Outputs /\ BufferOf[u[i]] = o
    BY <1>3, <1>5
  <2>2. u[i] \in Range(buffer[BufferOf[u[i]]].unfinished)
    BY <2>1 DEF Range
  <2> QED BY <2>1, <2>2 DEF parked
<1>7. /\ ts \in Seq(TaskType) /\ DOMAIN ts = DOMAIN u
      /\ \A i \in DOMAIN u : /\ ts[i] \in TaskType /\ ts[i].type = "Backpropagate"
                            /\ ts[i].block = u[i] /\ ts[i].cycle = Cycle
  BY <1>2, <1>4, WokenTasks
<1> HIDE DEF u
<1>8. \A k \in DOMAIN ts : WakesUp(ts[k], o)
  BY <1>5, <1>6, <1>7 DEF ParkedAt, WakesUp
<1>9. \A i, k \in DOMAIN ts : ts[i].block = ts[k].block => i = k
  BY <1>5, <1>7
<1> QED BY <1>7, <1>8, <1>9 DEF Wakes

\* The blocks u, each once, belong to buffer o.
Waits(u, o) == \A j, k \in DOMAIN u : (u[j] = u[k] => j = k) /\ BufferOf[u[j]] = o

\* The blocks that wait at a buffer are its own.
LEMMA WaitingNow ==
    ASSUME Parking, NEW o \in Buffers
    PROVE  Waits(buffer[o].unfinished, o)
  BY DEF Parking, Waits

\* They still are after one of its blocks joined them.
LEMMA JoinWaiting ==
    ASSUME Base, Parking, NEW o \in Buffers, NEW b \in Outputs, BufferOf[b] = o, b \notin parked, NEW u,
           u = Append(buffer[o].unfinished, b)
    PROVE  Waits(u, o)
<1> DEFINE s == buffer[o].unfinished
<1>1. s \in Seq(Outputs)
  BY DEF Base, TypeOK, BufferType
<1>2. /\ DOMAIN u = 1..Len(s) + 1 /\ Len(s) \in Nat /\ DOMAIN s = 1..Len(s)
      /\ u[Len(s) + 1] = b /\ \A k \in 1..Len(s) : u[k] = s[k]
  BY <1>1, AppendRange
<1>3. \A j, k \in DOMAIN s : /\ s[j] = s[k] => j = k
                             /\ BufferOf[s[j]] = o
  BY DEF Parking
<1>4. \A k \in DOMAIN s : s[k] # b
  BY DEF parked, Range
<1> HIDE DEF s
<1> SUFFICES ASSUME NEW j \in DOMAIN u, NEW k \in DOMAIN u
             PROVE  (u[j] = u[k] => j = k) /\ BufferOf[u[j]] = o
  BY DEF Waits
<1>5. j \in DOMAIN s \/ j = Len(s) + 1
  BY <1>2
<1>6. k \in DOMAIN s \/ k = Len(s) + 1
  BY <1>2
<1>7. BufferOf[u[j]] = o
  BY <1>2, <1>3, <1>5
<1>8. u[j] = u[k] => j = k
  BY <1>2, <1>3, <1>4, <1>5, <1>6
<1> QED BY <1>7, <1>8

\* train of an output block
LEMMA TrainOutputKept ==
    ASSUME SeparateChains, ChainInv, NEW w \in Workers, TrainOutput(w)
    PROVE  Kept
<1> DEFINE b == task[w].block
           o == BufferOf[b]
           x == buffer[o]
           v == Append(x.value, Part(b, call))
           ts == [i \in DOMAIN x.unfinished |->
                    [task[w] EXCEPT !.type = "Backpropagate", !.block = x.unfinished[i]]]
<1>1. /\ Base /\ Working /\ OneTask /\ Cycles /\ Parking /\ Attaching /\ Training /\ Requesting
      /\ Reporting /\ Client1 /\ Promises
  BY DEF ChainInv
<1>2. /\ pc[w] = "output" /\ WorkerStep(w)
      /\ UNCHANGED <<io, level, registered, attached, counter>>
  BY Zenon DEF TrainOutput, WorkerStep
<1>3. /\ b \in Outputs /\ b \in Blocks /\ o \in Buffers /\ buffer[o] \in BufferType
      /\ Work(task[w], pc[w]) /\ Running /\ b \in registered /\ b \in reached /\ b \in attached
      /\ Forwards(task[w]) /\ b \notin counted
  BY <1>1, <1>2, AtBuffer
<1>4. task[w] \in TaskType /\ pc[w] \in Places
  BY <1>2, OwnTask
<1>5. b \notin parked /\ from[b] \notin back
  <2>1. AtOutput(b, "output", Forwards(task[w]))
    BY <1>2, <1>3 DEF Work
  <2> QED BY <2>1 DEF AtOutput
<1>6. kind = "train" /\ counted' = counted \cup {b} /\ sized' = sized \cup {b}
  BY <1>1, TrainEffect, Zenon
<1>7. PICK n :
        /\ buffer' = [buffer EXCEPT ![o] = n]
        /\ n.connected = x.connected /\ n.expected.of = x.expected.of
        /\ \/ /\ o \in complete /\ n.value = v /\ n.finalized = TRUE
              /\ n.unfinished = x.unfinished
              /\ UNCHANGED <<queue, lock, task, counts, parked, complete>>
              /\ Goto(w, "gradient")
           \/ /\ o \notin complete /\ n.value = Append(v, Sigmoid) /\ n.finalized = TRUE
              /\ n.unfinished = <<>>
              /\ Enqueue(ts)
              /\ counts' = [counts EXCEPT ![w] = TRUE]
              /\ Goto(w, "gradient") /\ UNCHANGED <<lock, task>>
              /\ parked' = {c \in parked : BufferOf[c] # o}
              /\ complete' = complete \cup {o}
           \/ /\ o \notin complete /\ n.value = v /\ ~n.finalized
              /\ n.unfinished = Append(x.unfinished, b)
              /\ Unlock(b) /\ Finish(w) /\ UNCHANGED <<queue, counts>>
              /\ parked' = parked \cup {b} /\ complete' = complete
  BY <1>1, TrainEffect, Zenon
<1>8. buffer'[o] = n /\ \A p \in Buffers : p # o => buffer'[p] = buffer[p]
  BY <1>1, <1>3, <1>7, Zenon DEF Base, TypeOK
<1>9. /\ UNCHANGED <<call, cpc, todo, arg, kind, Running>> /\ counter'.expected = counter.expected
      /\ \A u \in Workers : u # w => /\ pc'[u] = pc[u] /\ task'[u] = task[u] /\ counts'[u] = counts[u]
  BY <1>1, <1>2, WorkerFrame DEF clientVars
<1>10. pc \in [Workers -> WorkerPlaces] /\ counts \in [Workers -> BOOLEAN] /\ ~counts[w]
  BY <1>1, <1>2 DEF Base, TypeOK, Reporting
<1>11. \/ pc'[w] = "gradient" /\ task'[w] = task[w] /\ b \notin parked'
       \/ pc'[w] = "idle"
  BY <1>5, <1>7, <1>10, Zenon DEF Goto, Finish
<1>12. /\ UNCHANGED <<to, from, owing, fresh, back, paid, reached>>
       /\ Single' /\ Bounded' /\ Rooted' /\ Looking' /\ Edges' /\ Client1' /\ Promises'
       /\ \A u \in Workers : u # w /\ u \in active' => u \in active
  <2>1. sized \subseteq sized' /\ attached \subseteq attached'
    BY <1>2, <1>6
  <2> QED BY <1>2, <1>3, <1>11, <2>1, OutputRest
<1>13. w \in active' => <<task'[w], pc'[w]>> \in sound'
  <2> SUFFICES ASSUME pc'[w] # "idle" PROVE <<task'[w], pc'[w]>> \in sound'
    BY DEF active
  <2>1. "gradient" \in Places
    BY DEF Places, WorkerPlaces
  <2>2. /\ b \in registered' /\ b \in reached' /\ b \notin parked' /\ from'[b] \notin back'
        /\ b \in attached'
    BY <1>2, <1>3, <1>5, <1>11, <1>12
  <2>3. <<task[w], "gradient">> \in sound'
    BY <1>3, <1>4, <1>6, <1>9, <2>1, <2>2, OutputSound
  <2> QED BY <1>11, <2>3
<1>14. \A j \in sound : j[1].block # b => j \in sound'
  <2>1. parked' \subseteq parked \cup {b}
    BY <1>7, Zenon
  <2>2. \A c \in Blocks : c # b => /\ c \in attached' <=> c \in attached
                                   /\ c \in sized => c \in sized'
                                   /\ c \in counted' => c \in counted
                                   /\ c \in parked' => c \in parked
    BY <1>2, <1>6, <2>1
  <2> QED BY <1>2, <1>9, <1>12, <2>2, OutputOthers
<1>15. task'[w] = task[w] \/ pc'[w] = "idle"
  BY <1>11
<1>16. /\ Working' /\ OneTask' /\ Cycles'
       /\ \A i \in Inputs \cap back : i \in queued' \/ i \in taken' => i \in queued \/ i \in taken
  <2>1. taken' \subseteq taken
    BY <1>2, <1>9, <1>15, TakenAfter
  <2>2. CASE queue' = queue
    <3>1. Working' /\ OneTask' /\ Cycles' /\ queued' = queued
      BY <1>1, <1>2, <1>9, <1>12, <1>13, <1>14, <1>15, <2>2, JobsQuiet
    <3> QED BY <2>1, <3>1
  <2>3. CASE Enqueue(ts) /\ parked' = {c \in parked : BufferOf[c] # o}
    <3>1. ts = Woken(task[w], buffer[o].unfinished)
      BY DEF Woken
    <3>2. queue' = queue \o ts
      BY <2>3, Zenon DEF Enqueue
    <3> HIDE DEF ts
    <3>3. ts \in Seq(TaskType) /\ Wakes(ts, o)
      <4>1. pc[w] # "idle"
        BY <1>2
      <4> HIDE DEF o, x, v
      <4> QED BY <1>1, <1>3, <3>1, <4>1, WakeTasks
    <3>4. \A k \in DOMAIN ts : /\ ts[k].type = "Backpropagate" /\ ts[k].cycle = Cycle
                               /\ ts[k].block \in parked /\ BufferOf[ts[k].block] = o
                               /\ ts[k] \in TaskType
      BY <3>3 DEF Wakes, WakesUp, ParkedAt
    <3>5. \A i, k \in DOMAIN ts : ts[i].block = ts[k].block => i = k
      BY <3>3 DEF Wakes
    <3>6. \A k \in DOMAIN ts : ts[k].block \notin queued /\ ts[k].block \notin taken
      BY <1>1, <3>4, ParkedFree
    <3>7. \A k \in DOMAIN ts : <<ts[k], "queue">> \in sound'
      <4> SUFFICES ASSUME NEW k \in DOMAIN ts PROVE <<ts[k], "queue">> \in sound'
        OBVIOUS
      <4> DEFINE t == ts[k]
                 u == t.block
      <4>1. t \in TaskType /\ u = t.block /\ t.type = "Backpropagate" /\ u \in parked /\ BufferOf[u] = o
        BY <3>4
      <4>2. u \in Outputs /\ u \notin parked'
        BY <2>3, <4>1 DEF parked
      <4> HIDE DEF u, t
      <4>3. u \in registered /\ u \in reached /\ from[u] \notin back /\ u \in attached
        BY <1>1, <4>1 DEF Parking
      <4>4. Running' /\ kind' = "train" /\ u \in registered' /\ u \in reached'
            /\ from'[u] \notin back' /\ u \in attached'
        BY <1>2, <1>3, <1>6, <1>9, <1>12, <4>3
      <4>5. <<t, "queue">> \in sound'
        BY <4>1, <4>2, <4>4, NewParked
      <4> QED BY <4>5 DEF t
    <3>8. \A k \in DOMAIN ts : /\ <<ts[k], "queue">> \in sound' /\ ts[k].cycle = Cycle
                               /\ ts[k].block \notin queued /\ ts[k].block \notin taken
      BY <3>4, <3>6, <3>7
    <3>9. pc[w] # "idle"
      BY <1>2
    <3>10. Working' /\ OneTask' /\ Cycles'
      BY <1>1, <1>9, <1>12, <1>13, <1>14, <1>15, <3>2, <3>3, <3>5, <3>8, <3>9, JobsStep
    <3>11. queued' = queued \cup {ts[k].block : k \in DOMAIN ts}
      BY <1>1, <3>2, <3>3, QueuedAfter
    <3>12. \A k \in DOMAIN ts : ts[k].block \notin Inputs
      BY <3>4, BlockAssumption DEF parked
    <3> QED BY <2>1, <3>10, <3>11, <3>12
  <2> QED BY <1>7, <2>2, <2>3, Zenon
<1>17. Parking'
  <2>1. Waits(n.unfinished, o)
    <3>1. CASE n.unfinished = x.unfinished
      BY <1>1, <1>3, <3>1, WaitingNow
    <3>2. CASE n.unfinished = <<>>
      BY <3>2 DEF Waits
    <3>3. CASE n.unfinished = Append(x.unfinished, b)
      <4>1. o \in Buffers /\ b \in Outputs /\ b \notin parked /\ BufferOf[b] = o
        BY <1>3, <1>5
      <4> QED BY <1>1, <3>3, <4>1, JoinWaiting
    <3> QED BY <1>7, <3>1, <3>2, <3>3, Zenon
  <2>2. \A p \in Buffers : Waits(buffer'[p].unfinished, p)
    <3> SUFFICES ASSUME NEW p \in Buffers
                 PROVE  Waits(buffer'[p].unfinished, p)
      OBVIOUS
    <3>1. CASE p = o
      BY <1>8, <2>1, <3>1
    <3>2. CASE p # o
      BY <1>1, <1>8, <3>2, WaitingNow
    <3> QED BY <3>1, <3>2
  <2>3. parked' \subseteq parked \cup {b}
    BY <1>7, Zenon
  <2>4. \A c \in parked' :
          /\ Running' /\ kind' = "train" /\ c \in registered' /\ c \in reached'
          /\ from'[c] \notin back' /\ c \in attached'
    BY <1>1, <1>2, <1>3, <1>5, <1>6, <1>9, <1>12, <2>3 DEF Parking
  <2> QED BY <2>2, <2>4 DEF Parking, Waits
<1>18. Attaching'
  <2>1. \A p \in Buffers : buffer'[p].connected = buffer[p].connected
    BY <1>7, <1>8, Zenon
  <2> QED BY <1>1, <1>2, <2>1, AttachingSame
<1>19. Training'
  <2>1. \A p \in Buffers : buffer[p].expected.of = call /\ (buffer[p].finalized <=> p \in complete)
    BY <1>1, <1>3, <1>6 DEF Training
  <2>2. \A p \in Buffers : buffer'[p].expected.of = call
    BY <1>3, <1>7, <1>8, <2>1, Zenon
  <2>3. n.finalized <=> o \in complete'
    <3>1. CASE n.finalized = TRUE
      BY <1>7, <3>1, Zenon
    <3>2. CASE ~n.finalized
      BY <1>7, <3>2, Zenon
    <3> QED BY <1>7, <3>1, <3>2, Zenon
  <2>4. \A p \in Buffers : p # o => (p \in complete' <=> p \in complete)
    BY <1>7, Zenon
  <2>5. \A p \in Buffers : (buffer'[p].finalized <=> p \in complete')
    <3> SUFFICES ASSUME NEW p \in Buffers PROVE buffer'[p].finalized <=> p \in complete'
      OBVIOUS
    <3>1. CASE p = o
      BY <1>8, <2>3, <3>1
    <3>2. CASE p # o
      BY <1>8, <2>1, <2>4, <3>2
    <3> QED BY <3>1, <3>2
  <2>6. counted' \subseteq reached' \cap attached'
    BY <1>1, <1>2, <1>3, <1>6, <1>12 DEF Training
  <2>7. cpc' # "expect" /\ call' = call
    BY <1>3, <1>9 DEF Running
  <2> QED BY <2>2, <2>5, <2>6, <2>7 DEF Training
<1>20. Requesting'
  BY <1>6, <1>9 DEF Requesting
<1>21. Reporting'
  <2>1. CASE complete' = complete /\ UNCHANGED counts
    <3>1. ~counts'[w] /\ pc'[w] # "count"
      BY <1>10, <1>11, <2>1
    <3> QED BY <1>1, <1>2, <1>9, <1>12, <1>16, <2>1, <3>1, ReportingKept
  <2>2. CASE /\ o \notin complete /\ complete' = complete \cup {o} /\ counts' = [counts EXCEPT ![w] = TRUE]
             /\ Goto(w, "gradient") /\ UNCHANGED task
    <3>1. counts'[w] /\ pc'[w] = "gradient" /\ task'[w] = task[w]
      BY <1>10, <2>2 DEF Goto
    <3>2. back \subseteq back'
      BY <1>12
    <3> HIDE DEF o
    <3>3. o = BufferOf[task[w].block]
      BY DEF o
    <3> QED BY <1>1, <1>2, <1>3, <1>9, <1>10, <1>16, <2>2, <3>1, <3>2, <3>3, CompleteReports
  <2> QED BY <1>7, <2>1, <2>2, Zenon
<1> QED BY <1>12, <1>16, <1>17, <1>18, <1>19, <1>20, <1>21 DEF Kept

\* A subset of a finite set that is not smaller is the set.
LEMMA FullSubset ==
    ASSUME NEW S, NEW T, IsFiniteSet(T), S \subseteq T
    PROVE  /\ IsFiniteSet(S) /\ Cardinality(S) \in Nat /\ Cardinality(T) \in Nat
           /\ Cardinality(S) <= Cardinality(T)
           /\ Cardinality(S) >= Cardinality(T) => S = T
<1>1. IsFiniteSet(S) /\ Cardinality(S) <= Cardinality(T) /\ (Cardinality(S) = Cardinality(T) => S = T)
  BY FS_Subset
<1>2. Cardinality(S) \in Nat /\ Cardinality(T) \in Nat
  BY <1>1, FS_CardinalityType
<1> QED BY <1>1, <1>2

\* The sum of a buffer, one part more, and maybe the activation.
LEMMA SumLength ==
    ASSUME NEW s \in ValueType, NEW b \in Outputs, NEW a \in Nat, NEW v, v = Append(s, Part(b, a))
    PROVE  /\ v \in ValueType /\ Len(v) = Len(s) + 1 /\ Len(s) \in Nat
           /\ Len(Append(v, Sigmoid)) = Len(s) + 2 /\ Append(v, Sigmoid)[Len(s) + 2] = Sigmoid
<1>1. Part(b, a) \in [block : Outputs \cup {"sigmoid"}, data : Nat]
  BY DEF Part
<1>2. v \in ValueType /\ Len(v) = Len(s) + 1 /\ Len(s) \in Nat
  BY <1>1 DEF ValueType
<1> QED BY <1>2 DEF ValueType

\* The part and the activation.
LEMMA PlusTwo ==
    ASSUME NEW x \in Nat, NEW y, y = x + 1
    PROVE  y + 1 = x + 2
  OBVIOUS

\* A block adds its part in a request: the buffer adds up one part more.
LEMMA AddingKept ==
    ASSUME Base, Attaching, Requesting, Running, kind = "request", call \in Nat, call' = call,
           NEW b \in Outputs, b \in attached, b \notin counted, NEW o \in Buffers, o = BufferOf[b],
           UNCHANGED attached, counted' = counted \cup {b}, NEW n, NEW v,
           v = Append(buffer[o].value, Part(b, call)),
           buffer' = [buffer EXCEPT ![o] = n],
           n.local = buffer[o].local + 1,
           \/ /\ buffer[o].local + 1 >= buffer[o].connected
              /\ n.value = Append(v, Sigmoid) /\ complete' = complete \cup {o}
           \/ /\ buffer[o].local + 1 < buffer[o].connected
              /\ n.value = v /\ complete' = complete
    PROVE  o \notin complete /\ \A p \in Buffers : Adding(p)'
<1>1. \A p \in Buffers : Adding(p)
  BY DEF Requesting
<1>2. \A p \in Buffers : /\ AttachedTo(p)' = AttachedTo(p)
                         /\ p # o => CountedIn(p)' = CountedIn(p)
                         /\ p = o => /\ CountedIn(p)' = CountedIn(p) \cup {b}
                                     /\ b \notin CountedIn(p) /\ b \in AttachedTo(p)
                                     /\ CountedIn(p) \subseteq AttachedTo(p)
  BY DEF AttachedTo, CountedIn
<1>3. buffer'[o] = n /\ \A p \in Buffers : p # o => buffer'[p] = buffer[p]
  BY DEF Base, TypeOK
<1>4. o \notin complete
  BY <1>1, <1>2 DEF Adding
<1>5. buffer[o].local = Cardinality(CountedIn(o)) /\ Len(buffer[o].value) = buffer[o].local
  BY <1>1, <1>4 DEF Adding
<1>6. buffer[o].connected = Cardinality(AttachedTo(o))
  BY DEF Attaching
<1>7. IsFiniteSet(AttachedTo(o))
  <2>1. AttachedTo(o) \subseteq attached
    BY DEF AttachedTo
  <2> QED BY <2>1, FullSubset DEF Attaching
<1>8. CountedIn(o) \cup {b} \subseteq AttachedTo(o) /\ b \notin CountedIn(o)
  BY <1>2
<1>9. IsFiniteSet(CountedIn(o))
  BY <1>7, <1>8, FullSubset
<1>10. /\ Cardinality(CountedIn(o) \cup {b}) = Cardinality(CountedIn(o)) + 1
       /\ Cardinality(CountedIn(o)) \in Nat
  BY <1>8, <1>9, OneAttached
<1>11. /\ Cardinality(AttachedTo(o)) \in Nat
       /\ Cardinality(CountedIn(o)) + 1 >= Cardinality(AttachedTo(o)) => CountedIn(o) \cup {b} = AttachedTo(o)
  <2>1. /\ Cardinality(AttachedTo(o)) \in Nat
        /\ Cardinality(CountedIn(o) \cup {b}) >= Cardinality(AttachedTo(o))
             => CountedIn(o) \cup {b} = AttachedTo(o)
    BY <1>7, <1>8, FullSubset
  <2> QED BY <1>10, <2>1
<1>12. buffer[o].value \in ValueType
  BY DEF Base, TypeOK, BufferType
<1>13. /\ Len(v) = Len(buffer[o].value) + 1
       /\ Len(Append(v, Sigmoid)) = Len(buffer[o].value) + 2
       /\ Append(v, Sigmoid)[Len(buffer[o].value) + 2] = Sigmoid
  <2> DEFINE s == buffer[o].value
  <2>1. s \in ValueType /\ v = Append(s, Part(b, call))
    BY <1>12
  <2> HIDE DEF s
  <2>2. Len(v) = Len(s) + 1 /\ Len(Append(v, Sigmoid)) = Len(s) + 2 /\ Append(v, Sigmoid)[Len(s) + 2] = Sigmoid
    BY <2>1, SumLength
  <2> QED BY <2>2 DEF s
<1>14. \A p \in Buffers : p # o => Adding(p)'
  <2> SUFFICES ASSUME NEW p \in Buffers, p # o PROVE Adding(p)'
    OBVIOUS
  <2>1. /\ AttachedTo(p)' = AttachedTo(p) /\ CountedIn(p)' = CountedIn(p) /\ buffer'[p] = buffer[p]
        /\ p \in complete' <=> p \in complete
    BY <1>2, <1>3
  <2>2. Adding(p)
    BY <1>1
  <2> QED BY <2>1, <2>2 DEF Adding
<1>15. \A p \in Buffers : p = o => Adding(p)'
  <2> SUFFICES ASSUME NEW p \in Buffers, p = o PROVE Adding(p)'
    OBVIOUS
  <2>1. /\ AttachedTo(p)' = AttachedTo(o) /\ CountedIn(p)' = CountedIn(o) \cup {b} /\ buffer'[p] = n
    BY <1>2, <1>3
  <2>2. n.local = Cardinality(CountedIn(o) \cup {b})
    BY <1>5, <1>10
  <2>3. CASE buffer[o].local + 1 >= buffer[o].connected /\ n.value = Append(v, Sigmoid)
             /\ complete' = complete \cup {o}
    <3>1. CountedIn(o) \cup {b} = AttachedTo(o)
      BY <1>5, <1>6, <1>11, <2>3
    <3>2. Len(n.value) = n.local + 1 /\ n.value[Len(n.value)] = Sigmoid
      <4> DEFINE a == Append(v, Sigmoid)
                 k == buffer[o].local + 2
      <4>1. Len(a) = k /\ a[k] = Sigmoid
        BY <1>5, <1>13
      <4>2. n.local + 1 = k
        BY <1>5, <1>10, PlusTwo
      <4>3. n.value = a
        BY <2>3
      <4> HIDE DEF a, k
      <4> QED BY <4>1, <4>2, <4>3
    <3>3. /\ CountedIn(p)' = AttachedTo(p)' /\ p \in complete'
          /\ buffer[p]'.local = Cardinality(CountedIn(p)')
          /\ Len(buffer[p]'.value) = buffer[p]'.local + 1
          /\ buffer[p]'.value[Len(buffer[p]'.value)] = Sigmoid
      BY <2>1, <2>2, <2>3, <3>1, <3>2
    <3> QED BY <3>3 DEF Adding
  <2>4. CASE n.value = v /\ complete' = complete
    <3>1. Len(n.value) = n.local
      BY <1>5, <1>13, <2>4
    <3> QED BY <1>4, <2>1, <2>2, <2>4, <3>1 DEF Adding
  <2> QED BY <2>3, <2>4
<1> QED BY <1>4, <1>14, <1>15

\* process of an output block
LEMMA ProcessOutputKept ==
    ASSUME SeparateChains, ChainInv, NEW w \in Workers, ProcessOutput(w)
    PROVE  Kept
<1> DEFINE b == task[w].block
           o == BufferOf[b]
           x == buffer[o]
           v == Append(x.value, Part(b, call))
<1>1. /\ Base /\ Working /\ OneTask /\ Cycles /\ Parking /\ Attaching /\ Training /\ Requesting
      /\ Reporting /\ Client1 /\ Promises
  BY DEF ChainInv
<1>2. /\ pc[w] = "output" /\ WorkerStep(w)
      /\ UNCHANGED <<io, level, registered, attached, sized, counter, queue>>
  BY DEF ProcessOutput, WorkerStep, outBlocks
<1>3. /\ b \in Outputs /\ b \in Blocks /\ o \in Buffers /\ buffer[o] \in BufferType
      /\ Work(task[w], pc[w]) /\ Running /\ b \in registered /\ b \in reached /\ b \in attached
      /\ Forwards(task[w]) /\ b \notin counted /\ call \in Nat
  BY <1>1, <1>2, AtBuffer
<1>4. task[w] \in TaskType /\ pc[w] \in Places
  BY <1>2, OwnTask
<1>5. b \notin parked /\ from[b] \notin back
  <2>1. AtOutput(b, "output", Forwards(task[w]))
    BY <1>2, <1>3 DEF Work
  <2> QED BY <2>1 DEF AtOutput
<1>6. kind = "request" /\ counted' = counted \cup {b}
  BY <1>1, ProcessEffect
<1>7. PICK n :
        /\ buffer' = [buffer EXCEPT ![o] = n]
        /\ n.connected = x.connected /\ n.expected = x.expected
        /\ n.local = x.local + 1
        /\ \/ /\ x.local + 1 >= x.connected /\ n.value = Append(v, Sigmoid)
              /\ counts' = [counts EXCEPT ![w] = TRUE]
              /\ Goto(w, "count") /\ UNCHANGED task
              /\ n.unfinished = <<>> /\ parked' \subseteq parked
              /\ complete' = complete \cup {o}
           \/ /\ x.local + 1 < x.connected /\ n.value = v
              /\ Finish(w) /\ UNCHANGED counts
              /\ n.unfinished = x.unfinished /\ parked' = parked
              /\ complete' = complete
  BY <1>1, ProcessEffect
<1>8. buffer'[o] = n /\ \A p \in Buffers : p # o => buffer'[p] = buffer[p]
  BY <1>1, <1>3, <1>7, Zenon DEF Base, TypeOK
<1>9. /\ UNCHANGED <<call, cpc, todo, arg, kind, Running>> /\ counter'.expected = counter.expected
      /\ \A u \in Workers : u # w => /\ pc'[u] = pc[u] /\ task'[u] = task[u] /\ counts'[u] = counts[u]
  BY <1>1, <1>2, WorkerFrame DEF clientVars
<1>10. pc \in [Workers -> WorkerPlaces] /\ counts \in [Workers -> BOOLEAN] /\ ~counts[w]
  BY <1>1, <1>2 DEF Base, TypeOK, Reporting
<1>11. \/ pc'[w] = "count" /\ task'[w] = task[w] /\ counts'[w]
       \/ pc'[w] = "idle"
  BY <1>7, <1>10, Zenon DEF Goto, Finish
<1>12. /\ UNCHANGED <<to, from, owing, fresh, back, paid, reached>>
       /\ Single' /\ Bounded' /\ Rooted' /\ Looking' /\ Edges' /\ Client1' /\ Promises'
       /\ \A u \in Workers : u # w /\ u \in active' => u \in active
  BY <1>2, <1>3, <1>11, OutputRest
<1>13. parked = {} /\ parked' = {}
  <2>1. parked' \subseteq parked
    BY <1>7, Zenon
  <2> QED BY <1>1, <1>6, <2>1 DEF Parking
<1>14. w \in active' => <<task'[w], pc'[w]>> \in sound'
  <2> SUFFICES ASSUME pc'[w] # "idle" PROVE <<task'[w], pc'[w]>> \in sound'
    BY DEF active
  <2>1. "count" \in Places
    BY DEF Places, WorkerPlaces
  <2>2. b \in registered' /\ b \in reached' /\ b \notin parked' /\ b \in attached'
    BY <1>2, <1>3, <1>12, <1>13
  <2>3. <<task[w], "count">> \in sound'
    BY <1>3, <1>4, <1>9, <2>1, <2>2, OutputSound
  <2> QED BY <1>11, <2>3
<1>15. \A j \in sound : j[1].block # b => j \in sound'
  <2>1. \A c \in Blocks : c # b => /\ c \in attached' <=> c \in attached
                                   /\ c \in sized => c \in sized'
                                   /\ c \in counted' => c \in counted
                                   /\ c \in parked' => c \in parked
    BY <1>2, <1>6, <1>13
  <2> QED BY <1>2, <1>9, <1>12, <2>1, OutputOthers
<1>16. Working' /\ OneTask' /\ Cycles' /\ queued' = queued
  BY <1>1, <1>2, <1>9, <1>11, <1>12, <1>14, <1>15, JobsQuiet
<1>17. taken' \subseteq taken
  BY <1>2, <1>9, <1>11, TakenAfter
<1>18. Parking'
  <2>1. Waits(n.unfinished, o)
    <3>1. CASE n.unfinished = x.unfinished
      BY <1>1, <1>3, <3>1, WaitingNow
    <3>2. CASE n.unfinished = <<>>
      BY <3>2 DEF Waits
    <3> QED BY <1>7, <3>1, <3>2, Zenon
  <2>2. \A p \in Buffers : Waits(buffer'[p].unfinished, p)
    <3> SUFFICES ASSUME NEW p \in Buffers
                 PROVE  Waits(buffer'[p].unfinished, p)
      OBVIOUS
    <3>1. CASE p = o
      BY <1>8, <2>1, <3>1
    <3>2. CASE p # o
      BY <1>1, <1>8, <3>2, WaitingNow
    <3> QED BY <3>1, <3>2
  <2> QED BY <1>13, <2>2 DEF Parking, Waits
<1>19. Attaching'
  <2>1. \A p \in Buffers : buffer'[p].connected = buffer[p].connected
    BY <1>7, <1>8, Zenon
  <2> QED BY <1>1, <1>2, <2>1, AttachingSame
<1>20. Training'
  <2>1. counted' \subseteq reached' \cap attached'
    BY <1>1, <1>2, <1>3, <1>6, <1>12 DEF Training
  <2>2. cpc' # "expect" /\ kind' # "train"
    BY <1>3, <1>6, <1>9 DEF Running
  <2> QED BY <2>1, <2>2 DEF Training
<1>21. o \notin complete /\ Requesting'
  <2>1. o \notin complete /\ \A p \in Buffers : Adding(p)'
    <3> HIDE DEF o, b, v
    <3>1. o = BufferOf[b] /\ v = Append(buffer[o].value, Part(b, call)) /\ b \in Outputs
      BY <1>3 DEF o, v
    <3>2. call' = call /\ UNCHANGED attached /\ n.local = buffer[o].local + 1
      BY <1>2, <1>7, <1>9
    <3>3. \/ /\ buffer[o].local + 1 >= buffer[o].connected
             /\ n.value = Append(v, Sigmoid) /\ complete' = complete \cup {o}
          \/ /\ buffer[o].local + 1 < buffer[o].connected
             /\ n.value = v /\ complete' = complete
      BY <1>7
    <3> QED BY <1>1, <1>3, <1>6, <1>7, <3>1, <3>2, <3>3, AddingKept
  <2>2. ~(cpc' \in {"counter", "reset"})
    BY <1>3, <1>9 DEF Running
  <2> QED BY <2>1, <2>2 DEF Requesting
<1>22. Reporting'
  <2>1. \A i \in Inputs \cap back : i \in queued' \/ i \in taken' => i \in queued \/ i \in taken
    BY <1>16, <1>17
  <2>2. CASE complete' = complete /\ UNCHANGED counts /\ Finish(w)
    <3>1. ~counts'[w] /\ pc'[w] # "count"
      BY <1>10, <2>2 DEF Finish, Goto
    <3> QED BY <1>1, <1>2, <1>9, <1>12, <2>1, <2>2, <3>1, ReportingKept
  <2>3. CASE /\ complete' = complete \cup {o} /\ counts' = [counts EXCEPT ![w] = TRUE]
             /\ Goto(w, "count") /\ UNCHANGED task
    <3>1. counts'[w] /\ pc'[w] = "count" /\ task'[w] = task[w]
      BY <1>10, <2>3 DEF Goto
    <3>2. back \subseteq back'
      BY <1>12
    <3> HIDE DEF o
    <3>3. o = BufferOf[task[w].block]
      BY DEF o
    <3> QED BY <1>1, <1>2, <1>3, <1>9, <1>10, <1>21, <2>1, <2>3, <3>1, <3>2, <3>3, CompleteReports
  <2> QED BY <1>7, <2>2, <2>3, Zenon
<1> QED BY <1>12, <1>16, <1>18, <1>19, <1>20, <1>21, <1>22 DEF Kept
-----------------------------------------------------------------------------
(* The steps of the client.                                                *)

\* What a step of the client leaves alone that is not the input of a block.
ClientFrame == UNCHANGED <<io, level, registered, attached, sized, queue, lock, pc, task, sec, goal,
                           pick, counts>>

\* The network, the tasks and what is promised of them do not change with it.
LEMMA FrameKept ==
    ASSUME ChainInv, ClientFrame, call' = call, counter'.expected = Cycle
    PROVE  /\ UNCHANGED <<to, from, owing, fresh, back, paid, reached, kind, active, queued, taken>>
           /\ Single' /\ Bounded' /\ Rooted' /\ Looking' /\ Edges' /\ OneTask' /\ Cycles'
           /\ (Grown => Grown') /\ (Quiescent => Quiescent' /\ Working')
<1>1. /\ Base /\ Bounded /\ Rooted /\ Looking /\ Edges /\ OneTask /\ Cycles
  BY DEF ChainInv
<1>2. /\ UNCHANGED <<to, age, grad, from, got, gave, owing, fresh, back, paid, reached>> /\ Single'
      /\ Bounded'
  BY <1>1, QuietWave DEF ClientFrame
<1>3. UNCHANGED <<kind, active, queued, taken>>
  BY <1>2 DEF kind, active, queued, taken, ClientFrame
<1>4. Rooted' /\ Edges'
  BY <1>1, <1>2 DEF Rooted, Edges, ClientFrame
<1>5. Looking'
  BY <1>1 DEF Looking, ClientFrame
<1>6. OneTask' /\ Cycles'
  BY <1>1, <1>3 DEF OneTask, Cycles, ClientFrame
<1>7. Grown => Grown'
  BY <1>2, GrownKept DEF ClientFrame
<1>8. Quiescent => Quiescent' /\ Working'
  BY <1>3 DEF Quiescent, Working, ClientFrame
<1> QED BY <1>2, <1>3, <1>4, <1>5, <1>6, <1>7, <1>8

\* While nothing is at work no worker has a report to make, and no block waits.
LEMMA AtRest ==
    ASSUME ChainInv, Quiescent
    PROVE  /\ \A w \in Workers : ~counts[w] /\ pc[w] # "count"
           /\ ~Running => parked = {}
<1>1. Reporting /\ Parking
  BY DEF ChainInv
<1>2. \A w \in Workers : pc[w] # "gradient" /\ pc[w] # "sendback" /\ pc[w] # "count"
  BY DEF Quiescent, active
<1> QED BY <1>1, <1>2 DEF Reporting, Parking

\* The blocks that wait at the buffers stay.
LEMMA SameParked ==
    ASSUME \A p \in Buffers : buffer'[p].unfinished = buffer[p].unfinished
    PROVE  parked' = parked
BY BlockAssumption DEF parked

\* While nothing is at work nothing is left to be said of the blocks that wait
\* and of the reports.
LEMMA RestKept ==
    ASSUME ChainInv, ClientFrame, Quiescent, ~Running,
           \A p \in Buffers : /\ buffer'[p].unfinished = buffer[p].unfinished
                              /\ buffer'[p].connected = buffer[p].connected,
           cpc' \in {"expect", "reset"} \/ Running' =>
              counter'.compare = (IF kind' = "train" THEN Cardinality(Inputs) ELSE 0) + Cardinality(Buffers),
           cpc' \in {"expect", "reset"} \/ Running' => counter'.n = 0
    PROVE  Parking' /\ Attaching' /\ Reporting'
<1>1. Parking /\ Attaching /\ Reporting
  BY DEF ChainInv
<1>2. parked' = {} /\ \A w \in Workers : ~counts[w] /\ pc[w] # "count"
  BY AtRest, SameParked
<1>3. Parking'
  BY <1>1, <1>2 DEF Parking
<1>4. Attaching'
  BY <1>1, AttachingSame DEF ClientFrame
<1>5. \A w \in Workers : ~counts'[w] /\ pc'[w] # "count"
  BY <1>2 DEF ClientFrame
<1>6. Running' => counter'.n <= InputReports' + Cardinality(reportedBuffers')
  <2>1. InputReports' \in Nat /\ Cardinality(reportedBuffers') \in Nat
    <3>1. InputReports' = IF kind' = "train" THEN Cardinality(reportedInputs') ELSE 0
      BY DEF InputReports
    <3> QED BY <3>1, NextReportsFinite
  <2> HIDE DEF Running
  <2> SUFFICES ASSUME Running' PROVE counter'.n <= InputReports' + Cardinality(reportedBuffers')
    OBVIOUS
  <2>2. counter'.n = 0
    OBVIOUS
  <2> QED BY <2>1, <2>2
<1>7. \A o \in Buffers, w \in Workers : ~Counts(w, o)'
  BY <1>5 DEF Counts
<1>8. Reporting'
  BY <1>5, <1>6, <1>7 DEF Reporting
<1> QED BY <1>3, <1>4, <1>8

\* What a client inside a call knows.
LEMMA InCall ==
    ASSUME SeparateChains, ChainInv, cpc # "idle"
    PROVE  /\ call \in DOMAIN Calls /\ call \in Nat /\ call > 0 /\ kind = Calls[call].kind
           /\ kind \in {"train", "request"} => Calls[call].ins = Inputs
           /\ kind = "train" => Calls[call].outs = Buffers
           /\ kind = "request" => Calls[call].outs \subseteq Buffers
           /\ kind = "request" => Grown
<1>1. Base /\ Client1 /\ Promises
  BY DEF ChainInv
<1>2. call \in 1..Len(Calls)
  BY <1>1 DEF Base, Shape
<1>3. DOMAIN Calls = 1..Len(Calls) /\ Len(Calls) \in Nat
  BY CallAssumption
<1>4. call \in DOMAIN Calls /\ call \in Nat /\ call > 0
  BY <1>2, <1>3
<1>5. kind = Calls[call].kind
  BY <1>4 DEF kind
<1>6. kind = "request" => Grown
  BY <1>1, RequestGrown
<1> QED BY <1>4, <1>5, <1>6 DEF SeparateChains

\* Nothing was added to a buffer without a value.
LEMMA EmptyBuffers ==
    ASSUME \A p \in Buffers : buffer[p].value = <<>>
    PROVE  counted = {} /\ complete = {}
<1>1. \A e : e \notin Range(<<>>)
  BY DEF Range
<1>2. \A b \in Outputs : BufferOf[b] \in Buffers
  BY BlockAssumption
<1> QED BY <1>1, <1>2 DEF counted, complete

\* The operations of the client on a buffer.
LEMMA ClientBuffer ==
    ASSUME NEW x \in BufferType
    PROVE  /\ ResetOutput(x).value = <<>> /\ ResetOutput(x).local = 0
           /\ ResetOutput(x).unfinished = x.unfinished /\ ResetOutput(x).connected = x.connected
           /\ Reopen(x).value = x.value /\ Reopen(x).unfinished = x.unfinished
           /\ Reopen(x).connected = x.connected
           /\ \A c : LET y == SetExpected(ResetOutput(x), c)
                     IN  /\ y.value = <<>> /\ y.expected.of = c /\ ~y.finalized
                         /\ y.unfinished = x.unfinished /\ y.connected = x.connected
BY DEF ResetOutput, Reopen, SetExpected, Target, BufferType

\* reset_finish_counter
LEMMA ResetCounterKept ==
    ASSUME SeparateChains, ChainInv, ResetCounter
    PROVE  Kept
<1>1. Base /\ Client1 /\ Training /\ Requesting /\ Promises
  BY DEF ChainInv
<1>2. /\ cpc = "counter" /\ ClientFrame /\ UNCHANGED <<buffer, answer, call, arg>>
      /\ todo' = Calls[call].outs
  BY DEF ResetCounter, ClientFrame, netVars, outBlocks, workerVars
<1>3. Quiescent /\ ~Running /\ kind \in {"train", "request"} /\ fresh = {}
  BY <1>1, <1>2 DEF Client1, Running
<1>4. /\ call \in Nat /\ call > 0 /\ kind = Calls[call].kind
      /\ kind = "train" => Calls[call].outs = Buffers
      /\ kind = "request" => Calls[call].outs \subseteq Buffers
  BY <1>2, InCall
<1>5. /\ kind = "train" => /\ counter'.n = 0 /\ counter'.expected = Cycle /\ cpc' = "expect"
                           /\ counter'.compare = Cardinality(Inputs) + Cardinality(Buffers)
      /\ kind = "request" => /\ counter'.n = 0 /\ counter'.expected = Cycle /\ cpc' = "reset"
                             /\ counter'.compare = Cardinality(Buffers)
  BY <1>4 DEF ResetCounter, InputCompare, OutputCompare
<1>6. counter'.n = 0 /\ counter'.expected = Cycle /\ cpc' \in {"expect", "reset"}
  BY <1>3, <1>5
<1>7. /\ UNCHANGED <<to, from, owing, fresh, back, paid, reached, kind, active, queued, taken>>
      /\ Single' /\ Bounded' /\ Rooted' /\ Looking' /\ Edges' /\ OneTask' /\ Cycles'
      /\ (Grown => Grown') /\ Quiescent' /\ Working'
  BY <1>2, <1>3, <1>6, FrameKept
<1>8. ~Running'
  BY <1>6 DEF Running
<1>9. Parking' /\ Attaching' /\ Reporting'
  <2>1. \A p \in Buffers : /\ buffer'[p].unfinished = buffer[p].unfinished
                           /\ buffer'[p].connected = buffer[p].connected
    BY <1>2
  <2>2. Cardinality(Inputs) \in Nat /\ Cardinality(Buffers) \in Nat
    BY BlockAssumption, FS_CardinalityType
  <2>3. counter'.compare = (IF kind' = "train" THEN Cardinality(Inputs) ELSE 0) + Cardinality(Buffers)
    <3>1. CASE kind = "train"
      BY <1>5, <1>7, <3>1
    <3>2. CASE kind = "request"
      <4>1. kind' # "train"
        BY <1>7, <3>2
      <4> QED BY <1>5, <2>2, <3>2, <4>1
    <3> QED BY <1>3, <3>1, <3>2
  <2> QED BY <1>2, <1>3, <1>6, <2>1, <2>3, RestKept
<1>10. Training'
  <2>1. cpc' = "expect" => Buffers \ todo' = {}
    BY <1>2, <1>3, <1>4, <1>5
  <2> QED BY <1>8, <2>1 DEF Training
<1>11. Requesting'
  BY <1>1, <1>2, <1>7, <1>8 DEF Requesting
<1>12. Client1'
  <2>1. cpc' = "expect" => kind' = "train" /\ todo' \subseteq Buffers
    BY <1>2, <1>3, <1>4, <1>5, <1>7
  <2>2. cpc' = "reset" => kind' = "request" /\ todo' \subseteq Buffers
    BY <1>2, <1>3, <1>4, <1>5, <1>7
  <2>3. call' > 0 /\ fresh' = {}
    BY <1>2, <1>3, <1>4, <1>7
  <2> QED BY <1>6, <1>7, <1>8, <2>1, <2>2, <2>3 DEF Client1
<1>13. Promises'
  BY <1>1, <1>2, <1>6, <1>7 DEF Promises
<1> QED BY <1>7, <1>9, <1>10, <1>11, <1>12, <1>13 DEF Kept

\* train sets the target of one output.
LEMMA ApplyExpectedKept ==
    ASSUME SeparateChains, ChainInv, NEW n, ApplyExpected(n)
    PROVE  Kept
<1>1. Base /\ Client1 /\ Training /\ Requesting /\ Reporting /\ Promises
  BY DEF ChainInv
<1>2. /\ cpc = "expect" /\ ClientFrame /\ UNCHANGED <<cpc, counter, answer, call, arg>>
      /\ n \in todo /\ todo' = todo \ {n}
  BY DEF ApplyExpected, ClientFrame, outBlocks, workerVars
<1>3. Quiescent /\ ~Running /\ kind = "train" /\ fresh = {} /\ todo \subseteq Buffers /\ call > 0
  BY <1>1, <1>2 DEF Client1, Running
<1>4. n \in Buffers /\ buffer' = [buffer EXCEPT ![n] = SetExpected(ResetOutput(@), call)]
  BY <1>2, <1>3 DEF ApplyExpected
<1>5. /\ \A p \in Buffers : p # n => buffer'[p] = buffer[p]
      /\ buffer'[n] = SetExpected(ResetOutput(buffer[n]), call) /\ buffer[n] \in BufferType
  BY <1>1, <1>4 DEF Base, TypeOK
<1>6. /\ buffer'[n].value = <<>> /\ buffer'[n].expected.of = call /\ ~buffer'[n].finalized
      /\ buffer'[n].unfinished = buffer[n].unfinished
      /\ buffer'[n].connected = buffer[n].connected
  BY <1>5, ClientBuffer
<1>7. counter.expected = Cycle
  BY DEF ChainInv, Cycles
<1>8. /\ UNCHANGED <<to, from, owing, fresh, back, paid, reached, kind, active, queued, taken>>
      /\ Single' /\ Bounded' /\ Rooted' /\ Looking' /\ Edges' /\ OneTask' /\ Cycles'
      /\ (Grown => Grown') /\ Quiescent' /\ Working'
  BY <1>2, <1>3, <1>7, FrameKept
<1>9. ~Running' /\ cpc' = "expect"
  BY <1>2 DEF Running
<1>10. Parking' /\ Attaching' /\ Reporting'
  <2>1. \A p \in Buffers : /\ buffer'[p].unfinished = buffer[p].unfinished
                           /\ buffer'[p].connected = buffer[p].connected
    BY <1>5, <1>6
  <2>2. /\ counter.compare = (IF kind = "train" THEN Cardinality(Inputs) ELSE 0) + Cardinality(Buffers)
        /\ counter.n = 0
    BY <1>1, <1>2 DEF Reporting
  <2>3. counter'.compare = (IF kind' = "train" THEN Cardinality(Inputs) ELSE 0) + Cardinality(Buffers)
        /\ counter'.n = 0
    BY <1>2, <1>8, <2>2
  <2> QED BY <1>2, <1>3, <2>1, <2>3, RestKept
<1>11. Training'
  <2>1. \A o \in Buffers \ todo : /\ buffer[o].value = <<>> /\ ~buffer[o].finalized
                                  /\ buffer[o].expected.of = call
    BY <1>1, <1>2 DEF Training
  <2>2. \A o \in Buffers \ todo' : /\ buffer'[o].value = <<>> /\ ~buffer'[o].finalized
                                   /\ buffer'[o].expected.of = call'
    <3> SUFFICES ASSUME NEW o \in Buffers \ todo'
                 PROVE  /\ buffer'[o].value = <<>> /\ ~buffer'[o].finalized
                        /\ buffer'[o].expected.of = call'
      OBVIOUS
    <3>1. CASE o = n
      BY <1>2, <1>6, <3>1
    <3>2. CASE o # n
      BY <1>2, <1>5, <2>1, <3>2
    <3> QED BY <3>1, <3>2
  <2> QED BY <1>9, <2>2 DEF Training
<1>12. Requesting'
  BY <1>3, <1>8 DEF Requesting
<1>13. Client1'
  BY <1>2, <1>3, <1>8, <1>9 DEF Client1
<1>14. Promises'
  BY <1>1, <1>2, <1>8 DEF Promises
<1> QED BY <1>8, <1>10, <1>11, <1>12, <1>13, <1>14 DEF Kept

\* request resets one output.
LEMMA ResetRequestedKept ==
    ASSUME SeparateChains, ChainInv, NEW n, ResetRequested(n)
    PROVE  Kept
<1>1. Base /\ Client1 /\ Training /\ Requesting /\ Reporting /\ Promises
  BY DEF ChainInv
<1>2. /\ cpc = "reset" /\ ClientFrame /\ UNCHANGED <<counter, answer, call>>
      /\ n \in todo
  BY DEF ResetRequested, ClientFrame, outBlocks, workerVars
<1>3. Quiescent /\ ~Running /\ kind = "request" /\ fresh = {} /\ todo \subseteq Buffers /\ call > 0
  BY <1>1, <1>2 DEF Client1, Running
<1>4. /\ n \in Buffers /\ buffer' = [buffer EXCEPT ![n] = ResetOutput(@)] /\ todo' = todo \ {n}
      /\ cpc' = "reset"
  BY <1>2, <1>3 DEF ResetRequested
<1>5. /\ \A p \in Buffers : p # n => buffer'[p] = buffer[p]
      /\ buffer'[n] = ResetOutput(buffer[n]) /\ buffer[n] \in BufferType
  BY <1>1, <1>4 DEF Base, TypeOK
<1>6. /\ buffer'[n].value = <<>> /\ buffer'[n].local = 0
      /\ buffer'[n].unfinished = buffer[n].unfinished
      /\ buffer'[n].connected = buffer[n].connected
  BY <1>5, ClientBuffer
<1>7. counter.expected = Cycle
  BY DEF ChainInv, Cycles
<1>8. /\ UNCHANGED <<to, from, owing, fresh, back, paid, reached, kind, active, queued, taken>>
      /\ Single' /\ Bounded' /\ Rooted' /\ Looking' /\ Edges' /\ OneTask' /\ Cycles'
      /\ (Grown => Grown') /\ Quiescent' /\ Working'
  BY <1>2, <1>3, <1>7, FrameKept
<1>9. ~Running'
  BY <1>4 DEF Running
<1>10. Parking' /\ Attaching' /\ Reporting'
  <2>1. \A p \in Buffers : /\ buffer'[p].unfinished = buffer[p].unfinished
                           /\ buffer'[p].connected = buffer[p].connected
    BY <1>5, <1>6
  <2>2. /\ counter.compare = (IF kind = "train" THEN Cardinality(Inputs) ELSE 0) + Cardinality(Buffers)
        /\ counter.n = 0
    BY <1>1, <1>2 DEF Reporting
  <2>3. counter'.compare = (IF kind' = "train" THEN Cardinality(Inputs) ELSE 0) + Cardinality(Buffers)
        /\ counter'.n = 0
    BY <1>2, <1>8, <2>2
  <2> QED BY <1>2, <1>3, <2>1, <2>3, RestKept
<1>11. Training'
  BY <1>4, <1>9 DEF Training
<1>12. Requesting'
  <2>1. \A o \in Buffers : buffer[o].value = <<>> /\ buffer[o].local = 0
    BY <1>1, <1>2, <1>3 DEF Requesting
  <2>2. \A o \in Buffers : buffer'[o].value = <<>> /\ buffer'[o].local = 0
    BY <1>5, <1>6, <2>1
  <2> QED BY <1>9, <2>2 DEF Requesting
<1>13. Client1'
  BY <1>2, <1>3, <1>4, <1>8, <1>9 DEF Client1
<1>14. Promises'
  BY <1>1, <1>2, <1>4, <1>8 DEF Promises
<1> QED BY <1>8, <1>10, <1>11, <1>12, <1>13, <1>14 DEF Kept

\* The inputs of a running call, and the tasks at work, do not notice the step
\* of the client.
LEMMA PassesKept ==
    ASSUME SeparateChains, ChainInv, ClientFrame, UNCHANGED <<buffer, counter, call>>,
           Running, Running', cpc' # "expect"
    PROVE  /\ UNCHANGED <<to, from, owing, fresh, back, paid, reached, kind, active, queued, taken>>
           /\ Single' /\ Bounded' /\ Rooted' /\ Looking' /\ Edges' /\ OneTask' /\ Cycles'
           /\ Working' /\ Parking' /\ Attaching' /\ Training' /\ Requesting' /\ Reporting'
           /\ Promises'
<1>1. /\ Base /\ Working /\ Parking /\ Attaching /\ Training /\ Requesting /\ Reporting /\ Promises
  BY DEF ChainInv
<1>2. counter.expected = Cycle
  BY DEF ChainInv, Cycles
<1>3. /\ UNCHANGED <<to, from, owing, fresh, back, paid, reached, kind, active, queued, taken>>
      /\ Single' /\ Bounded' /\ Rooted' /\ Looking' /\ Edges' /\ OneTask' /\ Cycles'
      /\ (Grown => Grown')
  BY <1>2, FrameKept
<1>4. UNCHANGED <<counted, parked, complete>>
  BY SameBuffers
<1>5. Running' = Running
  <2>1. Running \in BOOLEAN /\ Running' \in BOOLEAN
    BY DEF Running
  <2> HIDE DEF Running
  <2> QED BY <2>1
<1>6. sound' = sound
  BY <1>3, <1>4, <1>5, SameSound DEF ClientFrame
<1>7. Working'
  BY <1>1, <1>3, <1>6 DEF Working, ClientFrame
<1>8. Parking'
  BY <1>1, <1>3, <1>4, <1>5 DEF Parking, ClientFrame
<1>9. Attaching'
  BY <1>1, AttachingKept DEF ClientFrame
<1>10. Training'
  <2>1. counted' \subseteq reached' \cap attached'
    BY <1>1, <1>3, <1>4 DEF Training, ClientFrame
  <2>2. kind = "train" => \A o \in Buffers : /\ buffer[o].expected.of = call
                                             /\ buffer[o].finalized <=> o \in complete
    BY <1>1 DEF Training
  <2>3. kind' = "train" => \A o \in Buffers : /\ buffer'[o].expected.of = call'
                                              /\ buffer'[o].finalized <=> o \in complete'
    BY <1>3, <1>4, <2>2
  <2> QED BY <2>1, <2>3 DEF Training
<1>11. Requesting'
  <2>1. \A p \in Buffers : AttachedTo(p)' = AttachedTo(p) /\ CountedIn(p)' = CountedIn(p)
    BY <1>4 DEF AttachedTo, CountedIn, ClientFrame
  <2>2. \A p \in Buffers : Adding(p) => Adding(p)'
    BY <1>4, <2>1 DEF Adding
  <2>3. kind' = "request" => \A p \in Buffers : Adding(p)'
    BY <1>1, <1>3, <2>2 DEF Requesting
  <2>4. ~(cpc' \in {"counter", "reset"})
    BY DEF Running
  <2> QED BY <2>3, <2>4 DEF Requesting
<1>12. Reporting'
  <2>1. reportedInputs' = reportedInputs
    BY <1>3 DEF reportedInputs
  <2>2. \A o, w : Counts(w, o)' = Counts(w, o)
    BY DEF Counts, ClientFrame
  <2>3. reportedBuffers' = reportedBuffers
    BY <1>4, <2>2 DEF reportedBuffers
  <2>4. InputReports' = InputReports
    BY <1>3, <2>1 DEF InputReports
  <2>5. /\ counter'.compare = (IF kind' = "train" THEN Cardinality(Inputs) ELSE 0) + Cardinality(Buffers)
        /\ counter'.n <= InputReports' + Cardinality(reportedBuffers')
    BY <1>1, <1>3, <2>3, <2>4 DEF Reporting
  <2>6. \A w \in Workers : /\ counts'[w] => pc'[w] \in {"gradient", "sendback", "count"}
                           /\ pc'[w] = "count" => counts'[w]
    BY <1>1 DEF Reporting, ClientFrame
  <2>7. \A o \in Buffers, w \in Workers : Counts(w, o)' =>
          o \in complete' /\ \A v \in Workers : Counts(v, o)' => v = w
    BY <1>1, <1>4, <2>2 DEF Reporting
  <2>8. cpc' # "reset"
    BY DEF Running
  <2> QED BY <2>5, <2>6, <2>7, <2>8 DEF Reporting
<1>13. Promises'
  <2>1. cpc # "idle" /\ cpc' # "idle" /\ cpc' # "collect"
    BY DEF Running
  <2> QED BY <1>1, <1>3, <2>1 DEF Promises
<1> QED BY <1>3, <1>7, <1>8, <1>9, <1>10, <1>11, <1>12, <1>13

\* The client takes the next input.
LEMMA NextInputKept ==
    ASSUME SeparateChains, ChainInv, NEW n, NextInput(n)
    PROVE  Kept
<1>1. Client1
  BY DEF ChainInv
<1>2. /\ cpc = "input" /\ n \in todo /\ ClientFrame /\ UNCHANGED <<buffer, counter, call>>
  BY DEF NextInput, ClientFrame, netVars, outBlocks, workerVars
<1>3. todo \subseteq Inputs /\ todo \cap fresh = {} /\ kind \in {"train", "request"} /\ call > 0
  BY <1>1, <1>2 DEF Client1, Running
<1>4. cpc' = "apply" /\ arg' = n /\ todo' = todo \ {n}
  BY <1>2, <1>3 DEF NextInput
<1>5. Running /\ Running' /\ cpc' # "expect"
  BY <1>2, <1>4 DEF Running
<1>6. /\ UNCHANGED <<to, from, owing, fresh, back, paid, reached, kind, active, queued, taken>>
      /\ Single' /\ Bounded' /\ Rooted' /\ Looking' /\ Edges' /\ OneTask' /\ Cycles'
      /\ Working' /\ Parking' /\ Attaching' /\ Training' /\ Requesting' /\ Reporting'
      /\ Promises'
  BY <1>2, <1>5, PassesKept
<1>7. Client1'
  BY <1>2, <1>3, <1>4, <1>5, <1>6 DEF Client1
<1> QED BY <1>6, <1>7 DEF Kept

\* The client goes on to the inputs, and from there to wait.
LEMMA EndPhaseKept ==
    ASSUME SeparateChains, ChainInv, EndPhase
    PROVE  Kept
<1>1. Base /\ Client1 /\ Training /\ Requesting /\ Reporting /\ Promises
  BY DEF ChainInv
<1>2. /\ cpc \in {"expect", "reset", "input"} /\ todo = {} /\ ClientFrame
      /\ UNCHANGED <<buffer, counter, call, arg, answer>>
      /\ cpc' = IF cpc = "input" THEN "poll" ELSE "input"
      /\ cpc # "input" => todo' = Calls[call].ins
  BY DEF EndPhase, ClientFrame, netVars, outBlocks, workerVars
<1>3. cpc # "idle" /\ call > 0 /\ cpc' \in {"input", "poll"} /\ Running'
  BY <1>1, <1>2 DEF Client1, Running
<1>4. CASE cpc = "input"
  <2>1. Running /\ kind \in {"train", "request"} /\ cpc' = "poll"
    BY <1>1, <1>2, <1>4 DEF Client1, Running
  <2>2. /\ UNCHANGED <<to, from, owing, fresh, back, paid, reached, kind, active, queued, taken>>
        /\ Single' /\ Bounded' /\ Rooted' /\ Looking' /\ Edges' /\ OneTask' /\ Cycles'
        /\ Working' /\ Parking' /\ Attaching' /\ Training' /\ Requesting' /\ Reporting'
        /\ Promises'
    BY <1>2, <1>3, <2>1, PassesKept
  <2>3. Client1'
    BY <1>2, <1>3, <2>1, <2>2 DEF Client1
  <2> QED BY <2>2, <2>3 DEF Kept
<1>5. CASE cpc # "input"
  <2>1. Quiescent /\ ~Running /\ fresh = {} /\ cpc \in {"expect", "reset"} /\ cpc' = "input"
    BY <1>1, <1>2, <1>5 DEF Client1, Running
  <2>2. /\ cpc = "expect" => kind = "train"
        /\ cpc = "reset" => kind = "request"
    BY <1>1 DEF Client1
  <2>3. kind \in {"train", "request"} /\ todo' = Inputs
    <3>1. kind \in {"train", "request"}
      BY <2>1, <2>2
    <3> QED BY <1>2, <1>3, <1>5, <3>1, InCall
  <2>4. counter.expected = Cycle
    BY DEF ChainInv, Cycles
  <2>5. /\ UNCHANGED <<to, from, owing, fresh, back, paid, reached, kind, active, queued, taken>>
        /\ Single' /\ Bounded' /\ Rooted' /\ Looking' /\ Edges' /\ OneTask' /\ Cycles'
        /\ (Grown => Grown') /\ Quiescent' /\ Working'
    BY <1>2, <2>1, <2>4, FrameKept
  <2>6. Parking' /\ Attaching' /\ Reporting'
    <3>1. \A p \in Buffers : /\ buffer'[p].unfinished = buffer[p].unfinished
                             /\ buffer'[p].connected = buffer[p].connected
      BY <1>2
    <3>2. /\ counter.compare = (IF kind = "train" THEN Cardinality(Inputs) ELSE 0) + Cardinality(Buffers)
          /\ counter.n = 0
      BY <1>1, <2>1 DEF Reporting
    <3>3. counter'.compare = (IF kind' = "train" THEN Cardinality(Inputs) ELSE 0) + Cardinality(Buffers)
          /\ counter'.n = 0
      BY <1>2, <2>5, <3>2
    <3> QED BY <1>2, <2>1, <3>1, <3>3, RestKept
  <2>7. \A p \in Buffers : buffer[p].value = <<>>
    <3>1. CASE cpc = "expect"
      BY <1>1, <1>2, <3>1 DEF Training
    <3>2. CASE cpc = "reset"
      BY <1>1, <2>2, <3>2 DEF Requesting
    <3> QED BY <2>1, <3>1, <3>2
  <2>8. counted' = {} /\ complete' = {} /\ complete = {} /\ counted = {}
    BY <1>2, <2>7, EmptyBuffers, SameBuffers
  <2>9. Training'
    <3>1. kind = "train" => \A o \in Buffers : ~buffer[o].finalized /\ buffer[o].expected.of = call
      BY <1>1, <1>2, <2>1, <2>2 DEF Training
    <3>2. kind' = "train" => \A o \in Buffers : ~buffer'[o].finalized /\ buffer'[o].expected.of = call'
      BY <1>2, <2>5, <3>1
    <3>3. kind' = "train" => \A o \in Buffers : /\ buffer'[o].expected.of = call'
                                                /\ buffer'[o].finalized <=> o \in complete'
      BY <2>8, <3>2
    <3> QED BY <2>1, <2>8, <3>3 DEF Training
  <2>10. Requesting'
    <3>1. kind' = "request" => \A o \in Buffers : Adding(o)'
      <4> SUFFICES ASSUME kind = "request", NEW o \in Buffers PROVE Adding(o)'
        BY <2>5
      <4>1. cpc = "reset"
        BY <2>1, <2>2
      <4>2. buffer'[o].value = <<>> /\ buffer'[o].local = 0
        BY <1>1, <1>2, <4>1 DEF Requesting
      <4>3. CountedIn(o)' = {} /\ o \notin complete'
        BY <2>8 DEF CountedIn
      <4>4. Cardinality({}) = 0 /\ Len(<<>>) = 0
        BY FS_EmptySet
      <4> QED BY <4>2, <4>3, <4>4 DEF Adding
    <3> QED BY <2>1, <3>1 DEF Requesting
  <2>11. Client1'
    BY <1>2, <1>3, <2>1, <2>3, <2>5 DEF Client1
  <2>12. Promises'
    BY <1>1, <1>2, <2>1, <2>5 DEF Promises
  <2> QED BY <2>5, <2>6, <2>9, <2>10, <2>11, <2>12 DEF Kept
<1> QED BY <1>4, <1>5

\* train, request and create_checkpoint begin.
LEMMA BeginCallKept ==
    ASSUME SeparateChains, ChainInv, BeginCall
    PROVE  Kept
<1>1. /\ Base /\ Bounded /\ Rooted /\ Looking /\ OneTask /\ Cycles /\ Client1 /\ Training
      /\ Requesting /\ Reporting /\ Promises /\ Parking /\ Attaching
  BY DEF ChainInv
<1>2. /\ cpc = "idle" /\ ClientFrame /\ UNCHANGED <<counter, arg, answer>>
      /\ call < Len(Calls) /\ call' = call + 1
  BY DEF BeginCall, ClientFrame, outBlocks, workerVars
<1>3. /\ call \in Nat /\ Len(Calls) \in Nat
  BY <1>1, CallAssumption DEF Base, TypeOK
<1>4. Quiescent /\ ~Running
  BY <1>1, <1>2 DEF Client1, Running
<1>5. /\ fresh' = {} /\ back' = {} /\ paid' = {} /\ reached' = {}
      /\ UNCHANGED <<to, from, owing, registered>> /\ Single' /\ Bounded'
  BY <1>1, BeginWave
<1>6. call' > 0 /\ kind' = Calls[call + 1].kind
  BY <1>2, <1>3 DEF kind
<1>7. \/ kind' = "train" /\ cpc' = "counter" /\ UNCHANGED buffer
      \/ /\ kind' = "request" /\ cpc' = "counter"
         /\ buffer' = [o \in Buffers |-> ResetOutput(buffer[o])]
      \/ kind' = "checkpoint" /\ cpc' = "save" /\ UNCHANGED buffer
  BY <1>6 DEF BeginCall
<1>8. cpc' \in {"counter", "save"} /\ ~Running'
  BY <1>7 DEF Running
<1>9. UNCHANGED <<pc, task, goal, pick, sec, queue, counts, attached, sized, registered>>
  BY <1>2 DEF ClientFrame
<1>10. UNCHANGED <<to, owing>>
  BY <1>5
<1>11. Rooted' /\ Looking'
  <2>1. Rooted'
    BY <1>1, <1>9, <1>10 DEF Rooted
  <2>2. Looking'
    BY <1>1, <1>9 DEF Looking
  <2> QED BY <2>1, <2>2
<1>12. Edges'
  BY <1>5 DEF Edges
<1>13. active' = active /\ queued' = queued /\ taken' = taken
  BY <1>9, <1>10 DEF active, queued, taken
<1>14. Quiescent' /\ Working'
  BY <1>4, <1>9, <1>13 DEF Quiescent, Working
<1>15. OneTask' /\ Cycles'
  BY <1>1, <1>2, <1>13 DEF OneTask, Cycles, ClientFrame
<1>16. Parking' /\ Attaching' /\ Reporting'
  <2>1. \A p \in Buffers : buffer[p] \in BufferType
    BY <1>1 DEF Base, TypeOK
  <2>2. \A p \in Buffers : /\ buffer'[p].unfinished = buffer[p].unfinished
                           /\ buffer'[p].connected = buffer[p].connected
    BY <1>7, <2>1, ClientBuffer
  <2>3. ~(cpc' \in {"expect", "reset"} \/ Running')
    BY <1>8
  <2> HIDE DEF Running
  <2> QED BY <1>2, <1>4, <2>2, <2>3, RestKept
<1>17. Training'
  BY <1>8 DEF Training
<1>18. Requesting'
  <2>1. kind' = "request" => \A o \in Buffers : buffer'[o].value = <<>> /\ buffer'[o].local = 0
    <3>1. \A p \in Buffers : buffer[p] \in BufferType
      BY <1>1 DEF Base, TypeOK
    <3> QED BY <1>7, <3>1, ClientBuffer
  <2> QED BY <1>8, <2>1 DEF Requesting
<1>19. Client1'
  <2>1. kind' = "train" \/ kind' = "request" \/ kind' = "checkpoint"
    BY <1>7
  <2>2. cpc' = "counter" => kind' \in {"train", "request"}
    BY <1>7
  <2>3. cpc' = "save" => kind' = "checkpoint"
    BY <1>7
  <2> QED BY <1>5, <1>6, <1>8, <1>14, <2>2, <2>3 DEF Client1
<1>20. Promises'
  <2>1. Grown => Grown'
    BY <1>9, <1>10 DEF Grown
  <2>2. ASSUME NEW d \in 1..call', Calls[d].kind = "train", d < call'
        PROVE  Grown
    <3>1. d \in 1..call /\ (d < call \/ cpc = "idle")
      BY <1>2, <1>3, <2>2
    <3> QED BY <1>1, <2>2, <3>1 DEF Promises
  <2> QED BY <1>8, <2>1, <2>2 DEF Promises
<1> QED BY <1>5, <1>11, <1>12, <1>14, <1>15, <1>16, <1>17, <1>18, <1>19, <1>20 DEF Kept

\* A block is saved, or waited for.
LEMMA SaveKept ==
    ASSUME SeparateChains, ChainInv, SaveBlock \/ \E b \in Blocks : NextToSave(b)
    PROVE  Kept
<1>1. /\ Base /\ Client1 /\ Promises /\ Training /\ Requesting
  BY DEF ChainInv
<1>2. /\ cpc \in {"save", "saving"} /\ cpc' \in {"save", "saving"} /\ ClientFrame
      /\ UNCHANGED <<counter, buffer, answer, call>>
  BY DEF SaveBlock, NextToSave, ClientFrame, netVars, outBlocks, workerVars
<1>3. Quiescent /\ ~Running /\ ~Running' /\ kind = "checkpoint" /\ call > 0
  BY <1>1, <1>2 DEF Client1, Running
<1>4. counter.expected = Cycle
  BY DEF ChainInv, Cycles
<1>5. /\ UNCHANGED <<to, from, owing, fresh, back, paid, reached, kind, active, queued, taken>>
      /\ Single' /\ Bounded' /\ Rooted' /\ Looking' /\ Edges' /\ OneTask' /\ Cycles'
      /\ (Grown => Grown') /\ Quiescent' /\ Working'
  BY <1>2, <1>3, <1>4, FrameKept
<1>6. Parking' /\ Attaching' /\ Reporting'
  <2>1. \A p \in Buffers : /\ buffer'[p].unfinished = buffer[p].unfinished
                           /\ buffer'[p].connected = buffer[p].connected
    BY <1>2
  <2>2. ~(cpc' \in {"expect", "reset"} \/ Running')
    BY <1>2, <1>3
  <2> HIDE DEF Running
  <2> QED BY <1>2, <1>3, <2>1, <2>2, RestKept
<1>7. Training' /\ Requesting'
  BY <1>2, <1>3, <1>5 DEF Training, Requesting
<1>8. Client1'
  BY <1>2, <1>3, <1>5 DEF Client1
<1>9. Promises'
  BY <1>1, <1>2, <1>5 DEF Promises
<1> QED BY <1>5, <1>6, <1>7, <1>8, <1>9 DEF Kept

\* A value is handed out.
LEMMA CollectOutputKept ==
    ASSUME SeparateChains, ChainInv, NEW n, CollectOutput(n)
    PROVE  Kept
<1>1. Base /\ Client1 /\ Training /\ Requesting /\ Promises
  BY DEF ChainInv
<1>2. /\ cpc = "collect" /\ cpc' = "collect" /\ ClientFrame /\ UNCHANGED <<counter, call, arg>>
      /\ n \in todo /\ n \in Buffers /\ todo' = todo \ {n}
      /\ answer' = [answer EXCEPT ![n] = buffer[n].value]
      /\ buffer' = [buffer EXCEPT ![n] = Reopen(@)]
  BY DEF CollectOutput, ClientFrame, outBlocks, workerVars
<1>3. Quiescent /\ ~Running /\ ~Running' /\ kind = "request" /\ call > 0 /\ todo \subseteq Calls[call].outs
  BY <1>1, <1>2 DEF Client1, Running
<1>4. counter.expected = Cycle
  BY DEF ChainInv, Cycles
<1>5. /\ UNCHANGED <<to, from, owing, fresh, back, paid, reached, kind, active, queued, taken>>
      /\ Single' /\ Bounded' /\ Rooted' /\ Looking' /\ Edges' /\ OneTask' /\ Cycles'
      /\ (Grown => Grown') /\ Quiescent' /\ Working'
  BY <1>2, <1>3, <1>4, FrameKept
<1>6. \A p \in Buffers : /\ buffer'[p].unfinished = buffer[p].unfinished
                         /\ buffer'[p].connected = buffer[p].connected
                         /\ buffer'[p].value = buffer[p].value
  <2>1. \A p \in Buffers : buffer[p] \in BufferType
    BY <1>1 DEF Base, TypeOK
  <2>2. \A p \in Buffers : buffer'[p] = buffer[p] \/ buffer'[p] = Reopen(buffer[p])
    BY <1>1, <1>2 DEF Base, TypeOK
  <2> QED BY <2>1, <2>2, ClientBuffer
<1>7. Parking' /\ Attaching' /\ Reporting'
  <2>1. ~(cpc' \in {"expect", "reset"} \/ Running')
    BY <1>2, <1>3
  <2> HIDE DEF Running
  <2> QED BY <1>2, <1>3, <1>6, <2>1, RestKept
<1>8. Training' /\ Requesting'
  BY <1>2, <1>3, <1>5 DEF Training, Requesting
<1>9. Client1'
  BY <1>2, <1>3, <1>5 DEF Client1
<1>10. Promises'
  <2>1. /\ \A o \in Buffers : Exact(buffer[o].value, o)
        /\ \A o \in Calls[call].outs \ todo : Exact(answer[o], o)
    BY <1>1, <1>2 DEF Promises, Readable, Collected
  <2>2. Calls[call].outs \subseteq Buffers
    BY <1>2, <1>3, InCall
  <2>3. \A o : AttachedTo(o)' = AttachedTo(o)
    BY <1>2 DEF AttachedTo, ClientFrame
  <2>4. Readable'
    BY <1>2, <1>6, <2>1, <2>3 DEF Readable, Exact
  <2>5. \A o \in Calls[call].outs \ todo' : \/ o = n /\ answer'[o] = buffer[o].value
                                            \/ o # n /\ answer'[o] = answer[o] /\ o \notin todo
    <3>1. answer \in [Buffers -> ValueType]
      BY <1>1 DEF Base, TypeOK
    <3> QED BY <1>2, <2>2, <3>1
  <2>6. Collected'
    <3> SUFFICES ASSUME NEW o \in Calls[call].outs \ todo' PROVE Exact(answer[o], o)'
      BY <1>2 DEF Collected
    <3>1. CASE answer'[o] = buffer[o].value
      <4>1. Exact(buffer[o].value, o)
        BY <2>1, <2>2
      <4> QED BY <1>2, <2>3, <3>1, <4>1 DEF Exact
    <3>2. CASE answer'[o] = answer[o] /\ o \notin todo
      <4>1. Exact(answer[o], o)
        BY <2>1, <3>2
      <4> QED BY <1>2, <2>3, <3>2, <4>1 DEF Exact
    <3> QED BY <2>5, <3>1, <3>2
  <2> QED BY <1>1, <1>2, <1>5, <2>4, <2>6 DEF Promises
<1> QED BY <1>5, <1>7, <1>8, <1>9, <1>10 DEF Kept

\* A request or a checkpoint ends.
LEMMA EndCallKept ==
    ASSUME SeparateChains, ChainInv, EndCall
    PROVE  Kept
<1>1. Base /\ Client1 /\ Training /\ Requesting /\ Promises
  BY DEF ChainInv
<1>2. /\ cpc \in {"collect", "save"} /\ cpc' = "idle" /\ ClientFrame
      /\ UNCHANGED <<counter, buffer, answer, call>> /\ todo = {}
  BY DEF EndCall, ReturnWith, ClientFrame, netVars, outBlocks, workerVars
<1>3. /\ Quiescent /\ ~Running /\ ~Running' /\ call > 0
      /\ cpc = "collect" => kind = "request"
      /\ cpc = "save" => kind = "checkpoint"
  BY <1>1, <1>2 DEF Client1, Running
<1>4. counter.expected = Cycle
  BY DEF ChainInv, Cycles
<1>5. /\ UNCHANGED <<to, from, owing, fresh, back, paid, reached, kind, active, queued, taken>>
      /\ Single' /\ Bounded' /\ Rooted' /\ Looking' /\ Edges' /\ OneTask' /\ Cycles'
      /\ (Grown => Grown') /\ Quiescent' /\ Working'
  BY <1>2, <1>3, <1>4, FrameKept
<1>6. Parking' /\ Attaching' /\ Reporting'
  <2>1. \A p \in Buffers : /\ buffer'[p].unfinished = buffer[p].unfinished
                           /\ buffer'[p].connected = buffer[p].connected
    BY <1>2
  <2>2. ~(cpc' \in {"expect", "reset"} \/ Running')
    BY <1>2, <1>3
  <2> HIDE DEF Running
  <2> QED BY <1>2, <1>3, <2>1, <2>2, RestKept
<1>7. Training' /\ Requesting'
  BY <1>2, <1>3 DEF Training, Requesting
<1>8. Client1'
  BY <1>2, <1>3, <1>5 DEF Client1
<1>9. Promises'
  <2>1. kind # "train" /\ kind = Calls[call].kind /\ call \in Nat
    <3>1. kind = Calls[call].kind /\ call \in Nat
      BY <1>2, InCall
    <3>2. kind # "train"
      BY <1>2, <1>3
    <3> QED BY <3>1, <3>2
  <2>2. (\E d \in 1..call : Calls[d].kind = "train" /\ (d < call \/ cpc' = "idle")) => Grown
    <3> SUFFICES ASSUME NEW d \in 1..call, Calls[d].kind = "train" PROVE Grown
      OBVIOUS
    <3>1. d # call /\ d < call
      BY <2>1
    <3> QED BY <1>1, <3>1 DEF Promises
  <2>3. kind = "request" => Answered
    <3> SUFFICES ASSUME kind = "request" PROVE Answered
      OBVIOUS
    <3>1. cpc = "collect"
      BY <1>2, <1>3
    <3>2. Collected
      BY <1>1, <3>1 DEF Promises
    <3> QED BY <1>2, <3>2 DEF Collected, Answered
  <2>4. Answered => Answered'
    <3>1. \A o : AttachedTo(o)' = AttachedTo(o)
      BY <1>2 DEF AttachedTo, ClientFrame
    <3> QED BY <1>2, <3>1 DEF Answered, Exact
  <2>5. cpc' # "collect" /\ kind' # "train" /\ call' = call
    BY <1>2, <1>5, <2>1
  <2>6. (\E d \in 1..call' : Calls[d].kind = "train" /\ (d < call' \/ cpc' = "idle")) => Grown'
    BY <1>5, <2>2, <2>5
  <2>7. kind' = "request" => Answered'
    BY <1>5, <2>3, <2>4
  <2> QED BY <2>5, <2>6, <2>7 DEF Promises
<1> QED BY <1>5, <1>6, <1>7, <1>8, <1>9 DEF Kept

\* The client queues a task for a block without one.
LEMMA JobsClient ==
    ASSUME Base, Working, OneTask, Cycles, NEW t \in TaskType, queue' = queue \o <<t>>,
           UNCHANGED <<pc, task>>, UNCHANGED owing, sound \subseteq sound',
           <<t, "queue">> \in sound', t.cycle = Cycle,
           t.block \notin queued, t.block \notin taken, counter' = counter
    PROVE  Working' /\ OneTask' /\ Cycles' /\ queued' = queued \cup {t.block} /\ taken' = taken
           /\ active' = active
<1> DEFINE ts == <<t>>
           q == queue \o ts
<1>1. ts \in Seq(TaskType) /\ DOMAIN ts = {1} /\ ts[1] = t
  OBVIOUS
<1> HIDE DEF ts
<1>2. /\ queue \in Seq(TaskType)
      /\ \A k \in DOMAIN q :
            \/ k \in DOMAIN queue /\ q[k] = queue[k]
            \/ k \notin DOMAIN queue /\ k - Len(queue) \in DOMAIN ts /\ q[k] = ts[k - Len(queue)]
      /\ q \in Seq(TaskType)
  BY <1>1, Joined DEF Base, TypeOK
<1>3. queue' = queue \o ts
  BY DEF ts
<1>4. queued' = queued \cup {ts[k].block : k \in DOMAIN ts}
  BY <1>1, <1>3, QueuedAfter
<1>5. queued' = queued \cup {t.block}
  BY <1>1, <1>4
<1> HIDE DEF q
<1>6. queue' = q
  BY <1>3 DEF q
<1>7. \A k \in DOMAIN q : \/ k \in DOMAIN queue /\ q[k] = queue[k]
                          \/ k \notin DOMAIN queue /\ k = Len(queue) + 1 /\ q[k] = t
  <2> SUFFICES ASSUME NEW k \in DOMAIN q, k \notin DOMAIN queue
               PROVE  k = Len(queue) + 1 /\ q[k] = t
    BY <1>2
  <2>1. k - Len(queue) \in DOMAIN ts /\ q[k] = ts[k - Len(queue)]
    BY <1>2
  <2>2. k \in Nat /\ Len(queue) \in Nat
    BY <1>2, Entries
  <2>3. k - Len(queue) = 1
    BY <1>1, <2>1
  <2>4. k = Len(queue) + 1
    BY <2>2, <2>3
  <2> QED BY <1>1, <2>1, <2>3, <2>4
<1>8. active' = active /\ taken' = taken
  BY DEF active, taken
<1>9. Working'
  <2>1. \A k \in DOMAIN queue : <<queue[k], "queue">> \in sound'
    BY DEF Working
  <2>2. \A k \in DOMAIN q : <<q[k], "queue">> \in sound'
    BY <1>7, <2>1
  <2>3. \A v \in active : <<task[v], pc[v]>> \in sound'
    BY DEF Working
  <2>4. \A v \in active' : <<task'[v], pc'[v]>> \in sound'
    BY <1>8, <2>3
  <2> QED BY <1>6, <2>2, <2>4 DEF Working
<1>10. OneTask'
  <2>1. \A k \in DOMAIN queue : queue[k].block \in queued
    BY DEF queued
  <2>2. \A i, k \in DOMAIN q : q[i].block = q[k].block => i = k
    <3> SUFFICES ASSUME NEW i \in DOMAIN q, NEW k \in DOMAIN q, q[i].block = q[k].block
                 PROVE  i = k
      OBVIOUS
    <3>1. CASE i \in DOMAIN queue /\ k \in DOMAIN queue
      <4>1. q[i] = queue[i] /\ q[k] = queue[k]
        BY <1>7, <3>1
      <4> QED BY <3>1, <4>1 DEF OneTask
    <3>2. CASE i \notin DOMAIN queue /\ k \notin DOMAIN queue
      BY <1>7, <3>2
    <3>3. CASE i \in DOMAIN queue /\ k \notin DOMAIN queue
      <4>1. q[i] = queue[i] /\ q[k] = t
        BY <1>7, <3>3
      <4> QED BY <2>1, <3>3, <4>1
    <3>4. CASE i \notin DOMAIN queue /\ k \in DOMAIN queue
      <4>1. q[k] = queue[k] /\ q[i] = t
        BY <1>7, <3>4
      <4> QED BY <2>1, <3>4, <4>1
    <3> QED BY <3>1, <3>2, <3>3, <3>4
  <2>3. \A u, v \in Workers :
          pc'[u] # "idle" /\ pc'[v] # "idle" /\ task'[u].block = task'[v].block => u = v
    BY DEF OneTask
  <2>4. queued \cap taken = {}
    BY DEF OneTask
  <2>5. queued' \cap taken' = {}
    BY <1>5, <1>8, <2>4
  <2> QED BY <1>6, <2>2, <2>3, <2>5 DEF OneTask
<1>11. Cycles'
  <2>1. \A k \in DOMAIN queue : queue[k].cycle = Cycle
    BY DEF Cycles
  <2>2. \A k \in DOMAIN q : q[k].cycle = Cycle
    BY <1>7, <2>1
  <2> QED BY <1>6, <2>2 DEF Cycles
<1> QED BY <1>5, <1>8, <1>9, <1>10, <1>11

\* apply_plain_input
LEMMA ApplyPlainInputKept ==
    ASSUME SeparateChains, ChainInv, ApplyPlainInput
    PROVE  Kept
<1> DEFINE t == Task(IF kind = "train" THEN "Train" ELSE "Process", arg)
<1>1. /\ Base /\ Bounded /\ Rooted /\ Looking /\ Edges /\ Working /\ OneTask /\ Cycles
      /\ Parking /\ Attaching /\ Training /\ Requesting /\ Reporting /\ Client1 /\ Promises
  BY DEF ChainInv
<1>2. /\ cpc = "apply" /\ cpc' = "input" /\ Free(arg) /\ arg' = Nil
      /\ UNCHANGED <<registered, level, attached, sized, buffer, counter, lock, pc, task, sec, goal,
                     pick, counts, call, todo, answer>>
  BY DEF ApplyPlainInput, outBlocks, workerVars
<1>3. /\ arg \in Inputs /\ arg \notin todo /\ arg \notin fresh /\ todo \subseteq Inputs
      /\ todo \cap fresh = {} /\ Running /\ kind \in {"train", "request"} /\ call > 0
  BY <1>1, <1>2 DEF Client1, Running
<1>4. /\ fresh' = fresh \cup {arg} /\ reached' = reached \cup {arg}
      /\ UNCHANGED <<to, from, owing, back, paid, registered, call>> /\ Single' /\ Bounded'
  BY <1>1, ApplyWave
<1>5. kind = Calls[call].kind
  BY <1>2, InCall
<1>6. queue' = queue \o <<t>>
  <2>1. queue' = queue \o <<Task(IF Calls[call].kind = "train" THEN "Train" ELSE "Process", arg)>>
    BY DEF ApplyPlainInput, Enqueue
  <2> QED BY <1>5, <2>1
<1>7. kind' = kind
  BY <1>2 DEF kind
<1>8. Running' /\ Running' = Running
  BY <1>2 DEF Running
<1>9. UNCHANGED <<counted, parked, complete>>
  BY <1>2, SameBuffers
<1>10. /\ arg \in Blocks /\ arg \in Senders
       /\ arg \notin Receivers /\ arg \notin Cores /\ arg \notin Outputs
       /\ arg \in registered /\ arg \notin reached /\ arg \notin taken /\ arg \notin queued
       /\ Nil # arg
  <2>1. /\ arg \in Blocks /\ arg \in Senders /\ arg \notin Receivers /\ arg \notin Cores
        /\ arg \notin Outputs /\ Nil # arg
    BY <1>3, BlockFacts DEF Senders, Receivers
  <2>2. arg \in registered
    BY <1>1, <1>3 DEF Base, Growing
  <2>3. arg \notin reached
    BY <1>1, <1>3, WaveTypes
  <2>4. arg \notin tasked
    BY <2>3 DEF tasked
  <2>5. arg \notin queued /\ arg \notin taken
    BY <1>1, <1>2, <2>4, Untasked
  <2> QED BY <2>1, <2>2, <2>3, <2>5
<1>11. arg \notin back /\ to[arg] \notin reached /\ \A a \in Senders : to[a] # arg
  <2>1. \A a \in Senders : to[a] \in Receivers \cup {Nil}
    BY <1>1, Views
  <2>2. to[arg] \notin reached
    BY <1>1, <1>3, <1>10 DEF Edges
  <2>3. arg \notin back
    BY <1>1, <1>10, <2>2 DEF Edges
  <2> QED BY <1>10, <2>1, <2>2, <2>3
<1>12. Rooted' /\ Looking'
  <2>1. Rooted'
    BY <1>1, <1>4 DEF Rooted
  <2>2. Looking'
    BY <1>1, <1>2 DEF Looking
  <2> QED BY <2>1, <2>2
<1>13. Edges'
  BY <1>1, <1>2, <1>4, <1>11 DEF Edges
<1>14. sound \subseteq sound'
  <2>1. \A c \in tasked : c # Nil =>
          /\ c \in registered' /\ c \in reached' /\ (c \in fresh => c \in fresh')
          /\ c \in Senders => /\ to'[c] = to[c]
                              /\ c \in back' <=> c \in back
                              /\ to[c] \in reached' => to[c] \in reached
          /\ c \in Receivers => /\ from'[c] = from[c]
                                /\ from[c] \in back' => from[c] \in back
                                /\ c \in paid => c \in paid'
          /\ c \in attached' <=> c \in attached
          /\ c \in sized => c \in sized'
          /\ c \in counted' => c \in counted
          /\ c \in parked' => c \in parked
    BY <1>2, <1>4, <1>9, <1>11 DEF tasked
  <2>2. \A j \in sound : j[1].block # Nil => j \in sound'
    BY <1>7, <1>8, <2>1, OthersSound
  <2>3. \A j \in sound : j[1].block # Nil
    <3>1. \A j \in sound : j[1].block \in tasked
      BY SoundTasked
    <3>2. Nil \notin tasked
      BY <1>1, WaveTypes DEF tasked
    <3> QED BY <3>1, <3>2
  <2> QED BY <2>2, <2>3
<1>15. /\ t \in TaskType /\ t.block = arg /\ t.cycle = Cycle /\ Forwards(t)
       /\ t.type = IF kind = "train" THEN "Train" ELSE "Process"
  <2>1. t \in TaskType
    <3>1. /\ Task("Train", arg) \in TaskType /\ Task("Process", arg) \in TaskType
      <4>1. Task("Train", arg) \in TaskType
        BY <1>10 DEF Task, TaskType, Types, Cycle
      <4>2. Task("Process", arg) \in TaskType
        BY <1>10 DEF Task, TaskType, Types, Cycle
      <4> QED BY <4>1, <4>2
    <3>2. t = Task("Train", arg) \/ t = Task("Process", arg)
      BY <1>3
    <3> HIDE DEF t
    <3> QED BY <3>1, <3>2
  <2> QED BY <2>1 DEF Task, Forwards
<1>16. <<t, "queue">> \in sound'
  <2>1. arg \in registered' /\ arg \in reached' /\ arg \notin back' /\ to'[arg] \notin reached'
    <3>1. to[arg] # arg
      BY <1>10, <1>11
    <3> QED BY <1>4, <1>10, <1>11, <3>1
  <2> HIDE DEF t
  <2> QED BY <1>7, <1>8, <1>10, <1>15, <2>1, NewAhead
<1>17. /\ Working' /\ OneTask' /\ Cycles' /\ queued' = queued \cup {arg} /\ taken' = taken
       /\ active' = active
  <2> HIDE DEF t
  <2> QED BY <1>1, <1>2, <1>4, <1>6, <1>10, <1>14, <1>15, <1>16, JobsClient
<1>18. Parking'
  <2>1. \A b \in parked : from'[b] \notin back'
    BY <1>1, <1>4 DEF Parking
  <2>2. reached \subseteq reached' /\ attached \subseteq attached' /\ registered \subseteq registered'
    BY <1>2, <1>4
  <2> QED BY <1>1, <1>2, <1>7, <1>8, <2>1, <2>2, ParkingKept
<1>19. Attaching'
  BY <1>1, <1>2, AttachingKept
<1>20. Training'
  <2>1. counted' \subseteq reached' \cap attached'
    BY <1>1, <1>2, <1>3, <1>4, <1>9 DEF Training
  <2>2. kind = "train" => \A o \in Buffers : /\ buffer[o].expected.of = call
                                             /\ buffer[o].finalized <=> o \in complete
    BY <1>1, <1>3 DEF Training
  <2>3. kind' = "train" => \A o \in Buffers : /\ buffer'[o].expected.of = call'
                                              /\ buffer'[o].finalized <=> o \in complete'
    BY <1>2, <1>7, <1>9, <2>2
  <2>4. cpc' # "expect"
    BY <1>2
  <2> QED BY <2>1, <2>3, <2>4 DEF Training
<1>21. Requesting'
  <2>1. \A p \in Buffers : AttachedTo(p)' = AttachedTo(p) /\ CountedIn(p)' = CountedIn(p)
    BY <1>2, <1>9 DEF AttachedTo, CountedIn
  <2>2. \A p \in Buffers : Adding(p) => Adding(p)'
    BY <1>2, <1>9, <2>1 DEF Adding
  <2>3. kind' = "request" => \A p \in Buffers : Adding(p)'
    BY <1>1, <1>3, <1>7, <2>2 DEF Requesting
  <2>4. ~(cpc' \in {"counter", "reset"})
    BY <1>2
  <2> QED BY <2>3, <2>4 DEF Requesting
<1>22. Reporting'
  <2>1. reportedInputs' = reportedInputs
    BY <1>4, <1>11, <1>17 DEF reportedInputs
  <2>2. \A o, w : Counts(w, o)' = Counts(w, o)
    BY <1>2 DEF Counts
  <2>3. reportedBuffers' = reportedBuffers
    BY <1>9, <2>2 DEF reportedBuffers
  <2>4. InputReports' = InputReports
    BY <1>7, <2>1 DEF InputReports
  <2>5. /\ counter'.compare = (IF kind' = "train" THEN Cardinality(Inputs) ELSE 0) + Cardinality(Buffers)
        /\ counter'.n <= InputReports' + Cardinality(reportedBuffers')
    BY <1>1, <1>2, <1>3, <1>7, <2>3, <2>4 DEF Reporting
  <2>6. \A w \in Workers : /\ counts'[w] => pc'[w] \in {"gradient", "sendback", "count"}
                           /\ pc'[w] = "count" => counts'[w]
    BY <1>1, <1>2 DEF Reporting
  <2>7. \A o \in Buffers, w \in Workers : Counts(w, o)' =>
          o \in complete' /\ \A v \in Workers : Counts(v, o)' => v = w
    BY <1>1, <1>9, <2>2 DEF Reporting
  <2>8. cpc' # "expect" /\ cpc' # "reset"
    BY <1>2
  <2> QED BY <2>5, <2>6, <2>7, <2>8 DEF Reporting
<1>23. Client1'
  <2>1. todo' \cap fresh' = {} /\ todo' \subseteq Inputs
    BY <1>2, <1>3, <1>4
  <2>2. call' > 0 /\ kind' \in {"train", "request"}
    BY <1>2, <1>3, <1>7
  <2> QED BY <1>2, <1>8, <2>1, <2>2 DEF Client1
<1>24. Promises'
  <2>1. Grown => Grown'
    BY <1>2, <1>4 DEF Grown
  <2>2. cpc # "idle" /\ cpc' # "idle" /\ cpc' # "collect"
    BY <1>2
  <2> QED BY <1>1, <1>2, <2>1, <2>2 DEF Promises
<1> QED BY <1>4, <1>12, <1>13, <1>17, <1>18, <1>19, <1>20, <1>21, <1>22, <1>23, <1>24 DEF Kept

\* A number that is as large as all there is, and no larger than what is there.
LEMMA AllReported ==
    ASSUME NEW S, NEW T, NEW U, NEW V, IsFiniteSet(T), IsFiniteSet(V), S \subseteq T, U \subseteq V,
           NEW n, n <= Cardinality(S) + Cardinality(U), n >= Cardinality(T) + Cardinality(V), n \in Nat
    PROVE  S = T /\ U = V
<1>1. /\ Cardinality(S) \in Nat /\ Cardinality(T) \in Nat /\ Cardinality(S) <= Cardinality(T)
      /\ Cardinality(S) >= Cardinality(T) => S = T
  BY FullSubset
<1>2. /\ Cardinality(U) \in Nat /\ Cardinality(V) \in Nat /\ Cardinality(U) <= Cardinality(V)
      /\ Cardinality(U) >= Cardinality(V) => U = V
  BY FullSubset
<1>3. Cardinality(S) >= Cardinality(T) /\ Cardinality(U) >= Cardinality(V)
  BY <1>1, <1>2
<1> QED BY <1>1, <1>2, <1>3

\* The client sees a complete finish counter: every input and every buffer was
\* reported.
LEMMA CompleteCounter ==
    ASSUME ChainInv, cpc = "poll", counter.n >= counter.compare
    PROVE  /\ kind = "train" => reportedInputs = Inputs
           /\ reportedBuffers = Buffers
<1>1. Base /\ Reporting
  BY DEF ChainInv
<1>2. Running
  BY DEF Running
<1>3. /\ counter.compare = (IF kind = "train" THEN Cardinality(Inputs) ELSE 0) + Cardinality(Buffers)
      /\ counter.n <= InputReports + Cardinality(reportedBuffers)
  BY <1>1, <1>2 DEF Reporting
<1>4. counter.n \in Nat
  BY <1>1 DEF Base, TypeOK
<1>5. /\ reportedInputs \subseteq Inputs /\ reportedBuffers \subseteq Buffers
      /\ IsFiniteSet(Inputs) /\ IsFiniteSet(Buffers)
  BY BlockAssumption DEF reportedInputs, reportedBuffers, complete
<1>6. CASE kind = "train"
  <2>1. counter.n >= Cardinality(Inputs) + Cardinality(Buffers)
    BY <1>3, <1>6
  <2>2. counter.n <= Cardinality(reportedInputs) + Cardinality(reportedBuffers)
    BY <1>3, <1>6 DEF InputReports
  <2> QED BY <1>4, <1>5, <2>1, <2>2, AllReported
<1>7. CASE kind # "train"
  <2>1. Cardinality({}) = 0 /\ IsFiniteSet({})
    BY FS_EmptySet
  <2>2. counter.n >= Cardinality({}) + Cardinality(Buffers)
    BY <1>3, <1>7, <2>1
  <2>3. counter.n <= Cardinality({}) + Cardinality(reportedBuffers)
    BY <1>3, <1>7, <2>1 DEF InputReports
  <2>4. reportedBuffers = Buffers
    BY <1>4, <1>5, <2>1, <2>2, <2>3, AllReported
  <2> QED BY <1>7, <2>4
<1> QED BY <1>6, <1>7

\* The blocks of a chain in the order of their hexagons.
LEMMA Ranks ==
    ASSUME SeparateChains, ChainInv
    PROVE  \E rank \in [Senders -> 0..Cardinality(Cores)] :
              /\ Cardinality(Cores) \in Nat
              /\ \A a \in Senders : to[a] \in Cores => rank[a] < rank[to[a]]
<1>1. PICK rank \in [Senders -> 0..Cardinality(Cores)] :
        \A a \in Senders, c \in Cores : HexOf[c] \in Possible[HexOf[a]] => rank[a] < rank[c]
  BY DEF SeparateChains
<1>2. Cardinality(Cores) \in Nat
  BY FS_CardinalityType DEF SeparateChains
<1>3. \A a \in Senders : to[a] \in Cores => HexOf[to[a]] \in Possible[HexOf[a]]
  <2>1. Rooted
    BY DEF ChainInv
  <2>2. Nil \notin Cores
    BY BlockFacts
  <2> QED BY <2>1, <2>2 DEF Rooted
<1>4. \A a \in Senders : to[a] \in Cores => rank[a] < rank[to[a]]
  BY <1>1, <1>3
<1> QED BY <1>2, <1>4

\* When the gradients came back to all inputs they came back to all blocks.
LEMMA AllBack ==
    ASSUME SeparateChains, ChainInv, Inputs \subseteq back
    PROVE  Senders \cap registered \subseteq back
<1>1. Base /\ Rooted /\ Edges
  BY DEF ChainInv
<1>2. PICK rank \in [Senders -> 0..Cardinality(Cores)] :
              /\ Cardinality(Cores) \in Nat
              /\ \A a \in Senders : to[a] \in Cores => rank[a] < rank[to[a]]
  BY Ranks
<1> SUFFICES ASSUME NEW d \in Senders \cap registered, d \notin back PROVE FALSE
  OBVIOUS
<1> DEFINE late == {a \in Senders \cap registered : a \notin back}
           T == {rank[a] : a \in late}
<1>3. \A a \in Senders : rank[a] \in Nat
  BY <1>2
<1>4. T \subseteq Nat /\ T # {}
  BY <1>3
<1>5. PICK k \in T : \A m \in T : k <= m
  <2> HIDE DEF T
  <2> QED BY <1>4, LeastNumber
<1>6. PICK a \in late : rank[a] = k /\ \A c \in late : rank[a] <= rank[c]
  BY <1>5
<1>7. a \in Cores /\ a \in registered /\ a \in Receivers /\ a \notin back
  BY <1>6 DEF Senders, Receivers
<1>8. PICK s \in Senders : to[s] = a
  BY <1>1, <1>7 DEF Rooted
<1>9. s \in registered /\ rank[s] < rank[a]
  <2>1. a # Nil
    BY <1>7, BlockFacts
  <2> QED BY <1>1, <1>2, <1>7, <1>8, <2>1 DEF Rooted
<1>10. s \notin late
  BY <1>3, <1>6, <1>8, <1>9
<1>11. s \in back
  BY <1>8, <1>9, <1>10
<1> QED BY <1>1, <1>7, <1>8, <1>11 DEF Edges

\* When the output blocks were reached so was every block before them.
LEMMA AllReached ==
    ASSUME SeparateChains, ChainInv, Grown, Outputs \cap registered \subseteq reached
    PROVE  \A a \in Senders \cap registered : to[a] \in reached
<1>1. Base /\ Rooted /\ Edges
  BY DEF ChainInv
<1>2. PICK rank \in [Senders -> 0..Cardinality(Cores)] :
              /\ Cardinality(Cores) \in Nat
              /\ \A a \in Senders : to[a] \in Cores => rank[a] < rank[to[a]]
  BY Ranks
<1> SUFFICES ASSUME NEW d \in Senders \cap registered, to[d] \notin reached PROVE FALSE
  OBVIOUS
<1> DEFINE N == Cardinality(Cores)
           late == {a \in Senders \cap registered : to[a] \notin reached}
           T == {N - rank[a] : a \in late}
<1>3. N \in Nat /\ \A a \in Senders : rank[a] \in 0..N
  BY <1>2
<1> HIDE DEF N
<1>4. T \subseteq Nat /\ T # {}
  BY <1>3
<1>5. PICK k \in T : \A m \in T : k <= m
  <2> HIDE DEF T
  <2> QED BY <1>4, LeastNumber
<1>6. PICK a \in late : \A c \in late : N - rank[a] <= N - rank[c]
  BY <1>5
<1>7. a \in Senders /\ a \in registered /\ to[a] \notin reached
  BY <1>6
<1>8. to[a] # Nil /\ to[a] \in Receivers /\ to[a] \in registered
  <2>1. to[a] # Nil
    BY <1>7 DEF Grown
  <2> QED BY <1>1, <1>7, <2>1, Views
<1>9. to[a] \in Cores
  BY <1>7, <1>8 DEF Receivers
<1>10. rank[a] < rank[to[a]] /\ to[a] \in Senders
  BY <1>2, <1>7, <1>9 DEF Senders
<1>11. to[a] \notin late
  BY <1>3, <1>6, <1>7, <1>10
<1>12. to[to[a]] \in reached
  BY <1>8, <1>10, <1>11
<1> QED BY <1>1, <1>7, <1>10, <1>12 DEF Edges

\* No worker reports a complete buffer any more.
LEMMA NoCounts ==
    ASSUME ChainInv, reportedBuffers = Buffers, NEW w \in Workers, task[w].block \in Outputs
    PROVE  ~counts[w] /\ pc[w] # "count"
<1>1. Reporting
  BY DEF ChainInv
<1>2. BufferOf[task[w].block] \in Buffers
  BY BlockAssumption
<1>3. ~Counts(w, BufferOf[task[w].block])
  BY <1>2 DEF reportedBuffers
<1> QED BY <1>1, <1>3 DEF Counts, Reporting

\* The source of a block that was reached.
LEMMA SourceOf ==
    ASSUME ChainInv, NEW b \in Receivers, b \in reached
    PROVE  from[b] \in Senders \cap registered /\ to[from[b]] = b
<1>1. Base /\ Rooted
  BY DEF ChainInv
<1>2. from[b] # Nil
  BY <1>1, WaveTypes
<1>3. from[b] \in Senders /\ to[from[b]] = b
  BY <1>1, <1>2, Views, Pairs
<1>4. b # Nil
  BY <1>1, WaveTypes
<1> QED BY <1>1, <1>3, <1>4 DEF Rooted

\* Nothing is left to do when nothing a task could say is so.
LEMMA NothingSound ==
    ASSUME ChainInv, \A k \in DOMAIN queue : ~Work(queue[k], "queue"),
           \A w \in Workers : pc[w] # "idle" => ~Work(task[w], pc[w])
    PROVE  Quiescent
<1>1. Base /\ Working
  BY DEF ChainInv
<1>2. \A k \in DOMAIN queue : Work(queue[k], "queue")
  BY <1>1 DEF Working, sound
<1>3. \A w \in active : w \in Workers /\ pc[w] # "idle" /\ Work(task[w], pc[w])
  BY <1>1 DEF Working, sound, active
<1>4. queue \in Seq(TaskType) /\ DOMAIN queue = {}
  BY <1>1, <1>2 DEF Base, TypeOK
<1>5. queue = <<>>
  BY <1>4
<1> QED BY <1>3, <1>5 DEF Quiescent

\* A training is complete when all gradients came back and all buffers are.
LEMMA TrainingDone ==
    ASSUME SeparateChains, ChainInv, reportedInputs = Inputs, reportedBuffers = Buffers
    PROVE  /\ Senders \cap registered \subseteq fresh \cap back
           /\ Grown /\ Quiescent /\ parked = {}
<1>1. Base /\ Rooted /\ Edges /\ Working /\ Parking /\ Reporting
  BY DEF ChainInv
<1>2. Inputs \subseteq back /\ \A i \in Inputs : i \notin queued /\ i \notin taken
  BY DEF reportedInputs
<1>3. Senders \cap registered \subseteq back
  BY <1>2, AllBack
<1>4. \A a \in Senders \cap registered : to[a] # Nil /\ to[a] \in reached /\ a \in fresh
  BY <1>1, <1>3 DEF Edges
<1>5. Grown
  <2>1. \A b \in Outputs \cap registered : b \in attached \cap sized
    <3> SUFFICES ASSUME NEW b \in Outputs \cap registered PROVE b \in attached \cap sized
      OBVIOUS
    <3>1. b \in Receivers /\ b # Nil
      BY BlockFacts DEF Receivers
    <3>2. PICK a \in Senders : to[a] = b
      BY <1>1, <3>1 DEF Rooted
    <3>3. a \in registered
      BY <1>1, <3>1, <3>2 DEF Rooted
    <3> QED BY <1>1, <1>3, <3>2, <3>3 DEF Edges
  <2> QED BY <1>4, <2>1 DEF Grown
<1>6. \A b \in Receivers : b \in reached => from[b] \in back
  BY <1>3, SourceOf
<1>7. ASSUME NEW t \in TaskType, NEW l \in Places, Work(t, l)
      PROVE  \/ t.block \in Inputs
             \/ t.block \in Outputs /\ l = "count"
  <2>1. t.block \in registered /\ t.block \in reached
    BY <1>7 DEF Work
  <2>2. CASE t.block \in Senders /\ Forwards(t)
    BY <1>3, <1>7, <2>1, <2>2 DEF Work, Ahead
  <2>3. CASE t.block \in Cores /\ ~Forwards(t)
    <3>1. t.block \in Senders /\ t.block \in Receivers
      BY <2>3 DEF Senders, Receivers
    <3>2. from[t.block] \notin back
      BY <1>7, <2>3, <3>1 DEF Work, Home
    <3> QED BY <1>6, <2>1, <3>1, <3>2
  <2>4. CASE t.block \in Outputs
    <3>1. t.block \in Receivers
      BY <2>4 DEF Receivers
    <3>2. l # "count" => from[t.block] \notin back
      BY <1>7, <2>4 DEF Work, AtOutput
    <3> QED BY <1>6, <2>1, <2>4, <3>1, <3>2
  <2>5. t.block \in Inputs \/ t.block \in Cores \/ t.block \in Outputs
    BY <1>7 DEF TaskType, Blocks
  <2> QED BY <2>2, <2>3, <2>4, <2>5 DEF Senders
<1>8. \A k \in DOMAIN queue : ~Work(queue[k], "queue")
  <2> SUFFICES ASSUME NEW k \in DOMAIN queue, Work(queue[k], "queue") PROVE FALSE
    OBVIOUS
  <2>1. queue[k] \in TaskType
    BY <1>1, Entries DEF Base, TypeOK
  <2>2. "queue" \in Places /\ "queue" # "count"
    BY DEF Places
  <2>3. queue[k].block \in Inputs
    BY <1>7, <2>1, <2>2
  <2> QED BY <1>2, <2>3 DEF queued
<1>9. \A w \in Workers : pc[w] # "idle" => ~Work(task[w], pc[w])
  <2> SUFFICES ASSUME NEW w \in Workers, pc[w] # "idle", Work(task[w], pc[w]) PROVE FALSE
    OBVIOUS
  <2>1. task[w] \in TaskType /\ pc[w] \in Places
    BY <1>1, OwnBlock DEF Base, TypeOK, Places
  <2>2. task[w].block \in Inputs \/ (task[w].block \in Outputs /\ pc[w] = "count")
    BY <1>7, <2>1
  <2>3. task[w].block \in taken
    BY DEF taken
  <2> QED BY <1>2, <2>2, <2>3, NoCounts
<1>10. Quiescent
  BY <1>8, <1>9, NothingSound
<1>11. parked = {}
  <2>1. \A b \in parked : b \in Receivers /\ b \in reached /\ from[b] \notin back
    BY <1>1 DEF Parking, parked, Receivers
  <2> QED BY <1>6, <2>1
<1> QED BY <1>3, <1>4, <1>5, <1>10, <1>11

\* The parts of a request have come to all buffers.
Merged(o) == /\ CountedIn(o) = AttachedTo(o)
             /\ Len(buffer[o].value) = Cardinality(CountedIn(o)) + 1
             /\ buffer[o].value[Len(buffer[o].value)] = Sigmoid

\* When all buffers are complete the request has come to every block.
LEMMA RequestEverywhere ==
    ASSUME SeparateChains, ChainInv, cpc = "poll", kind = "request", reportedBuffers = Buffers
    PROVE  /\ \A o \in Buffers : Merged(o)
           /\ Outputs \cap registered \subseteq counted
           /\ \A a \in Senders \cap registered : to[a] \in reached
<1>1. Base /\ Training /\ Requesting
  BY DEF ChainInv
<1>2. Running /\ Grown
  BY InCall DEF Running
<1>3. Buffers \subseteq complete
  BY DEF reportedBuffers
<1>4. \A o \in Buffers : Merged(o)
  BY <1>1, <1>2, <1>3 DEF Requesting, Adding, Merged
<1>5. attached \subseteq counted
  <2> SUFFICES ASSUME NEW b \in attached PROVE b \in counted
    OBVIOUS
  <2>1. BufferOf[b] \in Buffers /\ b \in AttachedTo(BufferOf[b])
    BY <1>1, BlockAssumption DEF Base, TypeOK, AttachedTo
  <2> QED BY <1>4, <2>1 DEF CountedIn, Merged
<1>6. Outputs \cap registered \subseteq counted /\ Outputs \cap registered \subseteq reached
  <2>1. Outputs \cap registered \subseteq attached
    BY <1>2 DEF Grown
  <2> QED BY <1>1, <1>2, <1>5, <2>1 DEF Training
<1>7. \A a \in Senders \cap registered : to[a] \in reached
  BY <1>2, <1>6, AllReached
<1> QED BY <1>4, <1>6, <1>7

\* A request is complete when all buffers are.
LEMMA RequestDone ==
    ASSUME SeparateChains, ChainInv, cpc = "poll", kind = "request", reportedBuffers = Buffers
    PROVE  Readable /\ Quiescent
<1>1. Base /\ Working
  BY DEF ChainInv
<1>2. Running /\ call > 0 /\ call \in Nat
  BY InCall DEF Running
<1>3. \A o \in Buffers : /\ CountedIn(o) = AttachedTo(o)
                         /\ Len(buffer[o].value) = Cardinality(CountedIn(o)) + 1
                         /\ buffer[o].value[Len(buffer[o].value)] = Sigmoid
  BY RequestEverywhere DEF Merged
<1>4. Outputs \cap registered \subseteq counted
  BY RequestEverywhere
<1>5. \A a \in Senders \cap registered : to[a] \in reached
  BY RequestEverywhere
<1>6. ASSUME NEW t \in TaskType, NEW l \in Places, Work(t, l)
      PROVE  t.block \in Outputs /\ l = "count"
  <2>1. t.block \in registered /\ t.block \in reached /\ Forwards(t)
    BY <1>6 DEF Work
  <2>2. CASE t.block \in Senders
    BY <1>5, <1>6, <2>1, <2>2 DEF Work, Ahead
  <2>3. CASE t.block \in Outputs
    <3>1. AtOutput(t.block, l, TRUE)
      BY <1>6, <2>1, <2>3 DEF Work
    <3>2. t.block \in counted
      BY <1>4, <2>1, <2>3
    <3> QED BY <2>3, <3>1, <3>2 DEF AtOutput
  <2>4. t.block \in Blocks
    BY <1>6 DEF TaskType
  <2> QED BY <2>2, <2>3, <2>4 DEF Blocks, Senders
<1>7. \A k \in DOMAIN queue : ~Work(queue[k], "queue")
  <2> SUFFICES ASSUME NEW k \in DOMAIN queue, Work(queue[k], "queue") PROVE FALSE
    OBVIOUS
  <2>1. queue[k] \in TaskType
    BY <1>1, Entries DEF Base, TypeOK
  <2>2. "queue" \in Places /\ "queue" # "count"
    BY DEF Places
  <2> QED BY <1>6, <2>1, <2>2
<1>8. \A w \in Workers : pc[w] # "idle" => ~Work(task[w], pc[w])
  <2> SUFFICES ASSUME NEW w \in Workers, pc[w] # "idle", Work(task[w], pc[w]) PROVE FALSE
    OBVIOUS
  <2>1. task[w] \in TaskType /\ pc[w] \in Places
    BY <1>1, OwnBlock DEF Base, TypeOK, Places
  <2>2. task[w].block \in Outputs /\ pc[w] = "count"
    BY <1>6, <2>1
  <2> QED BY <2>2, NoCounts
<1>9. Quiescent
  BY <1>7, <1>8, NothingSound
<1>10. Readable
  <2> SUFFICES ASSUME NEW o \in Buffers PROVE Exact(buffer[o].value, o)
    BY DEF Readable
  <2>1. buffer[o].value \in ValueType
    BY <1>1 DEF Base, TypeOK, BufferType
  <2> DEFINE v == buffer[o].value
  <2>2. /\ Len(v) = Cardinality(AttachedTo(o)) + 1 /\ v[Len(v)] = Sigmoid
    BY <1>3
  <2>3. \A b \in AttachedTo(o) : Part(b, call) \in Range(v)
    BY <1>3 DEF CountedIn, AttachedTo, counted
  <2>4. \A b : Part(b, call) # Sigmoid
    BY <1>1, <1>2, PartFacts
  <2>5. DOMAIN v = 1..Len(v) /\ Len(v) \in Nat
    BY <2>1 DEF ValueType
  <2> HIDE DEF v
  <2>6. ASSUME NEW b \in AttachedTo(o) PROVE \E i \in 1..Len(v) - 1 : v[i] = Part(b, call)
    <3>1. PICK i \in DOMAIN v : v[i] = Part(b, call)
      BY <2>3, <2>6 DEF Range
    <3>2. i # Len(v)
      BY <2>2, <2>4, <3>1
    <3>3. i \in 1..Len(v) - 1
      BY <2>5, <3>1, <3>2
    <3> QED BY <3>1, <3>3
  <2>7. Exact(v, o)
    BY <2>2, <2>6 DEF Exact
  <2> QED BY <2>7 DEF v
<1> QED BY <1>9, <1>10

\* run_iteration sees that the call is complete.
LEMMA PollFinishedKept ==
    ASSUME SeparateChains, ChainInv, PollFinished
    PROVE  Kept
<1>1. Base /\ Client1 /\ Training /\ Requesting /\ Reporting /\ Parking /\ Attaching /\ Promises
  BY DEF ChainInv
<1>2. /\ cpc = "poll" /\ counter.n >= counter.compare /\ ClientFrame
      /\ UNCHANGED <<counter, buffer, answer, call>>
  BY DEF PollFinished, ClientFrame, netVars, outBlocks, workerVars
<1>3. Running /\ kind \in {"train", "request"} /\ call > 0 /\ kind = Calls[call].kind
  BY <1>1, <1>2, InCall DEF Running, Client1
<1>4. \/ kind = "train" /\ cpc' = "idle"
      \/ kind = "request" /\ cpc' = "collect" /\ todo' = Calls[call].outs
  BY <1>3 DEF PollFinished, ReturnWith
<1>5. /\ kind = "train" => reportedInputs = Inputs
      /\ reportedBuffers = Buffers
  BY <1>2, CompleteCounter
<1>6. kind = "train" => Senders \cap registered \subseteq fresh \cap back /\ Grown
  BY <1>5, TrainingDone
<1>7. kind = "request" => Readable /\ Grown
  BY <1>2, <1>5, RequestDone, InCall
<1>8. Quiescent
  BY <1>2, <1>3, <1>5, TrainingDone, RequestDone
<1>9. parked = {}
  <2>1. CASE kind = "train"
    BY <1>5, <2>1, TrainingDone
  <2>2. CASE kind = "request"
    BY <1>1, <2>2 DEF Parking
  <2> QED BY <1>3, <2>1, <2>2
<1>10. counter.expected = Cycle
  BY DEF ChainInv, Cycles
<1>11. /\ UNCHANGED <<to, from, owing, fresh, back, paid, reached, kind, active, queued, taken>>
       /\ Single' /\ Bounded' /\ Rooted' /\ Looking' /\ Edges' /\ OneTask' /\ Cycles'
       /\ (Grown => Grown') /\ Quiescent' /\ Working'
  BY <1>2, <1>8, <1>10, FrameKept
<1>12. UNCHANGED <<counted, parked, complete>>
  BY <1>2, SameBuffers
<1>13. ~Running' /\ ~(cpc' \in {"expect", "reset", "counter"})
  BY <1>4 DEF Running
<1>14. Parking' /\ Attaching'
  <2>1. Parking'
    BY <1>1, <1>2, <1>9, <1>12 DEF Parking
  <2> QED BY <1>1, <1>2, <2>1, AttachingKept DEF ClientFrame
<1>15. Reporting'
  <2>1. \A w \in Workers : ~counts[w] /\ pc[w] # "count"
    BY <1>8, AtRest
  <2>2. \A w \in Workers : ~counts'[w] /\ pc'[w] # "count"
    BY <1>2, <2>1 DEF ClientFrame
  <2> HIDE DEF Running
  <2> QED BY <1>13, <2>2 DEF Reporting, Counts
<1>16. Training' /\ Requesting'
  BY <1>13 DEF Training, Requesting
<1>17. Client1'
  BY <1>2, <1>3, <1>4, <1>11, <1>13 DEF Client1
<1>18. Promises'
  <2>1. Grown'
    BY <1>3, <1>6, <1>7, <1>11
  <2>2. cpc' = "idle" /\ kind' = "train" => Senders \cap registered' \subseteq fresh' \cap back'
    BY <1>2, <1>6, <1>11 DEF ClientFrame
  <2>3. cpc' = "collect" => Readable' /\ Collected'
    <3> SUFFICES ASSUME cpc' = "collect" PROVE Readable' /\ Collected'
      OBVIOUS
    <3>1. Readable /\ todo' = Calls[call].outs
      BY <1>4, <1>7
    <3>2. \A o : AttachedTo(o)' = AttachedTo(o)
      BY <1>2 DEF AttachedTo, ClientFrame
    <3>3. Readable'
      BY <1>2, <3>1, <3>2 DEF Readable, Exact
    <3>4. Collected'
      BY <1>2, <3>1 DEF Collected
    <3> QED BY <3>3, <3>4
  <2>4. ~(cpc' = "idle" /\ kind' = "request")
    BY <1>4, <1>11
  <2> QED BY <2>1, <2>2, <2>3, <2>4 DEF Promises
<1> QED BY <1>11, <1>14, <1>15, <1>16, <1>17, <1>18 DEF Kept
-----------------------------------------------------------------------------
(* The theorem.                                                            *)

\* A step that changes nothing.
LEMMA StutterKept ==
    ASSUME ChainInv, UNCHANGED vars
    PROVE  Kept
<1>1. /\ Base /\ Working /\ Parking /\ Attaching /\ Training /\ Requesting /\ Reporting /\ Client1
      /\ Promises
  BY DEF ChainInv
<1>2. ClientFrame /\ UNCHANGED <<buffer, counter, cpc, call, todo, arg, answer>>
  BY DEF ClientFrame, vars, netVars, outBlocks, workerVars, clientVars
<1>3. counter.expected = Cycle
  BY DEF ChainInv, Cycles
<1>4. /\ UNCHANGED <<to, from, owing, fresh, back, paid, reached, kind, active, queued, taken>>
      /\ Single' /\ Bounded' /\ Rooted' /\ Looking' /\ Edges' /\ OneTask' /\ Cycles'
      /\ (Grown => Grown') /\ (Quiescent => Quiescent')
  BY <1>2, <1>3, FrameKept
<1>5. UNCHANGED <<counted, parked, complete>>
  BY <1>2, SameBuffers
<1>6. UNCHANGED Running
  BY <1>2 DEF Running
<1>7. sound' = sound
  BY <1>2, <1>4, <1>5, <1>6, SameSound DEF ClientFrame
<1>8. Working'
  BY <1>1, <1>2, <1>4, <1>7 DEF Working, ClientFrame
<1>9. Parking'
  BY <1>1, <1>2, <1>4, <1>5, <1>6 DEF Parking, ClientFrame
<1>10. Attaching'
  BY <1>1, <1>2, AttachingKept DEF ClientFrame
<1>11. Training' /\ Requesting'
  BY <1>1, <1>2, <1>4, TrainingKept, RequestingKept DEF ClientFrame
<1>12. Reporting'
  <2>1. reportedInputs' = reportedInputs
    BY <1>4 DEF reportedInputs
  <2>2. \A o, w : Counts(w, o)' = Counts(w, o)
    BY <1>2 DEF Counts, ClientFrame
  <2>3. reportedBuffers' = reportedBuffers
    BY <1>5, <2>2 DEF reportedBuffers
  <2>4. InputReports' = InputReports
    BY <1>4, <2>1 DEF InputReports
  <2>5. /\ cpc' \in {"expect", "reset"} \/ Running' =>
              counter'.compare = (IF kind' = "train" THEN Cardinality(Inputs) ELSE 0) + Cardinality(Buffers)
        /\ cpc' \in {"expect", "reset"} => counter'.n = 0
    BY <1>1, <1>2, <1>4, <1>6 DEF Reporting
  <2>6. Running' => counter'.n <= InputReports' + Cardinality(reportedBuffers')
    BY <1>1, <1>2, <1>6, <2>3, <2>4 DEF Reporting
  <2>7. \A w \in Workers : /\ counts'[w] => pc'[w] \in {"gradient", "sendback", "count"}
                           /\ pc'[w] = "count" => counts'[w]
    BY <1>1, <1>2 DEF Reporting, ClientFrame
  <2>8. \A o \in Buffers, w \in Workers : Counts(w, o)' =>
          o \in complete' /\ \A v \in Workers : Counts(v, o)' => v = w
    BY <1>1, <1>5, <2>2 DEF Reporting
  <2> QED BY <2>5, <2>6, <2>7, <2>8 DEF Reporting
<1>13. Client1'
  BY <1>1, <1>2, <1>4, <1>6 DEF Client1
<1>14. Promises'
  <2>1. (\E d \in 1..call' : Calls[d].kind = "train" /\ (d < call' \/ cpc' = "idle")) => Grown'
    BY <1>1, <1>2, <1>4 DEF Promises
  <2>2. cpc' = "idle" /\ kind' = "train" => Senders \cap registered' \subseteq fresh' \cap back'
    BY <1>1, <1>2, <1>4 DEF Promises, ClientFrame
  <2>3. \A o : AttachedTo(o)' = AttachedTo(o)
    BY <1>2 DEF AttachedTo, ClientFrame
  <2>4. \A v, o : Exact(v, o)' = Exact(v, o)
    BY <1>2, <2>3 DEF Exact
  <2>5. (Readable => Readable') /\ (Collected => Collected') /\ (Answered => Answered')
    BY <1>2, <2>4 DEF Readable, Collected, Answered
  <2>6. cpc' = "collect" => Readable' /\ Collected'
    BY <1>1, <1>2, <2>5 DEF Promises
  <2>7. cpc' = "idle" /\ kind' = "request" => Answered'
    BY <1>1, <1>2, <1>4, <2>5 DEF Promises
  <2> QED BY <2>1, <2>2, <2>6, <2>7 DEF Promises
<1> QED BY <1>4, <1>8, <1>9, <1>10, <1>11, <1>12, <1>13, <1>14 DEF Kept

\* A worker keeps the invariant.
LEMMA WorkerKept ==
    ASSUME SeparateChains, ChainInv, NEW w \in Workers, WorkerStep(w)
    PROVE  Kept
<1>1. CASE TakeTask(w)
  BY <1>1, TakeTaskKept
<1>2. CASE RunInput(w)
  BY <1>2, RunInputKept
<1>3. CASE TrainCore(w) \/ ProcessCore(w)
  BY <1>3, ForwardKept
<1>4. CASE BackpropagateCore(w) \/ BackpropagateOutput(w)
  BY <1>4, GradientKept
<1>5. CASE LockOutput(w)
  BY <1>5, LockOutputKept
<1>6. CASE ConnectOutputBuffer(w)
  BY <1>6, ConnectKept
<1>7. CASE TrainOutput(w)
  BY <1>7, TrainOutputKept
<1>8. CASE ProcessOutput(w)
  BY <1>8, ProcessOutputKept
<1>9. CASE SendBackward(w) \/ \E i \in 1..2 : ReturnSlot(w, i)
  BY <1>9, BackwardKept
<1>10. CASE UpdateFinishCounter(w)
  BY <1>10, CountKept
<1>11. CASE StartForward(w) \/ StartBackward(w) \/ \E i \in 1..2 : RetryBackward(w, i)
  BY <1>11, StartKept
<1>12. CASE SelectTarget(w)
  BY <1>12, SelectTargetKept
<1>13. CASE SelectBlock(w)
  BY <1>13, SelectBlockKept
<1>14. CASE CreateBlock(w)
  BY <1>14, CreateBlockKept
<1>15. CASE SendForward(w)
  BY <1>15, SendForwardKept
<1>16. CASE FinishBackward(w)
  BY <1>16, FinishBackwardKept
<1>17. CASE ReleaseBlock(w)
  BY <1>17, ReleaseBlockKept
<1> QED
  BY <1>1, <1>2, <1>3, <1>4, <1>5, <1>6, <1>7, <1>8, <1>9, <1>10, <1>11, <1>12, <1>13, <1>14,
     <1>15, <1>16, <1>17 DEF WorkerStep

\* The client keeps the invariant.
LEMMA ClientStepKept ==
    ASSUME SeparateChains, ChainInv, ClientStep
    PROVE  Kept
<1>1. ~PollTimeout
  BY DEF PollTimeout, SeparateChains
<1>2. CASE BeginCall \/ ResetCounter \/ EndPhase
  BY <1>2, BeginCallKept, ResetCounterKept, EndPhaseKept
<1>3. CASE \E n \in Names : ApplyExpected(n) \/ ResetRequested(n) \/ NextInput(n)
  BY <1>3, ApplyExpectedKept, ResetRequestedKept, NextInputKept
<1>4. CASE ApplyPlainInput
  BY <1>4, ApplyPlainInputKept
<1>5. CASE PollFinished
  BY <1>5, PollFinishedKept
<1>6. CASE \E o \in Buffers : CollectOutput(o)
  BY <1>6, CollectOutputKept
<1>7. CASE SaveBlock \/ \E b \in Blocks : NextToSave(b)
  BY <1>7, SaveKept
<1>8. CASE EndCall
  BY <1>8, EndCallKept
<1> QED
  BY <1>1, <1>2, <1>3, <1>4, <1>5, <1>6, <1>7, <1>8 DEF ClientStep

\* Every step keeps the invariant.
LEMMA ChainStep ==
    ASSUME SeparateChains, ChainInv, [Next]_vars
    PROVE  ChainInv'
<1>1. Kept
  <2>1. CASE ClientStep
    BY <2>1, ClientStepKept
  <2>2. CASE \E w \in Workers : WorkerStep(w)
    BY <2>2, WorkerKept
  <2>3. CASE UNCHANGED vars
    BY <2>3, StutterKept
  <2>4. CASE Done
    BY <2>4, StutterKept DEF Done
  <2> QED BY <2>1, <2>2, <2>3, <2>4 DEF Next
<1>2. TypeOK /\ LockDiscipline /\ Shape /\ Wiring /\ Growing
  BY DEF ChainInv, Base
<1>3. IoKept
  BY <1>2, IoKeptStep
<1>4. TypeOK' /\ LockDiscipline' /\ Shape'
  BY <1>2, TypeStep, LockStep, ShapeStep DEF IInv
<1>5. Wiring'
  BY <1>2, <1>3, SectionsPersist
<1>6. Growing'
  BY <1>2, <1>3, GrowingStep
<1>7. Base'
  BY <1>1, <1>4, <1>5, <1>6 DEF Base, Kept
<1> QED BY <1>1, <1>7 DEF ChainInv, Kept

\* A new model starts with no block but its inputs, and nothing linked.
LEMMA InitUnwired ==
    ASSUME Wires = {}, Init
    PROVE  /\ registered = Inputs /\ attached = {} /\ sized = {}
           /\ \A o \in Buffers : /\ buffer[o].connected = 0 /\ buffer[o].unfinished = <<>>
           /\ \A b \in Blocks :
                 /\ io[b].slots = [i \in 1..InLen(b) |-> NewSlot]
                 /\ io[b].outs = [j \in 1..(IF b \in Senders THEN 1 ELSE 0) |-> NewSection]
                 /\ io[b].inUse = 0 /\ io[b].inCount = 0 /\ io[b].outCount = 0
<1>1. Wired = {} /\ \A b : Into(b) = {} /\ From(b) = {}
  BY DEF Wired, Into, From
<1>2. Cardinality({}) = 0
  BY FS_EmptySet
<1>3. \A o \in Buffers : buffer[o] = [NewBuffer EXCEPT !.connected = 0]
  <2>1. \A o : {b \in Wired \cap Outputs : BufferOf[b] = o} = {}
    BY <1>1
  <2> QED BY <1>2, <2>1 DEF Init
<1>4. ASSUME NEW b \in Blocks
      PROVE  /\ io[b].slots = [i \in 1..InLen(b) |-> NewSlot]
             /\ io[b].outs = [j \in 1..(IF b \in Senders THEN 1 ELSE 0) |-> NewSection]
             /\ io[b].inUse = 0 /\ io[b].inCount = 0 /\ io[b].outCount = 0
  <2>1. \A i : WiredSlot(b, i) = NewSlot
    BY <1>1 DEF WiredSlot
  <2>2. \A j : WiredSection(b, j) = NewSection
    BY <1>1 DEF WiredSection
  <2>3. OutLen(b) = IF b \in Senders THEN 1 ELSE 0
    BY <1>1 DEF OutLen, Senders
  <2>4. io[b] = WiredIo(b)
    BY DEF Init
  <2>5. io[b] = [ slots    |-> [i \in 1..InLen(b) |-> WiredSlot(b, i)],
                  outs     |-> [j \in 1..OutLen(b) |-> WiredSection(b, j)],
                  inUse    |-> Cardinality(Into(b)),
                  inCount  |-> 0,
                  outCount |-> 0 ]
    BY <2>4, WiredIoIs
  <2> DEFINE slots == [i \in 1..InLen(b) |-> WiredSlot(b, i)]
             outs  == [j \in 1..OutLen(b) |-> WiredSection(b, j)]
  <2>6. slots = [i \in 1..InLen(b) |-> NewSlot]
    BY <2>1
  <2>7. outs = [j \in 1..(IF b \in Senders THEN 1 ELSE 0) |-> NewSection]
    BY <2>2, <2>3
  <2>8. Cardinality(Into(b)) = 0
    BY <1>1, <1>2
  <2>9. io[b] = [slots |-> slots, outs |-> outs, inUse |-> 0, inCount |-> 0, outCount |-> 0]
    BY <2>5, <2>8
  <2> HIDE DEF slots, outs
  <2>10. /\ io[b].slots = slots /\ io[b].outs = outs
         /\ io[b].inUse = 0 /\ io[b].inCount = 0 /\ io[b].outCount = 0
    BY <2>9
  <2> QED BY <2>6, <2>7, <2>10
<1>5. registered = Inputs /\ attached = {} /\ sized = {}
  BY <1>1 DEF Init
<1> QED BY <1>3, <1>4, <1>5 DEF NewBuffer

\* Nothing was passed in the initial state.
LEMMA InitChain ==
    ASSUME SeparateChains, Init
    PROVE  ChainInv
<1>0. /\ registered = Inputs /\ attached = {} /\ sized = {}
      /\ \A o \in Buffers : buffer[o].connected = 0 /\ buffer[o].unfinished = <<>>
      /\ \A b \in Blocks :
            /\ io[b].slots = [i \in 1..InLen(b) |-> NewSlot]
            /\ io[b].outs = [j \in 1..(IF b \in Senders THEN 1 ELSE 0) |-> NewSection]
            /\ io[b].inUse = 0 /\ io[b].inCount = 0 /\ io[b].outCount = 0
  <2>1. Wires = {}
    BY DEF SeparateChains
  <2> QED BY <2>1, InitUnwired
<1>1. TypeOK /\ LockDiscipline /\ Shape /\ Wiring /\ Growing
  BY InitIInv, InitGrowing DEF IInv
<1>2. Single
  <2>1. ASSUME NEW b \in Blocks
        PROVE  /\ io[b].inUse = 0 /\ io[b].inCount = 0 /\ io[b].outCount = 0
               /\ Len(io[b].slots) = InLen(b)
               /\ Len(io[b].outs) = IF b \in Senders THEN 1 ELSE 0
    <3>1. InLen(b) \in Nat
      BY DEF InLen
    <3>2. \A n \in Nat : /\ Len([i \in 1..n |-> NewSlot]) = n
                          /\ Len([j \in 1..n |-> NewSection]) = n
      OBVIOUS
    <3> QED BY <1>0, <3>1, <3>2
  <2>2. \A b \in Blocks : /\ b \in Inputs => b \in Senders /\ InLen(b) = 0
                          /\ b \in Cores => b \in Senders
                          /\ b \in Outputs => b \notin Senders /\ InLen(b) = 1
    BY BlockAssumption DEF InLen, Senders
  <2>3. Receivers \cap registered = {} /\ \A b \in Cores : level[b] = 1
    BY <1>0, BlockAssumption DEF Init, Receivers
  <2>4. \A b \in Blocks : io[b].inUse <= 1
    BY <2>1
  <2>5. /\ \A b \in Senders : b \in Blocks
        /\ \A b \in Inputs \cup Cores \cup Outputs : b \in Blocks
    BY DEF Senders, Blocks
  <2> QED BY <2>1, <2>2, <2>3, <2>4, <2>5 DEF Single
<1>3. Base
  BY <1>1, <1>2 DEF Base
<1>4. /\ \A a \in Senders : io[a].outs[1] = NewSection
      /\ \A b \in Receivers : io[b].slots[1] = NewSlot
  <2>1. \A b \in Senders : b \in Blocks /\ io[b].outs = [j \in 1..1 |-> NewSection]
    BY <1>0, BlockAssumption DEF Senders, Blocks
  <2>2. \A b \in Cores : io[b].slots = [j \in 1..2 |-> NewSlot]
    BY <1>0, BlockAssumption DEF InLen, Blocks
  <2>3. \A b \in Outputs : io[b].slots = [j \in 1..1 |-> NewSlot]
    BY <1>0, BlockAssumption DEF InLen, Blocks
  <2> QED BY <2>1, <2>2, <2>3 DEF Receivers
<1>5. /\ \A a \in Senders : to[a] = Nil /\ age[a] = 0 /\ grad[a] = 0
      /\ \A b \in Receivers : from[b] = Nil /\ got[b] = 0 /\ gave[b] = 0
  BY <1>4 DEF to, age, grad, from, got, gave, NewSection, NewSlot, Connected
<1>6. /\ call = 0 /\ cpc = "idle" /\ kind = "none" /\ ~Running
      /\ queue = <<>> /\ DOMAIN queue = {} /\ \A w \in Workers : pc[w] = "idle" /\ ~counts[w]
      /\ registered = Inputs /\ attached = {} /\ counter.expected = Cycle
  BY <1>0 DEF Init, kind, Running
<1>7. \A o \in Buffers : DOMAIN buffer[o].unfinished = {} /\ buffer[o].connected = 0
  BY <1>0
<1>8. /\ fresh = {} /\ back = {} /\ reached \subseteq {}
      /\ active = {} /\ parked = {} /\ queued = {} /\ taken = {}
  <2>1. fresh = {} /\ back = {}
    BY <1>6 DEF fresh, back
  <2>2. reached \subseteq {}
    BY <1>6, <2>1 DEF reached
  <2>3. active = {}
    BY <1>6 DEF active
  <2>4. parked = {}
    BY <1>7, BlockAssumption DEF parked, Range
  <2>5. queued = {} /\ taken = {}
    BY <1>6 DEF queued, taken
  <2> QED BY <2>1, <2>2, <2>3, <2>4, <2>5
<1>9. Bounded
  BY <1>5, <1>6 DEF Bounded
<1>10. Rooted
  BY <1>5, <1>6, BlockAssumption DEF Rooted, Receivers
<1>11. Looking
  BY <1>6 DEF Looking
<1>12. Edges
  BY <1>8 DEF Edges
<1>13. Working /\ OneTask /\ Cycles
  BY <1>6, <1>8 DEF Working, OneTask, Cycles
<1>14. Parking
  BY <1>7, <1>8 DEF Parking
<1>15. Attaching
  <2>1. IsFiniteSet({}) /\ Cardinality({}) = 0
    BY FS_EmptySet
  <2>2. \A o : AttachedTo(o) = {}
    BY <1>6 DEF AttachedTo
  <2> QED BY <1>6, <1>7, <2>1, <2>2 DEF Attaching
<1>16. Training /\ Requesting
  BY <1>6 DEF Training, Requesting
<1>17. Reporting
  BY <1>6 DEF Reporting, Counts
<1>18. Client1
  <2>1. Quiescent
    BY <1>6, <1>8 DEF Quiescent
  <2> QED BY <1>6, <2>1 DEF Client1
<1>19. Promises
  <2>1. ~\E d \in 1..call : TRUE
    BY <1>6
  <2> QED BY <1>6, <2>1 DEF Promises
<1> QED
  BY <1>3, <1>9, <1>10, <1>11, <1>12, <1>13, <1>14, <1>15, <1>16, <1>17, <1>18, <1>19 DEF ChainInv

\* In a network of separate chains a call is one wave along each of them, out
\* and back: the invariant holds in every state of every behaviour.
THEOREM ChainInvariance == SeparateChains => (Spec => []ChainInv)
<1> SUFFICES ASSUME SeparateChains PROVE Spec => []ChainInv
  OBVIOUS
<1>1. Init => ChainInv
  BY InitChain
<1>2. ChainInv /\ [Next]_vars => ChainInv'
  BY ChainStep
<1> QED BY <1>1, <1>2, PTL DEF Spec
-----------------------------------------------------------------------------
(* What follows for the properties of the runs.                            *)

\* A task that waits for its block does what it says.
LEMMA WaitingSound ==
    ASSUME ChainInv, NEW t \in Waiting
    PROVE  t \in TaskType /\ (Work(t, "queue") \/ Work(t, "body"))
<1>1. Base /\ Working
  BY DEF ChainInv
<1>2. CASE t \in Range(queue)
  <2>1. PICK k \in DOMAIN queue : t = queue[k]
    BY <1>2 DEF Range
  <2>2. <<t, "queue">> \in sound
    BY <1>1, <2>1 DEF Working
  <2> QED BY <2>2 DEF sound
<1>3. CASE t \in {task[w] : w \in {v \in Workers : pc[v] = "body"}}
  <2>1. PICK w \in Workers : pc[w] = "body" /\ t = task[w]
    BY <1>3
  <2>2. w \in active
    BY <2>1 DEF active
  <2>3. <<t, "body">> \in sound
    BY <1>1, <2>1, <2>2 DEF Working
  <2> QED BY <2>3 DEF sound
<1> QED BY <1>2, <1>3 DEF Waiting

\* A block is only scheduled for a backpropagation when every section of its
\* output came back during the current call (send_backward, block_io.rs:192).
THEOREM NoEarlyBackward == SeparateChains => (Spec => []ScheduledWithAllDeltas)
<1>1. ChainInv => ScheduledWithAllDeltas
  <2> SUFFICES ASSUME ChainInv, NEW t \in Waiting, t.type = "Backpropagate", t.block \notin Outputs,
                      NEW j \in SectionsOf(t.block)
               PROVE  io[t.block].outs[j].delta = call
    BY DEF ScheduledWithAllDeltas
  <2>1. t \in TaskType /\ ~Forwards(t) /\ (Work(t, "queue") \/ Work(t, "body"))
    BY WaitingSound DEF Forwards
  <2>2. t.block \in Senders /\ DOMAIN io[t.block].outs = {1}
    BY <2>1, Ends DEF TaskType, ChainInv
  <2>3. t.block \in back
    BY <2>1, <2>2 DEF Work, Home
  <2>4. j = 1
    BY <2>2 DEF SectionsOf
  <2> QED BY <2>2, <2>3, <2>4 DEF back, grad
<1> QED BY <1>1, ChainInvariance, PTL

\* When train or request returns, no task of it is left, neither in the queue nor
\* at a worker (run_iteration, model_interface.rs:236).
THEOREM NothingLeft == SeparateChains => (Spec => []ReturnQuiescent)
<1>1. ChainInv => ReturnQuiescent
  <2> SUFFICES ASSUME ChainInv, cpc = "idle"
               PROVE  queue = <<>> /\ \A w \in Workers : Settled(w)
    BY DEF ReturnQuiescent, Returned
  <2>1. queue = <<>> /\ active = {} /\ LockDiscipline
    BY DEF ChainInv, Base, Client1, Running, Quiescent
  <2>2. ASSUME NEW w \in Workers
        PROVE  Settled(w)
    <3>1. pc[w] \in {"idle", "release"} \/ (pc[w] = "return" /\ task[w].block \notin owing)
      BY <2>1 DEF active
    <3>2. pc[w] = "return" => task[w].block \in Blocks
      BY <2>1 DEF LockDiscipline, Blocks
    <3> QED BY <3>1, <3>2 DEF Settled, owing
  <2> QED BY <2>1, <2>2
<1> QED BY <1>1, ChainInvariance, PTL

\* The value a request hands out is one activation over the sum of all output
\* blocks attached to the buffer, each computed from the input of this call
\* (process_neurons_output and update_finish_counter, output_buffer.rs).
THEOREM ExactResult == SeparateChains => (Spec => []ResultExact)
<1>1. ChainInv => ResultExact
  <2> SUFFICES ASSUME ChainInv, Returned("request"), NEW o \in Calls[call].outs \cap Buffers
               PROVE  LET bs == {b \in attached : BufferOf[b] = o}
                          v  == answer[o]
                      IN  /\ Len(v) = Cardinality(bs) + 1
                          /\ v[Len(v)] = Sigmoid
                          /\ \A b \in bs : \E i \in 1..Len(v) - 1 : v[i] = Part(b, call)
    BY DEF ResultExact
  <2>1. cpc = "idle" /\ call > 0 /\ Calls[call].kind = "request" /\ call \in Nat
    BY DEF Returned, ChainInv, Base, TypeOK
  <2>2. kind = "request"
    BY <2>1 DEF kind
  <2>3. Answered
    BY <2>1, <2>2 DEF ChainInv, Promises
  <2>4. Exact(answer[o], o)
    BY <2>3 DEF Answered
  <2> QED BY <2>4 DEF Exact, AttachedTo
<1> QED BY <1>1, ChainInvariance, PTL

\* When train returns, the gradient of this call has reached every connected
\* section, and the counters of every block are back to zero for the next call
\* (send_backward, block_io.rs:192).
THEOREM CompleteTraining == SeparateChains => (Spec => []TrainComplete)
<1>1. ChainInv => TrainComplete
  <2> SUFFICES ASSUME ChainInv, Returned("train")
               PROVE  /\ \A b \in registered : io[b].inCount = 0 /\ io[b].outCount = 0
                      /\ \A b \in registered \ Outputs : \A j \in SectionsOf(b) :
                            io[b].outs[j].data = call /\ io[b].outs[j].delta = call
    BY DEF TrainComplete
  <2>1. Base /\ Single /\ registered \subseteq Blocks
    BY DEF ChainInv, Base, TypeOK
  <2>2. cpc = "idle" /\ call > 0 /\ Calls[call].kind = "train" /\ call \in Nat
    BY DEF Returned, ChainInv, Base, TypeOK
  <2>3. kind = "train"
    BY <2>2 DEF kind
  <2>4. Senders \cap registered \subseteq fresh \cap back
    BY <2>2, <2>3 DEF ChainInv, Promises
  <2>5. \A b \in registered : io[b].inCount = 0 /\ io[b].outCount = 0
    BY <2>1 DEF Single
  <2>6. ASSUME NEW b \in registered \ Outputs, NEW j \in SectionsOf(b)
        PROVE  io[b].outs[j].data = call /\ io[b].outs[j].delta = call
    <3>1. b \in Senders /\ DOMAIN io[b].outs = {1}
      BY <2>1, Ends
    <3>2. j = 1
      BY <3>1 DEF SectionsOf
    <3>3. age[b] = call /\ grad[b] = call
      BY <2>4, <3>1 DEF fresh, back
    <3> QED BY <3>1, <3>2, <3>3 DEF age, grad
  <2> QED BY <2>5, <2>6
<1> QED BY <1>1, ChainInvariance, PTL

\* While a call runs the counter does not pass what the call waits for.
LEMMA NoneTooMany ==
    ASSUME ChainInv, cpc \in {"expect", "reset"} \/ Running
    PROVE  counter.n <= counter.compare
<1>1. Reporting /\ Base
  BY DEF ChainInv
<1>2. counter.compare = (IF kind = "train" THEN Cardinality(Inputs) ELSE 0) + Cardinality(Buffers)
  BY <1>1 DEF Reporting
<1>3. /\ reportedInputs \subseteq Inputs /\ reportedBuffers \subseteq Buffers
      /\ IsFiniteSet(Inputs) /\ IsFiniteSet(Buffers)
  BY BlockAssumption DEF reportedInputs, reportedBuffers, complete
<1>4. /\ Cardinality(reportedInputs) <= Cardinality(Inputs)
      /\ Cardinality(Inputs) \in Nat /\ Cardinality(reportedInputs) \in Nat
  BY <1>3, FullSubset
<1>5. /\ Cardinality(reportedBuffers) <= Cardinality(Buffers)
      /\ Cardinality(Buffers) \in Nat /\ Cardinality(reportedBuffers) \in Nat
  BY <1>3, FullSubset
<1>6. counter.n \in Nat
  BY <1>1 DEF Base, TypeOK
<1>7. CASE cpc \in {"expect", "reset"}
  <2>1. counter.n = 0
    BY <1>1, <1>7 DEF Reporting
  <2> QED BY <1>2, <1>4, <1>5, <2>1
<1>8. CASE Running
  <2>1. counter.n <= InputReports + Cardinality(reportedBuffers)
    BY <1>1, <1>8 DEF Reporting
  <2>2. InputReports = IF kind = "train" THEN Cardinality(reportedInputs) ELSE 0
    BY DEF InputReports
  <2> QED BY <1>2, <1>4, <1>5, <1>6, <2>1, <2>2
<1> QED BY <1>7, <1>8

\* No report comes in while the values are handed out.
LEMMA CounterRests ==
    ASSUME ChainInv, [Next]_vars, cpc' = "collect", cpc # "poll"
    PROVE  cpc = "collect" /\ UNCHANGED counter
<1>1. CASE ClientStep
  <2>1. CASE \E o \in Buffers : CollectOutput(o)
    BY <2>1 DEF CollectOutput
  <2>2. CASE ~\E o \in Buffers : CollectOutput(o)
    BY <1>1, <2>2 DEF ClientStep, BeginCall, ResetCounter, EndPhase, ApplyExpected, ResetRequested,
          NextInput, ApplyPlainInput, PollFinished, PollTimeout, NextToSave, SaveBlock, EndCall, ReturnWith
  <2> QED BY <2>1, <2>2
<1>2. CASE \E w \in Workers : WorkerStep(w)
  <2>1. PICK w \in Workers : WorkerStep(w)
    BY <1>2
  <2>2. UNCHANGED cpc
    <3>1. Base
      BY DEF ChainInv
    <3>2. UNCHANGED clientVars
      BY <2>1, <3>1, WorkerFrame
    <3> QED BY <3>2 DEF clientVars
  <2>3. Quiescent
    BY <2>2 DEF ChainInv, Client1, Running
  <2>4. pc[w] # "count"
    BY <2>3, AtRest
  <2>5. UNCHANGED counter
    BY <2>1, <2>4, Zenon
       DEF WorkerStep, TakeTask, RunInput, TrainCore, ProcessCore, BackpropagateCore, LockOutput,
           ConnectOutputBuffer, TrainOutput, ProcessOutput, BackpropagateOutput, SendBackward,
           UpdateFinishCounter, StartForward, SelectTarget, SelectBlock, CreateBlock, SendForward,
           ReleaseBlock, StartBackward, FinishBackward, ReturnSlot, RetryBackward
  <2> QED BY <2>2, <2>5
<1>3. CASE UNCHANGED vars \/ Done
  BY <1>3 DEF Done, vars, clientVars
<1> QED BY <1>1, <1>2, <1>3 DEF Next

\* The finish counter never runs past what the call waits for: each input and
\* each output buffer reports once, and no report is left over for the next call
\* (update_finish_counter, finish_counter.rs).
THEOREM EachReportOnce == SeparateChains => (Spec => []NoSurplusReport)
<1> SUFFICES ASSUME SeparateChains PROVE Spec => []NoSurplusReport
  OBVIOUS
<1>1. Init => NoSurplusReport
  BY DEF Init, NoSurplusReport
<1>2. ASSUME ChainInv, ChainInv', [Next]_vars, NoSurplusReport
      PROVE  NoSurplusReport'
  <2>1. CASE cpc' \in {"expect", "reset"} \/ Running'
    <3>1. (ChainInv /\ (cpc \in {"expect", "reset"} \/ Running) => counter.n <= counter.compare)'
      BY NoneTooMany, PTL
    <3> QED BY <1>2, <2>1, <3>1 DEF NoSurplusReport
  <2>2. CASE cpc' = "collect" /\ cpc = "poll"
    <3>1. counter.n <= counter.compare
      BY <1>2, <2>2, NoneTooMany DEF Running
    <3>2. UNCHANGED counter
      <4>1. ASSUME NEW w \in Workers, WorkerStep(w) PROVE FALSE
        <5>1. Base
          BY <1>2 DEF ChainInv
        <5>2. UNCHANGED clientVars
          BY <4>1, <5>1, WorkerFrame
        <5> QED BY <2>2, <5>2 DEF clientVars
      <4>2. ~UNCHANGED vars /\ ~Done
        BY <2>2 DEF Done, vars, clientVars
      <4>3. ClientStep
        BY <1>2, <4>1, <4>2 DEF Next
      <4> QED
        BY <2>2, <4>3 DEF ClientStep, BeginCall, ResetCounter, EndPhase, ApplyExpected, ResetRequested,
             NextInput, ApplyPlainInput, PollFinished, PollTimeout, CollectOutput, NextToSave,
             SaveBlock, EndCall, ReturnWith
    <3> QED BY <3>1, <3>2 DEF NoSurplusReport
  <2>3. CASE cpc' = "collect" /\ cpc # "poll"
    BY <1>2, <2>3, CounterRests DEF NoSurplusReport
  <2>4. CASE cpc' \notin {"expect", "reset", "collect"} /\ ~Running'
    BY <2>4 DEF NoSurplusReport, Running
  <2> QED BY <2>1, <2>2, <2>3, <2>4
<1> QED BY <1>1, <1>2, ChainInvariance, PTL DEF Spec

\* Who holds a block.
LEMMA HolderOf ==
    ASSUME ChainInv, NEW b \in Blocks, NEW u \in Holder(b)
    PROVE  u \in Workers /\ pc[u] \in Inside /\ task[u].block = b
<1>1. TypeOK /\ LockDiscipline
  BY DEF ChainInv, Base
<1>2. u = lock[b] /\ u # Nil
  BY DEF Holder
<1>3. u \in Workers
  BY <1>1, <1>2 DEF TypeOK
<1> QED BY <1>1, <1>2, <1>3 DEF LockDiscipline

\* What a worker waits for, at each of its places.
LEMMA WaitPlaces ==
    ASSUME NEW w \in Workers
    PROVE  /\ pc[w] \in {"idle", "output", "gradient", "release", "return", "count"} => WaitsFor(w) = {}
           /\ pc[w] \in {"body", "final"} => WaitsFor(w) = Holder(task[w].block)
           /\ pc[w] \in {"connect", "create"} => WaitsFor(w) \subseteq {Client}
           /\ pc[w] = "select" => WaitsFor(w) = Holder(pick[w])
           /\ pc[w] = "forward" /\ Connected(Section(w)) => WaitsFor(w) = Holder(Section(w).tgt)
           /\ pc[w] = "forward" /\ ~Connected(Section(w)) => WaitsFor(w) \subseteq {Client}
           /\ pc[w] = "sendback" => WaitsFor(w) = Holder(io[task[w].block].slots[1].src)
<1>1. w # Client
  BY NameAssumption
<1> QED BY <1>1 DEF WaitsFor, ClientWith

\* create_checkpoint waits for a block of the model.
SavesBlock == cpc = "saving" => arg \in Blocks

\* It always does.
LEMMA SavesBlocks == Spec => []SavesBlock
<1>1. Init => SavesBlock
  BY DEF Init, SavesBlock
<1>2. ASSUME SavesBlock, [Next]_vars
      PROVE  SavesBlock'
  <2>1. CASE ClientStep
    <3>1. CASE \E b \in Blocks : NextToSave(b)
      BY <3>1 DEF NextToSave, SavesBlock
    <3>2. CASE \E o \in Buffers : CollectOutput(o)
      BY <3>2 DEF CollectOutput, SavesBlock
    <3>3. CASE \E n \in Names : ApplyExpected(n) \/ ResetRequested(n) \/ NextInput(n)
      BY <3>3 DEF ApplyExpected, ResetRequested, NextInput, ReturnWith, SavesBlock
    <3>4. CASE BeginCall \/ ResetCounter \/ EndPhase \/ ApplyPlainInput \/ PollFinished \/ PollTimeout
               \/ SaveBlock \/ EndCall
      BY <3>4 DEF BeginCall, ResetCounter, EndPhase, ApplyPlainInput, PollFinished, PollTimeout,
                  SaveBlock, EndCall, ReturnWith, SavesBlock
    <3> QED BY <2>1, <3>1, <3>2, <3>3, <3>4 DEF ClientStep
  <2>2. CASE \E w \in Workers : WorkerStep(w)
    <3>1. UNCHANGED clientVars
      BY <2>2, WorkerLeavesClient
    <3> QED BY <1>2, <3>1 DEF SavesBlock, clientVars
  <2>3. CASE UNCHANGED vars \/ Done
    BY <1>2, <2>3 DEF SavesBlock, Done, vars, clientVars
  <2> QED BY <1>2, <2>1, <2>2, <2>3 DEF Next
<1> QED BY <1>1, <1>2, PTL DEF Spec

\* A set of threads that wait for nothing but each other is empty.
LEMMA NoCircle ==
    ASSUME SeparateChains, ChainInv, SavesBlock, NEW P \in SUBSET Threads,
           \A p \in P : WaitsFor(p) # {} /\ WaitsFor(p) \subseteq P
    PROVE  P = {}
<1>1. /\ Base /\ TypeOK /\ LockDiscipline /\ Working /\ OneTask /\ Looking /\ Client1
      /\ Inputs \subseteq Blocks
  BY DEF ChainInv, Base, Blocks
<1>2. \A w \in Workers : pc[w] \in {"return", "release"} => w \notin P
  BY WaitPlaces
<1>3. \A w \in Workers : pc[w] \in Inside \ {"return", "release"} =>
          /\ Work(task[w], pc[w]) /\ task[w].block \in reached /\ pc[w] # "handover" /\ Running
  <2> SUFFICES ASSUME NEW w \in Workers, pc[w] \in Inside \ {"return", "release"}
               PROVE  Work(task[w], pc[w]) /\ pc[w] # "handover"
    BY DEF Work
  <2>1. w \in active
    BY DEF active, Inside
  <2> QED BY <1>1, <2>1 DEF Working, sound, Looking
<1>4. Client \notin P
  <2> SUFFICES ASSUME Client \in P PROVE FALSE
    OBVIOUS
  <2>1. cpc \in {"apply", "saving"} /\ WaitsFor(Client) = Holder(arg)
    BY DEF WaitsFor
  <2>2. PICK u \in Holder(arg) : u \in P
    BY <2>1
  <2>3. arg \in Blocks
    <3>1. CASE cpc = "apply"
      BY <1>1, <3>1 DEF Client1
    <3> QED BY <2>1, <3>1 DEF SavesBlock
  <2>4. u \in Workers /\ pc[u] \in Inside /\ task[u].block = arg
        /\ pc[u] \notin {"return", "release"}
    BY <1>2, <2>2, <2>3, HolderOf
  <2>5. Running /\ arg \in reached
    BY <1>3, <2>4
  <2>6. cpc = "apply"
    BY <2>1, <2>5 DEF Running
  <2>7. arg \in Inputs /\ arg \notin fresh
    BY <1>1, <2>6 DEF Client1
  <2> QED BY <2>5, <2>7 DEF reached
<1>5. P \subseteq Workers /\ \A w \in P : \E u \in WaitsFor(w) : u \in P
  BY <1>4 DEF Threads
<1>6. \A w \in P : pc[w] \notin {"return", "release", "connect", "create"}
  BY <1>2, <1>4, <1>5, WaitPlaces
<1>7. \A w \in P : pc[w] \notin {"body", "final"}
  <2> SUFFICES ASSUME NEW w \in P, pc[w] \in {"body", "final"} PROVE FALSE
    OBVIOUS
  <2>1. w \in Workers /\ task[w].block \in Blocks
    BY <1>1, <1>5 DEF Base, Shape, WorkerShape, TaskType
  <2>2. PICK u \in Holder(task[w].block) : u \in P
    BY <1>5, <2>1, WaitPlaces
  <2>3. u \in Workers /\ pc[u] \in Inside /\ task[u].block = task[w].block
    BY <2>1, <2>2, HolderOf
  <2>4. u = w
    BY <1>1, <2>1, <2>3 DEF OneTask, Inside
  <2> QED BY <2>3, <2>4 DEF Inside
<1>8. \A w \in P : pc[w] # "sendback"
  <2> SUFFICES ASSUME NEW w \in P, pc[w] = "sendback" PROVE FALSE
    OBVIOUS
  <2> DEFINE b == task[w].block
             a == from[b]
  <2>1. w \in Workers /\ b \in Outputs /\ b \in Receivers /\ b \in reached
    BY <1>1, <1>3, <1>5 DEF LockDiscipline, Receivers, Inside
  <2>2. a \in Senders /\ a \in Blocks /\ to[a] = b
    BY <1>1, <2>1, SourceOf, Ends
  <2>3. WaitsFor(w) = Holder(a)
    BY <2>1, WaitPlaces DEF from
  <2>4. PICK u \in Holder(a) : u \in P
    BY <1>5, <2>3
  <2>5. u \in Workers /\ pc[u] \in Inside /\ task[u].block = a
        /\ pc[u] \notin {"return", "release"}
    BY <1>2, <2>2, <2>4, HolderOf
  <2>6. pc[u] \in {"forward", "select", "create"}
    <3>1. a \notin Outputs
      BY <2>2, BlockAssumption DEF Senders
    <3>2. pc[u] \notin {"connect", "output", "gradient", "sendback"}
      BY <1>1, <2>5, <3>1 DEF LockDiscipline
    <3> QED BY <1>3, <2>5, <3>2 DEF Inside
  <2>7. to[a] \notin reached
    BY <2>5, <2>6, OwnSection
  <2> QED BY <2>1, <2>2, <2>7
<1>9. \A w \in P : pc[w] # "forward"
  <2> SUFFICES ASSUME NEW w \in P, pc[w] = "forward" PROVE FALSE
    OBVIOUS
  <2> DEFINE b == task[w].block
  <2>1. w \in Workers
    BY <1>5
  <2>2. b \in Senders /\ to[b] \notin reached
    BY <2>1, OwnSection
  <2>3. (Connected(Section(w)) <=> to[b] # Nil) /\ (to[b] # Nil => Section(w).tgt = to[b])
    BY <2>1, OwnSection
  <2>4. to[b] \in Blocks /\ WaitsFor(w) = Holder(to[b])
    <3>1. Connected(Section(w))
      <4>1. WaitsFor(w) # {} /\ WaitsFor(w) \subseteq P
        OBVIOUS
      <4> QED BY <1>4, <2>1, <4>1, WaitPlaces
    <3>2. to[b] # Nil /\ Section(w).tgt = to[b]
      BY <2>3, <3>1
    <3>3. to \in [Senders -> Receivers \cup {Nil}] /\ Receivers \subseteq Blocks
      BY <1>1, Views, Ends
    <3>4. to[b] \in Blocks
      BY <2>2, <3>2, <3>3
    <3>5. WaitsFor(w) = Holder(Section(w).tgt)
      BY <2>1, <3>1, WaitPlaces
    <3> QED BY <3>2, <3>4, <3>5
  <2>5. PICK u \in Holder(to[b]) : u \in P
    BY <1>5, <2>4
  <2>6. u \in Workers /\ pc[u] \in Inside /\ task[u].block = to[b]
        /\ pc[u] \notin {"return", "release"}
    BY <1>2, <2>4, <2>5, HolderOf
  <2> QED BY <1>3, <2>2, <2>6
<1>10. \A w \in P : pc[w] # "select"
  <2> SUFFICES ASSUME NEW w \in P, pc[w] = "select" PROVE FALSE
    OBVIOUS
  <2>1. w \in Workers
    BY <1>5
  <2>2. pick[w] \in Outputs
    BY <2>1, SelectedOutput
  <2>3. PICK u \in Holder(pick[w]) : u \in P
    BY <1>5, <2>1, WaitPlaces
  <2>4. u \in Workers /\ pc[u] \in Inside /\ task[u].block = pick[w]
    BY <2>2, <2>3, HolderOf DEF Blocks
  <2>5. pc[u] \in {"connect", "output", "gradient", "sendback"}
    BY <1>1, <2>2, <2>4, BlockAssumption DEF LockDiscipline, Inside
  <2>6. pc[u] \in {"output", "gradient"}
    BY <1>6, <1>8, <2>3, <2>5
  <2> QED BY <2>3, <2>4, <2>6, WaitPlaces
<1> QED
  <2> SUFFICES ASSUME NEW w \in P PROVE FALSE
    OBVIOUS
  <2>1. w \in Workers /\ pc[w] \in WorkerPlaces
    BY <1>1, <1>5 DEF TypeOK
  <2>2. pc[w] \notin {"idle", "output", "gradient", "release", "return", "count"}
    BY <2>1, WaitPlaces
  <2>3. pc[w] # "handover"
    BY <1>1, <2>1 DEF Looking
  <2> QED BY <1>6, <1>7, <1>8, <1>9, <1>10, <2>1, <2>2, <2>3 DEF WorkerPlaces

\* No set of threads waits for nothing but each other: the mutexes of the blocks
\* and the handler are never held in a circle (README.md:67, several threads on
\* one network).
THEOREM NoDeadlock == SeparateChains => (Spec => []NoDeadlockedThreads)
<1> SUFFICES ASSUME SeparateChains PROVE Spec => []NoDeadlockedThreads
  OBVIOUS
<1>1. ChainInv /\ SavesBlock => NoDeadlockedThreads
  BY NoCircle DEF NoDeadlockedThreads
<1> QED BY <1>1, ChainInvariance, SavesBlocks, PTL
=============================================================================
