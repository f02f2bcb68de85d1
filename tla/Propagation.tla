----------------------------- MODULE Propagation -----------------------------
(***************************************************************************)
(* One model of Saki at work: the client thread inside train, request or   *)
(* create_checkpoint, the worker threads and the task queue, the mutex of  *)
(* every block, the RwLock around the model handler, the io of the blocks, *)
(* the output buffers and the finish counter.  The network grows while it  *)
(* works: a section without a target looks for one while its block is      *)
(* locked by the worker that sends the section.                            *)
(*                                                                         *)
(* A step is what runs between two points where the code may have to wait. *)
(* The locks of the queue, of an output buffer and of the finish counter   *)
(* are only held inside a step.                                            *)
(***************************************************************************)
EXTENDS FiniteSets, BlockIo, OutputBuffers

CONSTANTS
    Workers,        \* the worker threads
    Client,         \* the Python thread
    Inputs,         \* the input blocks, one per input hexagon
    Cores,          \* core blocks that exist or may be created
    Outputs,        \* output blocks that may be created
    Buffers,        \* the output buffers, one per output hexagon
    HexOf,          \* the hexagon of each block
    Possible,       \* possible_hexagon_target_ids of each hexagon, as a set
    BufferOf,       \* the output buffer of each output block
    Width,          \* output sections an input needs for the values it gets
    MaxLevel,       \* bound: sections a core block may grow to (3 in the code)
    Calls,          \* the calls of the client: [kind, ins, outs]
    Wires,          \* the connections earlier calls left behind: [src, spos, tgt, tpos]
    MayTimeout,     \* a poll loop may run out of its 10000000 iterations
    MayGiveUp,      \* a backpropagation may run out of its 1000 tries
    Unknown         \* a name no input or output of the model has

Blocks  == Inputs \cup Cores \cup Outputs
Threads == Workers \cup {Client}
Names   == Inputs \cup Buffers \cup {Unknown}
Kinds   == {"train", "request", "checkpoint"}
Types   == {"Train", "Process", "Backpropagate"}

ASSUME BlockAssumption ==
    /\ Inputs \cap Cores = {} /\ Inputs \cap Outputs = {} /\ Cores \cap Outputs = {}
    /\ HexOf \in [Blocks -> DOMAIN Possible]
    /\ Possible \in [DOMAIN Possible -> SUBSET (DOMAIN Possible \cup {Nil})]
    /\ BufferOf \in [Outputs -> Buffers]
    /\ Width \in [Inputs -> Nat \ {0}]
    /\ MaxLevel \in Nat \ {0}
    /\ IsFiniteSet(Inputs) /\ IsFiniteSet(Buffers)

\* What calls on a new model can leave behind: links along the possible targets,
\* one per section and slot, slots taken from the first one on, to an output
\* block or core from a block that is there. A core still has one section.
Slots(b) == IF b \in Cores THEN 1..2 ELSE {1}
ASSUME WireAssumption ==
    /\ IsFiniteSet(Wires)
    /\ Wires \subseteq [src : Inputs \cup Cores, spos : Nat \ {0}, tgt : Cores \cup Outputs, tpos : 1..2]
    /\ \A w \in Wires :
          /\ w.tpos \in Slots(w.tgt) /\ w.spos \in 1..(IF w.src \in Inputs THEN Width[w.src] ELSE 1)
          /\ HexOf[w.tgt] \in Possible[HexOf[w.src]]
          /\ w.src \in Cores => \E v \in Wires : v.tgt = w.src
          /\ w.tpos = 2 => \E v \in Wires : v.tgt = w.tgt /\ v.tpos = 1
          /\ \A v \in Wires : (v.src = w.src /\ v.spos = w.spos) <=> (v.tgt = w.tgt /\ v.tpos = w.tpos)

ASSUME NameAssumption ==
    /\ Client \notin Workers
    /\ Nil \notin Blocks /\ Nil \notin Threads /\ Nil \notin DOMAIN Possible
    /\ Unknown \notin Inputs \cup Buffers

ASSUME CallAssumption ==
    /\ Calls \in Seq([kind : Kinds, ins : SUBSET Names, outs : SUBSET Names])
    /\ MayTimeout \in BOOLEAN /\ MayGiveUp \in BOOLEAN

VARIABLES
    registered,     \* blocks in the hexagon_data maps of the model handler
    io,             \* BlockIoBuffer of each block
    level,          \* sections the section_counter of a core block asks for
    attached,       \* output blocks that hold a reference to their buffer
    sized,          \* output blocks with an output neuron for each of the buffer
    buffer,         \* the output buffers
    counter,        \* the FinishCounter
    queue,          \* the WORKER_QUEUE
    lock,           \* the thread inside the mutex of each block, or Nil
    pc, task,       \* where each worker is, and in which task
    sec,            \* the section a worker is sending
    goal, pick,     \* the target hexagon it drew, the block it selected
    counts,         \* it will update the finish counter after the task
    cpc, call,      \* where the client is, and the number of its call
    todo, arg,      \* names it still has to handle, the one it waits for
    result, answer  \* how the last call ended, what it handed out

outBlocks  == <<attached, sized>>
netVars    == <<registered, io, level, outBlocks, buffer>>
workerVars == <<lock, pc, task, sec, goal, pick, counts>>
clientVars == <<cpc, call, todo, arg, result, answer>>
vars       == <<netVars, counter, queue, workerVars, clientVars>>

Cycle == 0          \* the only cycle number apply_plain_input and the calls use
Task(t, b) == [type |-> t, block |-> b, cycle |-> Cycle]
NoTask     == [type |-> "none", block |-> Nil, cycle |-> Cycle]
Forwards(t) == t.type \in {"Train", "Process"}

NewBlockIo(b) ==
    IF b \in Inputs THEN NewIo(0, 1) ELSE IF b \in Cores THEN NewIo(2, 1) ELSE NewIo(1, 0)

\* The io of a block that is wired up, with data and deltas from before the calls.
Wired        == {w.tgt : w \in Wires}
From(b)      == {w \in Wires : w.src = b}
Into(b)      == {w \in Wires : w.tgt = b}
WiredSlot(b, i) ==
    IF \E w \in Into(b) : w.tpos = i
    THEN LET w == CHOOSE w \in Into(b) : w.tpos = i
         IN  [NewSlot EXCEPT !.src = w.src, !.spos = w.spos, !.done = b \in Outputs]
    ELSE NewSlot
WiredSection(b, j) ==
    IF \E w \in From(b) : w.spos = j
    THEN LET w == CHOOSE w \in From(b) : w.spos = j
         IN  [NewSection EXCEPT !.tgt = w.tgt, !.tpos = w.tpos]
    ELSE NewSection
WiredIo(b) ==
    LET new  == NewBlockIo(b)
        wide == IF b \in Inputs /\ From(b) # {} THEN Widen(new, Width[b]) ELSE new
    IN  [new EXCEPT !.slots = [i \in DOMAIN new.slots |-> WiredSlot(b, i)],
                    !.outs  = [j \in DOMAIN wide.outs |-> WiredSection(b, j)],
                    !.inUse = Cardinality(Into(b))]

\* A model right after initialize_inputs and initialize_outputs, or between two
\* calls after it has grown to Wires. What the calls left in the output buffers is
\* reset by the next one, and left out.
Init ==
    /\ registered = Inputs \cup Wired
    /\ io = [b \in Blocks |-> WiredIo(b)]
    /\ level = [b \in Cores |-> 1]
    /\ attached = Wired \cap Outputs /\ sized = Wired \cap Outputs
    /\ buffer = [o \in Buffers |->
          [NewBuffer EXCEPT !.connected = Cardinality({b \in Wired \cap Outputs : BufferOf[b] = o})]]
    /\ counter = [n |-> 0, compare |-> 0, expected |-> Cycle]
    /\ queue = <<>>
    /\ lock = [b \in Blocks |-> Nil]
    /\ pc = [w \in Workers |-> "idle"]
    /\ task = [w \in Workers |-> NoTask]
    /\ sec = [w \in Workers |-> 1]
    /\ goal = [w \in Workers |-> Nil]
    /\ pick = [w \in Workers |-> Nil]
    /\ counts = [w \in Workers |-> FALSE]
    /\ cpc = "idle" /\ call = 0 /\ todo = {} /\ arg = Nil
    /\ result = "none" /\ answer = [o \in Buffers |-> <<>>]

\* The client is inside the read or the write guard of MODEL_HANDLER.  A worker
\* only takes the handler inside a step, when it can have it.
HandlerRead  == cpc \in {"reset", "apply", "collect"}
HandlerWrite == cpc \in {"save", "saving"}
MayRead      == ~HandlerWrite
MayWrite     == ~HandlerRead /\ ~HandlerWrite

Free(b) == lock[b] = Nil
Goto(w, l) == pc' = [pc EXCEPT ![w] = l]
Lock(w, b) == lock' = [lock EXCEPT ![b] = w]
Unlock(b)  == lock' = [lock EXCEPT ![b] = Nil]
Finish(w)  == Goto(w, "idle") /\ task' = [task EXCEPT ![w] = NoTask]
Enqueue(ts) == queue' = queue \o ts

-----------------------------------------------------------------------------
(* The client.                                                             *)

\* train and request of lib.rs: request resets all outputs under the write
\* guard before it takes the interface.
BeginCall ==
    /\ cpc = "idle" /\ call < Len(Calls)
    /\ call' = call + 1
    /\ result' = "none"
    /\ \/ /\ Calls[call + 1].kind = "train"
          /\ cpc' = "counter"
          /\ UNCHANGED <<buffer, todo>>
       \/ /\ Calls[call + 1].kind = "request"
          /\ cpc' = "counter"
          /\ buffer' = [o \in Buffers |-> ResetOutput(buffer[o])]
          /\ UNCHANGED todo
       \/ /\ Calls[call + 1].kind = "checkpoint"
          /\ cpc' = "save" /\ todo' = registered
          /\ UNCHANGED buffer
    /\ UNCHANGED <<registered, io, level, outBlocks, counter, queue, workerVars, arg, answer>>

OutputCompare == Cardinality(Buffers)
\* (faulty variant: training does not wait for the inputs)
InputCompare_None == 0
InputCompare  == Cardinality(Inputs)

\* (faulty variant: the number of reports to wait for is not set)
ResetCounter_KeepsCompare ==
    /\ cpc = "counter"
    /\ todo' = Calls[call].outs
    /\ counter' = [counter EXCEPT !.n = 0]
    /\ cpc' = IF Calls[call].kind = "train" THEN "expect" ELSE "reset"
    /\ UNCHANGED <<netVars, queue, workerVars, call, arg, result, answer>>

ResetCounter ==
    /\ cpc = "counter"
    /\ todo' = Calls[call].outs
    /\ IF Calls[call].kind = "train"
       THEN /\ counter' = [n |-> 0, compare |-> InputCompare + OutputCompare, expected |-> Cycle]
            /\ cpc' = "expect"
       ELSE /\ counter' = [n |-> 0, compare |-> OutputCompare, expected |-> Cycle]
            /\ cpc' = "reset"
    /\ UNCHANGED <<netVars, queue, workerVars, call, arg, result, answer>>

ReturnWith(r) == cpc' = "idle" /\ result' = r /\ todo' = {} /\ arg' = Nil

\* train ignores the error for an unknown output.
ApplyExpected(n) ==
    /\ cpc = "expect" /\ n \in todo
    /\ todo' = todo \ {n}
    /\ buffer' = IF n \in Buffers
                 THEN [buffer EXCEPT ![n] = SetExpected(ResetOutput(@), call)]
                 ELSE buffer
    /\ UNCHANGED <<registered, io, level, outBlocks, counter, queue, workerVars,
                   cpc, call, arg, result, answer>>

\* request stops at the first unknown output.
ResetRequested(n) ==
    /\ cpc = "reset" /\ n \in todo
    /\ IF n \in Buffers
       THEN /\ buffer' = [buffer EXCEPT ![n] = ResetOutput(@)]
            /\ todo' = todo \ {n}
            /\ UNCHANGED <<cpc, arg, result>>
       ELSE ReturnWith("error") /\ UNCHANGED buffer
    /\ UNCHANGED <<registered, io, level, outBlocks, counter, queue, workerVars, call, answer>>

\* Take the handler for the next input; an unknown name ends the call with the
\* tasks of the inputs before it in the queue.
NextInput(n) ==
    /\ cpc = "input" /\ n \in todo
    /\ IF n \in Inputs
       THEN cpc' = "apply" /\ arg' = n /\ todo' = todo \ {n} /\ UNCHANGED result
       ELSE ReturnWith("error")
    /\ UNCHANGED <<netVars, counter, queue, workerVars, call, answer>>

\* apply_plain_input: with the handler held for reading, wait for the block.
\* Only training creates links, so only training widens the block.
ApplyPlainInput ==
    /\ cpc = "apply" /\ Free(arg)
    /\ LET train == Calls[call].kind = "train"
           wide  == IF train /\ Len(io[arg].outs) < Width[arg]
                    THEN Widen(io[arg], Width[arg]) ELSE io[arg]
       IN  /\ io' = [io EXCEPT ![arg] = PassForward(wide, call)]
           /\ Enqueue(<<Task(IF train THEN "Train" ELSE "Process", arg)>>)
    /\ cpc' = "input" /\ arg' = Nil
    /\ UNCHANGED <<registered, level, outBlocks, buffer, counter, workerVars,
                   call, todo, result, answer>>

EndPhase ==
    /\ cpc \in {"expect", "reset", "input"} /\ todo = {}
    /\ IF cpc = "input"
       THEN cpc' = "poll" /\ UNCHANGED todo
       ELSE cpc' = "input" /\ todo' = Calls[call].ins
    /\ UNCHANGED <<netVars, counter, queue, workerVars, call, arg, result, answer>>

\* run_iteration sees a complete finish counter ...
PollFinished ==
    /\ cpc = "poll" /\ counter.n >= counter.compare
    /\ IF Calls[call].kind = "train"
       THEN ReturnWith("ok")
       ELSE cpc' = "collect" /\ todo' = Calls[call].outs /\ UNCHANGED <<arg, result>>
    /\ UNCHANGED <<netVars, counter, queue, workerVars, call, answer>>

\* ... or runs out of iterations.
PollTimeout ==
    /\ MayTimeout
    /\ cpc = "poll" /\ counter.n < counter.compare
    /\ ReturnWith("timeout")
    /\ UNCHANGED <<netVars, counter, queue, workerVars, call, answer>>

CollectOutput(n) ==
    /\ cpc = "collect" /\ n \in todo \cap Buffers
    /\ answer' = [answer EXCEPT ![n] = buffer[n].value]
    /\ buffer' = [buffer EXCEPT ![n] = Reopen(@)]
    /\ todo' = todo \ {n}
    /\ UNCHANGED <<registered, io, level, outBlocks, counter, queue, workerVars,
                   cpc, call, arg, result>>

\* create_checkpoint locks one block after the other, inside the write guard.
NextToSave(b) ==
    /\ cpc = "save" /\ b \in todo
    /\ cpc' = "saving" /\ arg' = b /\ todo' = todo \ {b}
    /\ UNCHANGED <<netVars, counter, queue, workerVars, call, result, answer>>

SaveBlock ==
    /\ cpc = "saving" /\ Free(arg)
    /\ cpc' = "save" /\ arg' = Nil
    /\ UNCHANGED <<netVars, counter, queue, workerVars, call, todo, result, answer>>

EndCall ==
    /\ cpc \in {"collect", "save"} /\ todo = {}
    /\ ReturnWith("ok")
    /\ UNCHANGED <<netVars, counter, queue, workerVars, call, answer>>

ClientStep ==
    \/ BeginCall \/ ResetCounter \/ EndPhase
    \/ \E n \in Names : ApplyExpected(n) \/ ResetRequested(n) \/ NextInput(n)
    \/ ApplyPlainInput
    \/ PollFinished \/ PollTimeout
    \/ \E o \in Buffers : CollectOutput(o)
    \/ \E b \in Blocks : NextToSave(b)
    \/ SaveBlock
    \/ EndCall

-----------------------------------------------------------------------------
(* A worker with a task: process_task, up to the release of the block.     *)

TakeTask(w) ==
    /\ pc[w] = "idle" /\ queue # <<>>
    /\ task' = [task EXCEPT ![w] = Head(queue)]
    /\ queue' = Tail(queue)
    /\ Goto(w, "body")
    /\ UNCHANGED <<netVars, counter, lock, sec, goal, pick, counts, clientVars>>

At(w, l, kind) == pc[w] = l /\ task[w].block \in kind

\* An input block does nothing but pass on; a Backpropagate task that reached
\* it is counted, after a finalization that has nothing to do.
\* (faulty variant: the forward pass of an input is reported, too)
RunInput_ReportsAll(w) ==
    /\ At(w, "body", Inputs) /\ Free(task[w].block)
    /\ IF Forwards(task[w]) THEN Goto(w, "final") ELSE Goto(w, "count")
    /\ counter' = [counter EXCEPT !.n = @ + 1]
    /\ UNCHANGED <<netVars, queue, lock, task, sec, goal, pick, counts, clientVars>>

RunInput(w) ==
    /\ At(w, "body", Inputs) /\ Free(task[w].block)
    /\ IF Forwards(task[w])
       THEN Goto(w, "final") /\ UNCHANGED counts
       ELSE Goto(w, "count") /\ counts' = [counts EXCEPT ![w] = TRUE]
    /\ UNCHANGED <<netVars, counter, queue, lock, task, sec, goal, pick, clientVars>>

\* check_and_resize_block at the start of train and process: one section more
\* for every threshold the section counter is past.
Resized(b) == IF Len(io[b].outs) < level[b] THEN Widen(io[b], level[b]) ELSE io[b]

\* Training may use synapse sections for the first time; with k output sections
\* it has 2k*BLOCK_DIM of them, enough to pass the next threshold. One connected
\* input alone never uses more than half of those of the first output section.
TrainCore(w) ==
    /\ At(w, "body", Cores) /\ Free(task[w].block) /\ task[w].type = "Train"
    /\ LET b == task[w].block
           x == Resized(b)
       IN  /\ io' = [io EXCEPT ![b] = ClearDeltas(PassForward(x, InputAge(x)))]
           /\ \E l \in level[b]..MaxLevel :
                 /\ l <= Len(x.outs) + 1
                 /\ l > level[b] => ~HasFreeInput(x)
                 /\ level' = [level EXCEPT ![b] = l]
    /\ Goto(w, "final")
    /\ UNCHANGED <<registered, outBlocks, buffer, counter, queue, lock, task, sec, goal, pick,
                   counts, clientVars>>

ProcessCore(w) ==
    /\ At(w, "body", Cores) /\ Free(task[w].block) /\ task[w].type = "Process"
    /\ LET b == task[w].block
           x == Resized(b)
       IN  io' = [io EXCEPT ![b] = ClearDeltas(PassForward(x, InputAge(x)))]
    /\ Goto(w, "final")
    /\ UNCHANGED <<registered, level, outBlocks, buffer, counter, queue, lock, task, sec, goal,
                   pick, counts, clientVars>>

BackpropagateCore(w) ==
    /\ At(w, "body", Cores) /\ Free(task[w].block) /\ task[w].type = "Backpropagate"
    /\ LET b == task[w].block
       IN  io' = [io EXCEPT ![b] = PassBackward(@, DeltaAge(@))]
    /\ Goto(w, "final")
    /\ UNCHANGED <<registered, level, outBlocks, buffer, counter, queue, lock, task, sec, goal,
                   pick, counts, clientVars>>

-----------------------------------------------------------------------------
(* Output blocks keep their own mutex until the gradient is sent back.     *)

LockOutput(w) ==
    /\ At(w, "body", Outputs) /\ Free(task[w].block)
    /\ Lock(w, task[w].block)
    /\ Goto(w, IF task[w].block \notin attached THEN "connect"
               ELSE IF Forwards(task[w]) THEN "output" ELSE "gradient")
    /\ UNCHANGED <<netVars, counter, queue, task, sec, goal, pick, counts, clientVars>>

\* connect_output_buffer, once in the life of the block.
ConnectOutputBuffer(w) ==
    /\ pc[w] = "connect" /\ MayRead
    /\ LET b == task[w].block
       IN  /\ attached' = attached \cup {b}
           /\ buffer' = [buffer EXCEPT ![BufferOf[b]].connected = @ + 1]
    /\ Goto(w, IF Forwards(task[w]) THEN "output" ELSE "gradient")
    /\ UNCHANGED <<registered, io, level, sized, counter, queue, lock, task, sec, goal, pick,
                   counts, clientVars>>

\* train: the block that completes the buffer finalizes it, sends the others
\* back to work and goes on with its own backpropagation; so does a block that
\* finds the buffer finalized.  Any other block waits in unfinished_blocks.
TrainOutput(w) ==
    /\ pc[w] = "output" /\ task[w].type = "Train"
    /\ LET b == task[w].block
           o == BufferOf[b]
           x == AddPart(buffer[o], b, InputAge(io[b]))
           y == CountBlock(x, task[w].cycle, counter.expected)
       IN  IF x.finalized
           THEN /\ buffer' = [buffer EXCEPT ![o] = x]
                /\ Goto(w, "gradient")
                /\ UNCHANGED <<queue, lock, task, counts>>
           ELSE IF CompletedBy(x, task[w].cycle, counter.expected)
           THEN /\ buffer' = [buffer EXCEPT ![o] = FinalizeTrain(y)]
                /\ Enqueue([i \in DOMAIN y.unfinished |->
                              [task[w] EXCEPT !.type = "Backpropagate", !.block = y.unfinished[i]]])
                /\ counts' = [counts EXCEPT ![w] = TRUE]
                /\ Goto(w, "gradient")
                /\ UNCHANGED <<lock, task>>
           ELSE /\ buffer' = [buffer EXCEPT ![o] = [y EXCEPT !.unfinished = Append(@, b)]]
                /\ Unlock(b) /\ Finish(w)
                /\ UNCHANGED <<queue, counts>>
    /\ sized' = sized \cup {task[w].block}
    /\ UNCHANGED <<registered, io, level, attached, counter, sec, goal, pick, clientVars>>

\* process does not size the block: one that was never trained adds nothing.
ProcessOutput(w) ==
    /\ pc[w] = "output" /\ task[w].type = "Process"
    /\ LET b == task[w].block
           o == BufferOf[b]
           x == IF b \in sized THEN AddPart(buffer[o], b, InputAge(io[b])) ELSE buffer[o]
           y == CountBlock(x, task[w].cycle, counter.expected)
       IN  IF CompletedBy(x, task[w].cycle, counter.expected)
           THEN /\ buffer' = [buffer EXCEPT ![o] = FinalizeProcessing(y)]
                /\ counts' = [counts EXCEPT ![w] = TRUE]
                /\ Goto(w, "count")
                /\ UNCHANGED task
           ELSE /\ buffer' = [buffer EXCEPT ![o] = y]
                /\ Finish(w)
                /\ UNCHANGED counts
    /\ Unlock(task[w].block)
    /\ UNCHANGED <<registered, io, level, outBlocks, counter, queue, sec, goal, pick, clientVars>>

BackpropagateOutput(w) ==
    /\ pc[w] = "gradient"
    /\ LET b == task[w].block
       IN  io' = [io EXCEPT ![b] = PassBackward(@, buffer[BufferOf[b]].expected.of)]
    /\ sized' = sized \cup {task[w].block}
    /\ Goto(w, "sendback")
    /\ UNCHANGED <<registered, level, attached, buffer, counter, queue, lock, task, sec, goal,
                   pick, counts, clientVars>>

\* Slot i of block b back at the section it came from.
SentBack(b, i) ==
    LET slot == io[b].slots[i]
    IN  [[io EXCEPT ![slot.src] = TakeBack(@, b, i, slot)] EXCEPT ![b] = MarkDone(@, i)]

\* The task send_backward queues for the source of a slot, if it was the last.
BackTasks(w, src) ==
    IF OutputsComplete(io[src])
    THEN <<[task[w] EXCEPT !.type = "Backpropagate", !.block = src]>> ELSE <<>>

\* send_backward waits for the source with the own block locked.
SendBackward(w) ==
    /\ pc[w] = "sendback"
    /\ LET b == task[w].block
           slot == io[b].slots[1]
       IN  /\ IF slot.src = Nil
              THEN UNCHANGED <<io, queue>>
              ELSE /\ Free(slot.src)
                   /\ io' = SentBack(b, 1)
                   /\ Enqueue(BackTasks(w, slot.src))
           /\ Unlock(b)
    /\ IF counts[w] THEN Goto(w, "count") /\ UNCHANGED task ELSE Finish(w)
    /\ UNCHANGED <<registered, level, outBlocks, buffer, counter, sec, goal, pick, counts,
                   clientVars>>

\* The finish counter is updated when the worker holds no block any more.
UpdateFinishCounter(w) ==
    /\ pc[w] = "count"
    /\ counter' = IF task[w].cycle = counter.expected THEN [counter EXCEPT !.n = @ + 1] ELSE counter
    /\ counts' = [counts EXCEPT ![w] = FALSE]
    /\ Finish(w)
    /\ UNCHANGED <<netVars, queue, lock, sec, goal, pick, clientVars>>

-----------------------------------------------------------------------------
(* Finalization of a forward pass: send_forward, under the own mutex.      *)

Section(w) == io[task[w].block].outs[sec[w]]

StartForward(w) ==
    /\ At(w, "final", Inputs \cup Cores) /\ Free(task[w].block) /\ Forwards(task[w])
    /\ Lock(w, task[w].block)
    /\ sec' = [sec EXCEPT ![w] = 1]
    /\ Goto(w, "forward")
    /\ UNCHANGED <<netVars, counter, queue, task, goal, pick, counts, clientVars>>

\* Go on with the next section, or leave after the last one.
NextSection(w) ==
    /\ goal' = [goal EXCEPT ![w] = Nil]
    /\ pick' = [pick EXCEPT ![w] = Nil]
    /\ IF sec[w] < Len(io[task[w].block].outs)
       THEN /\ sec' = [sec EXCEPT ![w] = @ + 1]
            /\ Goto(w, "forward")
       ELSE /\ sec' = [sec EXCEPT ![w] = 1]
            /\ Goto(w, "release")

BlocksOf(h) == {b \in registered : HexOf[b] = h}
IsTarget(h) == h # Nil /\ ~\E i \in Inputs : HexOf[i] = h

\* connect_to_new_target draws one of the possible hexagons and one of its
\* blocks; a position without hexagon, or an input, leaves the section as it is.
SelectTarget(w) ==
    /\ pc[w] = "forward" /\ ~Connected(Section(w)) /\ MayWrite
    /\ \E h \in Possible[HexOf[task[w].block]] :
          \/ /\ ~IsTarget(h)
             /\ NextSection(w)
          \/ /\ IsTarget(h)
             /\ goal' = [goal EXCEPT ![w] = h]
             /\ IF BlocksOf(h) = {}
                THEN Goto(w, "create") /\ UNCHANGED pick
                ELSE /\ \E t \in BlocksOf(h) : pick' = [pick EXCEPT ![w] = t]
                     /\ Goto(w, "select")
             /\ UNCHANGED sec
    /\ UNCHANGED <<netVars, counter, queue, lock, task, counts, clientVars>>

\* get_free_input of block t for the section at hand.  The slot is taken now
\* and filled by SendForward, after t was released in between.
Attach(w, t) ==
    LET b == task[w].block
    IN  io' = [[io EXCEPT ![t] = TakeInput(@, sec[w], Section(w))]
                   EXCEPT ![b] = LinkSection(@, sec[w], t, io[t].inUse + 1)]

\* Waits for the selected block with the own block locked.
SelectBlock(w) ==
    /\ pc[w] = "select" /\ Free(pick[w])
    /\ pick' = [pick EXCEPT ![w] = Nil]
    /\ IF HasFreeInput(io[pick[w]])
       THEN /\ Attach(w, pick[w])
            /\ goal' = [goal EXCEPT ![w] = Nil]
            /\ Goto(w, "handover")
       ELSE /\ Goto(w, "create")
            /\ UNCHANGED <<io, goal>>
    /\ UNCHANGED <<registered, level, outBlocks, buffer, counter, queue, lock, task, sec, counts,
                   clientVars>>

Unused(h) == {b \in Blocks \ registered : HexOf[b] = h}

CreateBlock(w) ==
    /\ pc[w] = "create" /\ MayWrite
    /\ Unused(goal[w]) # {}
    /\ LET t == CHOOSE t \in Unused(goal[w]) : TRUE
       IN  /\ registered' = registered \cup {t}
           /\ Attach(w, t)
    /\ goal' = [goal EXCEPT ![w] = Nil]
    /\ Goto(w, "forward")
    /\ UNCHANGED <<level, outBlocks, buffer, counter, queue, lock, task, sec, pick, counts,
                   clientVars>>

\* Waits for the target with the own block locked.  A section handed over to a
\* block that existed before does not start a task, but still counts.
SendForward(w) ==
    /\ pc[w] \in {"forward", "handover"} /\ Connected(Section(w)) /\ Free(Section(w).tgt)
    /\ LET t == Section(w).tgt
       IN  /\ io' = [io EXCEPT ![t] = Receive(@, task[w].block, sec[w], Section(w))]
           /\ Enqueue(IF InputsComplete(io[t]) /\ pc[w] = "forward"
                      THEN <<[task[w] EXCEPT !.block = t]>> ELSE <<>>)
    /\ NextSection(w)
    /\ UNCHANGED <<registered, level, outBlocks, buffer, counter, lock, task, counts, clientVars>>

\* The own mutex is held until the last target has been released and its task is
\* in the queue.
ReleaseBlock(w) ==
    /\ pc[w] = "release"
    /\ Unlock(task[w].block) /\ Finish(w)
    /\ UNCHANGED <<netVars, counter, queue, sec, goal, pick, counts, clientVars>>

-----------------------------------------------------------------------------
(* Finalization of a backpropagation: send_backward_with_retry, which never *)
(* waits for a source but lets go of the own block and tries again.         *)

StartBackward(w) ==
    /\ At(w, "final", Cores) /\ Free(task[w].block) /\ ~Forwards(task[w])
    /\ Lock(w, task[w].block)
    /\ Goto(w, "return")
    /\ UNCHANGED <<netVars, counter, queue, task, sec, goal, pick, counts, clientVars>>

IsNext(w, i) ==
    LET x == io[task[w].block]
    IN  i \in Pending(x) /\ \A k \in Pending(x) : i <= k

ReturnSlot(w, i) ==
    /\ pc[w] = "return" /\ IsNext(w, i)
    /\ LET b == task[w].block
           slot == io[b].slots[i]
       IN  /\ Free(slot.src)
           /\ io' = SentBack(b, i)
           /\ Enqueue(BackTasks(w, slot.src))
    /\ UNCHANGED <<registered, level, outBlocks, buffer, counter, lock, pc, task, sec, goal, pick,
                   counts, clientVars>>

\* try_lock failed: sleep and try again, or give up and end the task as it is.
RetryBackward(w, i) ==
    /\ pc[w] = "return" /\ IsNext(w, i)
    /\ ~Free(io[task[w].block].slots[i].src)
    /\ Unlock(task[w].block)
    /\ \/ Goto(w, "final") /\ UNCHANGED task
       \/ MayGiveUp /\ Finish(w)
    /\ UNCHANGED <<netVars, counter, queue, sec, goal, pick, counts, clientVars>>

\* (faulty variant: the block stays locked)
FinishBackward_KeepsLock(w) ==
    /\ pc[w] = "return" /\ Pending(io[task[w].block]) = {}
    /\ io' = [io EXCEPT ![task[w].block] = ResetDone(@)]
    /\ Finish(w)
    /\ UNCHANGED <<registered, level, outBlocks, buffer, counter, queue, lock, sec, goal, pick,
                   counts, clientVars>>

\* (faulty variant: the end of the slots is not taken for success)
FinishBackward_TriesAgain(w) ==
    /\ pc[w] = "return" /\ Pending(io[task[w].block]) = {}
    /\ Unlock(task[w].block) /\ Goto(w, "final")
    /\ UNCHANGED <<netVars, counter, queue, task, sec, goal, pick, counts, clientVars>>

FinishBackward(w) ==
    /\ pc[w] = "return" /\ Pending(io[task[w].block]) = {}
    /\ io' = [io EXCEPT ![task[w].block] = ResetDone(@)]
    /\ Unlock(task[w].block) /\ Finish(w)
    /\ UNCHANGED <<registered, level, outBlocks, buffer, counter, queue, sec, goal, pick, counts,
                   clientVars>>

-----------------------------------------------------------------------------
WorkerStep(w) ==
    \/ TakeTask(w)
    \/ RunInput(w) \/ TrainCore(w) \/ ProcessCore(w) \/ BackpropagateCore(w)
    \/ LockOutput(w) \/ ConnectOutputBuffer(w)
    \/ TrainOutput(w) \/ ProcessOutput(w) \/ BackpropagateOutput(w) \/ SendBackward(w)
    \/ UpdateFinishCounter(w)
    \/ StartForward(w) \/ SelectTarget(w) \/ SelectBlock(w) \/ CreateBlock(w) \/ SendForward(w)
    \/ ReleaseBlock(w)
    \/ StartBackward(w) \/ FinishBackward(w)
    \/ \E i \in 1..2 : ReturnSlot(w, i) \/ RetryBackward(w, i)

\* All calls have ended and the workers sleep on an empty queue.
Done ==
    /\ cpc = "idle" /\ call = Len(Calls) /\ queue = <<>>
    /\ \A w \in Workers : pc[w] = "idle"
    /\ UNCHANGED vars

Next == ClientStep \/ (\E w \in Workers : WorkerStep(w)) \/ Done

Spec == Init /\ [][Next]_vars

\* The operating system runs every thread, and a released mutex or handler is
\* eventually given to each thread that waits for it: holders sleep for 1 ms
\* outside of the lock before they take it again.
FairSpec ==
    /\ Spec
    /\ WF_vars(ClientStep) /\ SF_vars(ApplyPlainInput) /\ SF_vars(SaveBlock)
    /\ \A w \in Workers : SF_vars(WorkerStep(w))
=============================================================================
