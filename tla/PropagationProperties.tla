----------------------- MODULE PropagationProperties -------------------------
(***************************************************************************)
(* What must hold of a model at work.                                      *)
(***************************************************************************)
EXTENDS Propagation, Functions

SlotType    == [src : Blocks \cup {Nil}, spos : Nat, done : BOOLEAN, data : Nat, delta : Nat]
SectionType == [tgt : Blocks \cup {Nil}, tpos : Nat, data : Nat, delta : Nat]
IoType      == [slots : Seq(SlotType), outs : Seq(SectionType),
                inUse : Nat, inCount : Nat, outCount : Nat]
TaskType    == [type : Types, block : Blocks, cycle : Nat]
ValueType   == Seq([block : Outputs \cup {"sigmoid"}, data : Nat])
BufferType  == [finalized : BOOLEAN, connected : Nat, local : Nat, unfinished : Seq(Outputs),
                value : ValueType, expected : [of : Nat, gradient : BOOLEAN]]

WorkerPlaces == {"idle", "body", "connect", "output", "gradient", "sendback", "count", "final",
                 "forward", "select", "create", "handover", "release", "return"}
ClientPlaces == {"idle", "counter", "expect", "reset", "input", "apply", "poll", "collect",
                 "save", "saving"}
Results      == {"none", "ok", "error", "timeout"}

\* Every variable has its type, and a worker is only at places of its task:
\* the type invariant of the module.
TypeOK ==
    /\ registered \subseteq Blocks
    /\ io \in [Blocks -> IoType]
    /\ level \in [Cores -> Nat]
    /\ attached \subseteq Outputs /\ sized \subseteq Outputs
    /\ buffer \in [Buffers -> BufferType]
    /\ counter \in [n : Nat, compare : Nat, expected : Nat]
    /\ queue \in Seq(TaskType)
    /\ lock \in [Blocks -> Workers \cup {Nil}]
    /\ pc \in [Workers -> WorkerPlaces]
    /\ task \in [Workers -> TaskType \cup {NoTask}]
    /\ sec \in [Workers -> Nat]
    /\ goal \in [Workers -> DOMAIN Possible \cup {Nil}]
    /\ pick \in [Workers -> Blocks \cup {Nil}]
    /\ counts \in [Workers -> BOOLEAN]
    /\ cpc \in ClientPlaces /\ call \in 0..Len(Calls)
    /\ todo \subseteq Blocks \cup Names /\ arg \in Blocks \cup {Nil}
    /\ result \in Results /\ answer \in [Buffers -> ValueType]

-----------------------------------------------------------------------------
(* Mutual exclusion.                                                       *)

\* Between two steps a worker holds at most the mutex of its own block.
Inside == {"connect", "output", "gradient", "sendback",
           "forward", "select", "create", "handover", "release", "return"}

\* A block is locked by w exactly while w is at a place inside its block, and
\* that place fits the kind of block: never two workers in one block, no mutex
\* left locked (process_task, finalize_task).
LockDiscipline ==
    \A w \in Workers :
        /\ \A b \in Blocks : lock[b] = w <=> pc[w] \in Inside /\ task[w].block = b
        /\ pc[w] \in {"connect", "output", "gradient", "sendback"} => task[w].block \in Outputs
        /\ pc[w] \in {"forward", "select", "create", "handover", "release"} =>
               task[w].block \in Inputs \cup Cores
        /\ pc[w] = "return" => task[w].block \in Cores

-----------------------------------------------------------------------------
(* The wiring of the network.                                              *)

SectionsOf(b) == {j \in DOMAIN io[b].outs : Connected(io[b].outs[j])}

\* A connected section points to a slot in use of a registered block, no two
\* sections share a slot, and a slot that knows its source is the one this
\* source's section points to: send_forward and send_backward never overwrite
\* another connection and never index past a buffer, however many workers grow
\* the network at once (get_free_input, connect_to_new_target).
Wiring ==
    /\ \A b \in Blocks : \A j \in SectionsOf(b) :
          LET s == io[b].outs[j]
          IN  /\ s.tgt \in registered
              /\ s.tpos \in 1..io[s.tgt].inUse
              /\ \A c \in Blocks : \A k \in SectionsOf(c) :
                    io[c].outs[k].tgt = s.tgt /\ io[c].outs[k].tpos = s.tpos => c = b /\ k = j
    /\ \A b \in Blocks :
          /\ io[b].inUse \in 0..Len(io[b].slots)
          /\ \A i \in DOMAIN io[b].slots :
                LET t == io[b].slots[i]
                IN  t.src # Nil =>
                      /\ t.spos \in SectionsOf(t.src)
                      /\ io[t.src].outs[t.spos].tgt = b
                      /\ io[t.src].outs[t.spos].tpos = i

\* A connection, once made, is never redirected or dropped, although every
\* backpropagation writes the whole section back over it (send_backward).
ConnectionsPersist ==
    [][\A b \in Blocks : \A j \in SectionsOf(b) :
          /\ j \in DOMAIN io'[b].outs
          /\ io'[b].outs[j].tgt = io[b].outs[j].tgt
          /\ io'[b].outs[j].tpos = io[b].outs[j].tpos]_vars

-----------------------------------------------------------------------------
(* Waiting.                                                                *)

\* The threads that hold what thread p is waiting for.
ClientWith(held) == IF held THEN {Client} ELSE {}
Holder(b) == {lock[b]} \ {Nil}

WaitsFor(p) ==
    IF p = Client
    THEN IF cpc \in {"apply", "saving"} THEN Holder(arg) ELSE {}
    ELSE CASE pc[p] \in {"body", "final"} -> Holder(task[p].block)
           [] pc[p] = "connect"           -> ClientWith(~MayRead)
           [] pc[p] = "create"            -> ClientWith(~MayWrite)
           [] pc[p] = "select"            -> Holder(pick[p])
           [] pc[p] \in {"forward", "handover"} ->
                 IF Connected(Section(p)) THEN Holder(Section(p).tgt) ELSE ClientWith(~MayWrite)
           [] pc[p] = "sendback"          -> Holder(io[task[p].block].slots[1].src)
           [] OTHER                       -> {}

\* No set of threads waits for nothing but each other: mutexes and the handler
\* are never held in a cycle (README.md:67, several threads on one network).
NoDeadlockedThreads ==
    ~\E P \in (SUBSET Threads) \ {{}} : \A p \in P : WaitsFor(p) # {} /\ WaitsFor(p) \subseteq P

-----------------------------------------------------------------------------
(* What a task works on.                                                   *)

Waiting  == Range(queue) \cup {task[w] : w \in {v \in Workers : pc[v] = "body"}}

\* A block is only scheduled for a forward pass when every input in use has
\* come in during the current call (send_forward, block_io.rs:142).
ScheduledWithAllInputs ==
    \A t \in Waiting : Forwards(t) /\ t.block \notin Inputs =>
        \A i \in 1..io[t.block].inUse : io[t.block].slots[i].data = call

\* The step that brings in the last input of the current call schedules the
\* forward pass of the block (send_forward, block_io.rs:101).
AllInputsIn(x) == /\ x.inUse > 0
                  /\ \A i \in 1..x.inUse : x.slots[i].src # Nil /\ x.slots[i].data = call

LastInputSchedules ==
    [][\A b \in Cores \cup Outputs :
          ~AllInputsIn(io[b]) /\ AllInputsIn(io[b])' =>
              \E t \in Range(queue') : t.block = b /\ Forwards(t)]_vars

\* A block is only scheduled for a backpropagation when every section of its
\* output has come back during the current call (send_backward).
ScheduledWithAllDeltas ==
    \A t \in Waiting : t.type = "Backpropagate" /\ t.block \notin Outputs =>
        \A j \in SectionsOf(t.block) : io[t.block].outs[j].delta = call

-----------------------------------------------------------------------------
(* What a call promises.                                                   *)

Returned(kind) == cpc = "idle" /\ result = "ok" /\ call > 0 /\ Calls[call].kind = kind

\* The worker has no step left but to reset the done flags and release.
Settled(w) == \/ pc[w] \in {"idle", "release"}
              \/ pc[w] = "return" /\ Pending(io[task[w].block]) = {}

\* When train or request returns Ok, no task of it is left, neither in the
\* queue nor in a worker (run_iteration, model_interface.rs:236).
ReturnQuiescent ==
    Returned("train") \/ Returned("request") =>
        queue = <<>> /\ \A w \in Workers : Settled(w)

\* The value a request hands out is one activation over the sum of all output
\* blocks attached to the buffer, each computed from this call's input.
ResultExact ==
    Returned("request") =>
        \A o \in Calls[call].outs \cap Buffers :
            LET bs == {b \in attached : BufferOf[b] = o}
                v  == answer[o]
            IN  /\ Len(v) = Cardinality(bs) + 1
                /\ v[Len(v)] = Sigmoid
                /\ \A b \in bs : \E i \in 1..Len(v) - 1 : v[i] = Part(b, call)

\* When train returns Ok the gradient of this call has reached every connected
\* section, and the counters of every block are back to zero for the next call.
TrainComplete ==
    Returned("train") =>
        /\ \A b \in registered : io[b].inCount = 0 /\ io[b].outCount = 0
        /\ \A b \in registered \ Outputs : \A j \in SectionsOf(b) :
              io[b].outs[j].data = call /\ io[b].outs[j].delta = call

\* The finish counter never runs past what the call waits for: each input and
\* each output buffer reports once, no report is left over for the next call.
NoSurplusReport == cpc \in {"expect", "reset", "input", "apply", "poll", "collect"} =>
    counter.n <= counter.compare

-----------------------------------------------------------------------------
(* What the threads do together is what Waves promises. A block was passed *)
(* by the wave of this call when what it sends, or what it has added to    *)
(* the output, stems from it; the wave has come back to a block when the   *)
(* gradients it gives to its sources do, to an input when those it got do. *)

HasPassed(b) ==
    IF b \in Outputs THEN Part(b, call) \in Range(buffer[BufferOf[b]].value)
    ELSE io[b].outs[1].data = call

HasReturned(b) ==
    IF b \in Inputs
    THEN /\ SectionsOf(b) # {}
         /\ \A j \in SectionsOf(b) : io[b].outs[j].delta = call
    ELSE io[b].slots[1].delta = call

AtWork     == IF cpc = "idle" THEN "none" ELSE Calls[call].kind
Forwarded  == {b \in Blocks : call > 0 /\ HasPassed(b)}
CameBack   == {b \in Blocks : call > 0 /\ HasReturned(b)}
Successors == [b \in Blocks |-> {io[b].outs[j].tgt : j \in SectionsOf(b)}]

Abstract == INSTANCE Waves WITH
    Nodes     <- Blocks,
    Sources   <- Inputs,
    kind      <- AtWork,
    forwarded <- Forwarded,
    returned  <- CameBack,
    succ      <- Successors

\* Every behaviour of the threads is a behaviour of Waves: whatever they
\* interleave, a call takes each block once, in the order of the network, and
\* does not return before its wave has ended (train and request in
\* model_interface.rs, with everything the workers do for them).
WavesImplemented == Abstract!Spec

\* Every call of the client returns, with Ok or an error (run_iteration;
\* create_checkpoint, model_handler.rs:739).
CallsReturn == cpc # "idle" ~> cpc = "idle"

-----------------------------------------------------------------------------
(* Where a call keeps all of its promises.                                 *)

\* The blocks that send.
Senders == Inputs \cup Cores

\* Networks and calls for which all of the above can be proved. The
\* configurations shared_core, two_sections, wide_input, first_request,
\* after_timeout and early_error each leave out one of the conditions, and one
\* of the promises fails.
SeparateChains ==
    /\ Wires = {} /\ MaxLevel = 1 /\ ~MayTimeout /\ ~MayGiveUp
    /\ \A i \in Inputs : Width[i] = 1
    /\ \A a, b \in Senders : \A c \in Cores :
          HexOf[c] \in Possible[HexOf[a]] /\ HexOf[c] \in Possible[HexOf[b]] => a = b
    /\ IsFiniteSet(Cores)
    /\ \E rank \in [Senders -> 0..Cardinality(Cores)] :
          \A a \in Senders, c \in Cores : HexOf[c] \in Possible[HexOf[a]] => rank[a] < rank[c]
    /\ \A c \in DOMAIN Calls :
          /\ Calls[c].kind \in {"train", "request"} => Calls[c].ins = Inputs
          /\ Calls[c].kind = "train" => Calls[c].outs = Buffers
          /\ Calls[c].kind = "request" => /\ Calls[c].outs \subseteq Buffers
                                          /\ \E d \in 1..c - 1 : Calls[d].kind = "train"
=============================================================================
