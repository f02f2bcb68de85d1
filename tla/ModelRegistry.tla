--------------------------- MODULE ModelRegistry ---------------------------
(***************************************************************************)
(* The registry of models (model_handler.rs) and the calls of the Python   *)
(* class on it (lib.rs): creating and deleting models, writing and reading *)
(* checkpoints. A call holds the write lock of the registry from its first *)
(* to its last access, so a call is one step here; what one of its parts   *)
(* fails in the middle leaves behind is part of the step.                  *)
(*                                                                         *)
(* Between the calls the worker threads go on with the tasks of calls that *)
(* returned early. A task holds on to the block it is for, whether or not  *)
(* the registry still has it, and connects it to blocks it finds in the    *)
(* registry (target_search.rs). Passes and results are in Propagation.     *)
(***************************************************************************)
EXTENDS Integers, Sequences, FiniteSets

CONSTANTS Uuids,      \* uuids of models
          Names,      \* names of inputs and outputs
          Blocks,     \* uuids of core and output blocks
          Templates,  \* the parsed templates: names of the inputs and outputs
          Paths,      \* paths of checkpoint files
          Faults,     \* what may go wrong: "write", "flush", "crash", "early"
          MaxCalls,   \* bound: calls
          Nil

ASSUME TemplateAssumption == Templates \subseteq [inputs : Seq(Names), outputs : Seq(Names)]
ASSUME FaultAssumption    == Faults \subseteq {"write", "flush", "crash", "early"}
ASSUME CallAssumption     == MaxCalls \in Nat
ASSUME DisjointAssumption == Names \cap Blocks = {} /\ Nil \notin Names \cup Blocks \cup Nat

VARIABLES
    models,    \* the registered models; was the model completed by its call?
    counters,  \* the finish counters: numbers of inputs and outputs to wait for
    files,     \* checkpoint files
    pending,   \* per model, its blocks that tasks are left for
    strays,    \* per uuid, the blocks of removed models that tasks may be left for
    poisoned,  \* did a call panic with the lock held?
    known,     \* uuids that were given to a model
    outcome,   \* the last call: its model, its path, its result
    calls      \* number of calls

world == <<pending, strays>>
vars  == <<models, counters, files, world, poisoned, known, outcome, calls>>

Empty        == [x \in {} |-> Nil]
Sources      == Names \cup Blocks
Registered   == {u \in Uuids : models[u] # Nil}
FreshCounter == Len(counters) + 1

Init ==
    /\ models = [u \in Uuids |-> Nil]
    /\ counters = <<>>
    /\ files = [p \in Paths |-> Nil]
    /\ pending = [u \in Uuids |-> {}]
    /\ strays = [u \in Uuids |-> {}]
    /\ poisoned = FALSE
    /\ known = {}
    /\ outcome = [call |-> "none", model |-> Nil, path |-> Nil, ok |-> TRUE]
    /\ calls = 0

\* A call waits for the tasks of its model, unless it ends early: with an error
\* or by its timeout.
Settled == "early" \in Faults \/ \A u \in Uuids : pending[u] = {}

Call(name, u, p, ok) ==
    /\ ~poisoned
    /\ calls < MaxCalls
    /\ Settled
    /\ calls' = calls + 1
    /\ outcome' = [call |-> name, model |-> u, path |-> p, ok |-> ok]

\* What the tasks of a model become when the model is removed: they go on among
\* its blocks, and may reach each of them.
Held(u) == IF pending[u] = {} THEN {} ELSE DOMAIN models[u].inputs \cup DOMAIN models[u].blocks

Abandoned(S) == [u \in Uuids |-> IF u \in S THEN strays[u] \cup Held(u) ELSE strays[u]]
Dropped(S)   == [u \in Uuids |-> IF u \in S THEN {} ELSE pending[u]]

-----------------------------------------------------------------------------
(* New models. The names of a template are taken one after the other; the  *)
(* first one that is there already ends the call, before the number of     *)
(* inputs or outputs is set. The caller does not look at the error.        *)

Accepted(s) == {i \in DOMAIN s : \A j \in 1 .. i : s[j] = s[i] => j = i}
Unique(s)   == Accepted(s) = DOMAIN s
FirstNames(s) == {s[i] : i \in {k \in DOMAIN s : 1 .. k \subseteq Accepted(s)}}

\* The names that become outputs.
OutputNames(t) == IF Unique(t.inputs) THEN FirstNames(t.outputs) ELSE {}

\* (faulty variant: the numbers of the inputs and of the outputs are mixed up)
Compared_Swapped(t) ==
    [input |-> IF Unique(t.inputs) THEN Len(t.outputs) ELSE 0,
     output |-> IF Unique(t.inputs) /\ Unique(t.outputs) THEN Len(t.inputs) ELSE 0]
Compared(t) ==
    [input |-> IF Unique(t.inputs) THEN Len(t.inputs) ELSE 0,
     output |-> IF Unique(t.inputs) /\ Unique(t.outputs) THEN Len(t.outputs) ELSE 0]

InitModel(u, t) ==
    /\ u \notin known
    /\ Call("init", u, Nil, TRUE)
    /\ known' = known \cup {u}
    /\ models' = [models EXCEPT ![u] =
           [template  |-> t,
            inputs    |-> [n \in FirstNames(t.inputs) |-> FreshCounter],
            outputs   |-> [n \in OutputNames(t) |-> FreshCounter],
            blocks    |-> Empty,
            learned   |-> 0,
            interface |-> FreshCounter,
            built     |-> TRUE]]
    /\ counters' = Append(counters, Compared(t))
    /\ UNCHANGED <<files, world, poisoned>>

\* An unknown model is an error that the caller does not see.
DeleteModel(u) ==
    /\ Call("delete", u, Nil, TRUE)
    /\ models' = [models EXCEPT ![u] = Nil]
    /\ strays' = Abandoned({u})
    /\ pending' = Dropped({u})
    /\ UNCHANGED <<counters, files, poisoned, known>>

\* Creating another instance of the Python class clears the registry.
NewEngine ==
    /\ Call("new", Nil, Nil, TRUE)
    /\ models' = [u \in Uuids |-> Nil]
    /\ strays' = Abandoned(Uuids)
    /\ pending' = Dropped(Uuids)
    /\ UNCHANGED <<counters, files, poisoned, known>>

-----------------------------------------------------------------------------
(* Training a model and asking it: the inputs get their tasks. A training  *)
(* of an unknown model panics with the lock held, and so does every call   *)
(* after it.                                                               *)

Train(u) ==
    /\ models[u] # Nil
    /\ Call("train", u, Nil, TRUE)
    /\ models' = [models EXCEPT ![u].learned = @ + 1]
    /\ pending' = [pending EXCEPT ![u] = @ \cup DOMAIN models[u].inputs]
    /\ UNCHANGED <<counters, files, strays, poisoned, known>>

Request(u) ==
    /\ models[u] # Nil
    /\ Call("request", u, Nil, TRUE)
    /\ pending' = [pending EXCEPT ![u] = @ \cup DOMAIN models[u].inputs]
    /\ UNCHANGED <<models, counters, files, strays, poisoned, known>>

TrainUnknown(u) ==
    /\ models[u] = Nil
    /\ Call("train", u, Nil, FALSE)
    /\ poisoned' = TRUE
    /\ UNCHANGED <<models, counters, files, world, known>>

\* A request on an unknown model is an error that the caller sees.
RequestUnknown(u) ==
    /\ models[u] = Nil
    /\ Call("request", u, Nil, FALSE)
    /\ UNCHANGED <<models, counters, files, world, poisoned, known>>

-----------------------------------------------------------------------------
(* The worker threads. The block s of the model u is connected to another  *)
(* block of the registered model; `own' says whether s is its block s or   *)
(* a block s of a model that was removed.                                  *)

Present(u, s) == models[u] # Nil /\ s \in DOMAIN models[u].inputs \cup DOMAIN models[u].blocks

\* A new block has a new uuid.
FreshBlock(b) ==
    /\ \A u \in Registered : b \notin DOMAIN models[u].blocks
    /\ \A u \in Uuids : b \notin pending[u] \cup strays[u]
    /\ \A p \in Paths : files[p] # Nil => b \notin DOMAIN files[p].saved.blocks

\* A block has two places for sources.
\* (faulty variant: the test is off by one)
HasFreeInput_OneMore(block) == Cardinality(block.own) + Cardinality(block.strays) <= 2
HasFreeInput(block) == Cardinality(block.own) + Cardinality(block.strays) < 2

Fed(block, s, own) == IF own THEN [block EXCEPT !.own = @ \cup {s}]
                             ELSE [block EXCEPT !.strays = @ \cup {s}]

Extended(blocks, b, s, own) ==
    [c \in DOMAIN blocks \cup {b} |->
         IF c = b THEN Fed([own |-> {}, strays |-> {}], s, own) ELSE blocks[c]]

Connect(u, s, own, b) ==
    /\ ~poisoned
    /\ Present(u, s)
    /\ s # b
    /\ \/ /\ b \in DOMAIN models[u].blocks
          /\ HasFreeInput(models[u].blocks[b])
          /\ models' = [models EXCEPT ![u].blocks[b] = Fed(@, s, own)]
       \/ /\ FreshBlock(b)
          /\ models' = [models EXCEPT ![u].blocks = Extended(@, b, s, own)]

\* The blocks a task of the block s may have to leave tasks for: those s sends
\* to, and those it sends back to.
Around(m, s) ==
    LET Of(b) == m.blocks[b].own \cup m.blocks[b].strays
    IN  {b \in DOMAIN m.blocks : s \in Of(b)} \cup UNION {Of(b) : b \in DOMAIN m.blocks \cap {s}}

\* A task connects its sections one after the other, and leaves tasks for other
\* blocks when their inputs, or their deltas, are complete.
WorkOwn(u, s) ==
    /\ s \in pending[u]
    /\ (\E b \in Blocks : Connect(u, s, TRUE, b)) \/ UNCHANGED models
    /\ \E left \in SUBSET ({s} \cup Around(models'[u], s)) :
          pending' = [pending EXCEPT ![u] = (@ \ {s}) \cup left]
    /\ UNCHANGED <<counters, files, strays, poisoned, known, outcome, calls>>

\* So does a task of a block of a removed model, for the registered blocks that it
\* connects itself to.
WorkStray(u, s) ==
    /\ s \in strays[u]
    /\ (\E b \in Blocks : Connect(u, s, FALSE, b)) \/ UNCHANGED models
    /\ \E done \in SUBSET {s} : strays' = [strays EXCEPT ![u] = @ \ done]
    /\ \E left \in SUBSET (IF models'[u] = Nil THEN {} ELSE Around(models'[u], s)) :
          pending' = [pending EXCEPT ![u] = @ \cup left]
    /\ UNCHANGED <<counters, files, poisoned, known, outcome, calls>>

-----------------------------------------------------------------------------
(* Checkpoints. The meta data of the model come first, then its blocks, in *)
(* any order, then the output buffers. What is left of a call that failed  *)
(* is a beginning of that, the last entry possibly in part.                *)

Content(m) == [template |-> m.template, inputs |-> DOMAIN m.inputs, outputs |-> DOMAIN m.outputs,
               blocks |-> m.blocks, learned |-> m.learned]

Whole(c) == [meta |-> TRUE, inputs |-> c.inputs, outputs |-> c.outputs, blocks |-> DOMAIN c.blocks,
             torn |-> FALSE, saved |-> c]

Beginnings(c) ==
    {[meta |-> FALSE, inputs |-> {}, outputs |-> {}, blocks |-> {}, torn |-> t, saved |-> c] :
         t \in BOOLEAN}
    \cup
    {[meta |-> TRUE, inputs |-> i, outputs |-> {}, blocks |-> b, torn |-> t, saved |-> c] :
         i \in SUBSET c.inputs, b \in SUBSET DOMAIN c.blocks, t \in BOOLEAN}
    \cup
    {[meta |-> TRUE, inputs |-> c.inputs, outputs |-> o, blocks |-> DOMAIN c.blocks, torn |-> t,
      saved |-> c] : o \in SUBSET c.outputs, t \in BOOLEAN}

Complete(f) == f = Whole(f.saved)

\* The writer is buffered and flushed when it is dropped, where an error has
\* no one to go to.
CreateCheckpoint(u, p) ==
    /\ IF models[u] = Nil \/ files[p] # Nil
       THEN Call("create", u, p, FALSE) /\ UNCHANGED files
       ELSE \/ /\ Call("create", u, p, TRUE)
               /\ files' = [files EXCEPT ![p] = Whole(Content(models[u]))]
            \/ /\ "write" \in Faults
               /\ Call("create", u, p, FALSE)
               /\ \E f \in Beginnings(Content(models[u])) : files' = [files EXCEPT ![p] = f]
            \/ /\ "flush" \in Faults
               /\ Call("create", u, p, TRUE)
               /\ \E f \in Beginnings(Content(models[u])) : files' = [files EXCEPT ![p] = f]
    /\ UNCHANGED <<models, counters, world, poisoned, known>>

RestoredBlocks(f) == [b \in f.blocks |-> f.saved.blocks[b]]

\* What the entries of a file make. The inputs and outputs come with counters
\* of their own; only a restore that reads all of the file connects them to the
\* counter of the interface.
Rebuilt(f, c, reports, built) ==
    [template  |-> f.saved.template,
     inputs    |-> [n \in f.inputs |-> reports],
     outputs   |-> [n \in f.outputs |-> reports],
     blocks    |-> RestoredBlocks(f),
     learned   |-> f.saved.learned,
     interface |-> c,
     built     |-> built]

\* The counter of the restored model: that of the model of this uuid, which is
\* removed, or a new one.
\* (faulty variant: the counter of the first model)
Inherited_First(u) == 1
Inherited(u) == IF models[u] # Nil THEN models[u].interface ELSE FreshCounter

Counted(f) == [input |-> Cardinality(f.inputs), output |-> Cardinality(f.outputs)]

Unset(u) == IF models[u] # Nil THEN counters[models[u].interface] ELSE [input |-> 0, output |-> 0]

WithCounter(c, numbers) ==
    IF c \in DOMAIN counters THEN [counters EXCEPT ![c] = numbers] ELSE Append(counters, numbers)

\* The end of a file is only noticed where the next entry would begin.
Readable(f) == f.meta /\ ~f.torn

RestoreWhole(u, p) ==
    /\ files[p] # Nil /\ Readable(files[p])
    /\ Call("restore", u, p, TRUE)
    /\ models' = [models EXCEPT ![u] = Rebuilt(files[p], Inherited(u), Inherited(u), TRUE)]
    /\ counters' = WithCounter(Inherited(u), Counted(files[p]))

\* The entries before the torn one stay in the registry.
RestoreTorn(u, p) ==
    /\ files[p] # Nil /\ files[p].meta /\ ~Readable(files[p])
    /\ Call("restore", u, p, FALSE)
    /\ models' = [models EXCEPT ![u] = Rebuilt(files[p], Inherited(u), 0, FALSE)]
    /\ counters' = WithCounter(Inherited(u), Unset(u))

RestoreNothing(u, p) ==
    /\ files[p] # Nil => ~files[p].meta
    /\ Call("restore", u, p, FALSE)
    /\ models' = [models EXCEPT ![u] = Nil]
    /\ UNCHANGED counters

RestoreCheckpoint(u, p) ==
    /\ RestoreWhole(u, p) \/ RestoreTorn(u, p) \/ RestoreNothing(u, p)
    /\ strays' = Abandoned({u})
    /\ pending' = Dropped({u})
    /\ known' = known \cup {u}
    /\ UNCHANGED <<files, poisoned>>

\* The process dies, possibly while it writes a checkpoint, and starts again.
Crash ==
    /\ "crash" \in Faults
    /\ \/ UNCHANGED files
       \/ \E u \in Registered, p \in Paths :
              /\ files[p] = Nil
              /\ \E f \in Beginnings(Content(models[u])) : files' = [files EXCEPT ![p] = f]
    /\ calls < MaxCalls
    /\ calls' = calls + 1
    /\ models' = [u \in Uuids |-> Nil]
    /\ counters' = <<>>
    /\ pending' = [u \in Uuids |-> {}]
    /\ strays' = [u \in Uuids |-> {}]
    /\ poisoned' = FALSE
    /\ outcome' = [call |-> "crash", model |-> Nil, path |-> Nil, ok |-> TRUE]
    /\ UNCHANGED known

-----------------------------------------------------------------------------
Next ==
    \/ \E u \in Uuids :
           \/ \E t \in Templates : InitModel(u, t)
           \/ DeleteModel(u)
           \/ Train(u)
           \/ Request(u)
           \/ TrainUnknown(u)
           \/ RequestUnknown(u)
           \/ \E p \in Paths : CreateCheckpoint(u, p) \/ RestoreCheckpoint(u, p)
           \/ \E s \in Sources : WorkOwn(u, s) \/ WorkStray(u, s)
    \/ NewEngine
    \/ Crash

Spec == Init /\ [][Next]_vars

-----------------------------------------------------------------------------
(* Properties.                                                             *)

\* A block has at most as many sources as it has places for them.
BlockOf == {blk \in [own : SUBSET Sources, strays : SUBSET Sources] :
                Cardinality(blk.own) + Cardinality(blk.strays) <= 2}

\* A registered model.
IsModel(m) ==
    /\ DOMAIN m = {"template", "inputs", "outputs", "blocks", "learned", "interface", "built"}
    /\ m.template \in Templates
    /\ DOMAIN m.inputs \subseteq Names /\ m.inputs \in [DOMAIN m.inputs -> Nat]
    /\ DOMAIN m.outputs \subseteq Names /\ m.outputs \in [DOMAIN m.outputs -> Nat]
    /\ DOMAIN m.blocks \subseteq Blocks /\ m.blocks \in [DOMAIN m.blocks -> BlockOf]
    /\ m.learned \in Nat /\ m.interface \in Nat /\ m.built \in BOOLEAN

\* Type invariant.
TypeOK ==
    /\ DOMAIN models = Uuids /\ \A u \in Registered : IsModel(models[u])
    /\ counters \in Seq([input : Nat, output : Nat])
    /\ DOMAIN files = Paths
    /\ pending \in [Uuids -> SUBSET Sources]
    /\ strays \in [Uuids -> SUBSET Sources]
    /\ poisoned \in BOOLEAN
    /\ Registered \subseteq known /\ known \subseteq Uuids
    /\ calls \in 0 .. MaxCalls

\* A call on a model waits for exactly the reports it will get: its counter
\* knows the number of inputs and of outputs of the model, and all of them
\* report to this counter, whether the model is new or was put together from
\* a checkpoint, with a new counter or the one it had before
\* (init_new_model, restore_checkpoint).
ReportsMatch ==
    \A u \in Registered : models[u].built =>
        LET m == models[u]
        IN  /\ counters[m.interface] = [input  |-> Cardinality(DOMAIN m.inputs),
                                        output |-> Cardinality(DOMAIN m.outputs)]
            /\ \A n \in DOMAIN m.inputs : m.inputs[n] = m.interface
            /\ \A n \in DOMAIN m.outputs : m.outputs[n] = m.interface

\* No two models count on the same counter, through restores under another
\* uuid and over a model that is there, failed ones included.
CountersOwned ==
    \A u \in Registered :
        /\ models[u].interface \in DOMAIN counters
        /\ \A v \in Registered : u # v => models[u].interface # models[v].interface

\* A restore from an invalid file is an error.
InvalidRefused ==
    [][\A u \in Uuids, p \in Paths : RestoreWhole(u, p) => Complete(files[p])]_vars

\* A checkpoint that is reported as written is written.
WrittenComplete ==
    outcome.call = "create" /\ outcome.ok => Complete(files[outcome.path])

\* A restored model is made of its checkpoint alone: no block of it waits for a
\* block of the model it replaced.
CreatedNew ==
    \A u \in Registered : models[u].built =>
        \A b \in DOMAIN models[u].blocks : models[u].blocks[b].strays = {}
=============================================================================
