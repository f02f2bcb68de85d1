# Saki in TLA+

Saki is a Rust library with a Python binding for neural networks that grow while they are trained. A model is a grid of *hexagons*; a hexagon holds *blocks*; a block sends up to three *axon sections* to blocks of other hexagons, which it chooses when it sends a section for the first time. One thread per CPU core takes *tasks* (train, process or backpropagate one block) from a queue. The Python thread starts a pass by queuing a task for every input block and then polls a counter until the outputs (and, for training, the inputs) have reported.

This directory holds specifications of that machinery, configurations that check them with TLC, and proofs checked by TLAPS. Positions such as `block_io.rs:142` refer to the files under `src/core/` of the repository.

## 1. The system

| component | code | state | operations |
|---|---|---|---|
| Block io | `blocks/block_io.rs`, `blocks/axons.rs` | input slots, output sections, two arrival counters, slots in use | `connect_outputs`, `send_forward`, `send_backward`, `send_backward_with_retry` |
| Target search | `blocks/target_search.rs` | none | `connect_to_new_target`, `get_target_hexagon` |
| Core block | `blocks/core_block.rs` | io, synapses, neurons, section counter | `train`, `process`, `backpropagate`, their finalizations, `get_free_input`, resize |
| Input block | `blocks/input_block.rs` | io, links from values to axons | `apply_input`, tasks |
| Output block | `blocks/output_block.rs` | io, weights, reference to its buffer | `connect_output_buffer`, tasks |
| Output buffer | `processing/output_buffer.rs` | neurons, number of connected and of finished blocks, waiting blocks | add up, finalize, backpropagate, conversions |
| Finish counter | `processing/finish_counter.rs` | reports so far and to wait for | `reset`, `update`, `is_finished` |
| Workers | `processing/worker_*.rs` | task queue, threads | `process_task`, `finalize_task` |
| Model interface | `model_interface.rs`, `lib.rs` | reference to the finish counter | `train`, `request`, poll loop |
| Model handler | `model_handler.rs`, `lib.rs` | all models, hexagons, blocks, inputs, outputs | register, look up, delete, checkpoint, restore |
| Template parser, grid | `input_parser/`, `common/functions.rs` | hexagons and their neighbours | parse, connect neighbours, draw target hexagons |
| Python binding | `lib.rs` | none | conversion of arguments |

### How they interact

Everything is shared memory. There is one `RwLock` around the model handler, one mutex per block, and one each for the queue, an output buffer, the finish counter and a model interface.

A worker runs a task in two critical sections on the block (`process_task`): first the *body* (`train`, `process`, `backpropagate`), then, after it let go of the block and took it again, the *finalization*, which sends. Sending forward takes the mutex of each target block, one after the other, and, for a section without target, the handler, all of it with the own mutex held. Sending backward from a core block only *tries* the mutex of the source, lets go of everything if it fails, and tries again 1 ms later, up to 1000 times. An output block sends its gradient back inside the body, and waits.

A block is scheduled for the next task by whoever brings in its last section: `input_buffer_counter` and `output_buffer_counter` count arrivals. An output buffer is finalized by the last of its blocks; the earlier ones wait in `unfinished_blocks` and are put back into the queue. The finish counter gets one report from each output buffer and, when training, one from each input block.

The client thread takes the handler for reading or writing around several of its steps, and inside them takes the mutex of input blocks (`apply_plain_input`) or of all blocks (`create_checkpoint`).

### What is hard about it

* **Lock order.** Block, then other block, in both directions of the network; block, then handler (workers); handler, then block (client).
* **Counting instead of knowing.** Four counters (inputs, outputs, blocks of a buffer, reports) decide when the next thing happens. A connection or a block that comes into being during a pass changes what they must be compared with.
* **Windows.** The block is free between body and finalization; the target is free between the reservation of its slot and the arrival of the section; the handler is free between drawing a block and asking it.
* **Ends that do not end.** A call that fails on an unknown name or times out leaves its tasks in the queue. All tasks of all calls carry cycle number 0.
* **Retries.** A backpropagation that could not reach a source starts over, with done flags to skip what it already sent.

### What makes it correct

| component | correct when |
|---|---|
| Block io | connections are one-to-one and permanent; a pass starts exactly when all its inputs or deltas of this call are in |
| Target search | no slot is given away twice; growth never breaks a running pass |
| Workers | one worker per block at a time, no mutex left behind, no cycle of waiting |
| Output buffer | the result is one activation over the sum of all its blocks, each added once, for this call |
| Finish counter | no report of another call, none too many; complete only when no task is left |
| Model interface | every call returns; what it returned is finished |
| Model handler | a model waits for exactly the reports it will get; a checkpoint restores the same network; a failed restore harms no other model |
| Core block (inside) | the sections of an axon form one chain; what was trained is recalled; widening follows the sections in use |
| Output buffer (types) | what was trained is what a request hands out; sizes of buffer, outputs and weights match; targets and gradients are never mixed up |
| Input links | a value has its own axon and no value leaks into another call |
| Grid | neighbours are mutual; the target hexagons of a flat model never lead back |

## 2. Modules

    BlockIo          OutputBuffers          operators on one block's io, on one buffer
         \               /
          Propagation                       the state machine: client, workers, locks
               |
      PropagationProperties --- Waves       properties of all kinds | the abstract call it refines
         /             \            \
  PropagationMC    PropagationProofs        models for TLC | theorems for all networks
                        |
                   ChainProofs              what a call promises, on separate chains
                        |
                   WaveProofs               the refinement of Waves

    InputLinks                              which axon a value of a call goes to
      /      \
    ..MC   ..Proofs

    HexagonGrid                             from a template to target hexagons
      /      \
    ..MC   ..Proofs

    SynapseGrowth                           inside a core block: chains of synapse sections
      /      \
    ..MC   ..Proofs

    OutputLayer                             one output: types, sizes, targets, gradients
      /      \
    ..MC   ..Proofs

    ModelRegistry                           models, checkpoints, restores, crashes
      /      \
    ..MC   ..Proofs

**BlockIo** is `BlockIoBuffer` as a record: `slots` (input_buffer), `outs` (output_buffer), `inUse`, `inCount`, `outCount`, with one operator per thing the code does to it. The 512 potentials and deltas of a section are replaced by the *number of the call they stem from* (the oldest one, if a value depends on several). That is what the properties ask: did this pass use the inputs of this call?

**OutputBuffers** is `OutputBuffer` as a record. The sum in the output neurons is kept as the sequence of its parts, each with its block and call, and a `Sigmoid` for every pass of the activation function over it. A sum that was squashed twice, lacks a block or has one of the last call is a different sequence.

**Propagation** has one action for what runs between two points where the code may wait. The place of a worker (`pc`) says which of its waits it is at:

| place | code | mutex held |
|---|---|---|
| `idle` | the loop of `WorkerThread::new` | none |
| `body` | before the first lock in `process_task` | none |
| `connect`, `output`, `gradient`, `sendback` | `OutputBlock::train`, `process`, `backpropagate` up to `send_backward` | own |
| `final` | before the lock in `finalize_task` | none |
| `forward` | `send_forward`, next section | own |
| `select`, `create`, `handover` | in `connect_to_new_target`: before the chosen block is locked, before a new one is registered; with the slot taken, before the section is sent | own |
| `release` | in `finalize_task`, with all sections sent, before the own mutex is released | own |
| `return` | `send_backward_with_retry`, next slot | own |
| `count` | before the finish counter is updated | none |

The place of the client (`cpc`) follows `train`, `request` and `create_checkpoint` in the same way (`counter`, `expect` or `reset`, `input`, `apply`, `poll`, `collect`, `save`, `saving`). Mutexes that are only held inside a step (queue, output buffer, finish counter) are not variables. The read and write locks of the handler are: the client holds one at the places `HandlerRead` and `HandlerWrite` name; a worker needs one at `MayRead` or `MayWrite`.

**InputLinks** looks into the one step `ApplyPlainInput` of Propagation, which keeps only the widening of the block: the links from the values of a call to axons (`input_links`, two per value), the next free axon (`fill_position`), the sections and the potentials on them. A training or request is one step, because `apply_input` runs with the mutex of the block held. Numbers are small integers; what the code does with them is compare with 0 and take the magnitude.

**HexagonGrid** is `init_model` of the template parser with `get_neighbor_pos`: axons, neighbours, target lists, inputs, outputs, one phase after the other. It is sequential, but hexagons come in the order of a hash map and walks are random, so the order and the walks are free. A step is one entry of a list, one side of a hexagon, or one hexagon of a walk (one call of the recursive `go_to_next_hexagon`). The path length of a walk is an i32 made from a u32 (`PathLength`): the upper half of the distances is negative, and the lowest number wraps or panics when it is decremented. Coordinates are numbers modulo `Limit`; `Checked` says whether overflow panics (debug build) or wraps. The target lists it computes are what Propagation takes as its constant `Possible`.

**Waves** is the abstract specification of a call: a wave runs from the inputs through the blocks, connects further blocks while it passes, and when the call trains it comes back. There are no threads, tasks, locks or counters. `Abstract` in PropagationProperties instantiates it with the blocks as nodes, the connected sections as successors, and as *passed* the blocks whose sections (or parts of the output) stem from the call, so that `WavesImplemented` says that the threads, in whatever order they run, do no more and no less than this: every block once, none before its predecessors, none back before its successors, and no return before the end.

**SynapseGrowth** looks into the bodies of the three tasks of a core block (`TrainCore`, `ProcessCore`, `BackpropagateCore` of Propagation, which keep the call a potential stems from and the widening). State: the borders of the synapses (`border`, 0 where there is none), the connections with lower bound, source axon, next section and use (`conn`), `section_counter`, the potentials of the input axons, and one neuron with its refractory time. A pass is taken apart into its loop steps, one section (`EnterSection`, `NextSection`, `LeaveSection`) and one synapse (`TrainSynapse`, `PassSynapse`) at a time; `train_section`, `search_free_connection`, `process_section` and `backpropagate_section` are these steps. Borders and potentials are integers. `ratio` and the weights change what reaches the neurons and nothing the model keeps.

**OutputLayer** looks into what Propagation does with `OutputBuffers` and the output blocks: it adds the values. One output of any type, its neurons (value, target, and whether the target has been replaced by a gradient), the sizes of the blocks (`outs`, `rows` for the weights), and what a checkpoint keeps (`SaveAndRestore`: references are dropped, `was_already_connected` and the counters are not). A task of a block is one step per critical section on the buffer: `Connect` links the block (`output_block.rs:134`) and lets go of the buffer, which a call or another block may take before it is sized and adds its sums (`SizeBlock`, `TrainBlock`, `ProcessBlock`). A request ends with one report of the output, and nothing makes it wait for the process tasks of other blocks; those it leaves behind (`stale`) run during later calls. A block that waits in `unfinished_blocks` is a task `waits`. `Spec` is of models whose requests come after a training, which links all blocks; `UntrainedSpec` drops that condition, and `EarlySpec` adds calls that end early: only these two leave tasks behind. Numbers are integers in eighths, ints have `IntBits` neurons instead of 64, floats `FloatBits` instead of 32, their bits being given by the table `BitsOf`; saturation, truncation and the rounding of a large int to a float of `Mantissa` bits are the operations of the code on these widths. A restore to an older checkpoint needs no action of its own: it leads back to a state that was reached before, after which everything that may happen is checked anyway.

**ModelRegistry** is `ModelDataHandler` with the calls of the Python class on it. A call holds the write lock from its first access to its last and is one step, its failure in the middle included: what a template with a repeated name, a file that ends early or an unknown uuid leaves behind is in the next state. Between the calls the workers go on with the tasks of calls that ended early; they hold their blocks, whether or not the registry still knows them (`strays`), and find the others by uuid. A task left from a removed model may be for any block of it, and where it runs its section is delivered to a block around it, the blocks of a restored model included, which may get a task from it in turn (`WorkStray`). Files are the set of entries they hold, whether the last one is torn, and what they were written from; a crash leaves a beginning of a file.

Names starting like a definition and ending in `_...` are *faulty variants*: the definition with a plausible mistake. They are not part of the specification; each shows that a property notices the mistake.

## 3. What is checked

All models of Propagation have one output buffer. Their calls start on a new model (`Wires` is empty) or on one that has grown before: `Wires` is then the list of connections earlier calls left behind, with idle workers and empty counters. That such starts are reached by calls is checked: `grown_start.cfg` claims that they are not, and is refuted. Starting there keeps the windows of growth, in which the promises of calls fail for inputs that share a core (`shared_core.cfg`), apart from what a grown network does. Bounds: `Calls` lists the calls of the client (at most four), `MaxLevel` is the number of sections a core block may grow to (the code stops at 3); a core block with a free input is never widened, since what one input uses stays below 90 percent (`core_block.rs:269-276`, `saturated.cfg`); and the sets of blocks bound the growth of the network (`CreateBlock` waits if a hexagon has used up its blocks; no passing run with liveness gets there). Workers are one or two: two suffice for every window above, as all of them are between a pair of threads, the client being a third.

### Runs that pass

| run | network | calls | what it shows |
|---|---|---|---|
| `join` | two chains into one buffer, 2 workers | train, checkpoint, request, train | The promises of a call, growth in the first one included, and the abstract call of Waves. The buffer is completed by either chain first, the other waits in `unfinished_blocks` or comes late. |
| `grown` | a core block with two inputs, one over another core; 2 workers | train, request, train | The sections of the two sources come in either order, from call to call: the last one schedules the block, and no earlier one; the way back meets locked sources, tries again, and sends nothing twice. |
| `growth` | a core block with two inputs and up to 3 outputs, 1 worker | three trainings | The core block is resized between passes; `outCount` counts a section that has no target yet; a backpropagation waits for every section; the growing network still implements Waves. |
| `race` | two inputs of a new model into one core hexagon with room for two blocks, two outputs, positions without hexagon, widening, 2 workers | a training and a request that name an unknown output, a training that names an unknown input; timeouts; giving up | Tasks of several calls run at once, and two sources contend for the slots of a block. The mutexes, the wiring and the connections hold whatever the calls do. |
| `links` | one input block, sections of 2 axons | up to 3 calls of up to 3 values from -1 to 2 | Links stay apart, inside the sections, and right for numbers above zero. |
| `grid` | all layouts of 3 hexagons in 2 rows of a layer, and in a cube of 8 positions | axons (two from one hexagon, too), missing hexagons, shared positions, distance 0 to 3 and in the upper half of the numbers, two walks per hexagon | Neighbours are mutual, across layers too; targets are near, and lead east in a flat template; parsing ends. |
| `synapses` | one core block, both inputs connected, sections of 2 synapses | 4 passes with potentials that stay in one synapse, fill a section, or overflow a chain | Chains, counter and prefixes hold in every loop step; trained synapses are recalled; bounds lie behind the section before. |
| `registry` | 2 uuids, 2 blocks, 1 path; a template with one input and two outputs | 4 calls, early ends, tasks of removed models, failed writes, lost flushes, crashes | Whatever is restored over whatever: a model waits for exactly its reports, on a counter of its own. |
| `outputs` | one output, 2 blocks, each of the 4 types | 3 calls; lists of one or two values, restores in between | Sizes match, values come back, reports come, gradients are fresh and used, whatever runs between attaching and adding. |

Three calls are enough for `links`: a value can be positive, negative and left out in any order, and a second section is begun after two links. Three hexagons are enough for the grid: a property of neighbours is about two, a detour about three; two walks per hexagon show that one does not disturb the other. `Limit` is 8 instead of 2^32, even like it, so that the parity of rows survives the wrap. In `links` and `grid` the program ends (the calls are bounded, the template is parsed), so deadlock is not checked.

Four passes suffice for `synapses`: a chain is linked in the first, its bound is set in the second, and a third section (with the block widened) works in the third and fourth. Four calls of `registry` are init, train, checkpoint and restore; init, checkpoint and two restores; or a failed write with a crash and a restore. In `outputs` the second block comes before, with or after the first in each call, and the first training may attach one of them or both; two restores and a shrinking list fit into three calls. The three widths of `outputs` differ from the code in size only; the mantissa is shorter than an int in both. The calls of these runs are bounded, so deadlock is not checked.

`race` assumes no fairness and uses the symmetry of the workers; it, and the runs below, may stop because the system may (section 5), so deadlock is not checked there: `NoDeadlockedThreads` is the property that says which stops are wrong, and it is checked where the code keeps it. In `race` two sources and two blocks in the hexagon are the least with which a slot is contended for, taken and unfilled, and with which a free block is overlooked; its first call connects both inputs, its second one names one input only, so that what is left of the first meets it. In `grown` the way of one input is a block longer, so that either section may be the last, and the block scheduled by it meets a source that is still locked.

### Properties

* `TypeOK`: the type invariant.
* `LockDiscipline`: a block is locked by exactly the worker that is inside it.
* `Wiring`: connected sections and slots match one-to-one; nothing points past a buffer.
* `ConnectionsPersist`: no step redirects or drops a connection, although each backpropagation overwrites whole sections.
* `NoDeadlockedThreads`: no set of threads waits only for each other.
* `ScheduledWithAllInputs`: a task is only in the queue when everything it needs is in, and of this call. `grown` has a block with two sources for it.
* `ScheduledWithAllDeltas`: the same for the way back. `growth` has a block with up to three targets for it.
* `LastInputSchedules`: the last input does schedule it.
* `ReturnQuiescent`: when a call returns Ok no task of it is left. A worker that has nothing to do but reset its done flags is allowed: the report overtakes that.
* `ResultExact`: what a request returns is one activation over one part of every attached block, all of this call.
* `TrainComplete`: when train returns Ok, potentials and gradients of this call are everywhere, and all counters are back to zero.
* `NoSurplusReport` (in `promises.cfg`): the finish counter never runs past what the call waits for.
* `WavesImplemented`: the behaviour of all threads together is one of Waves. It fails where the configurations below show why: in a network of which a part is connected late, and after calls that ended early.
* `CallsReturn`: every call returns.
* `LinksDistinct`, `LinksInside`: links lead to axons that were handed out, no two to the same, all inside the sections.
* `PositiveShown`: a number that is not negative is shown as it is on its axon. That this axon stays its own, `PositiveLinksPersist`, is proved only.
* `NeighborsMutual`: a hexagon is on the opposite side of its neighbour. The twelve formulas of `get_neighbor_pos` must be inverse in pairs, in odd and even rows.
* `TargetsEast`: in a layer without axons targets lead east, so target lists close no cycle.
* `WithinDistance`: no target is further away than `max_connection_distance` from where its walk began, where coordinates do not wrap. A hexagon with several axons has its target lists made twice from different places (`update_axons` runs again); while that goes on, the lists of the first time are near the other place.
* `Ends`: parsing ends.
* `Chains`: the sections of an axon form one chain, no two chains meet, sections are handed out from the front.
* `Counted`: `section_counter` is the number of sections in use, and only sections the block has, and an axon owns, are.
* `FilledPrefix`: no gap in a section, every border positive: the assertion of `train_section` (`core_block.rs:422`) holds.
* `Recalled`: deltas, and a request with the potentials of the last training, go through exactly the synapses this training went through, although it linked further sections and the request may widen the block.
* `BoundsBehindPredecessor`: a bound that was set lies behind all the section before can take. That it also lies behind where that section begins is `NoOverlap`, which fails; what a section does before its bound is set is `ContinuesAbove`, which fails, too.
* `ReportsMatch`: the counter of a model is compared with the number of its inputs and outputs, and all of them report to it.
* `CountersOwned`: no two models share a counter.
* `Covered`: no index of an output block runs past the buffer or the weights.
* `Delivered`: a request answers with the value of the last training, as far as the type can hold it, where every neuron ended on the side of its target.
* `Normalized`: plain results are between 0 and 1, so nothing is added after the activation.
* `Reported`: once every task of the output's blocks is done or waits for another block, the output has reported, after restores as well.
* `CoveredFresh`: the gradients of the values a training gives come from its own targets.
* `GradientsUsed`: a block learns from gradients, never from targets, where requests follow a training.

### Fairness

`FairSpec` asks of every worker that it takes a step if it again and again could (strong fairness), the same of the client where it waits for a block, and weak fairness of its other steps. The code justifies it as follows: threads are scheduled by the operating system; the mutexes of the standard library wake a waiting thread; and a worker that holds a block sleeps 1 ms *outside* of it before it takes it again (`finalize_task`), so no waiting thread is starved by retries. No fairness between the branches inside a worker is assumed. For HexagonGrid it is weak fairness of the one thread that parses.

### Runs that end in a violation

Each shows a disagreement between the code and what its documentation or comments say. The counterexample is the point of the run.

| run | property | what happens |
|---|---|---|
| `two_sections` | `NoDeadlockedThreads` | Two workers wait for each other: an output block for its source (`block_io.rs:186`), the source for another output block (`target_search.rs:99`). Needs a core block with two sections, hence with two connected inputs; the run starts from a network in which it has them. |
| `negative_lost` | `EveryValueShown` | A value trained with a positive number gets no axon for negative ones: the lookup (`input_block.rs:168`) is at the positive link only. |
| `cut_file` | `InvalidRefused` | A failed `create_checkpoint` leaves a file that ends between two entries; `restore_checkpoint` takes its end for the end of the model (`model_handler.rs:858`). |

### Further configurations

These are not part of the list of runs, which keeps to a dozen. All but the first three end in a violation in the same way; the module is the MC module of the property's module, for example `tlc -config layers.cfg HexagonGridMC`.

| configuration | property | what happens |
|---|---|---|
| `saturated` | `ChainsCut` | Passes, and says something unwelcome: with only one of its two inputs connected a core block never uses 90 percent of its sections, is never widened, and the sections that continue a chain are never served. |
| `promises` | six of Propagation | Passes. The network of `grown` with the other promises of a call: no circle of waiting, nothing left, exact results and reports, and every call returns. |
| `untrained` | `Covered`, `Normalized` | Passes. Requests to a model that was never trained end with the report of one block while the process tasks of others go on into the next calls: sizes still match and answers stay normalized. |
| `grown_start` | `NeverGrown` | The network that `grown` starts from is what a training on a new model can leave behind; with `Possible <- Merge` and `Cores = {c2}`, so is the one `growth` and `two_sections` start from. |
| `wide_input` | `ScheduledWithAllInputs` | The first section of an input creates the core block and is counted as its only input; the second takes a slot of it and leaves the counter at one. From the next training on the block is scheduled with half its inputs (`block_io.rs:139`). |
| `first_request` | `ReturnQuiescent` | On a model that was never trained the first output block thinks it is the only one. |
| `after_timeout` | `TrainComplete` | Reports of a call that timed out count for the next one, since both have cycle 0. |
| `early_error` | `CallsReturn` | `create_checkpoint` after a failed train: the client holds the handler and waits for a block, the worker in the block waits for the handler (`model_handler.rs:785`). |
| `shared_core` | `LastInputSchedules` | The section that completes the inputs is one that may not schedule, since the block existed (`target_search.rs:103`, `block_io.rs:143-146`), and nobody does. |
| `overlap` | `NoOverlap` | A section hands on its bound counted from its own one (`core_block.rs:471`): the second section of a chain has the bound 16, takes 24, and hands on 24 instead of 40, so the third works on what the second takes. Only sections whose bound was set are asked about. |
| `unbounded` | `ContinuesAbove` | The section that continues another one has no bound yet in the pass after it was linked (`core_block.rs:645`), and works on the whole potential, against `docs/core/core.md:223`. |
| `stale_sign` | `OtherSignSilent` | The axon of the other sign keeps the potential of an earlier call. |
| `layers` | `NoCycles` | Two hexagons on top of each other are targets of each other: walks go up and down. |
| `dead_end` | `TracesToOutput` | Hexagons from which no output can be reached are targets. |
| `border` | `NeverPanics` | A hexagon at coordinate 0 makes a debug build panic, with the handler locked for writing. |
| `refractory` | `RefractoryTimeKept` | The refractory time is halved per pass (`core_block.rs:302`): a time of 4 lasts three passes. |
| `lost_flush` | `WrittenComplete` | The writer is flushed when it is dropped, and an error there is lost: `create_checkpoint` reports a file that is incomplete. |
| `stray` | `CreatedNew` | Tasks of a removed model connect their blocks to those of the restored one (`model_handler.rs:838`), which then waits for blocks no call reaches. |
| `repeated_name` | `ReportsMatch` | A template that names an input or output twice is accepted half built: `init_model` drops the error (`lib.rs:70`), the counter is not set. |
| `short_list` | `AllFresh` | A training with fewer values than an earlier one trains the remaining neurons too, with their old gradients as targets. |
| `stale_process` | `GradientsUsed` | A first request ends with the report of one block. The process task of a second one attaches itself and is counted in the training that follows: it completes the buffer without computing errors (`output_block.rs:265-271`), and a block that trains then learns from the targets. |
| `weights_short` | `Covered` | A backpropagation left from a call that ended early, after the buffer grew, takes more outputs from the buffer than the block has weights for (`output_block.rs:298`). |

## 4. What is proved

`PropagationProofs` proves, for every network, every number of workers, every list of calls and every bound:

* `TypeCorrect`: `Spec => []TypeOK`;
* `MutualExclusion`: `Spec => []LockDiscipline`;
* `Invariance`: `Spec => []IInv`, from which both follow.

**The argument.** Neither invariant is inductive. That a step takes or releases the right mutex depends on the worker's task having a block of the right kind; that the tasks in the queue have blocks (and not `Nil`) depends on the connections the sections hold; that `io[b].outs[sec[w]]` is a section at all depends on nobody shortening the io of a block while a worker walks over it. So `IInv` adds `Shape`: every io is *sound* (it has its type, and connected sections lead to blocks), blocks that send have a section and output blocks a slot, and at each place of a worker its task, its section and its pick are what the code there expects.

The bulk of the proof is `IoKept`: no step takes a slot or a section away from a block, or leaves an unsound io. The first part of the module proves this for each operator of `BlockIo`, from facts about sequences; `IoKeptStep` lifts it to the actions. `LockStep` has one case per kind of move (enter a block, stay, leave, stay outside), `ShapeStep` and `TypeStep` one per variable.

On top of `IInv` the module proves what the network promises while it grows:

* `WiringCorrect`: `Spec => []Wiring`;
* `ConnectionsKept`: `Spec => ConnectionsPersist`;
* `GrowInvariance`: `Spec => []GrowInv`, from which both follow.

`GrowInv` adds `Growing`: a worker about to connect a section (`select`, `create`) stands before one that is not connected, in a block only it can be in, and what a `select` worker picked is registered; inputs are registered from the start, a block not yet registered has no slot in use, and every core has a slot. Every step is then of one of four kinds: it leaves all links alone (`QuietBlock`, `SendBackQuiet`), it takes a slot and links a section to it (`Attach`), it tells a slot its source (`SendForward`), or it widens a block by sections without target. `SendBackQuiet` is where it gets interesting: a backpropagation overwrites a whole section with what the slot remembers of it, and only `Wiring` itself says that this is what the section says already.

**The assumptions** are those of `Propagation`: the connections to start from are such as calls leave behind (`WireAssumption`: along possible targets, one section per slot, slots from the first one on); the kinds of blocks are disjoint, every block has a hexagon and every output block a buffer, `Nil`, `Client` and `Unknown` are distinguishable from the rest, and calls name known or unknown names. `TLC` evaluates them in every run.

`InputLinksProofs` proves `TypeOK`, `LinksDistinct`, `LinksInside`, `PositiveShown` and `PositiveLinksPersist` for every block dimension, set of numbers and number of values and calls. They are inductive together (`IInv` there); the work is in the lemmas: `NextAxon` hands out different axons above `fill_position` (a fact about the cardinality of initial segments), `Widened` covers them, and `Applied` writes each axon at most once because the links are distinct.

`HexagonGridProofs` proves `TypeOK`, `NeighborsMutual`, `TargetsEast` and `WithinDistance` for every set of templates and every even width of the coordinates above 2. `NeighborsMutual` alone is not inductive: a step of `connect_hexagon` could overwrite a neighbour that does not belong there. `Exact` adds that every neighbour is where its side points; the lemma `Opposite` shows that the opposite side leads back, in odd and even rows and where coordinates wrap. `TargetsEast` needs `WalksEast`, that a walk under way is at its source or east of it, and `ForwardIsEast`, that a forward side within a layer leads to a larger `2x + y % 2`. That targets lead to larger numbers is why they close no cycle in a flat model. `WithinDistance` needs `NearInv`: a walk under way has gone no further from its base than the steps it has used, and a base does not move while there are target lists made from it. It is proved for templates that stay away from the end of the coordinates (`Inland`), where a neighbour is one away; over the border the distance means nothing. The path length a walk starts with is no more than the given distance, for both signs of it: a negative one ends the walk where it starts.

`SynapseGrowthProofs` proves `TypeOK`, `Chains`, `Counted`, `FilledPrefix`, `BoundsBehindPredecessor` and `Recalled` for every block dimension, every borders of fresh synapses and every set of potentials. The first four are inductive only together and with `InWalk`, which says where a pass is: inside a section it is one that is allocated and that the block has, and for a training one that is in use. `Chains` needs its part about handing out from the front (the section `search_free_connection` finds is behind all others, hence behind the one that links it) and that free connections are untouched. `Counted` is a fact about cardinality at the one step that marks a section. `FilledPrefix` needs that a walk comes to a synapse only over the ones before it.

The other two are about sums. What the synapses of a section take from a potential is a recursive function, `Taken`; the facts about it (it grows, it is the same where the borders are) are proved by induction. `MInv` then says what the potential of a pass is at each synapse (`Walking`), that the synapses it went through are the ones that `Goes`, a definition from the borders alone, says (`Walked`), that a section in use was marked (`Marked`), and that the borders a training leaves behind lead through the same synapses again (`Memory`), which is the point: the training adapts the last border and links further sections, and the next pass, which adapts nothing, must end at the same place. `Recalled` follows from `Memory` and `Walked`, `BoundsBehindPredecessor` from its own part, `Bounds`.

`OutputLayerProofs` proves all seven properties of `outputs` for any output blocks, widths of ints and floats, sets of numbers and lists. They are about models whose requests follow a training (`Spec`). The counters of the buffer are cardinalities: `connected` that of the blocks that were ever attached, `local` that of the blocks that are done (`Training`, `Requesting`). In a training the waiting blocks are fewer than the attached ones, so somebody is left who completes the output, and nobody can before every block of the last training has been counted. When a request begins all blocks are attached, so the one that reports has counted all others: a request that ends has left no process task (`Numbered`: `stale` is nothing everywhere), and what completes the output of a training is a block that trains and computes the errors. `OnlyGradients` rests on this. It is false for models that were never trained, where the first block reports alone (`stale_process`). `Reported` assumes that there is an output block. `Covered` holds because a block takes the length of the buffer at the start of its training and the buffer grows only between calls. `ReadInv` adds what the neurons hold: `Delivered` needs that the answer to the last request is still what the neurons say. The rest is arithmetic. `PackedBits`: packing the bits of a number of any width gives the number (halving from the top, by induction over the neurons). `ExactFloat` and `LargestFloat`: a number that was an `f32` before it was cut to an integer is a multiple of the unit in the last place, so the conversion back is exact; `2^IntBits - 1`, to which larger ones saturate, is half a unit below the next power of two or nearer to it and rounds up. `FloatAssumption` says what of floats this needs: an int is wider than a mantissa, and a number has `Mantissa` bits from its lowest one on.

`ModelRegistryProofs` proves the three properties of `registry`, for any uuids, blocks, paths, templates and number of calls. Files are as well formed as models (`ModelsInv`, `FilesInv`), since they are written from one or are a beginning of one; every counter has one owner and is made with a fresh number, so that a restore over a model never leaves two; and tasks are left only for models that there are (`Attended`; what goes on of removed ones is among the `strays`, which add no name and no counter). `ReportsMatch` assumes `DistinctNames`: no template names an input or an output twice. The `repeated_name` configuration shows that it is false otherwise.

`ChainProofs` proves what a call promises, for *separate chains*: any number of inputs, each with a chain of core blocks of any length to an output block, any number of output blocks and buffers, any number of workers, and any list of calls (`SeparateChains` in PropagationProperties). Under this condition it proves

* `NoEarlyBackward`: `ScheduledWithAllDeltas`;
* `NothingLeft`, `CompleteTraining`, `ExactResult`: `ReturnQuiescent`, `TrainComplete` and `ResultExact`;
* `EachReportOnce`: `NoSurplusReport`;
* `NoDeadlock`: `NoDeadlockedThreads`.

**The condition** is one on constants. The calls start on a new model (`Wires` is empty). The blocks of a core hexagon are possible targets of one block only; the hexagons of a chain have an order; every block keeps one section (`MaxLevel` and `Width` of 1); no call times out, no backpropagation gives up; trainings and requests name all inputs, trainings all outputs, requests known ones, and a request comes after a training. The `ASSUME` in PropagationMC lets TLC see that `join` fulfils it. On separate chains a core block has one source, so nothing is claimed there about the order of several arrivals: `ScheduledWithAllInputs` and `LastInputSchedules` are checked in `grown` and not proved. The condition is not an artefact of the proof: `shared_core`, `two_sections`, `wide_input`, `after_timeout`, `early_error` and `first_request` leave out one part each, and a promise fails. Many outputs may meet in one buffer, and the network grows, in the first training and under several workers, inside of the condition.

**The argument.** On a chain the work of a call is one task at a time that moves from block to block, to the output and back. `ChainInv` says so. It looks at the state as the wave of the call does: `to` and `from` are the links of a block, `reached` the blocks whose input of this call is in, `fresh` those whose potentials are ready, `paid` those with a gradient for their source, `back` those a gradient has come back to, `counted` and `complete` what the output buffers have. Its parts are

* `Edges`: what the wave has done to the block at one end of a link follows from what it has done to the other;
* `Working`, `OneTask`, `Cycles`: every task, in the queue or at a place of a worker, finds its block as far as it should be (`Ahead` on the way out, `Home` on the way back, `AtOutput` at an output block), and no block has two;
* `Rooted`, `Looking`, `Bounded`: links go along the possible targets, a worker that looks for a target looks where it may, no value is of a later call;
* `Parking`, `Attaching`, `Training`, `Requesting`: the blocks that wait at a buffer have added their part, `connected` counts the attached blocks, `local` those whose part is in, a buffer is complete when these are the same;
* `Reporting`: the finish counter is at most the number of inputs and buffers that are done and have no worker on its way to report them;
* `Client1`, `Promises`: where the client is, and that outside of a pass nothing is at work (`Quiescent`); a model that was trained is `Grown`.

None of these is inductive alone. That a block is not scheduled twice needs `OneTask`; that a task still finds its block as it should after a step of another worker needs that the other worker is on another chain, hence `Rooted` and the condition; that the last report comes last needs `Reporting`, a fact about cardinalities; that it leaves no task needs `Edges`, all the way from the inputs down the chain (`AllBack`, by the least number of an order of the blocks). `NoDeadlock` goes through the places of a thread that could be part of a circle (`NoCircle`). The client only waits for an input that nobody works on before it is applied, or saves while nobody works at all. Who waits for the handler therefore waits for a client that goes on. Nobody waits for the own block, since nobody else has a task of it (`OneTask`). A worker on its way out waits for the next block of its chain, which has no worker before the wave has come to it. An output block that sends back waits for its source, whose worker would have to be on its way out before an output that was reached already. An output block that a worker chose is held by one that waits for nothing, or sends back. A worker on its way back from a core block lets go instead of waiting.

`WaveProofs` proves the refinement, `WavesRefined`: `SeparateChains => (Spec => WavesImplemented)`. `AbstractViews` shows that what Waves sees of the state (`Forwarded`, `CameBack`, `Successors`) is `passed`, `returned` and `Links` of a chain. `WaveInv` adds to `ChainInv` how the two directions of the wave meet: blocks a gradient came back to were paid for, output blocks with a task on the way back have added their part (`Added`), and at the end the wave has ended (`Ended`). Then every step is one of Waves or none (`Refined`): applied inputs, the forward pass of a core block and a part added to a buffer are a `Forward`; the backpropagation of a block, and a gradient that comes back to an input, a `Backward`; the registration of a new block is a `Connect`; the begin and the return of a call are a `Begin` and an `End`. Waves does not see the other steps. An existing block that a worker finds at its target has no free input on a chain, so choosing one connects nothing.

`WaveOrder` proves `Ordered` for Waves: the guards of `Connect` are what keeps the order while the network grows. Together with the refinement it says this of the threads (`ThreadsInOrder`).

**Induction.** What a recursive function computes for every argument is proved here without the induction theorems of the library that take an operator: `LeastNumber` derives from its theorem on well-founded relations that a set of numbers has a least element, hence that a set that holds 0 and with each number the next one holds all of them (`InductionUpTo`). `OutputLayerProofs` proves division and the powers of two from it (`PowerStep` from the number of subsets of a finite set).

**Only model-checked** are `CallsReturn` and `Ends`, which are liveness and out of reach of the prover, and what depends on several arrivals at a block: `ScheduledWithAllInputs` and `LastInputSchedules`. Outside of separate chains the promises of a call are model-checked only, in `grown`, `growth`, `promises.cfg` and the networks that break them: there is no proof for all networks since they do not hold in all.

## 5. What is left out

* The weights and the values they produce. A pass of a core block in Propagation writes all its output potentials (`refractory_time` of 1, the default; with a longer one some axons keep an older potential, which SynapseGrowth follows for one neuron). `ratio` (`core_block.rs:446`) has no effect, as it only counts where it is 1. The second neuron of a synapse, `target_neuron_id + 1` modulo the number of neurons, changes when a block is widened.
* Passes of a block that do not follow the calls: in SynapseGrowth deltas come back on the potentials of the last training, although a call that ended early may let a pass of the next one in between. In OutputLayer every call reaches every output block; early ends are in `weights_short` only.
* `delete_block`, which only a test calls. In Propagation there is one model, created before the first call; several models, and deleting and restoring them, are in ModelRegistry, without the passes.
* The encoding of a checkpoint entry, and damage inside of one: a file is cut, not changed. A checkpoint is one step of ModelRegistry: `create_checkpoint` saves the blocks one after the other (`model_handler.rs:784`), and tasks left of a call that ended early may connect and send meanwhile, so that the file of the code may hold a state the model was never in. Propagation has these steps, but not the file.
* In OutputLayer a training names the output. One that does not finds it finalized by the training before, and no report comes.
* Errors that end a task early inside a worker: they need a missing model or hexagon, which a model that is never deleted does not have.
* A panic of a worker, which poisons the mutexes it holds.
* A slot is identified by its position, a reference to a block by the block.
* The grammar of templates and the reading of numbers from their text; `pcg_hash`.
* Values of a call arrive in one slice: every call site of `apply_plain_input` gives the whole input with offset 0.
* A section whose hexagon position is empty stays unconnected and is tried again on the next pass (`SelectTarget`); since `send_backward` counts sections that were never sent, a block with one waits for ever. `race` contains such positions and asks for no liveness. `dead_end.cfg` shows that the parser accepts templates in which a hexagon leads nowhere.

## 6. Plan

Done: every module's types and main invariants are proved, and on separate chains the promises of a call and the refinement of the abstract one. Next:

1. *Proofs*: the promises of a call for networks in which chains meet at a core block, those that have grown before (`grown`): `ScheduledWithAllInputs` and `LastInputSchedules` first. While such a network grows `shared_core` refutes them. The invariant then needs a task per section instead of one per chain.
2. *Dead ends*: a run of Propagation with positions without hexagon that asks whether calls return.
3. *Late connections*: a weaker abstract call that allows a connection to a block the wave has passed, for the networks in which `WavesImplemented` fails.
