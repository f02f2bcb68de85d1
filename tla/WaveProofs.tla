----------------------------- MODULE WaveProofs -----------------------------
(***************************************************************************)
(* The threads at work on a network of separate chains implement Waves.    *)
(***************************************************************************)
EXTENDS ChainProofs

\* The blocks the wave of this call has passed, there and back.
passed   == fresh \cup counted
returned == (Inputs \cap back) \cup paid

\* A block was passed after it was reached; the gradient comes back from a block
\* that has it, and an output block has it after it added its part.
Passing ==
    /\ fresh \subseteq reached /\ paid \subseteq reached
    /\ \A a \in back : to[a] \in paid
    /\ paid \cap Cores \subseteq back
    /\ paid \cap Outputs \subseteq counted

\* An output block that waits, or has a task on the way back, has added its part.
Added ==
    /\ \A b \in parked : b \in counted
    /\ \A k \in DOMAIN queue : ~Forwards(queue[k]) /\ queue[k].block \in Outputs =>
          queue[k].block \in counted
    /\ \A w \in Workers : /\ pc[w] # "idle" /\ task[w].block \in Outputs
                          /\ ~Forwards(task[w]) \/ pc[w] \in {"gradient", "sendback"}
                          => task[w].block \in counted

\* No part in a buffer is of a later call, none of the call that begins; while
\* the values are handed out the wave of the request has come to the end.
Ended == Inputs \subseteq fresh /\ \A a \in fresh : to[a] \in passed
Parts ==
    /\ \A o \in Buffers : \A e \in Range(buffer[o].value) : e.data <= call
    /\ cpc \in {"counter", "expect", "reset"} => counted = {}
    /\ cpc = "collect" => Ended

\* The invariant the refinement needs.
WaveInv == ChainInv /\ Passing /\ Added /\ Parts

-----------------------------------------------------------------------------
(* The state of Waves.                                                     *)

\* The links, as Waves has them.
Links == [b \in Blocks |-> IF b \in Senders /\ to[b] # Nil THEN {to[b]} ELSE {}]

\* What Waves sees of the state of a chain.
LEMMA AbstractViews ==
    ASSUME ChainInv
    PROVE  Forwarded = passed /\ CameBack = returned /\ Successors = Links
<1>1. Base /\ Edges /\ Bounded
  BY DEF ChainInv
<1>2. /\ Senders \subseteq Blocks /\ Receivers \subseteq Blocks
      /\ Blocks = Inputs \cup Receivers /\ Blocks = Senders \cup Outputs
      /\ \A a \in Senders : DOMAIN io[a].outs = {1}
      /\ \A b \in Outputs : DOMAIN io[b].outs = {}
  BY <1>1, Ends
<1>3. /\ \A a \in Senders : (to[a] # Nil => io[a].outs[1].tgt = to[a])
                            /\ (Connected(io[a].outs[1]) <=> to[a] # Nil)
  BY <1>1, Views
<1>4. /\ \A a \in Senders : SectionsOf(a) = IF to[a] # Nil THEN {1} ELSE {}
      /\ \A b \in Outputs : SectionsOf(b) = {}
  BY <1>2, <1>3 DEF SectionsOf
<1>5. Forwarded = passed
  <2>1. \A b \in Outputs : b \in Forwarded <=> b \in counted
    BY <1>2 DEF Forwarded, HasPassed, counted
  <2>2. \A b \in Senders : b \in Forwarded <=> b \in fresh
    BY <1>2, BlockAssumption DEF Forwarded, HasPassed, fresh, age, Senders
  <2>3. Forwarded \subseteq Blocks /\ fresh \subseteq Senders /\ counted \subseteq Outputs
    BY DEF Forwarded, fresh, counted
  <2>4. Senders \cap Outputs = {}
    BY BlockAssumption DEF Senders
  <2> QED BY <1>2, <2>1, <2>2, <2>3, <2>4 DEF passed
<1>6. CameBack = returned
  <2>1. \A b \in Inputs : b \in CameBack <=> b \in back
    <3> SUFFICES ASSUME NEW b \in Inputs PROVE b \in CameBack <=> b \in back
      OBVIOUS
    <3>1. b \in Senders /\ b \in Blocks
      BY <1>2 DEF Senders
    <3>2. b \in CameBack <=> call > 0 /\ to[b] # Nil /\ io[b].outs[1].delta = call
      BY <1>4, <3>1 DEF CameBack, HasReturned
    <3>3. b \in back <=> call > 0 /\ io[b].outs[1].delta = call
      BY <3>1 DEF back, grad
    <3>4. b \in back => to[b] # Nil
      BY <1>1, <3>1 DEF Edges
    <3> QED BY <3>2, <3>3, <3>4
  <2>2. \A b \in Receivers : b \in CameBack <=> b \in paid
    BY <1>2, BlockAssumption DEF CameBack, HasReturned, paid, gave, Receivers
  <2>3. CameBack \subseteq Blocks /\ paid \subseteq Receivers
    BY DEF CameBack, paid
  <2>4. Inputs \cap Receivers = {}
    BY BlockAssumption DEF Receivers
  <2> QED BY <1>2, <2>1, <2>2, <2>3, <2>4 DEF returned
<1>7. Successors = Links
  <2>1. ASSUME NEW b \in Blocks
        PROVE  {io[b].outs[j].tgt : j \in SectionsOf(b)}
                  = IF b \in Senders /\ to[b] # Nil THEN {to[b]} ELSE {}
    <3>1. CASE b \in Senders /\ to[b] # Nil
      <4>1. SectionsOf(b) = {1} /\ io[b].outs[1].tgt = to[b]
        BY <1>3, <1>4, <3>1
      <4> QED BY <3>1, <4>1
    <3>2. CASE ~(b \in Senders /\ to[b] # Nil)
      <4>1. SectionsOf(b) = {}
        BY <1>2, <1>4, <3>2
      <4> QED BY <3>2, <4>1
    <3> QED BY <3>1, <3>2
  <2> QED BY <2>1 DEF Successors, Links
<1> QED BY <1>5, <1>6, <1>7

\* The same in the next state.
LEMMA NextAbstractViews ==
    ASSUME ChainInv'
    PROVE  Forwarded' = passed' /\ CameBack' = returned' /\ Successors' = Links'
<1>1. (ChainInv => Forwarded = passed /\ CameBack = returned /\ Successors = Links)'
  BY AbstractViews, PTL
<1> QED BY <1>1

\* A step of Waves, or one it does not see.
WaveStep == [Abstract!Next]_(Abstract!vars)

\* A step Waves does not see.
LEMMA StillWave ==
    ASSUME ChainInv, ChainInv', UNCHANGED <<AtWork, passed, returned, to>>
    PROVE  WaveStep
<1>1. Links' = Links
  BY DEF Links
<1>2. UNCHANGED <<AtWork, Forwarded, CameBack, Successors>>
  BY <1>1, AbstractViews, NextAbstractViews
<1> QED BY <1>2 DEF WaveStep, Abstract!vars

\* The wave passes a block that was reached.
LEMMA ForwardStep ==
    ASSUME ChainInv, ChainInv', NEW b \in Blocks, AtWork \in {"train", "request"},
           UNCHANGED <<AtWork, returned, to>>, passed' = passed \cup {b},
           b \in reached \/ b \in Inputs
    PROVE  WaveStep
<1>1. CASE b \in passed
  <2>1. passed' = passed
    BY <1>1
  <2> QED BY <2>1, StillWave
<1>2. CASE b \notin passed
  <2>1. Links' = Links
    BY DEF Links
  <2>2. /\ UNCHANGED <<AtWork, CameBack, Successors>> /\ Forwarded' = Forwarded \cup {b}
        /\ b \notin Forwarded
    BY <1>2, <2>1, AbstractViews, NextAbstractViews
  <2>3. b \in Inputs \/ (Abstract!Pred(b) # {} /\ Abstract!Pred(b) \subseteq Forwarded)
    <3> SUFFICES ASSUME b \notin Inputs
                 PROVE  Abstract!Pred(b) # {} /\ Abstract!Pred(b) \subseteq Forwarded
      OBVIOUS
    <3>1. Abstract!Pred(b) = {a \in Blocks : b \in Successors[a]}
      BY DEF Abstract!Pred
    <3>2. \A a \in Blocks : b \in Successors[a] <=> a \in Senders /\ to[a] # Nil /\ to[a] = b
      BY AbstractViews DEF Links
    <3>3. b \in Receivers /\ b \in reached /\ b # Nil
      BY NameAssumption DEF Receivers, Blocks
    <3>4. from[b] \in Senders /\ to[from[b]] = b
      BY <3>3, SourceOf
    <3>5. Edges /\ Senders \subseteq Blocks
      BY DEF ChainInv, Senders, Blocks
    <3>6. \A a \in Senders : to[a] = b => a \in fresh
      BY <3>3, <3>5 DEF Edges
    <3> QED BY <3>1, <3>2, <3>3, <3>4, <3>5, <3>6, AbstractViews DEF passed
  <2>4. Abstract!Forward(b)
    BY <2>2, <2>3 DEF Abstract!Forward
  <2> QED BY <2>4 DEF WaveStep, Abstract!Next
<1> QED BY <1>1, <1>2

\* It comes back to a block it has passed, after what the block sends to.
LEMMA BackwardStep ==
    ASSUME ChainInv, ChainInv', NEW b \in Blocks, AtWork = "train", b \in passed,
           b \in Senders => to[b] \in returned,
           UNCHANGED <<AtWork, passed, to>>, returned' = returned \cup {b}
    PROVE  WaveStep
<1>1. CASE b \in returned
  <2>1. returned' = returned
    BY <1>1
  <2> QED BY <2>1, StillWave
<1>2. CASE b \notin returned
  <2>1. Links' = Links
    BY DEF Links
  <2>2. /\ UNCHANGED <<AtWork, Forwarded, Successors>> /\ CameBack' = CameBack \cup {b}
        /\ b \notin CameBack /\ b \in Forwarded
    BY <1>2, <2>1, AbstractViews, NextAbstractViews
  <2>3. Successors[b] \subseteq CameBack
    BY AbstractViews DEF Links
  <2>4. Abstract!Backward(b)
    BY <2>2, <2>3 DEF Abstract!Backward
  <2> QED BY <2>4 DEF WaveStep, Abstract!Next
<1> QED BY <1>1, <1>2

\* A block the wave has passed is connected to one it has not come to.
LEMMA ConnectStep ==
    ASSUME ChainInv, ChainInv', NEW a \in Senders, NEW b \in Receivers, a \in passed, a \notin returned,
           b \notin passed, to[a] = Nil, to' = [to EXCEPT ![a] = b],
           UNCHANGED <<AtWork, passed, returned>>
    PROVE  WaveStep
<1>1. a \in Blocks /\ b \in Blocks /\ b \notin Inputs /\ b # Nil
  BY BlockAssumption, NameAssumption DEF Senders, Receivers, Blocks
<1>2. to \in [Senders -> Receivers \cup {Nil}]
  BY Views DEF ChainInv
<1>3. Links' = [Links EXCEPT ![a] = Links[a] \cup {b}]
  <2>1. Links[a] = {}
    BY <1>1 DEF Links
  <2>2. \A c \in Blocks : Links'[c] = IF c = a THEN {b} ELSE Links[c]
    BY <1>1, <1>2 DEF Links
  <2> QED BY <1>1, <2>1, <2>2 DEF Links
<1>4. /\ UNCHANGED <<AtWork, Forwarded, CameBack>>
      /\ Successors' = [Successors EXCEPT ![a] = Successors[a] \cup {b}]
      /\ a \in Forwarded \ CameBack /\ b \notin Forwarded \cup Inputs
  BY <1>1, <1>3, AbstractViews, NextAbstractViews
<1>5. Abstract!Connect(a, b)
  BY <1>4 DEF Abstract!Connect
<1> QED BY <1>1, <1>5 DEF WaveStep, Abstract!Next
-----------------------------------------------------------------------------
(* The steps of a worker.                                                  *)

\* What every step does.
Refined == Passing' /\ Added' /\ Parts' /\ WaveStep

\* The tasks for output blocks that added their part, after more were queued.
LEMMA QueueAdded ==
    ASSUME Base, Added, NEW ts \in Seq(TaskType), queue' = queue \o ts, counted \subseteq counted',
           \A k \in DOMAIN ts : ~Forwards(ts[k]) /\ ts[k].block \in Outputs => ts[k].block \in counted'
    PROVE  \A k \in DOMAIN queue' : ~Forwards(queue'[k]) /\ queue'[k].block \in Outputs =>
              queue'[k].block \in counted'
<1> DEFINE q == queue \o ts
<1>1. \A k \in DOMAIN q :
          \/ k \in DOMAIN queue /\ q[k] = queue[k]
          \/ k \notin DOMAIN queue /\ k - Len(queue) \in DOMAIN ts /\ q[k] = ts[k - Len(queue)]
  BY Joined DEF Base, TypeOK
<1> HIDE DEF q
<1>2. queue' = q
  BY DEF q
<1> SUFFICES ASSUME NEW k \in DOMAIN q, ~Forwards(q[k]), q[k].block \in Outputs
             PROVE  q[k].block \in counted'
  BY <1>2
<1>3. CASE k \in DOMAIN queue /\ q[k] = queue[k]
  BY <1>3 DEF Added
<1>4. CASE k \notin DOMAIN queue /\ k - Len(queue) \in DOMAIN ts /\ q[k] = ts[k - Len(queue)]
  BY <1>4
<1> QED BY <1>1, <1>3, <1>4

\* What is said of the tasks in the next state.
LEMMA NextAdded ==
    ASSUME \A b \in parked' : b \in counted',
           \A k \in DOMAIN queue' : ~Forwards(queue'[k]) /\ queue'[k].block \in Outputs =>
              queue'[k].block \in counted',
           \A v \in Workers : /\ pc'[v] # "idle" /\ task'[v].block \in Outputs
                              /\ ~Forwards(task'[v]) \/ pc'[v] \in {"gradient", "sendback"}
                              => task'[v].block \in counted'
    PROVE  Added'
<1>1. \A v \in Workers : Forwards(task[v])' = Forwards(task'[v])
  BY DEF Forwards
<1>2. \A k \in DOMAIN queue' : Forwards(queue[k])' = Forwards(queue'[k])
  BY DEF Forwards
<1> QED BY <1>1, <1>2 DEF Added, Forwards

\* The output blocks that added their part, after a worker went on.
LEMMA AddedKept ==
    ASSUME Base, Added, NEW w \in Workers, NEW ts \in Seq(TaskType), queue' = queue \o ts,
           counted \subseteq counted', \A b \in parked' : b \in counted',
           \A v \in Workers : v # w => pc'[v] = pc[v] /\ task'[v] = task[v],
           \A k \in DOMAIN ts : ~Forwards(ts[k]) /\ ts[k].block \in Outputs => ts[k].block \in counted',
           \/ pc'[w] = "idle"
           \/ ~(~Forwards(task'[w]) \/ pc'[w] \in {"gradient", "sendback"})
           \/ task'[w].block \in Outputs => task'[w].block \in counted'
    PROVE  Added'
<1>1. \A k \in DOMAIN queue' : ~Forwards(queue'[k]) /\ queue'[k].block \in Outputs =>
          queue'[k].block \in counted'
  BY QueueAdded
<1>2. ASSUME NEW v \in Workers, pc'[v] # "idle", task'[v].block \in Outputs,
             ~Forwards(task'[v]) \/ pc'[v] \in {"gradient", "sendback"}
      PROVE  task'[v].block \in counted'
  <2>1. CASE v = w
    BY <1>2, <2>1
  <2>2. CASE v # w
    BY <1>2, <2>2 DEF Added
  <2> QED BY <2>1, <2>2
<1>3. \A v \in Workers : /\ pc'[v] # "idle" /\ task'[v].block \in Outputs
                         /\ ~Forwards(task'[v]) \/ pc'[v] \in {"gradient", "sendback"}
                         => task'[v].block \in counted'
  BY <1>2
<1> QED BY <1>1, <1>3, NextAdded

\* The same when it queues nothing.
LEMMA AddedQuiet ==
    ASSUME Base, Added, NEW w \in Workers, queue' = queue,
           counted \subseteq counted', \A b \in parked' : b \in counted',
           \A v \in Workers : v # w => pc'[v] = pc[v] /\ task'[v] = task[v],
           \/ pc'[w] = "idle"
           \/ /\ task'[w] = task[w] /\ pc[w] # "idle"
              /\ pc'[w] \in {"gradient", "sendback"} =>
                    pc[w] \in {"gradient", "sendback"} \/ ~Forwards(task[w])
    PROVE  Added'
<1>1. <<>> \in Seq(TaskType) /\ queue' = queue \o <<>> /\ DOMAIN <<>> = {}
  BY DEF Base, TypeOK
<1>2. \/ pc'[w] = "idle"
      \/ ~(~Forwards(task'[w]) \/ pc'[w] \in {"gradient", "sendback"})
      \/ task'[w].block \in Outputs => task'[w].block \in counted'
  <2>1. CASE pc'[w] = "idle"
    BY <2>1
  <2>2. CASE /\ task'[w] = task[w] /\ pc[w] # "idle"
             /\ pc'[w] \in {"gradient", "sendback"} =>
                   pc[w] \in {"gradient", "sendback"} \/ ~Forwards(task[w])
    BY <2>2 DEF Added
  <2> QED BY <2>1, <2>2
<1> QED BY <1>1, <1>2, AddedKept

\* A part added to a buffer is of this call, and the client stays where it is.
LEMMA PartsKept ==
    ASSUME ChainInv, Parts, NEW w \in Workers, WorkerStep(w),
           \A o \in Buffers : \A e \in Range(buffer'[o].value) :
              e \in Range(buffer[o].value) \/ e.data <= call,
           Running \/ UNCHANGED <<counted, fresh, to>>
    PROVE  Parts'
<1>1. UNCHANGED <<call, cpc>>
  <2>1. UNCHANGED clientVars
    BY WorkerFrame DEF ChainInv
  <2> QED BY <2>1 DEF clientVars
<1>2. \A o \in Buffers : \A e \in Range(buffer'[o].value) : e.data <= call
  BY DEF Parts
<1>3. cpc \in {"counter", "expect", "reset"} => counted' = {}
  BY DEF Parts, Running
<1>4. cpc = "collect" => Ended'
  BY DEF Parts, Running, Ended, passed
<1> QED BY <1>1, <1>2, <1>3, <1>4 DEF Parts

\* A step no block is passed by.
LEMMA QuietRefined ==
    ASSUME WaveInv, ChainInv', NEW w \in Workers, WorkerStep(w), Added',
           UNCHANGED <<to, fresh, back, paid, reached, counted>>,
           \A o \in Buffers : buffer'[o].value = buffer[o].value
    PROVE  Refined
<1>1. ChainInv /\ Passing /\ Parts
  BY DEF WaveInv
<1>2. UNCHANGED AtWork
  <2>1. UNCHANGED clientVars
    BY <1>1, WorkerFrame DEF ChainInv
  <2> QED BY <2>1 DEF clientVars, AtWork
<1>3. UNCHANGED <<passed, returned>>
  BY DEF passed, returned
<1>4. WaveStep
  BY <1>1, <1>2, <1>3, StillWave
<1>5. Passing'
  BY <1>1 DEF Passing
<1>6. Parts'
  BY <1>1, PartsKept
<1> QED BY <1>4, <1>5, <1>6 DEF Refined

\* Steps that change neither the network nor a buffer.
LEMMA IdleRefined ==
    ASSUME SeparateChains, WaveInv, ChainInv', NEW w \in Workers,
           \/ RunInput(w) \/ LockOutput(w) \/ UpdateFinishCounter(w)
           \/ StartForward(w) \/ StartBackward(w) \/ \E i \in 1..2 : RetryBackward(w, i)
           \/ SelectTarget(w) \/ SelectBlock(w) \/ ReleaseBlock(w)
    PROVE  Refined
<1>1. ChainInv /\ Base /\ Added
  BY DEF WaveInv, ChainInv
<1>2. WorkerStep(w)
  BY DEF WorkerStep
<1>3. UNCHANGED <<io, level, registered, buffer, queue>>
  <2>1. CASE SelectBlock(w)
    <3>1. ~HasFreeInput(io[pick[w]])
      BY <1>1, <2>1, SelectedFull DEF SelectBlock
    <3> QED BY <2>1, <3>1 DEF SelectBlock
  <2>2. CASE ~SelectBlock(w)
    BY <2>2 DEF RunInput, LockOutput, UpdateFinishCounter, StartForward, StartBackward, RetryBackward,
          SelectTarget, ReleaseBlock, netVars
  <2> QED BY <2>1, <2>2
<1>4. call' = call /\ \A v \in Workers : v # w => pc'[v] = pc[v] /\ task'[v] = task[v]
  BY <1>1, <1>2, WorkerFrame DEF clientVars
<1>5. UNCHANGED <<to, fresh, back, paid, reached, counted, parked>>
  BY <1>1, <1>3, <1>4, QuietWave, SameBuffers
<1>6. pc \in [Workers -> WorkerPlaces] /\ task \in [Workers -> TaskType \cup {NoTask}]
  BY <1>1 DEF Base, TypeOK
<1>7. \/ pc'[w] = "idle"
      \/ /\ task'[w] = task[w] /\ pc[w] # "idle"
         /\ pc'[w] \in {"gradient", "sendback"} =>
               pc[w] \in {"gradient", "sendback"} \/ ~Forwards(task[w])
  <2>1. CASE RunInput(w)
    BY <1>6, <2>1 DEF RunInput, At, Goto
  <2>2. CASE LockOutput(w)
    BY <1>6, <2>2 DEF LockOutput, At, Goto
  <2>3. CASE UpdateFinishCounter(w)
    BY <1>6, <2>3 DEF UpdateFinishCounter, Goto, Finish
  <2>4. CASE StartForward(w) \/ StartBackward(w) \/ \E i \in 1..2 : RetryBackward(w, i)
    BY <1>6, <2>4 DEF StartForward, StartBackward, RetryBackward, At, Goto, Finish
  <2>5. CASE SelectTarget(w) \/ ReleaseBlock(w)
    BY <1>6, <2>5 DEF SelectTarget, ReleaseBlock, NextSection, Goto, Finish
  <2>6. CASE SelectBlock(w)
    BY <1>6, <2>6 DEF SelectBlock, Goto
  <2> QED BY <2>1, <2>2, <2>3, <2>4, <2>5, <2>6
<1>8. Added'
  <2>1. \A b \in parked' : b \in counted'
    BY <1>1, <1>5 DEF Added
  <2> QED BY <1>1, <1>3, <1>4, <1>5, <1>7, <2>1, AddedQuiet
<1> QED BY <1>2, <1>3, <1>5, <1>8, QuietRefined

\* A worker takes a task.
LEMMA TakeRefined ==
    ASSUME WaveInv, ChainInv', NEW w \in Workers, TakeTask(w)
    PROVE  Refined
<1>1. ChainInv /\ Base /\ Added
  BY DEF WaveInv, ChainInv
<1>2. WorkerStep(w) /\ UNCHANGED <<io, level, registered, buffer>>
  BY DEF WorkerStep, TakeTask, netVars
<1>3. call' = call /\ \A v \in Workers : v # w => pc'[v] = pc[v] /\ task'[v] = task[v]
  BY <1>1, <1>2, WorkerFrame DEF clientVars
<1>4. UNCHANGED <<to, fresh, back, paid, reached, counted, parked>>
  BY <1>1, <1>2, <1>3, QuietWave, SameBuffers
<1>5. /\ task'[w] = queue[1] /\ pc'[w] = "body" /\ 1 \in DOMAIN queue
      /\ \A k \in DOMAIN queue' : k + 1 \in DOMAIN queue /\ queue'[k] = queue[k + 1]
  BY <1>1 DEF TakeTask, Goto, Base, TypeOK
<1>6. Added'
  <2>1. \A b \in parked' : b \in counted'
    BY <1>1, <1>4 DEF Added
  <2>2. \A k \in DOMAIN queue' : ~Forwards(queue'[k]) /\ queue'[k].block \in Outputs =>
            queue'[k].block \in counted'
    BY <1>1, <1>4, <1>5 DEF Added
  <2>3. \A v \in Workers : /\ pc'[v] # "idle" /\ task'[v].block \in Outputs
                           /\ ~Forwards(task'[v]) \/ pc'[v] \in {"gradient", "sendback"}
                           => task'[v].block \in counted'
    <3> SUFFICES ASSUME NEW v \in Workers, pc'[v] # "idle", task'[v].block \in Outputs,
                        ~Forwards(task'[v]) \/ pc'[v] \in {"gradient", "sendback"}
                 PROVE  task'[v].block \in counted'
      OBVIOUS
    <3>1. CASE v = w
      BY <1>1, <1>4, <1>5, <3>1 DEF Added
    <3>2. CASE v # w
      BY <1>1, <1>3, <1>4, <3>2 DEF Added
    <3> QED BY <3>1, <3>2
  <2> QED BY <2>1, <2>2, <2>3, NextAdded
<1> QED BY <1>2, <1>4, <1>6, QuietRefined

\* connect_output_buffer
LEMMA ConnectRefined ==
    ASSUME WaveInv, ChainInv', NEW w \in Workers, ConnectOutputBuffer(w)
    PROVE  Refined
<1>1. ChainInv /\ Base /\ Added
  BY DEF WaveInv, ChainInv
<1>2. WorkerStep(w) /\ UNCHANGED <<io, level, registered, queue, task>> /\ pc[w] = "connect"
  BY DEF WorkerStep, ConnectOutputBuffer
<1>3. call' = call /\ \A v \in Workers : v # w => pc'[v] = pc[v] /\ task'[v] = task[v]
  BY <1>1, <1>2, WorkerFrame DEF clientVars
<1>4. \A o \in Buffers : /\ buffer'[o].value = buffer[o].value
                         /\ buffer'[o].unfinished = buffer[o].unfinished
  BY <1>1 DEF ConnectOutputBuffer, Base, TypeOK, BufferType
<1>5. UNCHANGED <<to, fresh, back, paid, reached>> /\ parked' = parked
  BY <1>1, <1>2, <1>3, <1>4, QuietWave, SameParked
<1>6. counted' = counted
  BY <1>3, <1>4, BlockAssumption DEF counted
<1>7. pc'[w] \in {"gradient", "sendback"} => ~Forwards(task[w])
  BY <1>1 DEF ConnectOutputBuffer, Goto, Base, TypeOK
<1>8. Added'
  <2>1. \A b \in parked' : b \in counted'
    BY <1>1, <1>5, <1>6 DEF Added
  <2> QED BY <1>1, <1>2, <1>3, <1>6, <1>7, <2>1, AddedQuiet
<1> QED BY <1>2, <1>4, <1>5, <1>6, <1>8, QuietRefined

\* The done flags of a block are reset.
LEMMA FinishRefined ==
    ASSUME WaveInv, ChainInv', NEW w \in Workers, FinishBackward(w)
    PROVE  Refined
<1> DEFINE b == task[w].block
<1>1. ChainInv /\ Base /\ Added
  BY DEF WaveInv, ChainInv
<1>2. WorkerStep(w) /\ UNCHANGED <<level, registered, buffer, queue>> /\ pc[w] = "return"
  BY DEF WorkerStep, FinishBackward
<1>3. call' = call /\ \A v \in Workers : v # w => pc'[v] = pc[v] /\ task'[v] = task[v]
  BY <1>1, <1>2, WorkerFrame DEF clientVars
<1>4. b \in Blocks /\ io' = [io EXCEPT ![b] = ResetDone(io[b])]
  BY <1>1, <1>2 DEF Base, LockDiscipline, FinishBackward, Blocks
<1>5. UNCHANGED <<to, fresh, back, paid, reached>>
  BY <1>1, <1>2, <1>3, <1>4, ResetWave
<1>6. UNCHANGED <<counted, parked>>
  BY <1>2, <1>3, SameBuffers
<1>7. pc'[w] = "idle"
  BY <1>1 DEF FinishBackward, Finish, Goto, Base, TypeOK
<1>8. Added'
  <2>1. \A c \in parked' : c \in counted'
    BY <1>1, <1>6 DEF Added
  <2> QED BY <1>1, <1>2, <1>3, <1>6, <1>7, <2>1, AddedQuiet
<1> QED BY <1>2, <1>5, <1>6, <1>8, QuietRefined

\* What the call at work is while its tasks run.
LEMMA RunningAtWork ==
    ASSUME ChainInv, Running
    PROVE  AtWork = kind /\ kind \in {"train", "request"} /\ call > 0
<1>1. Client1
  BY DEF ChainInv
<1> QED BY <1>1 DEF Client1, Running, AtWork, kind

\* train and process of a core block
LEMMA ForwardRefined ==
    ASSUME SeparateChains, WaveInv, ChainInv', NEW w \in Workers, TrainCore(w) \/ ProcessCore(w)
    PROVE  Refined
<1> DEFINE b == task[w].block
<1>1. ChainInv /\ Base /\ Working /\ Passing /\ Added /\ Parts
  BY DEF WaveInv, ChainInv
<1>2. /\ pc[w] = "body" /\ b \in Cores /\ WorkerStep(w) /\ task' = task /\ Forwards(task[w])
      /\ UNCHANGED <<registered, buffer, queue>>
  BY DEF TrainCore, ProcessCore, At, WorkerStep, Forwards
<1>3. b \in reached /\ b \in Blocks /\ Running
  BY <1>1, <1>2, OwnTask
<1>4. /\ UNCHANGED <<clientVars, call, kind, Running>>
      /\ \A v \in Workers : v # w => pc'[v] = pc[v] /\ task'[v] = task[v]
  BY <1>1, <1>2, WorkerFrame DEF clientVars
<1>5. fresh' = fresh \cup {b} /\ UNCHANGED <<to, back, paid, reached>>
  BY <1>1, ForwardWave
<1>6. UNCHANGED <<counted, parked>>
  BY <1>2, <1>4, SameBuffers
<1>7. pc'[w] = "final"
  BY <1>1 DEF TrainCore, ProcessCore, Goto, Base, TypeOK
<1>8. UNCHANGED AtWork /\ AtWork \in {"train", "request"}
  <2>1. UNCHANGED AtWork
    BY <1>4 DEF AtWork, clientVars
  <2> QED BY <1>1, <1>3, <2>1, RunningAtWork
<1>9. passed' = passed \cup {b} /\ UNCHANGED returned
  BY <1>5, <1>6 DEF passed, returned
<1> HIDE DEF b
<1>10. WaveStep
  BY <1>1, <1>3, <1>5, <1>8, <1>9, ForwardStep
<1>11. Passing'
  BY <1>1, <1>3, <1>5, <1>6 DEF Passing
<1>12. Added'
  <2>1. \A c \in parked' : c \in counted'
    BY <1>1, <1>6 DEF Added
  <2> QED BY <1>1, <1>2, <1>4, <1>6, <1>7, <2>1, AddedQuiet
<1>13. Parts'
  BY <1>1, <1>2, <1>3, PartsKept
<1> QED BY <1>5, <1>10, <1>11, <1>12, <1>13 DEF Refined

\* backpropagate of a core block and of an output block
LEMMA GradientRefined ==
    ASSUME SeparateChains, WaveInv, ChainInv', NEW w \in Workers,
           BackpropagateCore(w) \/ BackpropagateOutput(w)
    PROVE  Refined
<1> DEFINE b == task[w].block
<1>1. ChainInv /\ Base /\ Working /\ Edges /\ Training /\ Passing /\ Added /\ Parts
  BY DEF WaveInv, ChainInv
<1>2. /\ WorkerStep(w) /\ task' = task /\ UNCHANGED <<registered, buffer, queue>>
      /\ pc[w] \in {"body", "gradient"}
  BY DEF BackpropagateCore, BackpropagateOutput, At, WorkerStep
<1>3. b \in reached /\ b \in Blocks /\ Running /\ Work(task[w], pc[w])
  BY <1>1, <1>2, OwnTask
<1>4. /\ UNCHANGED <<clientVars, call, kind, Running>>
      /\ \A v \in Workers : v # w => pc'[v] = pc[v] /\ task'[v] = task[v]
  BY <1>1, <1>2, WorkerFrame DEF clientVars
<1>5. paid' = paid \cup {b} /\ UNCHANGED <<to, fresh, back, reached>> /\ b \in Receivers
  BY <1>1, GradientWave
<1>6. UNCHANGED <<counted, parked>>
  BY <1>2, <1>4, SameBuffers
<1>7. pc \in [Workers -> WorkerPlaces]
  BY <1>1 DEF Base, TypeOK
<1>8. /\ kind = "train" /\ b \in passed /\ (b \in Senders => to[b] \in returned)
      /\ (b \in Cores => b \in back) /\ (b \in Outputs => b \in counted)
      /\ pc[w] # "idle"
      /\ pc'[w] \in {"gradient", "sendback"} => pc[w] \in {"gradient", "sendback"} \/ ~Forwards(task[w])
  <2>1. CASE BackpropagateCore(w)
    <3>1. b \in Cores /\ pc[w] = "body" /\ ~Forwards(task[w]) /\ pc'[w] = "final" /\ b \in Senders
          /\ b \notin Outputs
      BY <1>7, <2>1, BlockAssumption DEF BackpropagateCore, At, Goto, Forwards, Senders
    <3>2. kind = "train" /\ b \in back
      BY <1>3, <3>1 DEF Work, Home
    <3>3. b \in fresh /\ to[b] \in paid
      BY <1>1, <3>1, <3>2 DEF Edges, Passing
    <3> QED BY <3>1, <3>2, <3>3 DEF passed, returned
  <2>2. CASE BackpropagateOutput(w)
    <3>1. pc[w] = "gradient" /\ b \in Outputs
      BY <1>1, <2>2 DEF BackpropagateOutput, Base, LockDiscipline
    <3>2. kind = "train" /\ b \in counted /\ b \notin Senders /\ b \notin Cores
      BY <1>1, <1>3, <3>1, WaveTypes, BlockAssumption DEF Work, AtOutput, Added
    <3> QED BY <3>1, <3>2 DEF passed
  <2> QED BY <2>1, <2>2
<1>9. UNCHANGED AtWork /\ AtWork = "train"
  <2>1. UNCHANGED AtWork
    BY <1>4 DEF AtWork, clientVars
  <2> QED BY <1>1, <1>3, <1>8, <2>1, RunningAtWork
<1>10. returned' = returned \cup {b} /\ UNCHANGED passed
  BY <1>5, <1>6 DEF passed, returned
<1> HIDE DEF b
<1>11. WaveStep
  BY <1>1, <1>3, <1>5, <1>8, <1>9, <1>10, BackwardStep
<1>12. Passing'
  BY <1>1, <1>3, <1>5, <1>6, <1>8 DEF Passing
<1>13. Added'
  <2>1. \A c \in parked' : c \in counted'
    BY <1>1, <1>6 DEF Added
  <2> QED BY <1>1, <1>2, <1>4, <1>6, <1>8, <2>1, AddedQuiet
<1>14. Parts'
  BY <1>1, <1>2, <1>3, PartsKept
<1> QED BY <1>5, <1>11, <1>12, <1>13, <1>14 DEF Refined

\* An output block adds its part to its buffer.
LEMMA PartRefined ==
    ASSUME WaveInv, ChainInv', NEW w \in Workers, WorkerStep(w), Running,
           UNCHANGED <<io, level, registered>>,
           NEW b \in Outputs, b \in reached, counted' = counted \cup {b}, Added',
           NEW o \in Buffers, NEW n, buffer' = [buffer EXCEPT ![o] = n],
           \A e \in Range(n.value) : e \in Range(buffer[o].value) \/ e.data <= call
    PROVE  Refined
<1>1. ChainInv /\ Base /\ Passing /\ Parts
  BY DEF WaveInv, ChainInv
<1>2. UNCHANGED <<clientVars, call>>
  BY <1>1, WorkerFrame DEF clientVars
<1>3. UNCHANGED <<to, fresh, back, paid, reached>>
  BY <1>1, <1>2, QuietWave
<1>4. b \in Blocks /\ passed' = passed \cup {b} /\ UNCHANGED returned
  BY <1>1, <1>3, WaveTypes DEF passed, returned
<1>5. UNCHANGED AtWork /\ AtWork \in {"train", "request"}
  <2>1. UNCHANGED AtWork
    BY <1>2 DEF AtWork, clientVars
  <2> QED BY <1>1, <2>1, RunningAtWork
<1>6. WaveStep
  BY <1>1, <1>3, <1>4, <1>5, ForwardStep
<1>7. Passing'
  BY <1>1, <1>3 DEF Passing
<1>8. Parts'
  <2>1. \A p \in Buffers : buffer'[p] = IF p = o THEN n ELSE buffer[p]
    BY <1>1 DEF Base, TypeOK
  <2>2. \A p \in Buffers : \A e \in Range(buffer'[p].value) :
            e \in Range(buffer[p].value) \/ e.data <= call
    BY <2>1
  <2> QED BY <1>1, <2>2, PartsKept
<1> QED BY <1>3, <1>6, <1>7, <1>8 DEF Refined

\* What it adds, with the activation or without.
LEMMA PartOfCall ==
    ASSUME Base, NEW b \in Outputs, NEW o \in Buffers, NEW v, v = Append(buffer[o].value, Part(b, call)),
           NEW s, s = v \/ s = Append(v, Sigmoid)
    PROVE  \A e \in Range(s) : e \in Range(buffer[o].value) \/ e.data <= call
<1> DEFINE T == [block : Outputs \cup {"sigmoid"}, data : Nat]
<1>1. buffer[o].value \in Seq(T) /\ call \in Nat
  <2>1. buffer[o] \in BufferType /\ call \in Nat
    BY DEF Base, TypeOK
  <2> QED BY <2>1 DEF BufferType, ValueType
<1>2. Part(b, call) \in T /\ Part(b, call).data <= call /\ Sigmoid.data <= call
  BY <1>1 DEF Part, Sigmoid
<1> HIDE DEF T
<1>3. Range(v) = Range(buffer[o].value) \cup {Part(b, call)} /\ v \in Seq(T)
  BY <1>1, <1>2, AppendRange
<1>4. Range(Append(v, Sigmoid)) = Range(v) \cup {Sigmoid}
  BY <1>3, RangeAfter
<1> QED BY <1>2, <1>3, <1>4

\* train of an output block
LEMMA TrainOutputRefined ==
    ASSUME WaveInv, ChainInv', NEW w \in Workers, TrainOutput(w)
    PROVE  Refined
<1> DEFINE b == task[w].block
           o == BufferOf[b]
           x == buffer[o]
           v == Append(x.value, Part(b, call))
           ts == [i \in DOMAIN x.unfinished |->
                    [task[w] EXCEPT !.type = "Backpropagate", !.block = x.unfinished[i]]]
<1>1. ChainInv /\ Base /\ Working /\ Cycles /\ Parking /\ Training /\ Passing /\ Added /\ Parts
  BY DEF WaveInv, ChainInv
<1>2. /\ pc[w] = "output" /\ WorkerStep(w) /\ UNCHANGED <<io, level, registered>>
  BY Zenon DEF TrainOutput, WorkerStep
<1>3. /\ b \in Outputs /\ o \in Buffers /\ Running /\ b \in reached
  BY <1>1, <1>2, AtBuffer
<1>4. counted' = counted \cup {b}
  BY <1>1, TrainEffect, Zenon
<1>5. PICK n :
        /\ buffer' = [buffer EXCEPT ![o] = n]
        /\ \/ /\ n.value = v /\ UNCHANGED <<queue, task, parked>> /\ Goto(w, "gradient")
           \/ /\ n.value = Append(v, Sigmoid) /\ Enqueue(ts)
              /\ Goto(w, "gradient") /\ UNCHANGED task
              /\ parked' = {c \in parked : BufferOf[c] # o}
           \/ /\ n.value = v /\ Finish(w) /\ UNCHANGED queue /\ parked' = parked \cup {b}
  BY <1>1, TrainEffect, Zenon
<1>6. \A c \in parked' : c \in counted'
  <2>1. \A c \in parked : c \in counted
    BY <1>1 DEF Added
  <2>2. parked' \subseteq parked \cup {b}
    BY <1>5, Zenon
  <2> QED BY <1>4, <2>1, <2>2
<1>7. \A u \in Workers : u # w => pc'[u] = pc[u] /\ task'[u] = task[u]
  BY <1>1, <1>2, WorkerFrame
<1>8. pc'[w] = "idle" \/ (b \in counted' /\ task'[w] = task[w])
  BY <1>1, <1>4, <1>5, Zenon DEF Goto, Finish, Base, TypeOK
<1>9. PICK q \in Seq(TaskType) :
        /\ queue' = queue \o q
        /\ \A k \in DOMAIN q : ~Forwards(q[k]) /\ q[k].block \in Outputs => q[k].block \in counted'
  <2>1. CASE UNCHANGED queue
    <3>1. <<>> \in Seq(TaskType) /\ queue' = queue \o <<>> /\ DOMAIN <<>> = {}
      BY <1>1, <2>1 DEF Base, TypeOK
    <3> QED BY <3>1
  <2>2. CASE Enqueue(ts)
    <3>1. ts = Woken(task[w], buffer[o].unfinished)
      BY DEF Woken
    <3> HIDE DEF ts
    <3>2. ts \in Seq(TaskType) /\ Wakes(ts, o)
      BY <1>1, <1>2, <1>3, <3>1, WakeTasks
    <3>3. \A k \in DOMAIN ts : ts[k].block \in counted'
      BY <1>1, <1>4, <3>2 DEF Wakes, WakesUp, ParkedAt, Added
    <3> QED BY <2>2, <3>2, <3>3 DEF Enqueue
  <2> QED BY <1>5, <2>1, <2>2, Zenon
<1>10. n.value = v \/ n.value = Append(v, Sigmoid)
  BY <1>5, Zenon
<1>11. \A e \in Range(n.value) : e \in Range(buffer[o].value) \/ e.data <= call
  BY <1>1, <1>3, <1>10, PartOfCall, Zenon
<1> HIDE DEF b, o, v, ts
<1>12. Added'
  <2>1. counted \subseteq counted'
    BY <1>4
  <2>2. \/ pc'[w] = "idle"
        \/ ~(~Forwards(task'[w]) \/ pc'[w] \in {"gradient", "sendback"})
        \/ task'[w].block \in Outputs => task'[w].block \in counted'
    BY <1>8 DEF b
  <2> QED BY <1>1, <1>6, <1>7, <1>9, <2>1, <2>2, AddedKept
<1> QED BY <1>2, <1>3, <1>4, <1>5, <1>11, <1>12, PartRefined

\* process of an output block
LEMMA ProcessOutputRefined ==
    ASSUME SeparateChains, WaveInv, ChainInv', NEW w \in Workers, ProcessOutput(w)
    PROVE  Refined
<1> DEFINE b == task[w].block
           o == BufferOf[b]
           x == buffer[o]
           v == Append(x.value, Part(b, call))
<1>1. /\ ChainInv /\ Base /\ Working /\ Cycles /\ Client1 /\ Promises
      /\ Passing /\ Added /\ Parts
  BY DEF WaveInv, ChainInv
<1>2. /\ pc[w] = "output" /\ WorkerStep(w) /\ UNCHANGED <<io, level, registered, queue>>
  BY DEF ProcessOutput, WorkerStep
<1>3. /\ b \in Outputs /\ o \in Buffers /\ Running /\ b \in reached
  BY <1>1, <1>2, AtBuffer
<1>4. counted' = counted \cup {b}
  BY <1>1, ProcessEffect
<1>5. PICK n :
        /\ buffer' = [buffer EXCEPT ![o] = n]
        /\ \/ n.value = Append(v, Sigmoid) /\ Goto(w, "count") /\ UNCHANGED task
           \/ n.value = v /\ Finish(w)
        /\ parked' \subseteq parked
  BY <1>1, ProcessEffect
<1>6. \A c \in parked' : c \in counted'
  BY <1>1, <1>4, <1>5, Zenon DEF Added
<1>7. \A u \in Workers : u # w => pc'[u] = pc[u] /\ task'[u] = task[u]
  BY <1>1, <1>2, WorkerFrame
<1>8. pc'[w] = "idle" \/ (pc'[w] = "count" /\ task'[w] = task[w])
  BY <1>1, <1>5, Zenon DEF Goto, Finish, Base, TypeOK
<1>9. n.value = v \/ n.value = Append(v, Sigmoid)
  BY <1>5, Zenon
<1>10. \A e \in Range(n.value) : e \in Range(buffer[o].value) \/ e.data <= call
  BY <1>1, <1>3, <1>9, PartOfCall, Zenon
<1> HIDE DEF b, o, v
<1>11. Added'
  <2>1. counted \subseteq counted' /\ pc[w] # "idle"
    BY <1>2, <1>4
  <2>2. \/ pc'[w] = "idle"
        \/ /\ task'[w] = task[w] /\ pc[w] # "idle"
           /\ pc'[w] \in {"gradient", "sendback"} =>
                 pc[w] \in {"gradient", "sendback"} \/ ~Forwards(task[w])
    BY <1>8, <2>1
  <2> QED BY <1>1, <1>2, <1>6, <1>7, <2>1, <2>2, AddedQuiet
<1> QED BY <1>2, <1>3, <1>4, <1>5, <1>10, <1>11, PartRefined

\* A gradient comes back to the source of a block.
LEMMA BackRefined ==
    ASSUME SeparateChains, WaveInv, ChainInv', NEW w \in Workers, WorkerStep(w), Running, pc[w] # "idle",
           NEW b, b = task[w].block, b \in Receivers, b \in reached, b \in paid, kind = "train",
           task[w] \in TaskType,
           io' = SentBack(b, 1), Enqueue(BackTasks(w, from[b])),
           UNCHANGED <<level, registered, buffer>>,
           \/ pc'[w] = "idle"
           \/ pc'[w] \in {"return", "count"} /\ task'[w] = task[w]
           \/ pc'[w] = pc[w] /\ task'[w] = task[w]
    PROVE  Refined
<1> DEFINE a == from[b]
           ts == BackTasks(w, a)
<1>1. ChainInv /\ Base /\ Rooted /\ Edges /\ Passing /\ Added /\ Parts
  BY DEF WaveInv, ChainInv
<1>2. /\ UNCHANGED <<clientVars, call>>
      /\ \A v \in Workers : v # w => pc'[v] = pc[v] /\ task'[v] = task[v]
  BY <1>1, WorkerFrame DEF clientVars
<1>3. /\ a \in Senders /\ to[a] = b /\ back' = back \cup {a} /\ UNCHANGED <<to, fresh, reached, paid>>
  BY <1>1, <1>2, ReturnWave
<1>4. UNCHANGED <<counted, parked>>
  BY <1>2, SameBuffers
<1>5. UNCHANGED AtWork /\ AtWork = "train"
  <2>1. UNCHANGED AtWork
    BY <1>2 DEF AtWork, clientVars
  <2> QED BY <1>1, <2>1, RunningAtWork
<1>6. UNCHANGED passed /\ a \in Blocks /\ a \in fresh /\ a \notin Outputs
  BY <1>1, <1>3, <1>4, WaveTypes DEF passed, Edges
<1>7. WaveStep
  <2>1. CASE a \in Inputs
    <3>1. returned' = returned \cup {a}
      BY <1>3, <2>1 DEF returned
    <3>2. a \in passed /\ to[a] \in returned
      BY <1>3, <1>6 DEF passed, returned
    <3> HIDE DEF a
    <3> QED BY <1>1, <1>3, <1>5, <1>6, <3>1, <3>2, BackwardStep
  <2>2. CASE a \notin Inputs
    <3>1. UNCHANGED returned
      BY <1>3, <2>2 DEF returned
    <3> QED BY <1>1, <1>3, <1>5, <1>6, <3>1, StillWave
  <2> QED BY <2>1, <2>2
<1>8. Passing'
  BY <1>1, <1>3, <1>4 DEF Passing
<1>9. /\ ts \in Seq(TaskType)
      /\ \A k \in DOMAIN ts : ts[k].block = a
  <2> DEFINE t == [task[w] EXCEPT !.type = "Backpropagate", !.block = a]
  <2>1. t \in TaskType
    BY <1>6, TaskFacts
  <2>2. t.block = a
    BY DEF TaskType
  <2> HIDE DEF t
  <2>3. ts = <<t>> \/ ts = <<>>
    BY DEF BackTasks, t
  <2> HIDE DEF ts, a
  <2>4. CASE ts = <<t>>
    <3>1. <<t>> \in Seq(TaskType) /\ DOMAIN <<t>> = {1} /\ <<t>>[1] = t
      BY <2>1
    <3> QED BY <2>2, <2>4, <3>1
  <2>5. CASE ts = <<>>
    BY <2>5
  <2> QED BY <2>3, <2>4, <2>5
<1> HIDE DEF a, ts
<1>10. Added'
  <2>1. \A c \in parked' : c \in counted'
    BY <1>1, <1>4 DEF Added
  <2>2. queue' = queue \o ts
    BY DEF Enqueue, ts, a
  <2>3. \A k \in DOMAIN ts : ~Forwards(ts[k]) /\ ts[k].block \in Outputs => ts[k].block \in counted'
    BY <1>6, <1>9
  <2>4. b \in Outputs => b \in counted'
    BY <1>1, <1>4 DEF Passing
  <2>5. \/ pc'[w] = "idle"
        \/ ~(~Forwards(task'[w]) \/ pc'[w] \in {"gradient", "sendback"})
        \/ task'[w].block \in Outputs => task'[w].block \in counted'
    BY <2>4
  <2>6. counted \subseteq counted'
    BY <1>4
  <2> QED BY <1>1, <1>2, <1>9, <2>1, <2>2, <2>3, <2>5, <2>6, AddedKept
<1>11. Parts'
  BY <1>1, PartsKept
<1> QED BY <1>3, <1>7, <1>8, <1>10, <1>11 DEF Refined

\* send_backward and send_backward_with_retry
LEMMA SendBackRefined ==
    ASSUME SeparateChains, WaveInv, ChainInv', NEW w \in Workers,
           SendBackward(w) \/ \E i \in 1..2 : ReturnSlot(w, i)
    PROVE  Refined
<1> DEFINE b == task[w].block
<1>1. ChainInv /\ Base /\ WorkerStep(w)
  BY DEF WaveInv, ChainInv, WorkerStep
<1>2. CASE SendBackward(w)
  <2>1. pc[w] = "sendback" /\ b \in Outputs
    BY <1>1, <1>2 DEF SendBackward, Base, LockDiscipline
  <2>2. /\ Work(task[w], pc[w]) /\ task[w] \in TaskType /\ b \in reached /\ Running /\ b \in Receivers
    BY <1>1, <2>1, OwnTask
  <2>3. kind = "train" /\ b \in paid
    BY <2>1, <2>2 DEF Work, AtOutput
  <2>4. from[b] # Nil /\ from[b] = io[b].slots[1].src
    BY <1>1, <2>2, WaveTypes DEF from
  <2>5. /\ io' = SentBack(b, 1) /\ Enqueue(BackTasks(w, from[b]))
        /\ UNCHANGED <<level, registered, buffer>>
    BY <1>2, <2>4 DEF SendBackward
  <2>6. pc'[w] = "idle" \/ (pc'[w] \in {"return", "count"} /\ task'[w] = task[w])
    BY <1>1, <1>2 DEF SendBackward, Goto, Finish, Base, TypeOK
  <2> HIDE DEF b
  <2>7. b = task[w].block
    BY DEF b
  <2> QED BY <1>1, <2>1, <2>2, <2>3, <2>5, <2>6, <2>7, BackRefined
<1>3. ASSUME NEW i \in 1..2, ReturnSlot(w, i)
      PROVE  Refined
  <2>1. pc[w] = "return" /\ b \in Cores /\ i \in Pending(io[b])
    BY <1>1, <1>3 DEF ReturnSlot, IsNext, Base, LockDiscipline
  <2>2. b \in Blocks
    BY <2>1, BlockFacts
  <2>3. b \in owing /\ i = 1
    BY <1>1, <2>1, <2>2, Pairs DEF owing
  <2>4. /\ Work(task[w], pc[w]) /\ task[w] \in TaskType
        /\ b \in reached /\ Running /\ b \in Receivers /\ b \in Senders
    BY <1>1, <2>1, <2>3, OwnTask
  <2>5. ~Forwards(task[w])
    BY <2>1, <2>4 DEF Work, Ahead
  <2>6. b \in paid /\ kind = "train"
    BY <2>1, <2>4, <2>5 DEF Work, Home
  <2>7. from[b] = io[b].slots[1].src
    BY <2>4 DEF from
  <2>8. /\ io' = SentBack(b, 1) /\ Enqueue(BackTasks(w, from[b]))
        /\ UNCHANGED <<level, registered, buffer, pc, task>>
    BY <1>3, <2>3, <2>7 DEF ReturnSlot
  <2>9. pc'[w] = pc[w] /\ task'[w] = task[w]
    BY <2>8
  <2> HIDE DEF b
  <2>10. b = task[w].block
    BY DEF b
  <2> QED BY <1>1, <2>1, <2>4, <2>6, <2>8, <2>9, <2>10, BackRefined
<1> QED BY <1>2, <1>3

\* connect_to_new_target creates a block
LEMMA CreateRefined ==
    ASSUME SeparateChains, WaveInv, ChainInv', NEW w \in Workers, CreateBlock(w)
    PROVE  Refined
<1> DEFINE b == task[w].block
           t == CHOOSE t \in Unused(goal[w]) : TRUE
<1>1. /\ ChainInv /\ Base /\ Looking /\ Edges /\ Training /\ Passing /\ Added /\ Parts
  BY DEF WaveInv, ChainInv
<1>2. /\ pc[w] = "create" /\ WorkerStep(w) /\ task' = task
      /\ UNCHANGED <<level, buffer, queue>>
      /\ Unused(goal[w]) # {} /\ registered' = registered \cup {t}
      /\ Attach(w, t) /\ Goto(w, "forward")
  BY DEF CreateBlock, WorkerStep
<1>3. /\ b \in Senders /\ b \in registered /\ b \in fresh /\ b \in Blocks /\ Running
      /\ Forwards(task[w]) /\ b \notin back
      /\ sec[w] = 1 /\ Section(w) = io[b].outs[1] /\ to[b] = Nil
  BY <1>1, <1>2, OwnSection
<1>4. t \in Blocks /\ t \notin registered /\ HexOf[t] = goal[w]
  BY <1>2 DEF Unused
<1>5. IsTarget(HexOf[t])
  BY <1>1, <1>2, <1>4 DEF Looking
<1>6. t \in Receivers /\ b # t /\ t # Nil
  BY <1>1, <1>3, <1>4, <1>5, WaveTypes DEF IsTarget, Receivers, Blocks
<1> HIDE DEF t
<1>7. io' = [[io EXCEPT ![t] = TakeInput(io[t], 1, io[b].outs[1])]
                EXCEPT ![b] = LinkSection(io[b], 1, t, io[t].inUse + 1)]
  BY <1>1, <1>2, <1>3, <1>4, <1>6 DEF Attach, Base, TypeOK
<1>8. /\ UNCHANGED <<clientVars, call, kind, Running>>
      /\ \A v \in Workers : v # w => pc'[v] = pc[v] /\ task'[v] = task[v]
  BY <1>1, <1>2, WorkerFrame DEF clientVars
<1>9. /\ to' = [to EXCEPT ![b] = t] /\ t \notin reached /\ paid' = paid \ {t}
      /\ UNCHANGED <<fresh, back, reached>>
  BY <1>1, <1>2, <1>3, <1>4, <1>6, <1>7, <1>8, CreateWave
<1>10. UNCHANGED <<counted, parked>>
  BY <1>2, <1>8, SameBuffers
<1>11. t \notin paid /\ t \notin fresh /\ t \notin counted
  BY <1>1, <1>3, <1>9 DEF Passing, Training
<1>12. UNCHANGED <<passed, returned, paid>>
  BY <1>9, <1>10, <1>11 DEF passed, returned
<1>13. b \in passed /\ b \notin returned /\ t \notin passed
  BY <1>1, <1>3, <1>11, WaveTypes DEF passed, returned, Passing, Senders
<1>14. UNCHANGED AtWork
  BY <1>8 DEF AtWork, clientVars
<1> HIDE DEF b
<1>15. WaveStep
  BY <1>1, <1>3, <1>6, <1>9, <1>12, <1>13, <1>14, ConnectStep
<1>16. Passing'
  <2>1. to \in [Senders -> Receivers \cup {Nil}] /\ back \subseteq Senders
    BY <1>1, Views, WaveTypes
  <2>2. \A a \in back' : to'[a] \in paid'
    BY <1>1, <1>3, <1>9, <1>12, <2>1 DEF Passing
  <2> QED BY <1>1, <1>9, <1>10, <1>12, <2>2 DEF Passing
<1>17. pc'[w] = "forward"
  BY <1>1, <1>2 DEF Goto, Base, TypeOK
<1>18. Added'
  <2>1. \A c \in parked' : c \in counted'
    BY <1>1, <1>10 DEF Added
  <2> QED BY <1>1, <1>2, <1>8, <1>10, <1>17, <2>1, AddedQuiet
<1>19. Parts'
  BY <1>1, <1>2, <1>3, PartsKept
<1> QED BY <1>9, <1>15, <1>16, <1>18, <1>19 DEF Refined

\* send_forward to the target
LEMMA SendRefined ==
    ASSUME SeparateChains, WaveInv, ChainInv', NEW w \in Workers, SendForward(w)
    PROVE  Refined
<1> DEFINE b == task[w].block
           t == to[b]
           j == [task[w] EXCEPT !.block = t]
<1>1. ChainInv /\ Base /\ Looking /\ Rooted /\ Passing /\ Added /\ Parts
  BY DEF WaveInv, ChainInv
<1>2. /\ pc[w] = "forward" /\ WorkerStep(w) /\ UNCHANGED <<level, registered, buffer, task>>
      /\ NextSection(w)
      /\ io' = [io EXCEPT ![Section(w).tgt] = Receive(@, task[w].block, sec[w], Section(w))]
      /\ Enqueue(IF InputsComplete(io[Section(w).tgt]) /\ pc[w] = "forward"
                 THEN <<[task[w] EXCEPT !.block = Section(w).tgt]>> ELSE <<>>)
  <2>1. pc[w] = "forward"
    BY <1>1 DEF SendForward, Looking
  <2>2. WorkerStep(w) /\ NextSection(w)
    BY DEF SendForward, WorkerStep
  <2>3. /\ UNCHANGED <<level, registered, buffer, task>>
        /\ io' = [io EXCEPT ![Section(w).tgt] = Receive(@, task[w].block, sec[w], Section(w))]
        /\ Enqueue(IF InputsComplete(io[Section(w).tgt]) /\ pc[w] = "forward"
                   THEN <<[task[w] EXCEPT !.block = Section(w).tgt]>> ELSE <<>>)
    BY DEF SendForward
  <2> QED BY <2>1, <2>2, <2>3
<1>3. Connected(Section(w))
  BY DEF SendForward
<1>4. /\ b \in Senders /\ b \in fresh /\ b \in Blocks /\ Running
      /\ task[w] \in TaskType /\ Forwards(task[w]) /\ b \notin back /\ t \notin reached
      /\ sec[w] = 1 /\ Section(w) = io[b].outs[1] /\ t # Nil /\ Section(w).tgt = t
  BY <1>1, <1>2, <1>3, OwnSection
<1>5. /\ UNCHANGED <<clientVars, call, kind, Running>>
      /\ \A v \in Workers : v # w => pc'[v] = pc[v] /\ task'[v] = task[v]
  BY <1>1, <1>2, WorkerFrame DEF clientVars
<1>6. t \in Receivers /\ t \in Blocks
  BY <1>1, <1>4, NoLoop, WaveTypes
<1>7. io' = [io EXCEPT ![t] = Receive(io[t], b, 1, io[b].outs[1])]
  BY <1>1, <1>2, <1>4, <1>6 DEF Base, TypeOK
<1>8. /\ InputsComplete(io[t]) /\ reached' = reached \cup {t} /\ paid' = paid \ {t}
      /\ UNCHANGED <<to, fresh, back>>
  BY <1>1, <1>2, <1>4, <1>5, <1>7, SendWave
<1>9. queue' = queue \o <<j>>
  BY <1>2, <1>4, <1>8 DEF Enqueue
<1>10. j \in TaskType /\ Forwards(j)
  <2>1. j \in TaskType
    BY <1>4, <1>6, TaskFacts
  <2> QED BY <1>4, <2>1 DEF Forwards, TaskType
<1>11. UNCHANGED <<counted, parked>>
  BY <1>2, <1>5, SameBuffers
<1>12. UNCHANGED <<passed, returned, paid>>
  BY <1>1, <1>4, <1>8, <1>11 DEF passed, returned, Passing
<1>13. UNCHANGED AtWork
  BY <1>5 DEF AtWork, clientVars
<1> HIDE DEF b, t, j
<1>14. WaveStep
  BY <1>1, <1>8, <1>12, <1>13, StillWave
<1>15. Passing'
  BY <1>1, <1>8, <1>11, <1>12 DEF Passing
<1>16. pc'[w] = "release" /\ Forwards(task'[w])
  BY <1>1, <1>2, <1>4, LastSection DEF Forwards
<1>17. Added'
  <2>1. \A c \in parked' : c \in counted'
    BY <1>1, <1>11 DEF Added
  <2>2. <<j>> \in Seq(TaskType) /\ DOMAIN <<j>> = {1} /\ <<j>>[1] = j
    BY <1>10
  <2>3. \A k \in DOMAIN <<j>> : ~Forwards(<<j>>[k]) /\ <<j>>[k].block \in Outputs =>
            <<j>>[k].block \in counted'
    BY <1>10, <2>2
  <2> QED BY <1>1, <1>5, <1>9, <1>11, <1>16, <2>1, <2>2, <2>3, AddedKept
<1>18. Parts'
  BY <1>1, <1>2, <1>4, PartsKept
<1> QED BY <1>14, <1>15, <1>17, <1>18 DEF Refined

\* Every step of a worker.
LEMMA WorkerRefined ==
    ASSUME SeparateChains, WaveInv, ChainInv', NEW w \in Workers, WorkerStep(w)
    PROVE  Refined
<1>1. CASE \/ RunInput(w) \/ LockOutput(w) \/ UpdateFinishCounter(w) \/ StartForward(w)
           \/ StartBackward(w) \/ SelectTarget(w) \/ SelectBlock(w)
  BY <1>1, IdleRefined
<1>2. CASE TakeTask(w)
  BY <1>2, TakeRefined
<1>3. CASE TrainCore(w) \/ ProcessCore(w)
  BY <1>3, ForwardRefined
<1>4. CASE BackpropagateCore(w) \/ BackpropagateOutput(w)
  BY <1>4, GradientRefined
<1>5. CASE ConnectOutputBuffer(w)
  BY <1>5, ConnectRefined
<1>6. CASE TrainOutput(w)
  BY <1>6, TrainOutputRefined
<1>7. CASE ProcessOutput(w)
  BY <1>7, ProcessOutputRefined
<1>8. CASE SendBackward(w)
  BY <1>8, SendBackRefined
<1>9. CASE CreateBlock(w)
  BY <1>9, CreateRefined
<1>10. CASE SendForward(w)
  BY <1>10, SendRefined
<1>11. CASE FinishBackward(w)
  BY <1>11, FinishRefined
<1>12. ASSUME NEW i \in 1..2, ReturnSlot(w, i) PROVE Refined
  BY <1>12, SendBackRefined
<1>13. ASSUME NEW i \in 1..2, RetryBackward(w, i) PROVE Refined
  BY <1>13, IdleRefined
<1>14. CASE ReleaseBlock(w)
  BY <1>14, IdleRefined
<1> QED
  BY <1>1, <1>2, <1>3, <1>4, <1>5, <1>6, <1>7, <1>8, <1>9, <1>10, <1>11, <1>12, <1>13, <1>14
  DEF WorkerStep
-----------------------------------------------------------------------------
(* The steps of the client.                                                *)

\* A call ends.
LEMMA EndStep ==
    ASSUME ChainInv, ChainInv', UNCHANGED <<passed, returned, to>>,
           AtWork \in {"train", "request", "checkpoint"}, AtWork' = "none",
           AtWork \in {"train", "request"} => Ended,
           AtWork = "train" => returned = passed
    PROVE  WaveStep
<1>1. Links' = Links
  BY DEF Links
<1>2. UNCHANGED <<Forwarded, CameBack, Successors>> /\ Forwarded = passed /\ CameBack = returned
      /\ Successors = Links
  BY <1>1, AbstractViews, NextAbstractViews
<1>3. AtWork \in {"train", "request"} => Abstract!Passed
  <2> SUFFICES ASSUME Ended PROVE Inputs \subseteq passed /\ \A b \in passed : Links[b] \subseteq passed
    BY <1>2 DEF Abstract!Passed
  <2>1. Inputs \subseteq passed
    BY DEF Ended, passed
  <2>2. ASSUME NEW b \in passed PROVE Links[b] \subseteq passed
    <3>1. Base
      BY DEF ChainInv
    <3>2. b \in Blocks /\ (b \in Senders => b \in fresh)
      BY <3>1, WaveTypes DEF passed, counted
    <3>3. b \in Senders => to[b] \in passed
      BY <3>2 DEF Ended
    <3> QED BY <3>2, <3>3 DEF Links
  <2> QED BY <2>1, <2>2
<1>4. Abstract!End
  BY <1>2, <1>3 DEF Abstract!End
<1> QED BY <1>4 DEF WaveStep, Abstract!Next

\* The client goes on inside its call, and no part in a buffer counts that did
\* not count before.
LEMMA InsideRefined ==
    ASSUME WaveInv, ChainInv', ClientFrame, call' = call,
           \A o \in Buffers : /\ buffer'[o].unfinished = buffer[o].unfinished
                              /\ buffer'[o].value = <<>> \/ buffer'[o].value = buffer[o].value,
           counted = {} \/ \A o \in Buffers : buffer'[o].value = buffer[o].value,
           cpc' \in {"counter", "expect", "reset"} => cpc \in {"counter", "expect", "reset"},
           cpc' = "collect" => Ended
    PROVE  /\ Passing' /\ Added' /\ Parts'
           /\ UNCHANGED <<to, fresh, back, paid, reached, counted, passed, returned>>
<1>1. ChainInv /\ Base /\ Passing /\ Added /\ Parts
  BY DEF WaveInv, ChainInv
<1>2. UNCHANGED <<to, fresh, back, paid, reached>>
  BY <1>1, QuietWave DEF ClientFrame
<1>3. UNCHANGED <<counted, parked>>
  <2>1. parked' = parked
    BY SameParked
  <2>2. \A e : e \notin Range(<<>>)
    BY DEF Range
  <2>3. \A b \in Outputs : BufferOf[b] \in Buffers
    BY BlockAssumption
  <2>4. CASE counted = {}
    <3>1. counted' \subseteq counted
      BY <2>2, <2>3 DEF counted
    <3> QED BY <2>1, <2>4, <3>1
  <2>5. CASE \A o \in Buffers : buffer'[o].value = buffer[o].value
    BY <2>1, <2>3, <2>5 DEF counted
  <2> QED BY <2>4, <2>5
<1>4. UNCHANGED <<passed, returned>>
  BY <1>2, <1>3 DEF passed, returned
<1>5. Passing'
  BY <1>1, <1>2, <1>3 DEF Passing
<1>6. Added'
  BY <1>1, <1>3 DEF Added, ClientFrame
<1>7. Parts'
  <2>1. \A o \in Buffers : \A e \in Range(buffer'[o].value) : e.data <= call
    <3>1. \A e : e \notin Range(<<>>)
      BY DEF Range
    <3> QED BY <1>1, <3>1 DEF Parts
  <2>2. cpc' \in {"counter", "expect", "reset"} => counted' = {}
    BY <1>1, <1>3 DEF Parts
  <2>3. cpc' = "collect" => Ended'
    BY <1>2, <1>4 DEF Ended
  <2> QED BY <2>1, <2>2, <2>3 DEF Parts
<1> QED BY <1>2, <1>3, <1>4, <1>5, <1>6, <1>7

\* The steps of a call between its begin and its end, but for the inputs.
LEMMA CallRefined ==
    ASSUME SeparateChains, WaveInv, ChainInv',
           \/ ResetCounter \/ EndPhase \/ SaveBlock
           \/ \E n \in Names : ApplyExpected(n) \/ ResetRequested(n) \/ NextInput(n)
           \/ \E o \in Buffers : CollectOutput(o)
           \/ \E b \in Blocks : NextToSave(b)
    PROVE  Refined
<1>1. ChainInv /\ Base /\ Client1 /\ Parts
  BY DEF WaveInv, ChainInv
<1>2. ClientFrame /\ call' = call
  BY DEF ResetCounter, EndPhase, ApplyExpected, ResetRequested, NextInput, CollectOutput, NextToSave,
         SaveBlock, ClientFrame, netVars, outBlocks, workerVars
<1>3. /\ cpc # "idle" /\ cpc' # "idle"
      /\ cpc' \in {"counter", "expect", "reset"} => cpc \in {"counter", "expect", "reset"}
      /\ cpc' = "collect" => cpc = "collect"
  <2>1. cpc = "reset" => todo \subseteq Buffers
    BY <1>1 DEF Client1
  <2>2. cpc = "input" => todo \subseteq Inputs
    BY <1>1 DEF Client1
  <2>3. CASE \E n \in Names : ResetRequested(n)
    BY <2>1, <2>3 DEF ResetRequested
  <2>4. CASE \E n \in Names : NextInput(n)
    BY <2>2, <2>4 DEF NextInput
  <2>5. CASE ~(\E n \in Names : ResetRequested(n) \/ NextInput(n))
    BY <2>5 DEF ResetCounter, EndPhase, ApplyExpected, CollectOutput, NextToSave, SaveBlock
  <2> QED BY <2>3, <2>4, <2>5
<1>4. \A o \in Buffers : buffer[o] \in BufferType
  BY <1>1 DEF Base, TypeOK
<1>5. /\ \A o \in Buffers : /\ buffer'[o].unfinished = buffer[o].unfinished
                            /\ buffer'[o].value = <<>> \/ buffer'[o].value = buffer[o].value
      /\ counted = {} \/ \A o \in Buffers : buffer'[o].value = buffer[o].value
  <2>1. CASE UNCHANGED buffer
    BY <2>1
  <2>2. ASSUME NEW n \in Names, ApplyExpected(n)
        PROVE  /\ \A o \in Buffers : /\ buffer'[o].unfinished = buffer[o].unfinished
                                     /\ buffer'[o].value = <<>> \/ buffer'[o].value = buffer[o].value
               /\ counted = {}
    <3>1. \A o \in Buffers : \/ buffer'[o] = buffer[o]
                             \/ buffer'[o] = SetExpected(ResetOutput(buffer[o]), call)
      BY <1>1, <2>2 DEF ApplyExpected, Base, TypeOK
    <3>2. counted = {}
      BY <1>1, <2>2 DEF ApplyExpected, Parts
    <3> QED BY <1>4, <3>1, <3>2, ClientBuffer
  <2>3. ASSUME NEW n \in Names, ResetRequested(n)
        PROVE  /\ \A o \in Buffers : /\ buffer'[o].unfinished = buffer[o].unfinished
                                     /\ buffer'[o].value = <<>> \/ buffer'[o].value = buffer[o].value
               /\ counted = {}
    <3>1. \A o \in Buffers : buffer'[o] = buffer[o] \/ buffer'[o] = ResetOutput(buffer[o])
      BY <1>1, <2>3 DEF ResetRequested, Base, TypeOK
    <3>2. counted = {}
      BY <1>1, <2>3 DEF ResetRequested, Parts
    <3> QED BY <1>4, <3>1, <3>2, ClientBuffer
  <2>4. ASSUME NEW n \in Buffers, CollectOutput(n)
        PROVE  /\ \A o \in Buffers : /\ buffer'[o].unfinished = buffer[o].unfinished
                                     /\ buffer'[o].value = buffer[o].value
    <3>1. \A o \in Buffers : buffer'[o] = buffer[o] \/ buffer'[o] = Reopen(buffer[o])
      BY <1>1, <2>4 DEF CollectOutput, Base, TypeOK
    <3> QED BY <1>4, <3>1, ClientBuffer
  <2>5. \/ UNCHANGED buffer
        \/ \E n \in Names : ApplyExpected(n) \/ ResetRequested(n)
        \/ \E o \in Buffers : CollectOutput(o)
    BY DEF ResetCounter, EndPhase, NextInput, NextToSave, SaveBlock, netVars
  <2> QED BY <2>1, <2>2, <2>3, <2>4, <2>5
<1>6. /\ Passing' /\ Added' /\ Parts'
      /\ UNCHANGED <<to, passed, returned, reached>>
  <2>1. cpc' = "collect" => Ended
    BY <1>1, <1>3 DEF Parts
  <2> QED BY <1>2, <1>3, <1>5, <2>1, InsideRefined
<1>7. UNCHANGED AtWork
  BY <1>2, <1>3 DEF AtWork
<1>8. WaveStep
  BY <1>1, <1>6, <1>7, StillWave
<1> QED BY <1>6, <1>8 DEF Refined

\* Inputs are applied to an input block.
LEMMA ApplyRefined ==
    ASSUME SeparateChains, WaveInv, ChainInv', ApplyPlainInput
    PROVE  Refined
<1> DEFINE t == Task(IF Calls[call].kind = "train" THEN "Train" ELSE "Process", arg)
<1>1. ChainInv /\ Base /\ Client1 /\ Passing /\ Added /\ Parts
  BY DEF WaveInv, ChainInv
<1>2. /\ cpc = "apply" /\ cpc' = "input" /\ queue' = queue \o <<t>>
      /\ UNCHANGED <<buffer, pc, task, call>>
  BY DEF ApplyPlainInput, workerVars, Enqueue
<1>3. /\ arg \in Inputs /\ fresh' = fresh \cup {arg} /\ reached' = reached \cup {arg}
      /\ UNCHANGED <<to, back, paid>>
  BY <1>1, ApplyWave
<1>4. UNCHANGED <<counted, parked>>
  BY <1>2, SameBuffers
<1>5. arg \in Blocks /\ arg \notin Outputs
  BY <1>3, BlockFacts
<1>6. /\ t \in TaskType /\ t.block = arg
  <2>1. /\ Task("Train", arg) \in TaskType /\ Task("Train", arg).block = arg
    BY <1>5 DEF Task, TaskType, Types, Cycle
  <2>2. /\ Task("Process", arg) \in TaskType /\ Task("Process", arg).block = arg
    BY <1>5 DEF Task, TaskType, Types, Cycle
  <2>3. t = Task("Train", arg) \/ t = Task("Process", arg)
    OBVIOUS
  <2> HIDE DEF t
  <2> QED BY <2>1, <2>2, <2>3
<1> HIDE DEF t
<1>7. UNCHANGED AtWork /\ AtWork \in {"train", "request"}
  <2>1. UNCHANGED AtWork
    BY <1>2 DEF AtWork
  <2>2. Running
    BY <1>2 DEF Running
  <2> QED BY <1>1, <2>1, <2>2, RunningAtWork
<1>8. passed' = passed \cup {arg} /\ UNCHANGED returned
  BY <1>3, <1>4 DEF passed, returned
<1>9. WaveStep
  BY <1>1, <1>3, <1>5, <1>7, <1>8, ForwardStep
<1>10. Passing'
  BY <1>1, <1>3, <1>4 DEF Passing
<1>11. Added'
  <2>1. <<t>> \in Seq(TaskType) /\ DOMAIN <<t>> = {1} /\ <<t>>[1] = t
    BY <1>6
  <2>2. \A k \in DOMAIN <<t>> : ~Forwards(<<t>>[k]) /\ <<t>>[k].block \in Outputs =>
            <<t>>[k].block \in counted'
    BY <1>5, <1>6, <2>1
  <2>3. \A k \in DOMAIN queue' : ~Forwards(queue'[k]) /\ queue'[k].block \in Outputs =>
            queue'[k].block \in counted'
    BY <1>1, <1>2, <1>4, <2>1, <2>2, QueueAdded
  <2>4. \A b \in parked' : b \in counted'
    BY <1>1, <1>4 DEF Added
  <2>5. \A v \in Workers : /\ pc'[v] # "idle" /\ task'[v].block \in Outputs
                           /\ ~Forwards(task'[v]) \/ pc'[v] \in {"gradient", "sendback"}
                           => task'[v].block \in counted'
    BY <1>1, <1>2, <1>4 DEF Added
  <2> QED BY <2>3, <2>4, <2>5, NextAdded
<1>12. Parts'
  BY <1>1, <1>2 DEF Parts
<1> QED BY <1>9, <1>10, <1>11, <1>12 DEF Refined

\* A call begins.
LEMMA BeginRefined ==
    ASSUME SeparateChains, WaveInv, ChainInv', BeginCall
    PROVE  Refined
<1>1. ChainInv /\ Base /\ Bounded /\ Client1 /\ Parts
  BY DEF WaveInv, ChainInv
<1>2. /\ cpc = "idle" /\ call < Len(Calls) /\ call' = call + 1 /\ cpc' \in {"counter", "save"}
      /\ UNCHANGED <<pc, task, queue>>
  BY DEF BeginCall, workerVars
<1>3. call \in Nat /\ Calls[call'].kind \in Kinds
  <2> DEFINE T == [kind : Kinds, ins : SUBSET Names, outs : SUBSET Names]
  <2>1. call \in Nat /\ Calls \in Seq(T)
    BY <1>1, CallAssumption DEF Base, TypeOK
  <2>2. \A c \in T : c.kind \in Kinds
    OBVIOUS
  <2> HIDE DEF T
  <2>3. Calls[call'] \in T
    BY <1>2, <2>1
  <2> QED BY <2>1, <2>2, <2>3
<1>4. /\ fresh' = {} /\ back' = {} /\ paid' = {} /\ reached' = {} /\ UNCHANGED to
  BY <1>1, BeginWave
<1>5. \A o \in Buffers : /\ buffer'[o].unfinished = buffer[o].unfinished
                         /\ buffer'[o].value = <<>> \/ buffer'[o].value = buffer[o].value
  <2>1. \A o \in Buffers : buffer[o] \in BufferType
    BY <1>1 DEF Base, TypeOK
  <2>2. \A o \in Buffers : buffer'[o] = buffer[o] \/ buffer'[o] = ResetOutput(buffer[o])
    BY DEF BeginCall
  <2> QED BY <2>1, <2>2, ClientBuffer
<1>6. \A o \in Buffers : \A e \in Range(buffer'[o].value) : e.data <= call
  <2>1. \A e : e \notin Range(<<>>)
    BY DEF Range
  <2> QED BY <1>1, <1>5, <2>1 DEF Parts
<1>7. counted' = {}
  <2>1. \A b \in Outputs : Part(b, call').data = call' /\ BufferOf[b] \in Buffers
    BY BlockAssumption DEF Part
  <2>2. \A b \in Outputs : Part(b, call') \notin Range(buffer'[BufferOf[b]].value)
    BY <1>2, <1>3, <1>6, <2>1
  <2> QED BY <2>2 DEF counted
<1>8. parked' = {}
  <2>1. Quiescent /\ ~Running
    BY <1>1, <1>2 DEF Client1, Running
  <2>2. parked = {}
    <3> HIDE DEF Running
    <3> QED BY <1>1, <2>1, AtRest
  <2> QED BY <1>5, <2>2, SameParked
<1>9. passed' = {} /\ returned' = {}
  BY <1>4, <1>7 DEF passed, returned
<1>10. WaveStep
  <2>1. Links' = Links
    BY <1>4 DEF Links
  <2>2. Forwarded' = {} /\ CameBack' = {} /\ Successors' = Successors
    BY <1>1, <1>9, <2>1, AbstractViews, NextAbstractViews
  <2>3. AtWork = "none" /\ AtWork' \in {"train", "request", "checkpoint"}
    BY <1>2, <1>3 DEF AtWork, Kinds
  <2>4. Abstract!Begin
    BY <2>2, <2>3 DEF Abstract!Begin
  <2> QED BY <2>4 DEF WaveStep, Abstract!Next
<1>11. Passing'
  BY <1>4 DEF Passing
<1>12. Added'
  <2>1. queue = <<>> /\ active = {}
    BY <1>1, <1>2 DEF Client1, Running, Quiescent
  <2>2. \A w \in Workers : pc[w] # "idle" => task[w].block \in Inputs \cup Cores
    <3>1. \A w \in Workers : pc[w] # "idle" => pc[w] \in {"return", "release"}
      BY <2>1 DEF active
    <3>2. \A w \in Workers : pc[w] \in {"return", "release"} => task[w].block \in Inputs \cup Cores
      BY <1>1 DEF Base, LockDiscipline
    <3> QED BY <3>1, <3>2
  <2>3. \A v \in Workers : pc[v] # "idle" => task[v].block \notin Outputs
    BY <2>2, BlockFacts
  <2> QED BY <1>2, <1>8, <2>1, <2>3 DEF Added
<1>13. Parts'
  <2>1. \A o \in Buffers : \A e \in Range(buffer'[o].value) : e.data <= call'
    <3>1. \A o \in Buffers : \A e \in Range(buffer'[o].value) : e.data \in Nat
      <4> DEFINE T == [block : Outputs \cup {"sigmoid"}, data : Nat]
      <4>1. \A o \in Buffers : buffer'[o] \in BufferType
        BY DEF ChainInv, Base, TypeOK
      <4>2. \A o \in Buffers : buffer'[o].value \in Seq(T)
        BY <4>1 DEF BufferType, ValueType
      <4>3. \A e \in T : e.data \in Nat
        OBVIOUS
      <4> HIDE DEF T
      <4> QED BY <4>2, <4>3 DEF Range
    <3> QED BY <1>2, <1>3, <1>6, <3>1
  <2> QED BY <1>2, <1>7, <2>1 DEF Parts
<1> QED BY <1>10, <1>11, <1>12, <1>13 DEF Refined

\* What the wave has come to is registered, and got its input from its source.
LEMMA ReachedSources ==
    ASSUME ChainInv, NEW b \in reached
    PROVE  /\ b \in registered
           /\ b \in Receivers => \E a \in Senders \cap registered : to[a] = b
<1>1. Base
  BY DEF ChainInv
<1>2. b \in Inputs \/ b \in Receivers
  BY <1>1, WaveTypes
<1>3. CASE b \in Inputs
  BY <1>1, <1>3, WaveTypes DEF Base, Growing
<1>4. CASE b \in Receivers
  <2>1. from[b] \in Senders \cap registered /\ to[from[b]] = b
    BY <1>4, SourceOf
  <2>2. b # Nil
    BY <1>1, WaveTypes
  <2>3. b \in registered
    BY <1>1, <2>1, <2>2, Views
  <2> QED BY <2>1, <2>3
<1> QED BY <1>2, <1>3, <1>4

\* When the gradients are back the wave has passed every block, there and back.
LEMMA TrainingEnded ==
    ASSUME SeparateChains, WaveInv, Running, reportedInputs = Inputs, reportedBuffers = Buffers
    PROVE  Ended /\ returned = passed
<1>1. ChainInv /\ Base /\ Passing /\ Training
  BY DEF WaveInv, ChainInv
<1>2. Senders \cap registered \subseteq fresh \cap back
  BY <1>1, TrainingDone
<1>3. Inputs \subseteq registered /\ Inputs \subseteq Senders
  BY <1>1, WaveTypes DEF Base, Growing
<1>4. /\ fresh \subseteq reached /\ fresh \subseteq Senders
      /\ counted \subseteq reached /\ paid \subseteq reached
  BY <1>1, WaveTypes DEF Passing, Training
<1>5. \A b \in reached : b \in Receivers => b \in paid
  BY <1>1, <1>2, ReachedSources DEF Passing
<1>6. passed \subseteq returned
  <2>1. \A b \in fresh : b \in Inputs => b \in back
    BY <1>2, <1>3
  <2>2. \A b \in reached : b \in Inputs \/ b \in paid
    BY <1>1, <1>5, WaveTypes
  <2>3. \A b \in counted : b \in Receivers
    BY <1>1, WaveTypes DEF counted
  <2> QED BY <1>4, <1>5, <2>1, <2>2, <2>3 DEF passed, returned
<1>7. returned \subseteq passed
  <2>1. \A b \in paid : b \in Senders => b \in fresh
    BY <1>1, <1>2, <1>4, ReachedSources
  <2>2. \A b \in paid : b \in Senders \/ b \in Outputs
    BY <1>1, <1>4, WaveTypes
  <2>3. \A b \in paid : b \in Outputs => b \in counted
    BY <1>1 DEF Passing
  <2> QED BY <1>2, <1>3, <2>1, <2>2, <2>3 DEF passed, returned
<1>8. Ended
  <2>1. \A a \in fresh : to[a] \in paid
    BY <1>1, <1>2, <1>4, ReachedSources DEF Passing
  <2> QED BY <1>2, <1>3, <1>7, <2>1 DEF Ended, returned
<1> QED BY <1>6, <1>7, <1>8

\* When all buffers of a request are complete the wave has passed every block.
LEMMA RequestEnded ==
    ASSUME SeparateChains, WaveInv, cpc = "poll", kind = "request", reportedBuffers = Buffers
    PROVE  Ended
<1>1. ChainInv /\ Base /\ Edges /\ Passing
  BY DEF WaveInv, ChainInv
<1>2. /\ Outputs \cap registered \subseteq counted
      /\ \A a \in Senders \cap registered : to[a] \in reached
  BY <1>1, RequestEverywhere
<1>3. \A a \in Senders \cap registered : a \in fresh
  BY <1>1, <1>2 DEF Edges
<1>4. Inputs \subseteq fresh
  BY <1>1, <1>3, WaveTypes DEF Base, Growing
<1>5. \A a \in fresh : a \in Senders \cap registered
  BY <1>1, WaveTypes, ReachedSources DEF Passing
<1>6. \A b \in reached : b \in Senders \/ b \in Outputs
  BY <1>1, WaveTypes
<1>7. \A b \in reached : b \in passed
  BY <1>1, <1>2, <1>3, <1>6, ReachedSources DEF passed
<1> QED BY <1>2, <1>4, <1>5, <1>7 DEF Ended

\* run_iteration sees that the call is complete.
LEMMA PollRefined ==
    ASSUME SeparateChains, WaveInv, ChainInv', PollFinished
    PROVE  Refined
<1>1. ChainInv /\ Base
  BY DEF WaveInv, ChainInv
<1>2. /\ cpc = "poll" /\ counter.n >= counter.compare /\ ClientFrame /\ UNCHANGED <<buffer, call>>
      /\ IF Calls[call].kind = "train" THEN cpc' = "idle" ELSE cpc' = "collect"
  BY DEF PollFinished, ReturnWith, ClientFrame, netVars, outBlocks, workerVars
<1>3. Running
  BY <1>2 DEF Running
<1>4. AtWork = kind /\ kind \in {"train", "request"} /\ kind = Calls[call].kind
  BY <1>1, <1>2, <1>3, RunningAtWork, InCall
<1>5. reportedBuffers = Buffers /\ (kind = "train" => reportedInputs = Inputs)
  BY <1>1, <1>2, CompleteCounter
<1>6. Ended /\ (kind = "train" => returned = passed)
  <2> HIDE DEF Running
  <2>1. CASE kind = "train"
    BY <1>3, <1>5, <2>1, TrainingEnded
  <2>2. CASE kind = "request"
    BY <1>2, <1>5, <2>2, RequestEnded
  <2> QED BY <1>4, <2>1, <2>2
<1>7. /\ Passing' /\ Added' /\ Parts'
      /\ UNCHANGED <<to, passed, returned, reached>>
  BY <1>2, <1>6, InsideRefined
<1>8. CASE kind = "train"
  <2>1. AtWork' = "none"
    BY <1>2, <1>4, <1>8 DEF AtWork
  <2>2. WaveStep
    BY <1>1, <1>4, <1>6, <1>7, <1>8, <2>1, EndStep
  <2> QED BY <1>7, <2>2 DEF Refined
<1>9. CASE kind = "request"
  <2>1. UNCHANGED AtWork
    BY <1>2, <1>4, <1>9 DEF AtWork
  <2>2. WaveStep
    BY <1>1, <1>7, <2>1, StillWave
  <2> QED BY <1>7, <2>2 DEF Refined
<1> QED BY <1>4, <1>8, <1>9

\* A request or a checkpoint returns.
LEMMA EndCallRefined ==
    ASSUME SeparateChains, WaveInv, ChainInv', EndCall
    PROVE  Refined
<1>1. ChainInv /\ Base /\ Client1 /\ Parts
  BY DEF WaveInv, ChainInv
<1>2. /\ cpc \in {"collect", "save"} /\ cpc' = "idle" /\ ClientFrame /\ UNCHANGED <<buffer, call>>
  BY DEF EndCall, ReturnWith, ClientFrame, netVars, outBlocks, workerVars
<1>3. /\ Passing' /\ Added' /\ Parts'
      /\ UNCHANGED <<to, passed, returned, reached>>
  BY <1>2, InsideRefined
<1>4. kind = Calls[call].kind
  BY <1>1, <1>2, InCall
<1>5. AtWork = kind /\ AtWork' = "none"
  BY <1>2, <1>4 DEF AtWork
<1>6. kind \in {"request", "checkpoint"} /\ (kind = "request" => Ended)
  BY <1>1, <1>2 DEF Client1, Parts
<1>7. WaveStep
  BY <1>1, <1>3, <1>5, <1>6, EndStep
<1> QED BY <1>3, <1>7 DEF Refined

\* Every step of the client.
LEMMA ClientRefined ==
    ASSUME SeparateChains, WaveInv, ChainInv', ClientStep
    PROVE  Refined
<1>1. ~PollTimeout
  BY DEF PollTimeout, SeparateChains
<1>2. CASE \/ ResetCounter \/ EndPhase \/ SaveBlock
           \/ \E n \in Names : ApplyExpected(n) \/ ResetRequested(n) \/ NextInput(n)
           \/ \E o \in Buffers : CollectOutput(o)
           \/ \E b \in Blocks : NextToSave(b)
  BY <1>2, CallRefined
<1>3. CASE BeginCall
  BY <1>3, BeginRefined
<1>4. CASE ApplyPlainInput
  BY <1>4, ApplyRefined
<1>5. CASE PollFinished
  BY <1>5, PollRefined
<1>6. CASE EndCall
  BY <1>6, EndCallRefined
<1> QED BY <1>1, <1>2, <1>3, <1>4, <1>5, <1>6 DEF ClientStep

\* A step that changes nothing.
LEMMA StutterRefined ==
    ASSUME WaveInv, ChainInv', UNCHANGED vars
    PROVE  Refined
<1>1. ChainInv /\ Passing /\ Added /\ Parts
  BY DEF WaveInv
<1>2. UNCHANGED <<registered, io, level, attached, sized, buffer, queue, pc, task, cpc, call>>
  BY DEF vars, netVars, outBlocks, workerVars, clientVars
<1>3. UNCHANGED <<to, fresh, back, paid, reached>>
  <2>1. UNCHANGED <<to, age, grad, from, got, gave>>
    BY <1>2 DEF to, age, grad, from, got, gave
  <2> QED BY <1>2, <2>1 DEF fresh, back, paid, reached
<1>4. UNCHANGED <<counted, parked>>
  BY <1>2, SameBuffers
<1>5. UNCHANGED <<passed, returned, AtWork>>
  BY <1>2, <1>3, <1>4 DEF passed, returned, AtWork
<1>6. WaveStep
  BY <1>1, <1>3, <1>5, StillWave
<1>7. Passing' /\ Added'
  BY <1>1, <1>2, <1>3, <1>4 DEF Passing, Added
<1>8. Parts'
  <2>1. Ended' = Ended
    BY <1>3, <1>5 DEF Ended
  <2> QED BY <1>1, <1>2, <1>4, <2>1 DEF Parts
<1> QED BY <1>3, <1>6, <1>7, <1>8 DEF Refined

\* Every step keeps the invariant and is a step of Waves, or none.
LEMMA NextRefined ==
    ASSUME SeparateChains, WaveInv, [Next]_vars
    PROVE  WaveInv' /\ WaveStep
<1>1. ChainInv'
  <2>1. ChainInv
    BY DEF WaveInv
  <2> QED BY <2>1, ChainStep
<1>2. CASE ClientStep
  BY <1>1, <1>2, ClientRefined DEF Refined, WaveInv
<1>3. CASE \E w \in Workers : WorkerStep(w)
  BY <1>1, <1>3, WorkerRefined DEF Refined, WaveInv
<1>4. CASE UNCHANGED vars
  BY <1>1, <1>4, StutterRefined DEF Refined, WaveInv
<1>5. CASE Done
  BY <1>1, <1>5, StutterRefined DEF Done, Refined, WaveInv
<1> QED BY <1>2, <1>3, <1>4, <1>5 DEF Next

\* Nothing was passed, and no block sends to another.
LEMMA InitWave ==
    ASSUME SeparateChains, Init
    PROVE  WaveInv /\ Abstract!Init
<1>1. ChainInv
  BY InitChain
<1>2. /\ call = 0 /\ cpc = "idle" /\ queue = <<>> /\ registered = Inputs
      /\ \A w \in Workers : pc[w] = "idle"
      /\ \A o \in Buffers : buffer[o].value = <<>> /\ buffer[o].unfinished = <<>>
  <2>1. registered = Inputs
    BY InitUnwired DEF SeparateChains
  <2>2. \A o \in Buffers : buffer[o].value = <<>> /\ buffer[o].unfinished = <<>>
    <3>1. \A n : /\ [NewBuffer EXCEPT !.connected = n].value = <<>>
                 /\ [NewBuffer EXCEPT !.connected = n].unfinished = <<>>
      BY DEF NewBuffer
    <3> QED BY <3>1 DEF Init
  <2> QED BY <2>1, <2>2 DEF Init
<1>3. fresh = {} /\ back = {} /\ paid = {} /\ counted = {}
  BY <1>2 DEF fresh, back, paid, counted
<1>4. \A b : b \notin Range(<<>>)
  BY DEF Range
<1>5. parked = {}
  BY <1>2, <1>4, BlockAssumption DEF parked
<1>6. Passing
  BY <1>3 DEF Passing
<1>7. Added
  BY <1>2, <1>5 DEF Added
<1>8. Parts
  BY <1>2, <1>3, <1>4 DEF Parts
<1>9. passed = {} /\ returned = {}
  BY <1>3 DEF passed, returned
<1>10. Links = [b \in Blocks |-> {}]
  <2>1. Base
    BY <1>1 DEF ChainInv
  <2>2. \A a \in Senders : to[a] = Nil
    BY <1>2, <2>1, Views, WaveTypes
  <2> QED BY <2>2 DEF Links
<1>11. AtWork = "none"
  BY <1>2 DEF AtWork
<1>12. Abstract!Init
  <2>1. Links \in [Blocks -> SUBSET (Blocks \ Inputs)]
    BY <1>10
  <2> QED BY <1>1, <1>9, <1>11, <2>1, AbstractViews DEF Abstract!Init
<1> QED BY <1>1, <1>6, <1>7, <1>8, <1>12 DEF WaveInv

\* Whatever the threads interleave, a call takes each block once, in the order of
\* the network, and does not return before its wave has ended (train and request,
\* model_interface.rs).
THEOREM WavesRefined == SeparateChains => (Spec => WavesImplemented)
<1> SUFFICES ASSUME SeparateChains PROVE Spec => WavesImplemented
  OBVIOUS
<1>1. Init => WaveInv /\ Abstract!Init
  BY InitWave
<1>2. WaveInv /\ [Next]_vars => WaveInv' /\ [Abstract!Next]_(Abstract!vars)
  BY NextRefined DEF WaveStep
<1> QED BY <1>1, <1>2, PTL DEF Spec, WavesImplemented, Abstract!Spec
-----------------------------------------------------------------------------
(* What follows for the threads from Waves.                                *)

\* The inductive invariant of Waves.
InOrder == Abstract!TypeOK /\ Abstract!Ordered

\* Every step of Waves keeps it.
LEMMA OrderStep ==
    ASSUME InOrder, [Abstract!Next]_(Abstract!vars)
    PROVE  InOrder'
<1> USE DEF InOrder, Abstract!TypeOK, Abstract!Ordered, Abstract!Pred
<1>1. CASE Abstract!Begin
  BY <1>1 DEF Abstract!Begin
<1>2. CASE Abstract!End
  BY <1>2 DEF Abstract!End
<1>3. ASSUME NEW b \in Blocks, Abstract!Forward(b) PROVE InOrder'
  BY <1>3 DEF Abstract!Forward
<1>4. ASSUME NEW b \in Blocks, Abstract!Backward(b) PROVE InOrder'
  BY <1>4 DEF Abstract!Backward
<1>5. ASSUME NEW a \in Blocks, NEW b \in Blocks, Abstract!Connect(a, b) PROVE InOrder'
  BY <1>5 DEF Abstract!Connect
<1>6. CASE UNCHANGED Abstract!vars
  BY <1>6 DEF Abstract!vars
<1> QED BY <1>1, <1>2, <1>3, <1>4, <1>5, <1>6 DEF Abstract!Next

\* The wave keeps the order of the network at all times, although the network
\* grows under it.
THEOREM WaveOrder == Abstract!Spec => []Abstract!Ordered
<1>1. Abstract!Init => InOrder
  BY DEF Abstract!Init, InOrder, Abstract!TypeOK, Abstract!Ordered
<1>2. InOrder /\ [Abstract!Next]_(Abstract!vars) => InOrder'
  BY OrderStep
<1>3. InOrder => Abstract!Ordered
  BY DEF InOrder
<1> QED BY <1>1, <1>2, <1>3, PTL DEF Abstract!Spec

\* So do the threads: a block has its potentials after all that send to it, the
\* wave comes back only to blocks it has passed, and to a block only after it
\* came back to all it sends to (send_forward and send_backward, block_io.rs).
THEOREM ThreadsInOrder == SeparateChains => (Spec => []Abstract!Ordered)
BY WavesRefined, WaveOrder, PTL DEF WavesImplemented
=============================================================================
