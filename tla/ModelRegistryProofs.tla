------------------------ MODULE ModelRegistryProofs ------------------------
(***************************************************************************)
(* Proofs about ModelRegistry: every registered model and every checkpoint *)
(* file is well formed, no two models share a finish counter, and a call   *)
(* waits for the reports it gets, for all models, names, files and faults. *)
(***************************************************************************)
EXTENDS ModelRegistry, FiniteSetTheorems, SequenceTheorems, TLAPS

-----------------------------------------------------------------------------
(* The inductive invariant. What a checkpoint file holds may become a      *)
(* model later, so that the files are as well formed as the models.        *)

\* The number of places of a block only bounds the sources of finite sets.
PlaceOf == {blk \in BlockOf : IsFiniteSet(blk.own) /\ IsFiniteSet(blk.strays)}

ModelInv(m) ==
    /\ IsModel(m)
    /\ m.blocks \in [DOMAIN m.blocks -> PlaceOf]
    /\ IsFiniteSet(DOMAIN m.inputs) /\ IsFiniteSet(DOMAIN m.outputs)

\* The content of a model when its checkpoint was written.
IsSaved(c) ==
    /\ c = [template |-> c.template, inputs |-> c.inputs, outputs |-> c.outputs,
            blocks |-> c.blocks, learned |-> c.learned]
    /\ c.template \in Templates
    /\ c.inputs \subseteq Names /\ IsFiniteSet(c.inputs)
    /\ c.outputs \subseteq Names /\ IsFiniteSet(c.outputs)
    /\ DOMAIN c.blocks \subseteq Blocks /\ c.blocks \in [DOMAIN c.blocks -> PlaceOf]
    /\ c.learned \in Nat

FileInv(f) ==
    /\ f.meta \in BOOLEAN /\ f.torn \in BOOLEAN
    /\ f.inputs \subseteq f.saved.inputs
    /\ f.outputs \subseteq f.saved.outputs
    /\ f.blocks \subseteq DOMAIN f.saved.blocks
    /\ IsSaved(f.saved)

ModelsInv == DOMAIN models = Uuids /\ \A u \in Registered : ModelInv(models[u])
FilesInv  == DOMAIN files = Paths /\ \A p \in Paths : files[p] # Nil => FileInv(files[p])

RestTyped ==
    /\ counters \in Seq([input : Nat, output : Nat])
    /\ pending \in [Uuids -> SUBSET Sources]
    /\ strays \in [Uuids -> SUBSET Sources]
    /\ poisoned \in BOOLEAN
    /\ Registered \subseteq known /\ known \subseteq Uuids
    /\ calls \in 0 .. MaxCalls

\* Tasks are left for models that there are.
Attended == \A u \in Uuids : pending[u] # {} => ModelInv(models[u])

Inv == ModelsInv /\ FilesInv /\ RestTyped /\ CountersOwned /\ Attended

\* The names of a template are distinct. With a name that comes twice a model
\* waits for other numbers than it has inputs and outputs (repeated_name.cfg).
DistinctNames == \A t \in Templates : Unique(t.inputs) /\ Unique(t.outputs)

-----------------------------------------------------------------------------
(* What the operators make is well formed.                                 *)

\* One source more: the block had a place left.
LEMMA FedPlace ==
    ASSUME NEW block \in PlaceOf, NEW s \in Sources, NEW own \in BOOLEAN,
           HasFreeInput(block)
    PROVE  Fed(block, s, own) \in PlaceOf
<1>1. /\ block \in [own : SUBSET Sources, strays : SUBSET Sources]
      /\ IsFiniteSet(block.own) /\ IsFiniteSet(block.strays)
  BY DEF PlaceOf, BlockOf
<1>2. Cardinality(block.own) \in Nat /\ Cardinality(block.strays) \in Nat
  BY <1>1, FS_CardinalityType
<1>3. Cardinality(block.own) + Cardinality(block.strays) < 2
  BY DEF HasFreeInput
<1>4. CASE own
  <2> DEFINE new == [block EXCEPT !.own = @ \cup {s}]
  <2>1. new \in [own : SUBSET Sources, strays : SUBSET Sources]
        /\ new.own = block.own \cup {s} /\ new.strays = block.strays
    BY <1>1
  <2>2. Fed(block, s, own) = new
    BY <1>4 DEF Fed
  <2> HIDE DEF new
  <2> DEFINE S == block.own \cup {s}
  <2>3. /\ IsFiniteSet(S)
        /\ Cardinality(S) = IF s \in block.own THEN Cardinality(block.own)
                            ELSE Cardinality(block.own) + 1
    BY <1>1, FS_AddElement, Zenon
  <2>4. Cardinality(S) <= Cardinality(block.own) + 1
    BY <1>2, <2>3
  <2>5. Cardinality(S) \in Nat
    BY <2>3, FS_CardinalityType, Zenon
  <2>6. Cardinality(new.own) + Cardinality(new.strays) <= 2
    BY <1>2, <1>3, <2>1, <2>4, <2>5
  <2>7. IsFiniteSet(new.own) /\ IsFiniteSet(new.strays)
    BY <1>1, <2>1, <2>3, Zenon
  <2>8. new \in PlaceOf
    BY <2>1, <2>6, <2>7 DEF PlaceOf, BlockOf
  <2> QED BY <1>4, <2>1, <2>2, <2>8
<1>5. CASE ~ own
  <2> DEFINE new == [block EXCEPT !.strays = @ \cup {s}]
  <2>1. new \in [own : SUBSET Sources, strays : SUBSET Sources]
        /\ new.strays = block.strays \cup {s} /\ new.own = block.own
    BY <1>1
  <2>2. Fed(block, s, own) = new
    BY <1>5 DEF Fed
  <2> HIDE DEF new
  <2> DEFINE S == block.strays \cup {s}
  <2>3. /\ IsFiniteSet(S)
        /\ Cardinality(S) = IF s \in block.strays THEN Cardinality(block.strays)
                            ELSE Cardinality(block.strays) + 1
    BY <1>1, FS_AddElement, Zenon
  <2>4. Cardinality(S) <= Cardinality(block.strays) + 1
    BY <1>2, <2>3
  <2>5. Cardinality(S) \in Nat
    BY <2>3, FS_CardinalityType, Zenon
  <2>6. Cardinality(new.own) + Cardinality(new.strays) <= 2
    BY <1>2, <1>3, <2>1, <2>4, <2>5
  <2>7. IsFiniteSet(new.own) /\ IsFiniteSet(new.strays)
    BY <1>1, <2>1, <2>3, Zenon
  <2>8. new \in PlaceOf
    BY <2>1, <2>6, <2>7 DEF PlaceOf, BlockOf
  <2> QED BY <1>5, <2>1, <2>2, <2>8
<1> QED BY <1>4, <1>5

\* A new block has both places free.
LEMMA NewPlace ==
    [own |-> {}, strays |-> {}] \in PlaceOf /\ HasFreeInput([own |-> {}, strays |-> {}])
BY FS_EmptySet DEF PlaceOf, BlockOf, HasFreeInput

\* The first names of a list: finitely many, and as many as the list has when
\* it has none twice.
LEMMA FirstNamesCount ==
    ASSUME NEW s \in Seq(Names)
    PROVE  /\ FirstNames(s) \subseteq Names /\ IsFiniteSet(FirstNames(s))
           /\ Unique(s) => Cardinality(FirstNames(s)) = Len(s)
<1> DEFINE D == {k \in DOMAIN s : 1 .. k \subseteq Accepted(s)}
           f == [k \in D |-> s[k]]
<1>1. DOMAIN s = 1 .. Len(s) /\ Len(s) \in Nat /\ \A k \in 1 .. Len(s) : s[k] \in Names
  OBVIOUS
<1>2. IsFiniteSet(1 .. Len(s)) /\ Cardinality(1 .. Len(s)) = Len(s)
  <2>1. 1 \in Int /\ Len(s) \in Int
    BY <1>1
  <2>2. /\ IsFiniteSet(1 .. Len(s))
        /\ Cardinality(1 .. Len(s)) = IF 1 > Len(s) THEN 0 ELSE Len(s) - 1 + 1
    BY <2>1, FS_Interval, Zenon
  <2> QED BY <1>1, <2>2
<1>3. IsFiniteSet(D)
  BY <1>1, <1>2, FS_Subset
<1>4. FirstNames(s) = {s[k] : k \in D}
  BY DEF FirstNames
<1>5. f \in Surjection(D, FirstNames(s))
  BY <1>4 DEF Surjection
<1>6. IsFiniteSet(FirstNames(s))
    /\ (Cardinality(FirstNames(s)) = Cardinality(D) <=> f \in Injection(D, FirstNames(s)))
  BY <1>3, <1>5, FS_Surjection
<1>7. ASSUME Unique(s)
      PROVE  Cardinality(FirstNames(s)) = Len(s)
  <2>1. Accepted(s) = 1 .. Len(s)
    BY <1>1, <1>7 DEF Unique
  <2>2. \A k \in 1 .. Len(s) : 1 .. k \subseteq 1 .. Len(s)
    BY <1>1
  <2>3. D = 1 .. Len(s)
    BY <1>1, <2>1, <2>2
  <2>4. \A i, j \in 1 .. Len(s) : s[i] = s[j] => i = j
    <3> TAKE i, j \in 1 .. Len(s)
    <3> HAVE s[i] = s[j]
    <3>1. \A k \in 1 .. i : s[k] = s[i] => k = i
      BY <2>1 DEF Accepted
    <3>2. \A k \in 1 .. j : s[k] = s[j] => k = j
      BY <2>1 DEF Accepted
    <3> QED BY <1>1, <3>1, <3>2
  <2>5. f \in Injection(D, FirstNames(s))
    BY <2>3, <2>4, <1>5 DEF Injection, Surjection, IsInjective
  <2> QED BY <1>2, <1>6, <2>3, <2>5
<1>8. FirstNames(s) \subseteq Names
  BY <1>1, <1>4
<1> QED BY <1>6, <1>7, <1>8

\* A template gives names, and numbers of them.
LEMMA TemplateCounts ==
    ASSUME NEW t \in Templates
    PROVE  /\ t.inputs \in Seq(Names) /\ t.outputs \in Seq(Names)
           /\ Compared(t) \in [input : Nat, output : Nat]
           /\ OutputNames(t) \subseteq Names /\ IsFiniteSet(OutputNames(t))
<1>1. t.inputs \in Seq(Names) /\ t.outputs \in Seq(Names)
  BY TemplateAssumption
<1>2. Len(t.inputs) \in Nat /\ Len(t.outputs) \in Nat
  BY <1>1
<1>3. Compared(t) \in [input : Nat, output : Nat]
  BY <1>2 DEF Compared
<1>4. OutputNames(t) \subseteq Names /\ IsFiniteSet(OutputNames(t))
  BY <1>1, FirstNamesCount, FS_EmptySet DEF OutputNames
<1> QED BY <1>1, <1>3, <1>4

\* What a model writes into its file is well formed.
LEMMA ContentSaved ==
    ASSUME NEW m, ModelInv(m)
    PROVE  IsSaved(Content(m))
BY DEF ModelInv, IsModel, IsSaved, Content

\* A whole file and every beginning of one are well formed.
LEMMA WholeFile ==
    ASSUME NEW c, IsSaved(c)
    PROVE  FileInv(Whole(c)) /\ Complete(Whole(c))
BY DEF FileInv, Whole, Complete, IsSaved

LEMMA BeginningFile ==
    ASSUME NEW c, IsSaved(c), NEW f \in Beginnings(c)
    PROVE  FileInv(f)
<1>1. f.saved = c /\ f.meta \in BOOLEAN /\ f.torn \in BOOLEAN
  <2>1. f.saved = c
    BY DEF Beginnings
  <2>2. f.meta = TRUE \/ f.meta = FALSE
    BY DEF Beginnings
  <2>3. f.torn \in BOOLEAN
    BY DEF Beginnings
  <2> QED BY <2>1, <2>2, <2>3
<1>2. f.inputs \subseteq c.inputs
  BY DEF Beginnings
<1>3. f.outputs \subseteq c.outputs
  BY DEF Beginnings
<1>4. f.blocks \subseteq DOMAIN c.blocks
  BY DEF Beginnings
<1> QED BY <1>1, <1>2, <1>3, <1>4 DEF FileInv

\* What the entries of a file make is a well formed model.
LEMMA RebuiltModel ==
    ASSUME NEW f, FileInv(f), NEW c \in Nat, NEW r \in Nat, NEW built \in BOOLEAN
    PROVE  ModelInv(Rebuilt(f, c, r, built)) /\ Rebuilt(f, c, r, built).interface = c
<1> DEFINE m == Rebuilt(f, c, r, built)
<1>1. /\ m = [template |-> f.saved.template, inputs |-> [n \in f.inputs |-> r],
              outputs |-> [n \in f.outputs |-> r], blocks |-> RestoredBlocks(f),
              learned |-> f.saved.learned, interface |-> c, built |-> built]
  BY DEF Rebuilt
<1>2. /\ DOMAIN m = {"template", "inputs", "outputs", "blocks", "learned", "interface",
                     "built"}
      /\ m.template = f.saved.template /\ m.inputs = [n \in f.inputs |-> r]
      /\ m.outputs = [n \in f.outputs |-> r] /\ m.blocks = RestoredBlocks(f)
      /\ m.learned = f.saved.learned /\ m.interface = c /\ m.built = built
  BY <1>1
<1> HIDE DEF m
<1>3. IsSaved(f.saved) /\ f.inputs \subseteq f.saved.inputs
      /\ f.outputs \subseteq f.saved.outputs /\ f.blocks \subseteq DOMAIN f.saved.blocks
  BY DEF FileInv
<1>4. DOMAIN m.inputs = f.inputs /\ DOMAIN m.outputs = f.outputs /\ DOMAIN m.blocks = f.blocks
      /\ m.inputs \in [f.inputs -> Nat] /\ m.outputs \in [f.outputs -> Nat]
  BY <1>2 DEF RestoredBlocks
<1>5. IsFiniteSet(f.inputs) /\ IsFiniteSet(f.outputs)
  BY <1>3, FS_Subset DEF IsSaved
<1>6. m.blocks \in [DOMAIN m.blocks -> PlaceOf]
  BY <1>2, <1>3, <1>4 DEF RestoredBlocks, IsSaved
<1>7. m.blocks \in [DOMAIN m.blocks -> BlockOf]
  BY <1>6 DEF PlaceOf
<1>8. IsModel(m)
  BY <1>2, <1>3, <1>4, <1>7 DEF IsModel, IsSaved, Complete
<1> QED BY <1>2, <1>4, <1>5, <1>6, <1>8 DEF ModelInv, m
-----------------------------------------------------------------------------
(* How a call changes the registry: one model is set, or all are removed.  *)

\* A model with other blocks is well formed, if the blocks are.
LEMMA SetBlocks ==
    ASSUME NEW m, ModelInv(m), NEW blocks,
           DOMAIN blocks \subseteq Blocks, blocks \in [DOMAIN blocks -> PlaceOf]
    PROVE  /\ ModelInv([m EXCEPT !.blocks = blocks])
           /\ [m EXCEPT !.blocks = blocks].interface = m.interface
<1> DEFINE n == [m EXCEPT !.blocks = blocks]
<1>1. DOMAIN m = {"template", "inputs", "outputs", "blocks", "learned", "interface",
                  "built"}
  BY DEF ModelInv, IsModel
<1>2. /\ DOMAIN n = DOMAIN m
      /\ n.template = m.template /\ n.inputs = m.inputs /\ n.outputs = m.outputs
      /\ n.blocks = blocks /\ n.learned = m.learned /\ n.interface = m.interface
      /\ n.built = m.built
  BY <1>1
<1> HIDE DEF n
<1>3. n.blocks \in [DOMAIN n.blocks -> BlockOf]
  BY <1>2 DEF PlaceOf
<1>4. IsModel(n)
  BY <1>1, <1>2, <1>3 DEF ModelInv, IsModel
<1>5. ModelInv(n)
  BY <1>2, <1>4 DEF ModelInv
<1> QED BY <1>2, <1>5 DEF n

\* One more training.
LEMMA SetLearned ==
    ASSUME NEW m, ModelInv(m)
    PROVE  /\ ModelInv([m EXCEPT !.learned = @ + 1])
           /\ [m EXCEPT !.learned = @ + 1].interface = m.interface
<1> DEFINE n == [m EXCEPT !.learned = @ + 1]
<1>1. DOMAIN m = {"template", "inputs", "outputs", "blocks", "learned", "interface",
                  "built"} /\ m.learned + 1 \in Nat
  BY DEF ModelInv, IsModel
<1>2. /\ DOMAIN n = DOMAIN m
      /\ n.template = m.template /\ n.inputs = m.inputs /\ n.outputs = m.outputs
      /\ n.blocks = m.blocks /\ n.learned = m.learned + 1 /\ n.interface = m.interface
      /\ n.built = m.built
  BY <1>1
<1> HIDE DEF n
<1>3. IsModel(n)
  BY <1>1, <1>2 DEF ModelInv, IsModel
<1>4. ModelInv(n)
  BY <1>2, <1>3 DEF ModelInv
<1> QED BY <1>2, <1>4 DEF n

\* The model u becomes m, or is removed if m is Nil.
LEMMA SetModel ==
    ASSUME Inv, NEW u \in Uuids, NEW m,
           models' = [models EXCEPT ![u] = m],
           m # Nil => /\ ModelInv(m) /\ u \in known' /\ m.interface \in DOMAIN counters'
                      /\ \A v \in Registered \ {u} : models[v].interface # m.interface,
           DOMAIN counters \subseteq DOMAIN counters',
           known \subseteq known', known' \subseteq Uuids
    PROVE  ModelsInv' /\ CountersOwned' /\ Registered' \subseteq known'
<1>1. DOMAIN models = Uuids /\ (\A v \in Registered : ModelInv(models[v])) /\ Registered \subseteq known
  BY DEF Inv, ModelsInv, RestTyped
<1>2. DOMAIN models' = Uuids /\ models'[u] = m
  BY <1>1
<1>3. ASSUME NEW v \in Registered', v # u
      PROVE  v \in Registered /\ models'[v] = models[v]
  BY <1>1, <1>3 DEF Registered
<1>4. u \in Registered' => m # Nil
  BY <1>2 DEF Registered
<1>5. ModelsInv'
  <2>1. ASSUME NEW v \in Registered' PROVE ModelInv(models'[v])
    BY <1>1, <1>2, <1>3, <1>4
  <2> QED BY <1>2, <2>1 DEF ModelsInv
<1>6. CountersOwned'
  <2>1. ASSUME NEW v \in Registered'
        PROVE  models'[v].interface \in DOMAIN counters'
    <3>1. CASE v = u
      BY <1>2, <1>4, <3>1
    <3>2. CASE v # u
      BY <1>3, <3>2 DEF Inv, CountersOwned
    <3> QED BY <3>1, <3>2
  <2>2. ASSUME NEW v \in Registered', NEW w \in Registered', v # w
        PROVE  models'[v].interface # models'[w].interface
    <3>1. CASE v # u /\ w # u
      BY <1>3, <2>2, <3>1 DEF Inv, CountersOwned
    <3>2. CASE v = u
      <4>1. w \in Registered \ {u} /\ models'[w] = models[w]
        BY <1>3, <2>2, <3>2
      <4> QED BY <1>2, <1>4, <3>2, <4>1
    <3>3. CASE w = u
      <4>1. v \in Registered \ {u} /\ models'[v] = models[v]
        BY <1>3, <2>2, <3>3
      <4> QED BY <1>2, <1>4, <3>3, <4>1
    <3> QED BY <3>1, <3>2, <3>3
  <2> QED BY <2>1, <2>2 DEF CountersOwned
<1>7. Registered' \subseteq known'
  BY <1>1, <1>3, <1>4
<1> QED BY <1>5, <1>6, <1>7

\* All models are removed.
LEMMA ClearModels ==
    ASSUME models' = [u \in Uuids |-> Nil]
    PROVE  ModelsInv' /\ CountersOwned' /\ Registered' = {}
<1>1. Registered' = {}
  BY DEF Registered
<1> QED BY <1>1 DEF ModelsInv, CountersOwned

\* The model u keeps its counter.
LEMMA SameCounter ==
    ASSUME Inv, NEW u \in Registered
    PROVE  /\ u \in Uuids /\ u \in known /\ ModelInv(models[u])
           /\ models[u].interface \in DOMAIN counters
           /\ \A v \in Registered \ {u} : models[v].interface # models[u].interface
BY DEF Inv, ModelsInv, CountersOwned, RestTyped, Registered

\* The counter of a new model, or the one the model of this uuid had, is no
\* other model's.
LEMMA OwnCounter ==
    ASSUME Inv, NEW u \in Uuids, NEW c, c = FreshCounter \/ c = Inherited(u)
    PROVE  /\ c \in 1 .. Len(counters) + 1
           /\ \A v \in Registered \ {u} : models[v].interface # c
<1>1. DOMAIN counters = 1 .. Len(counters) /\ Len(counters) \in Nat
  BY DEF Inv, RestTyped
<1>2. CASE c = FreshCounter
  <2>1. \A v \in Registered : models[v].interface \in 1 .. Len(counters)
    BY <1>1 DEF Inv, CountersOwned
  <2> QED BY <1>1, <1>2, <2>1 DEF FreshCounter
<1>3. CASE c # FreshCounter
  <2>1. u \in Registered /\ c = models[u].interface
    BY <1>3 DEF Inherited, Registered
  <2>2. c \in 1 .. Len(counters) /\ \A v \in Registered \ {u} : models[v].interface # c
    BY <1>1, <2>1, SameCounter
  <2> QED BY <1>1, <2>2
<1> QED BY <1>2, <1>3

\* A counter is set: the others keep their numbers.
LEMMA SetCounter ==
    ASSUME counters \in Seq([input : Nat, output : Nat]),
           NEW c \in 1 .. Len(counters) + 1, NEW numbers \in [input : Nat, output : Nat]
    PROVE  /\ WithCounter(c, numbers) \in Seq([input : Nat, output : Nat])
           /\ DOMAIN counters \subseteq DOMAIN WithCounter(c, numbers)
           /\ c \in DOMAIN WithCounter(c, numbers) /\ WithCounter(c, numbers)[c] = numbers
           /\ \A d \in DOMAIN counters : d # c => WithCounter(c, numbers)[d] = counters[d]
           /\ c = FreshCounter => WithCounter(c, numbers) = Append(counters, numbers)
<1>1. DOMAIN counters = 1 .. Len(counters) /\ Len(counters) \in Nat
  OBVIOUS
<1>2. CASE c \in DOMAIN counters
  <2>1. WithCounter(c, numbers) = [counters EXCEPT ![c] = numbers]
    BY <1>2 DEF WithCounter
  <2>2. c # FreshCounter
    BY <1>1, <1>2 DEF FreshCounter
  <2>3. [counters EXCEPT ![c] = numbers] \in Seq([input : Nat, output : Nat])
    BY <1>1, <1>2, ExceptSeq, Zenon
  <2> QED BY <1>1, <1>2, <2>1, <2>2, <2>3
<1>3. CASE c \notin DOMAIN counters
  <2>1. WithCounter(c, numbers) = Append(counters, numbers)
    BY <1>3 DEF WithCounter
  <2>2. c = Len(counters) + 1
    BY <1>1, <1>3
  <2> QED BY <1>1, <2>1, <2>2
<1> QED BY <1>2, <1>3

\* The tasks of removed models go on.
LEMMA RemovedWorld ==
    ASSUME Inv, NEW S
    PROVE  Abandoned(S) \in [Uuids -> SUBSET Sources] /\ Dropped(S) \in [Uuids -> SUBSET Sources]
<1>1. ASSUME NEW u \in Uuids PROVE Held(u) \subseteq Sources
  <2>1. CASE pending[u] = {}
    BY <2>1 DEF Held
  <2>2. CASE pending[u] # {}
    <3>1. ModelInv(models[u])
      BY <2>2 DEF Inv, Attended
    <3> QED BY <3>1 DEF Held, ModelInv, IsModel, Sources
  <2> QED BY <2>1, <2>2
<1> QED BY <1>1 DEF Inv, RestTyped, Abandoned, Dropped

\* The models whose tasks are dropped, or that no task is left for, need not be there.
LEMMA OneAttended ==
    ASSUME Attended, NEW u \in Uuids,
           \A v \in Uuids \ {u} : models'[v] = models[v] /\ pending'[v] = pending[v],
           pending'[u] = {} \/ ModelInv(models'[u])
    PROVE  Attended'
<1> SUFFICES ASSUME NEW v \in Uuids, pending'[v] # {} PROVE ModelInv(models'[v])
  BY DEF Attended
<1> QED BY DEF Attended

\* The model u is set or removed.
LEMMA SetAttended ==
    ASSUME Inv, NEW u \in Uuids, NEW m, models' = [models EXCEPT ![u] = m],
           (pending' = pending /\ ModelInv(m)) \/ pending' = Dropped({u})
    PROVE  Attended'
<1>1. models'[u] = m /\ \A v \in Uuids \ {u} : models'[v] = models[v]
  BY DEF Inv, ModelsInv
<1>2. \A v \in Uuids \ {u} : pending'[v] = pending[v]
  BY DEF Dropped
<1>3. pending'[u] = {} \/ ModelInv(models'[u])
  BY <1>1 DEF Dropped
<1> QED BY <1>1, <1>2, <1>3, OneAttended DEF Inv

\* The blocks around a block are blocks or inputs.
LEMMA AroundSources ==
    ASSUME NEW m, ModelInv(m), NEW s
    PROVE  Around(m, s) \subseteq Sources
<1>1. /\ DOMAIN m.blocks \subseteq Blocks
      /\ \A b \in DOMAIN m.blocks : m.blocks[b].own \cup m.blocks[b].strays \subseteq Sources
  <2>1. DOMAIN m.blocks \subseteq Blocks /\ m.blocks \in [DOMAIN m.blocks -> BlockOf]
    BY DEF ModelInv, IsModel
  <2> QED BY <2>1 DEF BlockOf
<1> QED BY <1>1 DEF Around, Sources

\* A call is counted.
LEMMA CountedCall ==
    ASSUME RestTyped, calls < MaxCalls, calls' = calls + 1
    PROVE  calls' \in 0 .. MaxCalls
BY CallAssumption DEF RestTyped
-----------------------------------------------------------------------------
(* The calls and the tasks preserve the invariant.                         *)

\* The other variables of a call.
LEMMA InitModelStep ==
    ASSUME Inv, NEW u \in Uuids, NEW t \in Templates, InitModel(u, t)
    PROVE  Inv'
<1> DEFINE m == [template  |-> t,
                 inputs    |-> [n \in FirstNames(t.inputs) |-> FreshCounter],
                 outputs   |-> [n \in OutputNames(t) |-> FreshCounter],
                 blocks    |-> Empty,
                 learned   |-> 0,
                 interface |-> FreshCounter,
                 built     |-> TRUE]
<1>1. /\ models' = [models EXCEPT ![u] = m] /\ counters' = Append(counters, Compared(t))
      /\ known' = known \cup {u} /\ UNCHANGED <<files, world, poisoned>>
      /\ calls < MaxCalls /\ calls' = calls + 1
  BY DEF InitModel, Call
<1>2. /\ t.inputs \in Seq(Names) /\ Compared(t) \in [input : Nat, output : Nat]
      /\ OutputNames(t) \subseteq Names /\ IsFiniteSet(OutputNames(t))
      /\ FirstNames(t.inputs) \subseteq Names /\ IsFiniteSet(FirstNames(t.inputs))
  BY TemplateCounts, FirstNamesCount
<1>3. RestTyped /\ counters \in Seq([input : Nat, output : Nat])
  BY DEF Inv, RestTyped
<1>4. /\ FreshCounter \in 1 .. Len(counters) + 1 /\ FreshCounter \in Nat
      /\ FreshCounter = FreshCounter
  BY <1>3 DEF FreshCounter
<1>5. \A v \in Registered \ {u} : models[v].interface # FreshCounter
  BY <1>4, OwnCounter
<1>6. /\ counters' \in Seq([input : Nat, output : Nat])
      /\ DOMAIN counters \subseteq DOMAIN counters' /\ FreshCounter \in DOMAIN counters'
  BY <1>1, <1>2, <1>3, <1>4, SetCounter
<1>7. ModelInv(m) /\ m.interface = FreshCounter
  <2>1. DOMAIN Empty = {}
    BY DEF Empty
  <2>2. Empty \in [DOMAIN Empty -> PlaceOf] /\ Empty \in [DOMAIN Empty -> BlockOf]
    BY <2>1 DEF Empty
  <2>3. /\ DOMAIN m = {"template", "inputs", "outputs", "blocks", "learned", "interface",
                       "built"}
        /\ m.template = t /\ m.inputs = [n \in FirstNames(t.inputs) |-> FreshCounter]
        /\ m.outputs = [n \in OutputNames(t) |-> FreshCounter] /\ m.blocks = Empty
        /\ m.learned = 0 /\ m.interface = FreshCounter /\ m.built = TRUE
    OBVIOUS
  <2> HIDE DEF m
  <2>4. DOMAIN m.inputs = FirstNames(t.inputs) /\ DOMAIN m.outputs = OutputNames(t)
        /\ m.inputs \in [DOMAIN m.inputs -> Nat] /\ m.outputs \in [DOMAIN m.outputs -> Nat]
    BY <1>4, <2>3
  <2>5. IsModel(m)
    <3>1. DOMAIN m.inputs \subseteq Names /\ DOMAIN m.outputs \subseteq Names
      BY <1>2, <2>4
    <3>2. DOMAIN m.blocks \subseteq Blocks /\ m.blocks \in [DOMAIN m.blocks -> BlockOf]
      BY <2>1, <2>2, <2>3
    <3>3. m.template \in Templates /\ m.learned \in Nat /\ m.interface \in Nat
      BY <1>4, <2>3
    <3>4. m.built \in BOOLEAN
      BY <2>3, Zenon
    <3> QED BY <2>3, <2>4, <3>1, <3>2, <3>3, <3>4 DEF IsModel
  <2> QED BY <1>2, <2>2, <2>3, <2>4, <2>5 DEF ModelInv
<1> HIDE DEF m
<1>8. u \in known' /\ known \subseteq known' /\ known' \subseteq Uuids
  BY <1>1, <1>3 DEF RestTyped
<1>9. ModelsInv' /\ CountersOwned' /\ Registered' \subseteq known'
  BY <1>1, <1>5, <1>6, <1>7, <1>8, SetModel
<1>10. calls' \in 0 .. MaxCalls
  BY <1>1, <1>3, CountedCall
<1>11. RestTyped'
  BY <1>1, <1>3, <1>6, <1>8, <1>9, <1>10 DEF RestTyped, world
<1>12. FilesInv'
  BY <1>1 DEF Inv, FilesInv
<1>13. Attended'
  BY <1>1, <1>7, SetAttended DEF world
<1> QED BY <1>9, <1>11, <1>12, <1>13 DEF Inv

LEMMA DeleteModelStep ==
    ASSUME Inv, NEW u \in Uuids, DeleteModel(u)
    PROVE  Inv'
<1>1. /\ models' = [models EXCEPT ![u] = Nil] /\ strays' = Abandoned({u}) /\ pending' = Dropped({u})
      /\ UNCHANGED <<counters, files, poisoned, known>>
      /\ calls < MaxCalls /\ calls' = calls + 1
  BY DEF DeleteModel, Call
<1>2. RestTyped
  BY DEF Inv
<1>3. ModelsInv' /\ CountersOwned' /\ Registered' \subseteq known'
  <2>1. /\ DOMAIN counters \subseteq DOMAIN counters'
        /\ known \subseteq known' /\ known' \subseteq Uuids
    BY <1>1, <1>2 DEF RestTyped
  <2> QED BY <1>1, <2>1, SetModel
<1>4. calls' \in 0 .. MaxCalls
  BY <1>1, <1>2, CountedCall
<1>5. RestTyped'
  BY <1>1, <1>2, <1>3, <1>4, RemovedWorld DEF RestTyped
<1>6. FilesInv'
  BY <1>1 DEF Inv, FilesInv
<1>7. Attended'
  BY <1>1, SetAttended
<1> QED BY <1>3, <1>5, <1>6, <1>7 DEF Inv

LEMMA NewEngineStep ==
    ASSUME Inv, NewEngine
    PROVE  Inv'
<1>1. /\ models' = [u \in Uuids |-> Nil] /\ strays' = Abandoned(Uuids) /\ pending' = Dropped(Uuids)
      /\ UNCHANGED <<counters, files, poisoned, known>>
      /\ calls < MaxCalls /\ calls' = calls + 1
  BY DEF NewEngine, Call
<1>2. RestTyped
  BY DEF Inv
<1>3. ModelsInv' /\ CountersOwned' /\ Registered' = {}
  BY <1>1, ClearModels
<1>4. calls' \in 0 .. MaxCalls
  BY <1>1, <1>2, CountedCall
<1>5. RestTyped'
  BY <1>1, <1>2, <1>3, <1>4, RemovedWorld DEF RestTyped
<1>6. FilesInv'
  BY <1>1 DEF Inv, FilesInv
<1>7. Attended'
  BY <1>1 DEF Attended, Dropped
<1> QED BY <1>3, <1>5, <1>6, <1>7 DEF Inv

LEMMA TrainStep ==
    ASSUME Inv, NEW u \in Uuids, Train(u)
    PROVE  Inv'
<1> DEFINE m == [models[u] EXCEPT !.learned = @ + 1]
<1>1. /\ u \in Registered /\ models' = [models EXCEPT ![u].learned = @ + 1]
      /\ pending' = [pending EXCEPT ![u] = @ \cup DOMAIN models[u].inputs]
      /\ UNCHANGED <<counters, files, strays, poisoned, known>>
      /\ calls < MaxCalls /\ calls' = calls + 1
  BY DEF Train, Call, Registered
<1>2. RestTyped /\ DOMAIN models = Uuids
  BY DEF Inv, ModelsInv
<1>3. models' = [models EXCEPT ![u] = m]
  BY <1>1, <1>2
<1>4. /\ u \in known /\ ModelInv(models[u]) /\ models[u].interface \in DOMAIN counters
      /\ \A v \in Registered \ {u} : models[v].interface # models[u].interface
  BY <1>1, SameCounter
<1>5. ModelInv(m) /\ m.interface = models[u].interface
  BY <1>4, SetLearned
<1> HIDE DEF m
<1>6. ModelsInv' /\ CountersOwned' /\ Registered' \subseteq known'
  <2>1. /\ DOMAIN counters \subseteq DOMAIN counters' /\ m.interface \in DOMAIN counters'
        /\ \A v \in Registered \ {u} : models[v].interface # m.interface
        /\ known \subseteq known' /\ known' \subseteq Uuids /\ u \in known'
    BY <1>1, <1>2, <1>4, <1>5 DEF RestTyped
  <2> QED BY <1>3, <1>5, <2>1, SetModel
<1>7. calls' \in 0 .. MaxCalls
  BY <1>1, <1>2, CountedCall
<1>8. pending' \in [Uuids -> SUBSET Sources]
  <2>1. DOMAIN models[u].inputs \subseteq Sources
    BY <1>4 DEF ModelInv, IsModel, Sources
  <2> QED BY <1>1, <1>2, <2>1 DEF RestTyped
<1>9. RestTyped'
  BY <1>1, <1>2, <1>6, <1>7, <1>8 DEF RestTyped
<1>10. FilesInv'
  BY <1>1 DEF Inv, FilesInv
<1>11. Attended'
  <2>1. /\ models'[u] = m
        /\ \A v \in Uuids \ {u} : models'[v] = models[v] /\ pending'[v] = pending[v]
    BY <1>1, <1>2, <1>3 DEF RestTyped
  <2> QED BY <1>5, <2>1, OneAttended DEF Inv
<1> QED BY <1>6, <1>9, <1>10, <1>11 DEF Inv

\* A step that leaves the models and their counters alone.
LEMMA SameModels ==
    ASSUME Inv, UNCHANGED <<models, counters>>
    PROVE  /\ ModelsInv' /\ CountersOwned' /\ Registered' = Registered
           /\ pending' = pending => Attended'
<1>1. Registered' = Registered
  BY DEF Registered
<1>2. pending' = pending => Attended'
  BY DEF Inv, Attended
<1> QED BY <1>1, <1>2 DEF Inv, ModelsInv, CountersOwned

LEMMA RequestStep ==
    ASSUME Inv, NEW u \in Uuids, Request(u)
    PROVE  Inv'
<1>1. /\ u \in Registered /\ pending' = [pending EXCEPT ![u] = @ \cup DOMAIN models[u].inputs]
      /\ UNCHANGED <<models, counters, files, strays, poisoned, known>>
      /\ calls < MaxCalls /\ calls' = calls + 1
  BY DEF Request, Call, Registered
<1>2. RestTyped
  BY DEF Inv
<1>3. ModelsInv' /\ CountersOwned' /\ Registered' = Registered
  BY <1>1, SameModels
<1>4. calls' \in 0 .. MaxCalls
  BY <1>1, <1>2, CountedCall
<1>5. pending' \in [Uuids -> SUBSET Sources]
  <2>1. DOMAIN models[u].inputs \subseteq Sources
    BY <1>1, SameCounter DEF ModelInv, IsModel, Sources
  <2> QED BY <1>1, <1>2, <2>1 DEF RestTyped
<1>6. RestTyped'
  BY <1>1, <1>2, <1>3, <1>4, <1>5 DEF RestTyped
<1>7. FilesInv'
  BY <1>1 DEF Inv, FilesInv
<1>8. Attended'
  <2>1. \A v \in Uuids \ {u} : pending'[v] = pending[v]
    BY <1>1, <1>2 DEF RestTyped
  <2> QED BY <1>1, <2>1, SameCounter, OneAttended DEF Inv
<1> QED BY <1>3, <1>6, <1>7, <1>8 DEF Inv

LEMMA UnknownStep ==
    ASSUME Inv, NEW u \in Uuids, TrainUnknown(u) \/ RequestUnknown(u)
    PROVE  Inv'
<1>1. /\ UNCHANGED <<models, counters, files, world, known>>
      /\ calls < MaxCalls /\ calls' = calls + 1 /\ poisoned' \in {poisoned, TRUE}
  BY DEF TrainUnknown, RequestUnknown, Call
<1>2. RestTyped
  BY DEF Inv
<1>3. ModelsInv' /\ CountersOwned' /\ Registered' = Registered /\ Attended'
  BY <1>1, SameModels DEF world
<1>4. calls' \in 0 .. MaxCalls
  BY <1>1, <1>2, CountedCall
<1>5. RestTyped'
  BY <1>1, <1>2, <1>3, <1>4 DEF RestTyped, world
<1>6. FilesInv'
  BY <1>1 DEF Inv, FilesInv
<1> QED BY <1>3, <1>5, <1>6 DEF Inv

\* A worker connects a block of a model to another one.
LEMMA ConnectStep ==
    ASSUME Inv, NEW u \in Uuids, NEW s \in Sources, NEW own \in BOOLEAN, NEW b \in Blocks,
           Connect(u, s, own, b), UNCHANGED <<counters, known>>
    PROVE  /\ ModelsInv' /\ CountersOwned' /\ Registered' \subseteq known'
           /\ ModelInv(models'[u]) /\ \A v \in Uuids \ {u} : models'[v] = models[v]
<1> DEFINE old == models[u].blocks
<1>1. u \in Registered
  BY DEF Connect, Present, Registered
<1>2. /\ u \in known /\ ModelInv(models[u]) /\ models[u].interface \in DOMAIN counters
      /\ \A v \in Registered \ {u} : models[v].interface # models[u].interface
  BY <1>1, SameCounter
<1>3. DOMAIN models = Uuids /\ known \subseteq Uuids
  BY DEF Inv, ModelsInv, RestTyped
<1>4. /\ DOMAIN models[u] = {"template", "inputs", "outputs", "blocks", "learned", "interface",
                             "built"}
      /\ DOMAIN old \subseteq Blocks /\ old \in [DOMAIN old -> PlaceOf]
  BY <1>2 DEF ModelInv, IsModel
<1>5. ASSUME NEW new,
             models' = [models EXCEPT ![u].blocks = new],
             DOMAIN new \subseteq Blocks, new \in [DOMAIN new -> PlaceOf]
      PROVE  /\ ModelsInv' /\ CountersOwned' /\ Registered' \subseteq known'
             /\ ModelInv(models'[u]) /\ \A v \in Uuids \ {u} : models'[v] = models[v]
  <2> DEFINE m == [models[u] EXCEPT !.blocks = new]
  <2>1. models' = [models EXCEPT ![u] = m]
    BY <1>3, <1>5
  <2>2. ModelInv(m) /\ m.interface = models[u].interface
    BY <1>2, <1>5, SetBlocks
  <2> HIDE DEF m
  <2>3. /\ DOMAIN counters \subseteq DOMAIN counters' /\ m.interface \in DOMAIN counters'
        /\ \A v \in Registered \ {u} : models[v].interface # m.interface
        /\ known \subseteq known' /\ known' \subseteq Uuids /\ u \in known'
    BY <1>2, <1>3, <2>2
  <2>4. models'[u] = m /\ \A v \in Uuids \ {u} : models'[v] = models[v]
    BY <1>3, <2>1
  <2> QED BY <2>1, <2>2, <2>3, <2>4, SetModel
<1>6. CASE /\ b \in DOMAIN old /\ HasFreeInput(old[b])
           /\ models' = [models EXCEPT ![u].blocks[b] = Fed(@, s, own)]
  <2> DEFINE new == [old EXCEPT ![b] = Fed(@, s, own)]
  <2>1. models' = [models EXCEPT ![u].blocks = new]
    BY <1>3, <1>4, <1>6
  <2>2. Fed(old[b], s, own) \in PlaceOf
    BY <1>4, <1>6, FedPlace
  <2>3. DOMAIN new = DOMAIN old /\ new \in [DOMAIN new -> PlaceOf]
    BY <1>4, <1>6, <2>2
  <2> HIDE DEF new
  <2> QED BY <1>4, <1>5, <2>1, <2>3
<1>7. CASE FreshBlock(b) /\ models' = [models EXCEPT ![u].blocks = Extended(@, b, s, own)]
  <2> DEFINE new == Extended(old, b, s, own)
             empty == [own |-> {}, strays |-> {}]
  <2>1. models' = [models EXCEPT ![u].blocks = new]
    BY <1>7
  <2>2. Fed(empty, s, own) \in PlaceOf
    BY NewPlace, FedPlace
  <2>3. /\ DOMAIN new = DOMAIN old \cup {b} /\ DOMAIN new \subseteq Blocks
        /\ \A c \in DOMAIN new : new[c] = IF c = b THEN Fed(empty, s, own) ELSE old[c]
    BY <1>4 DEF Extended
  <2>4. new \in [DOMAIN new -> PlaceOf]
    <3>1. \A c \in DOMAIN new : new[c] \in PlaceOf
      BY <1>4, <2>2, <2>3
    <3>2. new = [c \in DOMAIN new |-> new[c]]
      BY DEF Extended
    <3> HIDE DEF new
    <3> QED BY <3>1, <3>2
  <2> HIDE DEF new, empty
  <2> QED BY <1>4, <1>5, <2>1, <2>3, <2>4
<1> QED BY <1>6, <1>7 DEF Connect

\* The tasks of the blocks.
LEMMA WorkOwnStep ==
    ASSUME Inv, NEW u \in Uuids, NEW s \in Sources, WorkOwn(u, s)
    PROVE  Inv'
<1>1. UNCHANGED <<counters, files, strays, poisoned, known, outcome, calls>>
  BY DEF WorkOwn
<1>2. RestTyped /\ Attended
  BY DEF Inv
<1>3. ModelInv(models[u])
  BY <1>2 DEF WorkOwn, Attended
<1>4. /\ ModelsInv' /\ CountersOwned' /\ Registered' \subseteq known'
      /\ ModelInv(models'[u]) /\ \A v \in Uuids \ {u} : models'[v] = models[v]
  <2>1. CASE UNCHANGED models
    <3>1. ModelsInv' /\ CountersOwned' /\ Registered' = Registered
      BY <1>1, <2>1, SameModels
    <3> QED BY <1>1, <1>2, <1>3, <2>1, <3>1 DEF RestTyped
  <2>2. ASSUME NEW b \in Blocks, Connect(u, s, TRUE, b)
        PROVE  /\ ModelsInv' /\ CountersOwned' /\ Registered' \subseteq known'
               /\ ModelInv(models'[u]) /\ \A v \in Uuids \ {u} : models'[v] = models[v]
    BY <1>1, <2>2, ConnectStep
  <2> QED BY <2>1, <2>2 DEF WorkOwn
<1>5. PICK left \in SUBSET ({s} \cup Around(models'[u], s)) :
          pending' = [pending EXCEPT ![u] = (@ \ {s}) \cup left]
  BY DEF WorkOwn
<1>6. left \subseteq Sources
  BY <1>4, <1>5, AroundSources
<1>7. /\ pending' \in [Uuids -> SUBSET Sources]
      /\ \A v \in Uuids \ {u} : pending'[v] = pending[v]
  BY <1>2, <1>5, <1>6 DEF RestTyped
<1>8. RestTyped'
  BY <1>1, <1>2, <1>4, <1>7 DEF RestTyped
<1>9. FilesInv'
  BY <1>1 DEF Inv, FilesInv
<1>10. Attended'
  BY <1>2, <1>4, <1>7, OneAttended
<1> QED BY <1>4, <1>8, <1>9, <1>10 DEF Inv

\* A block of a removed model leaves tasks only for a model that is there.
LEMMA WorkStrayStep ==
    ASSUME Inv, NEW u \in Uuids, NEW s \in Sources, WorkStray(u, s)
    PROVE  Inv'
<1>1. UNCHANGED <<counters, files, poisoned, known, outcome, calls>>
  BY DEF WorkStray
<1>2. RestTyped /\ Attended
  BY DEF Inv
<1>3. /\ ModelsInv' /\ CountersOwned' /\ Registered' \subseteq known'
      /\ ModelInv(models[u]) => ModelInv(models'[u])
      /\ \A v \in Uuids \ {u} : models'[v] = models[v]
  <2>1. CASE UNCHANGED models
    <3>1. ModelsInv' /\ CountersOwned' /\ Registered' = Registered
      BY <1>1, <2>1, SameModels
    <3> QED BY <1>1, <1>2, <2>1, <3>1 DEF RestTyped
  <2>2. ASSUME NEW b \in Blocks, Connect(u, s, FALSE, b)
        PROVE  /\ ModelsInv' /\ CountersOwned' /\ Registered' \subseteq known'
               /\ ModelInv(models'[u]) /\ \A v \in Uuids \ {u} : models'[v] = models[v]
    BY <1>1, <2>2, ConnectStep
  <2> QED BY <2>1, <2>2 DEF WorkStray
<1>4. PICK left \in SUBSET (IF models'[u] = Nil THEN {} ELSE Around(models'[u], s)) :
          pending' = [pending EXCEPT ![u] = @ \cup left]
  BY DEF WorkStray
<1>5. left = {} \/ ModelInv(models'[u])
  <2>1. CASE models'[u] = Nil
    BY <1>4, <2>1
  <2>2. CASE models'[u] # Nil
    <3>1. u \in Registered'
      BY <2>2 DEF Registered
    <3> QED BY <1>3, <3>1 DEF ModelsInv
  <2> QED BY <2>1, <2>2
<1>6. left \subseteq Sources
  <2>1. CASE models'[u] = Nil
    BY <1>4, <2>1
  <2>2. CASE models'[u] # Nil
    <3>1. u \in Registered'
      BY <2>2 DEF Registered
    <3>2. ModelInv(models'[u])
      BY <1>3, <3>1 DEF ModelsInv
    <3> QED BY <1>4, <2>2, <3>2, AroundSources
  <2> QED BY <2>1, <2>2
<1>7. /\ pending' \in [Uuids -> SUBSET Sources]
      /\ pending'[u] = pending[u] \cup left
      /\ \A v \in Uuids \ {u} : pending'[v] = pending[v]
  BY <1>2, <1>4, <1>6 DEF RestTyped
<1>8. strays' \in [Uuids -> SUBSET Sources]
  BY <1>2 DEF RestTyped, WorkStray
<1>9. RestTyped'
  BY <1>1, <1>2, <1>3, <1>7, <1>8 DEF RestTyped
<1>10. FilesInv'
  BY <1>1 DEF Inv, FilesInv
<1>11. Attended'
  <2>1. pending'[u] = {} \/ ModelInv(models'[u])
    BY <1>2, <1>3, <1>5, <1>7 DEF Attended
  <2> QED BY <1>2, <1>3, <1>7, <2>1, OneAttended
<1> QED BY <1>3, <1>9, <1>10, <1>11 DEF Inv

-----------------------------------------------------------------------------
\* A file is set.
LEMMA SetFile ==
    ASSUME FilesInv, NEW p \in Paths, NEW f, FileInv(f), files' = [files EXCEPT ![p] = f]
    PROVE  FilesInv'
<1>1. DOMAIN files' = Paths /\ files'[p] = f /\ \A q \in Paths : q # p => files'[q] = files[q]
  BY DEF FilesInv
<1>2. ASSUME NEW q \in Paths, files'[q] # Nil
      PROVE  FileInv(files'[q])
  BY <1>1, <1>2 DEF FilesInv
<1> QED BY <1>1, <1>2 DEF FilesInv

\* A checkpoint, whole or in part, is one of the model.
LEMMA CreateCheckpointStep ==
    ASSUME Inv, NEW u \in Uuids, NEW p \in Paths, CreateCheckpoint(u, p)
    PROVE  Inv'
<1>1. /\ UNCHANGED <<models, counters, world, poisoned, known>>
      /\ calls < MaxCalls /\ calls' = calls + 1
  BY DEF CreateCheckpoint, Call
<1>2. RestTyped /\ FilesInv
  BY DEF Inv
<1>3. ModelsInv' /\ CountersOwned' /\ Registered' = Registered /\ Attended'
  BY <1>1, SameModels DEF world
<1>4. calls' \in 0 .. MaxCalls
  BY <1>1, <1>2, CountedCall
<1>5. RestTyped'
  BY <1>1, <1>2, <1>3, <1>4 DEF RestTyped, world
<1>6. FilesInv'
  <2>1. CASE UNCHANGED files
    BY <1>2, <2>1 DEF FilesInv
  <2>2. CASE models[u] # Nil /\ files' = [files EXCEPT ![p] = Whole(Content(models[u]))]
    <3>1. ModelInv(models[u])
      BY <2>2, SameCounter DEF Registered
    <3>2. FileInv(Whole(Content(models[u])))
      BY <3>1, ContentSaved, WholeFile
    <3> QED BY <1>2, <2>2, <3>2, SetFile
  <2>3. ASSUME models[u] # Nil, NEW f \in Beginnings(Content(models[u])),
               files' = [files EXCEPT ![p] = f]
        PROVE  FilesInv'
    <3>1. ModelInv(models[u])
      BY <2>3, SameCounter DEF Registered
    <3>2. FileInv(f)
      BY <3>1, <2>3, ContentSaved, BeginningFile
    <3> QED BY <1>2, <2>3, <3>2, SetFile
  <2> QED BY <2>1, <2>2, <2>3 DEF CreateCheckpoint
<1> QED BY <1>3, <1>5, <1>6 DEF Inv

\* A restore from a file: the model is made of its entries, with the counter it
\* had or a new one.
LEMMA RestoredModel ==
    ASSUME Inv, NEW u \in Uuids, NEW f, FileInv(f), NEW r \in Nat, NEW built \in BOOLEAN,
           NEW numbers \in [input : Nat, output : Nat],
           models' = [models EXCEPT ![u] = Rebuilt(f, Inherited(u), r, built)],
           counters' = WithCounter(Inherited(u), numbers),
           known' = known \cup {u}
    PROVE  /\ ModelsInv' /\ CountersOwned' /\ Registered' \subseteq known'
           /\ counters' \in Seq([input : Nat, output : Nat])
<1> DEFINE c == Inherited(u)
           m == Rebuilt(f, c, r, built)
<1>1. counters \in Seq([input : Nat, output : Nat]) /\ known \subseteq Uuids
  BY DEF Inv, RestTyped
<1>2. /\ c \in 1 .. Len(counters) + 1
      /\ \A v \in Registered \ {u} : models[v].interface # c
  BY OwnCounter
<1>3. c \in Nat
  BY <1>1, <1>2
<1>4. ModelInv(m) /\ m.interface = c
  BY <1>3, RebuiltModel
<1>5. models' = [models EXCEPT ![u] = m] /\ counters' = WithCounter(c, numbers)
  OBVIOUS
<1> HIDE DEF c, m
<1>6. /\ counters' \in Seq([input : Nat, output : Nat])
      /\ DOMAIN counters \subseteq DOMAIN counters' /\ c \in DOMAIN counters'
  BY <1>1, <1>2, <1>5, SetCounter
<1>7. known \subseteq known' /\ known' \subseteq Uuids /\ u \in known'
  BY <1>1
<1> QED BY <1>2, <1>4, <1>5, <1>6, <1>7, SetModel

\* The numbers of inputs and outputs in a file.
LEMMA CountedType ==
    ASSUME NEW f, FileInv(f)
    PROVE  Counted(f) \in [input : Nat, output : Nat]
<1>1. IsFiniteSet(f.inputs) /\ IsFiniteSet(f.outputs)
  BY FS_Subset DEF FileInv, IsSaved
<1>2. Cardinality(f.inputs) \in Nat /\ Cardinality(f.outputs) \in Nat
  BY <1>1, FS_CardinalityType
<1> QED BY <1>2 DEF Counted

\* The numbers that a failed restore leaves.
LEMMA UnsetType ==
    ASSUME Inv, NEW u \in Uuids
    PROVE  Unset(u) \in [input : Nat, output : Nat]
<1>1. CASE u \in Registered
  <2>1. /\ counters \in Seq([input : Nat, output : Nat])
        /\ models[u].interface \in 1 .. Len(counters)
    BY <1>1, SameCounter DEF Inv, RestTyped
  <2>2. counters[models[u].interface] \in [input : Nat, output : Nat]
    BY <2>1, ElementOfSeq, Zenon
  <2> QED BY <1>1, <2>2 DEF Unset, Registered
<1>2. CASE u \notin Registered
  BY <1>2 DEF Unset, Registered
<1> QED BY <1>1, <1>2

LEMMA RestoreCheckpointStep ==
    ASSUME Inv, NEW u \in Uuids, NEW p \in Paths, RestoreCheckpoint(u, p)
    PROVE  Inv'
<1>1. /\ strays' = Abandoned({u}) /\ pending' = Dropped({u})
      /\ known' = known \cup {u} /\ UNCHANGED <<files, poisoned>>
      /\ calls < MaxCalls /\ calls' = calls + 1
  BY DEF RestoreCheckpoint, RestoreWhole, RestoreTorn, RestoreNothing, Call
<1>2. RestTyped /\ FilesInv
  BY DEF Inv
<1>3. /\ ModelsInv' /\ CountersOwned' /\ Registered' \subseteq known'
      /\ counters' \in Seq([input : Nat, output : Nat])
  <2>1. CASE RestoreWhole(u, p)
    <3>1. /\ FileInv(files[p]) /\ counters \in Seq([input : Nat, output : Nat])
      BY <1>2, <2>1 DEF RestoreWhole, FilesInv, RestTyped
    <3>2. Inherited(u) \in 1 .. Len(counters) + 1
      BY OwnCounter
    <3>3. Inherited(u) \in Nat /\ Counted(files[p]) \in [input : Nat, output : Nat]
      BY <3>1, <3>2, CountedType
    <3>4. /\ models' = [models EXCEPT ![u] = Rebuilt(files[p], Inherited(u), Inherited(u), TRUE)]
          /\ counters' = WithCounter(Inherited(u), Counted(files[p]))
      BY <2>1 DEF RestoreWhole
    <3> QED BY <1>1, <3>1, <3>3, <3>4, RestoredModel
  <2>2. CASE RestoreTorn(u, p)
    <3>1. FileInv(files[p])
      BY <1>2, <2>2 DEF RestoreTorn, FilesInv
    <3>2. Unset(u) \in [input : Nat, output : Nat]
      BY UnsetType
    <3>3. /\ models' = [models EXCEPT ![u] = Rebuilt(files[p], Inherited(u), 0, FALSE)]
          /\ counters' = WithCounter(Inherited(u), Unset(u))
      BY <2>2 DEF RestoreTorn
    <3> QED BY <1>1, <3>1, <3>2, <3>3, RestoredModel
  <2>3. CASE RestoreNothing(u, p)
    <3>1. models' = [models EXCEPT ![u] = Nil] /\ counters' = counters
      BY <2>3 DEF RestoreNothing
    <3>2. /\ DOMAIN counters \subseteq DOMAIN counters'
          /\ known \subseteq known' /\ known' \subseteq Uuids
      BY <1>1, <1>2, <3>1 DEF RestTyped
    <3>3. ModelsInv' /\ CountersOwned' /\ Registered' \subseteq known'
      BY <3>1, <3>2, SetModel
    <3> QED BY <1>2, <3>1, <3>3 DEF RestTyped
  <2> QED BY <2>1, <2>2, <2>3 DEF RestoreCheckpoint
<1>4. calls' \in 0 .. MaxCalls
  BY <1>1, <1>2, CountedCall
<1>5. known' \subseteq Uuids
  BY <1>1, <1>2 DEF RestTyped
<1>6. RestTyped'
  BY <1>1, <1>2, <1>3, <1>4, <1>5, RemovedWorld DEF RestTyped
<1>7. FilesInv'
  BY <1>1, <1>2 DEF FilesInv
<1>8. Attended'
  <2>1. ASSUME NEW m, models' = [models EXCEPT ![u] = m] PROVE Attended'
    BY <1>1, <2>1, SetAttended
  <2> QED BY <2>1 DEF RestoreCheckpoint, RestoreWhole, RestoreTorn, RestoreNothing
<1> QED BY <1>3, <1>6, <1>7, <1>8 DEF Inv

\* Only the files and the uuids survive a crash.
LEMMA CrashStep ==
    ASSUME Inv, Crash
    PROVE  Inv'
<1>1. /\ models' = [u \in Uuids |-> Nil] /\ counters' = <<>>
      /\ pending' = [u \in Uuids |-> {}] /\ strays' = [u \in Uuids |-> {}]
      /\ poisoned' = FALSE /\ known' = known
      /\ calls < MaxCalls /\ calls' = calls + 1
  BY DEF Crash
<1>2. RestTyped /\ FilesInv
  BY DEF Inv
<1>3. ModelsInv' /\ CountersOwned' /\ Registered' = {}
  BY <1>1, ClearModels
<1>4. calls' \in 0 .. MaxCalls
  BY <1>1, <1>2, CountedCall
<1>5. RestTyped'
  <2>1. /\ <<>> \in Seq([input : Nat, output : Nat]) /\ FALSE \in BOOLEAN
        /\ [u \in Uuids |-> {}] \in [Uuids -> SUBSET Sources]
    BY EmptySeq
  <2>2. Registered' \subseteq known' /\ known' \subseteq Uuids
    BY <1>1, <1>2, <1>3 DEF RestTyped
  <2> QED BY <1>1, <1>4, <2>1, <2>2, Zenon DEF RestTyped
<1>6. FilesInv'
  <2>1. CASE UNCHANGED files
    BY <1>2, <2>1 DEF FilesInv
  <2>2. ASSUME NEW u \in Registered, NEW p \in Paths, NEW f \in Beginnings(Content(models[u])),
               files' = [files EXCEPT ![p] = f]
        PROVE  FilesInv'
    <3>1. ModelInv(models[u])
      BY SameCounter
    <3>2. FileInv(f)
      BY <3>1, ContentSaved, BeginningFile
    <3> QED BY <1>2, <2>2, <3>2, SetFile
  <2> QED BY <2>1, <2>2 DEF Crash
<1>7. Attended'
  BY <1>1 DEF Attended
<1> QED BY <1>3, <1>5, <1>6, <1>7 DEF Inv

\* At the start there is nothing.
LEMMA InitInv == Init => Inv
<1> SUFFICES ASSUME Init PROVE Inv
  OBVIOUS
<1>1. Registered = {}
  BY DEF Init, Registered
<1>2. ModelsInv /\ CountersOwned
  BY <1>1 DEF Init, ModelsInv, CountersOwned
<1>3. FilesInv
  BY DEF Init, FilesInv
<1>4. RestTyped
  <2>1. 0 \in 0 .. MaxCalls
    BY CallAssumption
  <2>2. /\ <<>> \in Seq([input : Nat, output : Nat]) /\ FALSE \in BOOLEAN
        /\ [u \in Uuids |-> {}] \in [Uuids -> SUBSET Sources]
    BY EmptySeq
  <2> QED BY <1>1, <2>1, <2>2, Zenon DEF Init, RestTyped
<1>5. Attended
  BY DEF Init, Attended
<1> QED BY <1>2, <1>3, <1>4, <1>5 DEF Inv

LEMMA NextInv == Inv /\ [Next]_vars => Inv'
<1> SUFFICES ASSUME Inv, [Next]_vars PROVE Inv'
  OBVIOUS
<1>1. ASSUME NEW u \in Uuids, NEW t \in Templates, InitModel(u, t) PROVE Inv'
  BY <1>1, InitModelStep
<1>2. ASSUME NEW u \in Uuids, DeleteModel(u) PROVE Inv'
  BY <1>2, DeleteModelStep
<1>3. ASSUME NEW u \in Uuids, Train(u) PROVE Inv'
  BY <1>3, TrainStep
<1>4. ASSUME NEW u \in Uuids, Request(u) PROVE Inv'
  BY <1>4, RequestStep
<1>5. ASSUME NEW u \in Uuids, TrainUnknown(u) \/ RequestUnknown(u) PROVE Inv'
  BY <1>5, UnknownStep
<1>6. ASSUME NEW u \in Uuids, NEW p \in Paths, CreateCheckpoint(u, p) PROVE Inv'
  BY <1>6, CreateCheckpointStep
<1>7. ASSUME NEW u \in Uuids, NEW p \in Paths, RestoreCheckpoint(u, p) PROVE Inv'
  BY <1>7, RestoreCheckpointStep
<1>8. ASSUME NEW u \in Uuids, NEW s \in Sources, WorkOwn(u, s) PROVE Inv'
  BY <1>8, WorkOwnStep
<1>9. ASSUME NEW u \in Uuids, NEW s \in Sources, WorkStray(u, s) PROVE Inv'
  BY <1>9, WorkStrayStep
<1>10. CASE NewEngine
  BY <1>10, NewEngineStep
<1>11. CASE Crash
  BY <1>11, CrashStep
<1>12. CASE UNCHANGED vars
  <2>1. UNCHANGED <<models, counters, files, pending, strays, poisoned, known, calls>>
    BY <1>12 DEF vars, world
  <2>2. ModelsInv' /\ CountersOwned' /\ Registered' = Registered /\ Attended'
    BY <2>1, SameModels
  <2>3. RestTyped' /\ FilesInv'
    BY <2>1, <2>2 DEF Inv, RestTyped, FilesInv
  <2> QED BY <2>2, <2>3 DEF Inv
<1> QED
  BY <1>1, <1>2, <1>3, <1>4, <1>5, <1>6, <1>7, <1>8, <1>9, <1>10, <1>11, <1>12 DEF Next

\* Whatever the calls, the tasks and the faults, the registry and the files are
\* well formed.
THEOREM RegistryInvariance == Spec => []Inv
BY InitInv, NextInv, PTL DEF Spec

\* Every variable has its type; a block has no more sources than places, a block
\* put together from a file included.
THEOREM RegistryTypeCorrect == Spec => []TypeOK
<1>1. Inv => TypeOK
  BY DEF Inv, ModelsInv, FilesInv, RestTyped, ModelInv, TypeOK
<1> QED BY <1>1, RegistryInvariance, PTL

\* No two models ever count on the same finish counter (init_new_model,
\* restore_checkpoint).
THEOREM NoSharedCounters == Spec => []CountersOwned
<1>1. Inv => CountersOwned
  BY DEF Inv
<1> QED BY <1>1, RegistryInvariance, PTL

-----------------------------------------------------------------------------
(* The reports a call waits for. What one model waits for is not disturbed *)
(* by a call on another one, because no two of them share a counter.       *)

Matches(m, numbers) ==
    m.built => /\ numbers[m.interface] = [input  |-> Cardinality(DOMAIN m.inputs),
                                          output |-> Cardinality(DOMAIN m.outputs)]
               /\ \A n \in DOMAIN m.inputs : m.inputs[n] = m.interface
               /\ \A n \in DOMAIN m.outputs : m.outputs[n] = m.interface

\* One model is set or removed, and no other model's counter.
LEMMA SetMatches ==
    ASSUME Inv, ReportsMatch, NEW u \in Uuids, NEW m,
           models' = [models EXCEPT ![u] = m],
           m # Nil => Matches(m, counters'),
           \A v \in Registered \ {u} :
               counters'[models[v].interface] = counters[models[v].interface]
    PROVE  ReportsMatch'
<1>1. DOMAIN models = Uuids
  BY DEF Inv, ModelsInv
<1>2. models'[u] = m
  BY <1>1
<1>3. ASSUME NEW v \in Registered' PROVE Matches(models'[v], counters')
  <2>1. CASE v = u
    <3>1. m # Nil
      BY <1>2, <2>1 DEF Registered
    <3> QED BY <1>2, <2>1, <3>1
  <2>2. CASE v # u
    <3>1. v \in Registered \ {u} /\ models'[v] = models[v]
      BY <1>1, <2>2 DEF Registered
    <3>2. Matches(models[v], counters)
      BY <3>1 DEF ReportsMatch, Matches
    <3>3. counters'[models[v].interface] = counters[models[v].interface]
      BY <3>1
    <3> QED BY <3>1, <3>2, <3>3 DEF Matches
  <2> QED BY <2>1, <2>2
<1> QED BY <1>3 DEF ReportsMatch, Matches

\* The models and their counters are left alone, or all models are removed.
LEMMA SameMatches ==
    ASSUME ReportsMatch, UNCHANGED <<models, counters>>
    PROVE  ReportsMatch'
BY DEF ReportsMatch, Registered

LEMMA ClearMatches ==
    ASSUME models' = [u \in Uuids |-> Nil]
    PROVE  ReportsMatch'
BY ClearModels DEF ReportsMatch

\* A new model waits for the inputs and outputs of its template.
LEMMA InitModelMatches ==
    ASSUME Inv, ReportsMatch, DistinctNames,
           NEW u \in Uuids, NEW t \in Templates, InitModel(u, t)
    PROVE  ReportsMatch'
<1> DEFINE c == FreshCounter
           m == [template  |-> t,
                 inputs    |-> [n \in FirstNames(t.inputs) |-> c],
                 outputs   |-> [n \in OutputNames(t) |-> c],
                 blocks    |-> Empty,
                 learned   |-> 0,
                 interface |-> c,
                 built     |-> TRUE]
<1>1. models' = [models EXCEPT ![u] = m] /\ counters' = Append(counters, Compared(t))
  BY DEF InitModel
<1>2. /\ m.inputs = [n \in FirstNames(t.inputs) |-> c]
      /\ m.outputs = [n \in OutputNames(t) |-> c] /\ m.interface = c
  OBVIOUS
<1> HIDE DEF m
<1>3. counters \in Seq([input : Nat, output : Nat])
  BY DEF Inv, RestTyped
<1>4. /\ t.inputs \in Seq(Names) /\ t.outputs \in Seq(Names)
      /\ Compared(t) \in [input : Nat, output : Nat]
  BY TemplateCounts
<1>5. Unique(t.inputs) /\ Unique(t.outputs) /\ OutputNames(t) = FirstNames(t.outputs)
  BY DEF DistinctNames, OutputNames
<1>6. Compared(t) = [input |-> Cardinality(FirstNames(t.inputs)),
                     output |-> Cardinality(OutputNames(t))]
  <2>1. /\ Cardinality(FirstNames(t.inputs)) = Len(t.inputs)
        /\ Cardinality(FirstNames(t.outputs)) = Len(t.outputs)
    BY <1>4, <1>5, FirstNamesCount
  <2> QED BY <1>5, <2>1 DEF Compared
<1>7. c \in 1 .. Len(counters) + 1 /\ c = FreshCounter
  BY <1>3 DEF FreshCounter
<1> HIDE DEF c
<1>8. /\ counters'[c] = Compared(t)
      /\ \A d \in DOMAIN counters : d # c => counters'[d] = counters[d]
  <2>1. /\ WithCounter(c, Compared(t)) = Append(counters, Compared(t))
        /\ WithCounter(c, Compared(t))[c] = Compared(t)
        /\ \A d \in DOMAIN counters : d # c => WithCounter(c, Compared(t))[d] = counters[d]
    BY <1>3, <1>4, <1>7, SetCounter
  <2> QED BY <1>1, <2>1
<1>9. Matches(m, counters')
  <2>1. DOMAIN m.inputs = FirstNames(t.inputs) /\ DOMAIN m.outputs = OutputNames(t)
    BY <1>2
  <2>2. counters'[m.interface] = [input |-> Cardinality(DOMAIN m.inputs),
                                  output |-> Cardinality(DOMAIN m.outputs)]
    BY <1>2, <1>6, <1>8, <2>1
  <2> QED BY <1>2, <2>2 DEF Matches
<1>10. \A v \in Registered \ {u} :
           counters'[models[v].interface] = counters[models[v].interface]
  <2> TAKE v \in Registered \ {u}
  <2>1. models[v].interface # c
    BY <1>7, OwnCounter
  <2>2. models[v].interface \in DOMAIN counters
    BY SameCounter
  <2> QED BY <1>8, <2>1, <2>2
<1> QED BY <1>1, <1>9, <1>10, SetMatches

\* A restored model waits for what its file has; a failed restore is not
\* waited for.
LEMMA RestoreCheckpointMatches ==
    ASSUME Inv, ReportsMatch, NEW u \in Uuids, NEW p \in Paths, RestoreCheckpoint(u, p)
    PROVE  ReportsMatch'
<1> DEFINE c == Inherited(u)
<1>1. counters \in Seq([input : Nat, output : Nat]) /\ FilesInv
  BY DEF Inv, RestTyped
<1>2. c \in 1 .. Len(counters) + 1 /\ c \in Nat
  <2>1. c \in 1 .. Len(counters) + 1
    BY OwnCounter
  <2>2. Len(counters) \in Nat
    BY <1>1
  <2> HIDE DEF c
  <2> QED BY <2>1, <2>2
<1>3. ASSUME NEW numbers \in [input : Nat, output : Nat], counters' = WithCounter(c, numbers)
      PROVE  /\ counters'[c] = numbers
             /\ \A v \in Registered \ {u} :
                    counters'[models[v].interface] = counters[models[v].interface]
  <2>1. /\ counters'[c] = numbers
        /\ \A d \in DOMAIN counters : d # c => counters'[d] = counters[d]
    BY <1>1, <1>2, <1>3, SetCounter
  <2>2. ASSUME NEW v \in Registered \ {u}
        PROVE  models[v].interface # c /\ models[v].interface \in DOMAIN counters
    <3>1. models[v].interface # c
      BY OwnCounter
    <3> QED BY <3>1, SameCounter
  <2> QED BY <2>1, <2>2
<1>4. CASE RestoreWhole(u, p)
  <2> DEFINE f == files[p]
             m == Rebuilt(f, c, c, TRUE)
  <2>1. FileInv(f) /\ models' = [models EXCEPT ![u] = m] /\ counters' = WithCounter(c, Counted(f))
    BY <1>1, <1>4 DEF RestoreWhole, FilesInv
  <2>2. Counted(f) \in [input : Nat, output : Nat]
    BY <2>1, CountedType
  <2>3. /\ m.inputs = [n \in f.inputs |-> c] /\ m.outputs = [n \in f.outputs |-> c]
        /\ m.interface = c
    BY DEF Rebuilt
  <2> HIDE DEF m, f
  <2>4. /\ counters'[c] = Counted(f)
        /\ \A v \in Registered \ {u} :
               counters'[models[v].interface] = counters[models[v].interface]
    BY <1>3, <2>1, <2>2
  <2>5. Matches(m, counters')
    BY <2>3, <2>4 DEF Matches, Counted
  <2> QED BY <2>1, <2>4, <2>5, SetMatches
<1>5. CASE RestoreTorn(u, p)
  <2> DEFINE m == Rebuilt(files[p], c, 0, FALSE)
  <2>1. models' = [models EXCEPT ![u] = m] /\ counters' = WithCounter(c, Unset(u))
    BY <1>5 DEF RestoreTorn
  <2>2. Matches(m, counters')
    BY DEF Matches, Rebuilt
  <2> HIDE DEF m
  <2>3. Unset(u) \in [input : Nat, output : Nat]
    BY <1>1, UnsetType
  <2>4. \A v \in Registered \ {u} :
            counters'[models[v].interface] = counters[models[v].interface]
    BY <1>3, <2>1, <2>3
  <2> QED BY <2>1, <2>2, <2>4, SetMatches
<1>6. CASE RestoreNothing(u, p)
  BY <1>6, SetMatches DEF RestoreNothing
<1> QED BY <1>4, <1>5, <1>6 DEF RestoreCheckpoint

\* Learning, or another connection, does not change what a model waits for.
LEMMA SameInterface ==
    ASSUME Inv, ReportsMatch, UNCHANGED counters, NEW u \in Registered, NEW m,
           models' = [models EXCEPT ![u] = m],
           /\ m.inputs = models[u].inputs /\ m.outputs = models[u].outputs
           /\ m.interface = models[u].interface /\ m.built = models[u].built
    PROVE  ReportsMatch'
<1>1. Matches(models[u], counters) /\ u \in Uuids
  BY DEF ReportsMatch, Matches, Registered
<1>2. Matches(m, counters')
  BY <1>1 DEF Matches
<1> QED BY <1>1, <1>2, SetMatches

LEMMA TrainMatches ==
    ASSUME Inv, ReportsMatch, NEW u \in Uuids, Train(u)
    PROVE  ReportsMatch'
<1> DEFINE m == [models[u] EXCEPT !.learned = @ + 1]
<1>1. u \in Registered /\ models' = [models EXCEPT ![u] = m] /\ UNCHANGED counters
  BY DEF Train, Registered, Inv, ModelsInv
<1>2. DOMAIN models[u] = {"template", "inputs", "outputs", "blocks", "learned", "interface",
                          "built"}
  BY <1>1, SameCounter DEF ModelInv, IsModel
<1>3. /\ m.inputs = models[u].inputs /\ m.outputs = models[u].outputs
      /\ m.interface = models[u].interface /\ m.built = models[u].built
  BY <1>2
<1> HIDE DEF m
<1> QED BY <1>1, <1>3, SameInterface

LEMMA ConnectMatches ==
    ASSUME Inv, ReportsMatch, NEW u \in Uuids, NEW s, NEW own, NEW b,
           Connect(u, s, own, b), UNCHANGED counters
    PROVE  ReportsMatch'
<1>1. u \in Registered /\ DOMAIN models = Uuids
  BY DEF Connect, Present, Registered, Inv, ModelsInv
<1>2. DOMAIN models[u] = {"template", "inputs", "outputs", "blocks", "learned", "interface",
                          "built"}
  BY <1>1, SameCounter DEF ModelInv, IsModel
<1>3. PICK new : models' = [models EXCEPT ![u].blocks = new]
  <2>1. CASE models' = [models EXCEPT ![u].blocks[b] = Fed(@, s, own)]
    <3>1. models' = [models EXCEPT ![u].blocks = [models[u].blocks EXCEPT ![b] = Fed(@, s, own)]]
      BY <1>1, <1>2, <2>1
    <3> QED BY <3>1
  <2>2. CASE models' = [models EXCEPT ![u].blocks = Extended(@, b, s, own)]
    <3>1. models' = [models EXCEPT ![u].blocks = Extended(models[u].blocks, b, s, own)]
      BY <2>2
    <3> QED BY <3>1
  <2> QED BY <2>1, <2>2 DEF Connect
<1> DEFINE m == [models[u] EXCEPT !.blocks = new]
<1>4. models' = [models EXCEPT ![u] = m]
  BY <1>1, <1>3
<1>5. /\ m.inputs = models[u].inputs /\ m.outputs = models[u].outputs
      /\ m.interface = models[u].interface /\ m.built = models[u].built
  BY <1>2
<1> HIDE DEF m
<1> QED BY <1>1, <1>4, <1>5, SameInterface

LEMMA NextMatches ==
    ASSUME DistinctNames, Inv, ReportsMatch, [Next]_vars
    PROVE  ReportsMatch'
<1>1. ASSUME NEW u \in Uuids, NEW t \in Templates, InitModel(u, t) PROVE ReportsMatch'
  BY <1>1, InitModelMatches
<1>2. ASSUME NEW u \in Uuids, DeleteModel(u) PROVE ReportsMatch'
  <2>1. models' = [models EXCEPT ![u] = Nil] /\ counters' = counters
    BY <1>2 DEF DeleteModel
  <2> QED BY <2>1, SetMatches
<1>3. ASSUME NEW u \in Uuids, Train(u) PROVE ReportsMatch'
  BY <1>3, TrainMatches
<1>4. ASSUME NEW u \in Uuids, Request(u) \/ TrainUnknown(u) \/ RequestUnknown(u)
      PROVE  ReportsMatch'
  <2>1. UNCHANGED <<models, counters>>
    BY <1>4 DEF Request, TrainUnknown, RequestUnknown
  <2> QED BY <2>1, SameMatches
<1>5. ASSUME NEW u \in Uuids, NEW p \in Paths, CreateCheckpoint(u, p) PROVE ReportsMatch'
  <2>1. UNCHANGED <<models, counters>>
    BY <1>5 DEF CreateCheckpoint
  <2> QED BY <2>1, SameMatches
<1>6. ASSUME NEW u \in Uuids, NEW p \in Paths, RestoreCheckpoint(u, p) PROVE ReportsMatch'
  BY <1>6, RestoreCheckpointMatches
<1>7. ASSUME NEW u \in Uuids, NEW s \in Sources, WorkOwn(u, s) \/ WorkStray(u, s)
      PROVE  ReportsMatch'
  <2>1. UNCHANGED counters
    BY <1>7 DEF WorkOwn, WorkStray
  <2>2. CASE UNCHANGED models
    BY <2>1, <2>2, SameMatches
  <2>3. ASSUME NEW own, NEW b, Connect(u, s, own, b) PROVE ReportsMatch'
    BY <2>1, <2>3, ConnectMatches
  <2> QED BY <1>7, <2>2, <2>3 DEF WorkOwn, WorkStray
<1>8. CASE NewEngine
  BY <1>8, ClearMatches DEF NewEngine
<1>9. CASE Crash
  BY <1>9, ClearMatches DEF Crash
<1>10. CASE UNCHANGED vars
  BY <1>10, SameMatches DEF vars
<1> QED BY <1>1, <1>2, <1>3, <1>4, <1>5, <1>6, <1>7, <1>8, <1>9, <1>10 DEF Next

\* With distinct names, a call on a model that was created or restored to its
\* end waits for exactly the reports it will get.
THEOREM ReportsAgree == DistinctNames => (Spec => []ReportsMatch)
<1> SUFFICES ASSUME DistinctNames PROVE Spec => []ReportsMatch
  OBVIOUS
<1>1. Init => ReportsMatch
  BY DEF Init, ReportsMatch, Registered
<1>2. Inv /\ ReportsMatch /\ [Next]_vars => ReportsMatch'
  BY NextMatches
<1> QED BY <1>1, <1>2, RegistryInvariance, PTL DEF Spec

=============================================================================
