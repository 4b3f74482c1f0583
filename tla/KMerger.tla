------------------------------ MODULE KMerger ------------------------------
(***************************************************************************)
(* actslib::data::KMerger (core/lib/actslib/data/kmerger.hpp): a pool of   *)
(* worker threads that reads an input in chunks and merges the chunks,     *)
(* Units at a time and layer by layer, into one file.  The configuration   *)
(* object is the one the repository uses, CompressComponentKMerger         *)
(* (core/lib/actslib/rdf/raio.hpp).                                        *)
(*                                                                         *)
(* A step is what a thread does between two synchronisation points.  The   *)
(* mutexes taskCondMutex and chunksMutex are variables wherever a thread   *)
(* keeps one across steps; a critical section that blocks on nothing is    *)
(* one step, enabled when its mutex is free.  The condition variable is    *)
(* the set of workers whose pc is "wait".                                  *)
(*                                                                         *)
(* chunks is a vector in the code; its order only decides which chunks of  *)
(* a layer go first, so it is a set here and the choice is free.  tasks    *)
(* keeps its order: it is used as a stack.                                 *)
(*                                                                         *)
(* A definition D_Bug is D with an error a programmer could make.  The     *)
(* specification uses none of them; each shows which property catches it.  *)
(***************************************************************************)
EXTENDS Naturals, Sequences, FiniteSets

CONSTANTS
    Workers,    \* the worker threads
    NoWorker,   \* holder of a free mutex
    Units,      \* how many chunks one merge takes
    MaxBatches, \* bound on the number of chunks the input yields
    Failing     \* the kinds of task ("create", "merge") that may throw

\* The constructor rejects an empty pool and fewer than two units (l.50-55).
ASSUME KMergerAssumption ==
    /\ IsFiniteSet(Workers) /\ Workers # {}
    /\ NoWorker \notin Workers
    /\ Units \in Nat /\ Units >= 2
    /\ MaxBatches \in Nat
    /\ Failing \subseteq {"create", "merge"}

VARIABLES
    \* the shared members of KMerger
    tasks, completed, exception, chunks, maxLayer, idGen,
    taskCondMutex, chunksMutex,
    \* the threads: program counter, task being run, chunks held locally
    pc, job, hand,
    \* the input stream and the working directory
    input, parser, disk,
    \* the thread in PushAndJoin
    mainPc, result

poolVars == <<tasks, completed, exception, taskCondMutex>>
listVars == <<chunks, maxLayer, chunksMutex>>
fileVars == <<idGen, input, parser, disk>>
mainVars == <<mainPc, result>>
vars == <<poolVars, listVars, fileVars, mainVars, pc, job, hand>>

Chunk  == [layer : Nat, file : Nat]
Task   == [type : {"create", "merge"}, chunks : SUBSET Chunk]
Result == [status : {"none", "ok", "many", "error"}, file : Nat]

CreateTask    == [type |-> "create", chunks |-> {}]
MergeTask(ch) == [type |-> "merge", chunks |-> ch]

FilesOf(chs) == {c.file : c \in chs}
AtLayer(l)   == {c \in chunks : c.layer = l}
LayersOf(chs) == {c.layer : c \in chs}
MaxOf(S)     == CHOOSE m \in S : \A n \in S : n <= m

-----------------------------------------------------------------------------
(* The condition variable: the program counters after a notification.      *)

NotifyOne(p) ==
    LET waiting == {w \in Workers : p[w] = "wait"}
    IN  IF waiting = {} THEN {p} ELSE {[p EXCEPT ![w] = "pop"] : w \in waiting}

NotifyAll(p) == [w \in Workers |-> IF p[w] = "wait" THEN "pop" ELSE p[w]]

Goto(w, l) == pc' = [pc EXCEPT ![w] = l]

-----------------------------------------------------------------------------
(* The state when Init has started the workers and PushAndJoin goes on.    *)

Init ==
    /\ tasks = <<>> /\ completed = FALSE /\ exception = "none"
    /\ chunks = {} /\ maxLayer = 0 /\ idGen = 0
    /\ taskCondMutex = NoWorker /\ chunksMutex = NoWorker
    /\ pc   = [w \in Workers |-> "pop"]
    /\ job  = [w \in Workers |-> "none"]
    /\ hand = [w \in Workers |-> {}]
    /\ input \in 0..MaxBatches /\ parser = 0
    /\ disk = [f \in {} |-> {}]
    /\ mainPc = "push" /\ result = [status |-> "none", file |-> 0]

-----------------------------------------------------------------------------
(* PopTask: under taskCondMutex, sleep, leave, or take the newest task.    *)

WaitTask(w) ==
    /\ pc[w] = "pop" /\ taskCondMutex = NoWorker
    /\ tasks = <<>> /\ ~completed
    /\ Goto(w, "wait")
    /\ UNCHANGED <<poolVars, listVars, fileVars, mainVars, job, hand>>

\* The standard lets a wait return on its own.
SpuriousWakeup(w) ==
    /\ pc[w] = "wait"
    /\ Goto(w, "pop")
    /\ UNCHANGED <<poolVars, listVars, fileVars, mainVars, job, hand>>

\* Leaves as soon as the input ended, tasks or not.
Quit_WhenCompleted(w) ==
    /\ pc[w] = "pop" /\ taskCondMutex = NoWorker
    /\ completed \/ (tasks # <<>> /\ exception # "none")
    /\ Goto(w, "done")
    /\ UNCHANGED <<poolVars, listVars, fileVars, mainVars, job, hand>>

Quit(w) ==
    /\ pc[w] = "pop" /\ taskCondMutex = NoWorker
    /\ tasks # <<>> \/ completed
    /\ tasks = <<>> \/ exception # "none"
    /\ Goto(w, "done")
    /\ UNCHANGED <<poolVars, listVars, fileVars, mainVars, job, hand>>

TakeTask(w) ==
    /\ pc[w] = "pop" /\ taskCondMutex = NoWorker
    /\ tasks # <<>> /\ exception = "none"
    /\ LET task == tasks[Len(tasks)] IN
          /\ job'  = [job EXCEPT ![w] = task.type]
          /\ hand' = [hand EXCEPT ![w] = task.chunks]
          /\ Goto(w, task.type)
    /\ tasks' = SubSeq(tasks, 1, Len(tasks) - 1)
    /\ UNCHANGED <<completed, exception, taskCondMutex, listVars, fileVars, mainVars>>

-----------------------------------------------------------------------------
(* The "create" task: a new path, then cfg.CreateChunk.                    *)

\* Does not test the parser before it reads.
CreateChunk_PastEnd(w) ==
    /\ pc[w] = "create" /\ parser <= input
    /\ idGen' = idGen + 1
    /\ parser' = parser + 1
    /\ disk' = [f \in DOMAIN disk \cup {idGen'} |->
                   IF f = idGen' THEN {parser'} ELSE disk[f]]
    /\ hand' = [hand EXCEPT ![w] = {[layer |-> 0, file |-> idGen']}]
    /\ Goto(w, "insert")
    /\ UNCHANGED <<poolVars, listVars, mainVars, input, job>>

CreateChunk(w) ==
    /\ pc[w] = "create" /\ parser < input
    /\ idGen' = idGen + 1
    /\ parser' = parser + 1
    /\ disk' = [f \in DOMAIN disk \cup {idGen'} |->
                   IF f = idGen' THEN {parser'} ELSE disk[f]]
    /\ hand' = [hand EXCEPT ![w] = {[layer |-> 0, file |-> idGen']}]
    /\ Goto(w, "insert")
    /\ UNCHANGED <<poolVars, listVars, mainVars, input, job>>

CreateChunkFails(w) ==
    /\ pc[w] = "create" /\ parser < input /\ "create" \in Failing
    /\ idGen' = idGen + 1
    /\ Goto(w, "failed")
    /\ UNCHANGED <<poolVars, listVars, mainVars, input, parser, disk, job, hand>>

\* CreateChunk returned false: the input is exhausted.
CreateChunkEnd(w) ==
    /\ pc[w] = "create" /\ parser = input
    /\ idGen' = idGen + 1
    /\ Goto(w, "complete")
    /\ UNCHANGED <<poolVars, listVars, mainVars, input, parser, disk, job, hand>>

\* Keeps taskCondMutex until ReleasePool.
Complete(w) ==
    /\ pc[w] = "complete" /\ taskCondMutex = NoWorker
    /\ taskCondMutex' = w
    /\ completed' = TRUE
    /\ Goto(w, "find")
    /\ UNCHANGED <<tasks, exception, listVars, fileVars, mainVars, job, hand>>

\* Wakes nobody when the input has ended.
ReleasePool_NoNotify(w) ==
    /\ pc[w] = "release"
    /\ taskCondMutex' = NoWorker
    /\ pc' = [pc EXCEPT ![w] = "pop"]
    /\ UNCHANGED <<tasks, completed, exception, listVars, fileVars, mainVars, job, hand>>

ReleasePool(w) ==
    /\ pc[w] = "release"
    /\ taskCondMutex' = NoWorker
    /\ pc' = NotifyAll([pc EXCEPT ![w] = "pop"])
    /\ UNCHANGED <<tasks, completed, exception, listVars, fileVars, mainVars, job, hand>>

\* Queues the task without a notification.
PushCreateTask_NoNotify(w) ==
    /\ pc[w] = "pushCreate" /\ taskCondMutex = NoWorker
    /\ tasks' = Append(tasks, CreateTask)
    /\ Goto(w, "find")
    /\ UNCHANGED <<completed, exception, taskCondMutex, listVars, fileVars, mainVars, job, hand>>

PushCreateTask(w) ==
    /\ pc[w] = "pushCreate" /\ taskCondMutex = NoWorker
    /\ tasks' = Append(tasks, CreateTask)
    /\ pc' \in NotifyOne([pc EXCEPT ![w] = "find"])
    /\ UNCHANGED <<completed, exception, taskCondMutex, listVars, fileVars, mainVars, job, hand>>

-----------------------------------------------------------------------------
(* The "merge" task: a new path, then cfg.MergeChunks, which reads every   *)
(* input file, writes the merged one and removes the inputs.               *)

MergeInputsExist(w) == FilesOf(hand[w]) \subseteq DOMAIN disk

MergeChunks(w) ==
    /\ pc[w] = "merge" /\ MergeInputsExist(w)
    /\ idGen' = idGen + 1
    /\ LET inputs == FilesOf(hand[w]) IN
          disk' = [f \in (DOMAIN disk \ inputs) \cup {idGen'} |->
                      IF f = idGen' THEN UNION {disk[g] : g \in inputs} ELSE disk[f]]
    /\ hand' = [hand EXCEPT ![w] =
                   {[layer |-> MaxOf(LayersOf(hand[w])) + 1, file |-> idGen']}]
    /\ Goto(w, "insert")
    /\ UNCHANGED <<poolVars, listVars, mainVars, input, parser, job>>

\* The closing guard removes the inputs when the merge throws as well.
MergeChunksFails(w) ==
    /\ pc[w] = "merge"
    /\ "merge" \in Failing \/ ~MergeInputsExist(w)
    /\ idGen' = idGen + 1
    /\ disk' = [f \in DOMAIN disk \ FilesOf(hand[w]) |-> disk[f]]
    /\ hand' = [hand EXCEPT ![w] = {}]
    /\ Goto(w, "failed")
    /\ UNCHANGED <<poolVars, listVars, mainVars, input, parser, job>>

-----------------------------------------------------------------------------
(* Both tasks: the new chunk enters the list, then PushMergeTaskIfRequired.*)

\* A merge queues a "create" task too.
InsertChunk_AlwaysCreates(w) ==
    /\ pc[w] = "insert" /\ chunksMutex = NoWorker
    /\ chunks' = chunks \cup hand[w]
    /\ maxLayer' = MaxOf({maxLayer} \cup LayersOf(hand[w]))
    /\ hand' = [hand EXCEPT ![w] = {}]
    /\ Goto(w, "pushCreate")
    /\ UNCHANGED <<poolVars, chunksMutex, fileVars, mainVars, job>>

\* A merge does not look for the next merge.
InsertChunk_NoSearch(w) ==
    /\ pc[w] = "insert" /\ chunksMutex = NoWorker
    /\ chunks' = chunks \cup hand[w]
    /\ maxLayer' = MaxOf({maxLayer} \cup LayersOf(hand[w]))
    /\ hand' = [hand EXCEPT ![w] = {}]
    /\ Goto(w, IF job[w] = "create" THEN "pushCreate" ELSE "pop")
    /\ UNCHANGED <<poolVars, chunksMutex, fileVars, mainVars, job>>

InsertChunk(w) ==
    /\ pc[w] = "insert" /\ chunksMutex = NoWorker
    /\ chunks' = chunks \cup hand[w]
    /\ maxLayer' = MaxOf({maxLayer} \cup LayersOf(hand[w]))
    /\ hand' = [hand EXCEPT ![w] = {}]
    /\ Goto(w, IF job[w] = "create" THEN "pushCreate" ELSE "find")
    /\ UNCHANGED <<poolVars, chunksMutex, fileVars, mainVars, job>>

FullLayers == {l \in 0..maxLayer : Cardinality(AtLayer(l)) >= Units}

UnitsOf(S) == {chs \in SUBSET S : Cardinality(chs) = Units}

\* Takes any chunks, whatever their layers.
FindChunksToMerge_AnyLayer ==
    IF completed
    THEN IF Cardinality(chunks) < 2 THEN {}
         ELSE IF Cardinality(chunks) < Units THEN {chunks} ELSE UnitsOf(chunks)
    ELSE UnitsOf(chunks)

\* Leaves the last chunks when they do not fill a group.
FindChunksToMerge_NoRemainder ==
    IF completed
    THEN UnitsOf(chunks)
    ELSE UNION {UnitsOf(AtLayer(l)) : l \in {m \in FullLayers : \A n \in FullLayers : m <= n}}

\* The groups of chunks FindChunksToMerge may take; none means it returns false.
FindChunksToMerge ==
    IF completed
    THEN IF Cardinality(chunks) < 2 THEN {}
         ELSE IF Cardinality(chunks) < Units THEN {chunks} ELSE UnitsOf(chunks)
    ELSE UNION {UnitsOf(AtLayer(l)) : l \in {m \in FullLayers : \A n \in FullLayers : m <= n}}

FindNothing(w) ==
    /\ pc[w] = "find" /\ chunksMutex = NoWorker
    /\ FindChunksToMerge = {}
    /\ Goto(w, IF taskCondMutex = w THEN "release" ELSE "pop")
    /\ UNCHANGED <<poolVars, listVars, fileVars, mainVars, job, hand>>

\* Leaves the chunks it takes in the list.
FindChunks_KeepsChunks(w) ==
    /\ pc[w] = "find" /\ chunksMutex = NoWorker
    /\ \E ch \in FindChunksToMerge : hand' = [hand EXCEPT ![w] = ch]
    /\ chunksMutex' = w
    /\ Goto(w, "unlock")
    /\ UNCHANGED <<poolVars, chunks, maxLayer, fileVars, mainVars, job>>

FindChunks(w) ==
    /\ pc[w] = "find" /\ chunksMutex = NoWorker
    /\ \E ch \in FindChunksToMerge :
          /\ chunks' = chunks \ ch
          /\ hand' = [hand EXCEPT ![w] = ch]
    /\ chunksMutex' = w
    /\ Goto(w, "unlock")
    /\ UNCHANGED <<poolVars, maxLayer, fileVars, mainVars, job>>

UnlockChunks(w) ==
    /\ pc[w] = "unlock"
    /\ chunksMutex' = NoWorker
    /\ Goto(w, "push")
    /\ UNCHANGED <<poolVars, chunks, maxLayer, fileVars, mainVars, job, hand>>

\* PushTask("merge", ...): sync takes the mutex, !sync runs inside it.
PushMergeTask(w) ==
    /\ pc[w] = "push" /\ taskCondMutex \in {NoWorker, w}
    /\ tasks' = Append(tasks, MergeTask(hand[w]))
    /\ hand' = [hand EXCEPT ![w] = {}]
    /\ pc' \in NotifyOne([pc EXCEPT ![w] = IF taskCondMutex = w THEN "release" ELSE "pop"])
    /\ UNCHANGED <<completed, exception, taskCondMutex, listVars, fileVars, mainVars, job>>

-----------------------------------------------------------------------------
(* The catch block of HandleWorker.                                        *)

\* Swallows the exception.
RecordException_Lost(w) ==
    /\ pc[w] = "failed"
    /\ Goto(w, "close")
    /\ UNCHANGED <<poolVars, listVars, fileVars, mainVars, job, hand>>

RecordException(w) ==
    /\ pc[w] = "failed"
    /\ exception' = job[w]
    /\ Goto(w, "close")
    /\ UNCHANGED <<tasks, completed, taskCondMutex, listVars, fileVars, mainVars, job, hand>>

ClosePool(w) ==
    /\ pc[w] = "close" /\ taskCondMutex = NoWorker
    /\ completed' = TRUE
    /\ tasks' = <<>>
    /\ pc' = NotifyAll([pc EXCEPT ![w] = "done"])
    /\ UNCHANGED <<exception, taskCondMutex, listVars, fileVars, mainVars, job, hand>>

-----------------------------------------------------------------------------
(* PushAndJoin: push the first task, join the workers, return.             *)

PushFirstTask ==
    /\ mainPc = "push" /\ taskCondMutex = NoWorker
    /\ tasks' = Append(tasks, CreateTask)
    /\ pc' \in NotifyOne(pc)
    /\ mainPc' = "join"
    /\ UNCHANGED <<completed, exception, taskCondMutex, listVars, fileVars, result, job, hand>>

JoinAndReturn ==
    /\ mainPc = "join" /\ \A w \in Workers : pc[w] = "done"
    /\ mainPc' = "done"
    /\ \/ /\ exception # "none" \/ Cardinality(chunks) > 1
          /\ result' = [status |-> IF exception # "none" THEN "error" ELSE "many", file |-> 0]
          /\ UNCHANGED <<idGen, disk>>
       \/ /\ exception = "none" /\ chunks = {}
          /\ idGen' = idGen + 1
          /\ disk' = [f \in DOMAIN disk \cup {idGen'} |-> IF f = idGen' THEN {} ELSE disk[f]]
          /\ result' = [status |-> "ok", file |-> idGen']
       \/ /\ exception = "none"
          /\ \E c \in chunks : chunks = {c} /\ result' = [status |-> "ok", file |-> c.file]
          /\ UNCHANGED <<idGen, disk>>
    /\ UNCHANGED <<poolVars, listVars, input, parser, pc, job, hand>>

Terminated == mainPc = "done" /\ UNCHANGED vars

-----------------------------------------------------------------------------

PopTask(w) == WaitTask(w) \/ Quit(w) \/ TakeTask(w)

RunTask(w) ==
    \/ CreateChunk(w) \/ CreateChunkFails(w) \/ CreateChunkEnd(w)
    \/ Complete(w) \/ ReleasePool(w) \/ PushCreateTask(w)
    \/ MergeChunks(w) \/ MergeChunksFails(w) \/ InsertChunk(w)
    \/ FindNothing(w) \/ FindChunks(w) \/ UnlockChunks(w) \/ PushMergeTask(w)
    \/ RecordException(w) \/ ClosePool(w)

HandleWorker(w) == PopTask(w) \/ RunTask(w)

PushAndJoin == PushFirstTask \/ JoinAndReturn

Next ==
    \/ \E w \in Workers : HandleWorker(w) \/ SpuriousWakeup(w)
    \/ PushAndJoin
    \/ Terminated

\* Every thread is scheduled as long as it can run; nothing is promised about
\* spurious wakeups.
Spec ==
    /\ Init /\ [][Next]_vars
    /\ \A w \in Workers : WF_vars(HandleWorker(w))
    /\ WF_vars(PushAndJoin)

-----------------------------------------------------------------------------
(* Properties.                                                             *)

Labels == {"pop", "wait", "create", "complete", "merge", "insert", "pushCreate",
           "find", "unlock", "push", "release", "failed", "close", "done"}

At(labels) == {w \in Workers : pc[w] \in labels}

\* Every variable keeps its type.
TypeOK ==
    /\ tasks \in Seq(Task) /\ completed \in BOOLEAN
    /\ exception \in {"none", "create", "merge"}
    /\ chunks \in SUBSET Chunk /\ maxLayer \in Nat /\ idGen \in Nat
    /\ taskCondMutex \in Workers \cup {NoWorker}
    /\ chunksMutex \in Workers \cup {NoWorker}
    /\ pc \in [Workers -> Labels]
    /\ job \in [Workers -> {"none", "create", "merge"}]
    /\ hand \in [Workers -> SUBSET Chunk]
    /\ input \in Nat /\ parser \in 0..input
    /\ DOMAIN disk \subseteq 1..idGen
    /\ \A f \in DOMAIN disk : disk[f] \subseteq 1..parser
    /\ mainPc \in {"push", "join", "done"} /\ result \in Result

QueuedCreates  == {i \in DOMAIN tasks : tasks[i].type = "create"}
RunningCreates == {w \in Workers : job[w] = "create" /\
                      pc[w] \in {"create", "complete", "insert", "pushCreate"}}

\* CreateChunk reads one parser into one set of buffers (raio.hpp:124-128)
\* without a lock: at most one "create" task may be queued or running at any time.
OneCreateTask ==
    /\ Cardinality(QueuedCreates) + Cardinality(RunningCreates) <= 1
    /\ mainPc = "push" => QueuedCreates = {} /\ RunningCreates = {}

\* Every set of chunks held somewhere: the list, a queued task, a worker.
Places == {<<"list", 0>>} \cup ({"task"} \X DOMAIN tasks) \cup ({"worker"} \X Workers)

ChunksAt(p) == CASE p[1] = "list"   -> chunks
                 [] p[1] = "task"   -> tasks[p[2]].chunks
                 [] p[1] = "worker" -> hand[p[2]]

\* A chunk is in one place only, so no file is merged twice or merged and
\* returned, and the file of every chunk still held is on the disk, although
\* merges delete their inputs concurrently.
ChunksOwned ==
    /\ \A p, q \in Places : p # q => FilesOf(ChunksAt(p)) \cap FilesOf(ChunksAt(q)) = {}
    /\ \A p \in Places : FilesOf(ChunksAt(p)) \subseteq DOMAIN disk

\* No wakeup is lost: while some worker sleeps, each queued task has an awake
\* worker of its own on the way to PopTask.
NoLostWakeup ==
    exception = "none" /\ At({"wait"}) # {} => Len(tasks) <= Cardinality(At({"pop"}))

\* No merge is forgotten (l.121-147): while the input lasts, every full group of
\* a layer is answered by a worker that has still to search the list.
FullGroupsSearched ==
    ~completed =>
        Cardinality({g \in (0..maxLayer) \X (1..Cardinality(chunks)) :
                        g[2] * Units <= Cardinality(AtLayer(g[1]))})
            <= Cardinality(At({"pushCreate", "find"}))

\* The batches below a chunk of layer l when every merge takes Units chunks of one layer.
BatchesIn(l) ==
    LET Below[k \in 0..l] == IF k = 0 THEN 1 ELSE Units * Below[k - 1]
    IN  Below[l]

\* Until the input ends the merge tree is balanced.
BalancedTree ==
    ~completed => \A c \in chunks : Cardinality(disk[c.file]) = BatchesIn(c.layer)

\* A path PushAndJoin returns holds every batch of the input: neither an
\* interleaving nor a failing task makes it return a partial file.
ResultComplete ==
    result.status = "ok" =>
        /\ result.file \in DOMAIN disk
        /\ disk[result.file] = 1..input

\* "More than 1 chunk after a KMerger run" (l.281-283) is never thrown, and when
\* no task throws the call succeeds.
NoSpuriousError ==
    /\ result.status # "many"
    /\ Failing = {} => result.status # "error"

\* PushAndJoin returns: the workers leave their loops in every schedule.
Returns == <>(result.status # "none")

\* The pool is an ExternalMerge: the runs are the files on the disk.
Abs == INSTANCE ExternalMerge WITH
    read    <- parser,
    runs    <- {disk[f] : f \in DOMAIN disk} \ {{}},
    failed  <- exception # "none" \/ At({"failed"}) # {},
    outcome <- [status |-> result.status,
                data   |-> IF result.status = "ok" THEN disk[result.file] ELSE {}]

\* Every behaviour of the pool is one of ExternalMerge, failures and the
\* eventual return included.
ImplementsExternalMerge == Abs!Spec
=============================================================================
