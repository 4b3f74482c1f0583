--------------------------- MODULE KMergerProofs ---------------------------
(***************************************************************************)
(* What holds of KMerger for every pool of workers, every number of units  *)
(* and every input, whichever tasks fail: its threads exclude and wake one *)
(* another, each file has one owner, and PushAndJoin returns the whole     *)
(* input or an error, and does nothing that ExternalMerge does not allow.  *)
(***************************************************************************)
EXTENDS KMerger, FiniteSetTheorems, SequenceTheorems, WellFoundedInduction, TLAPS

-----------------------------------------------------------------------------
(* Lemmas about the operators.                                             *)

\* A finite, non-empty set of naturals has a greatest element: MaxOf returns it.
LEMMA MaxOfFinite ==
    ASSUME NEW S \in SUBSET Nat, IsFiniteSet(S), S # {}
    PROVE  MaxOf(S) \in S /\ \A n \in S : n <= MaxOf(S)
<1> DEFINE HasMax(X) == \E m \in X : \A n \in X : n <= m
           R == StrictSubsetOrdering(S)
           Bad == {X \in FiniteSubsetsOf(S) : X # {} /\ ~HasMax(X)}
<1>1. IsWellFoundedOn(R, FiniteSubsetsOf(S))
  BY FS_StrictSubsetOrderingWellFounded
<1>2. Bad = {}
  <2>1. SUFFICES ASSUME Bad # {} PROVE FALSE
    OBVIOUS
  <2>2. Bad \subseteq FiniteSubsetsOf(S)
    OBVIOUS
  <2>3. \E X \in Bad : \A Y \in Bad : ~ (<<Y, X>> \in R)
    <3> HIDE DEF Bad, R
    <3> QED BY <1>1, <2>1, <2>2, WFMin
  <2>4. PICK X \in Bad : \A Y \in Bad : ~ (<<Y, X>> \in R)
    BY <2>3
  <2>5. X \in SUBSET S /\ IsFiniteSet(X) /\ X # {} /\ ~HasMax(X)
    BY <2>4 DEF FiniteSubsetsOf
  <2>6. PICK x \in X : TRUE
    BY <2>5
  <2> DEFINE Y == X \ {x}
  <2>7. IsFiniteSet(Y) /\ Y \in SUBSET S /\ Y \in FiniteSubsetsOf(S)
    BY <2>5, FS_RemoveElement DEF FiniteSubsetsOf
  <2>8. <<Y, X>> \in R
    BY <2>5, <2>6, <2>7 DEF StrictSubsetOrdering
  <2>9. Y \notin Bad
    BY <2>4, <2>8
  <2>10. CASE Y = {}
    <3>1. X = {x} /\ x \in Nat
      BY <2>5, <2>6, <2>10
    <3> QED BY <3>1, <2>5
  <2>11. CASE Y # {}
    <3>1. HasMax(Y)
      BY <2>7, <2>9, <2>11
    <3>2. PICK m \in Y : \A n \in Y : n <= m
      BY <3>1
    <3>3. m \in Nat /\ x \in Nat /\ \A n \in X : n \in Nat /\ (n = x \/ n \in Y)
      BY <2>5, <2>6
    <3>4. CASE x <= m
      <4>1. \A n \in X : n <= m
        BY <3>2, <3>3, <3>4
      <4> QED BY <4>1, <2>5, <3>2
    <3>5. CASE ~(x <= m)
      <4>1. \A n \in X : n <= x
        BY <3>2, <3>3, <3>5
      <4> QED BY <4>1, <2>5, <2>6
    <3> QED BY <3>4, <3>5
  <2> QED BY <2>10, <2>11
<1>3. S \in FiniteSubsetsOf(S)
  BY DEF FiniteSubsetsOf
<1>4. HasMax(S)
  BY <1>2, <1>3
<1> QED BY <1>4 DEF MaxOf

-----------------------------------------------------------------------------
(* Type correctness.                                                       *)

\* TypeOK with what the typing of a merged chunk's layer needs: every set of
\* chunks held anywhere is finite, and a merge has inputs.
TypeInv ==
    /\ TypeOK
    /\ IsFiniteSet(chunks)
    /\ \A i \in DOMAIN tasks :
          /\ IsFiniteSet(tasks[i].chunks)
          /\ tasks[i].type = "merge" => tasks[i].chunks # {}
    /\ \A w \in Workers :
          /\ IsFiniteSet(hand[w])
          /\ pc[w] \in {"merge", "unlock", "push"} => hand[w] # {}
          /\ pc[w] \in {"create", "complete", "pushCreate"} => job[w] = "create"
          /\ pc[w] = "merge" => job[w] = "merge"
          /\ pc[w] = "failed" => job[w] # "none"

\* The layers of a finite set of chunks are finitely many naturals.
LEMMA LayersOfFinite ==
    ASSUME NEW chs \in SUBSET Chunk, IsFiniteSet(chs)
    PROVE  IsFiniteSet(LayersOf(chs)) /\ LayersOf(chs) \in SUBSET Nat
<1>1. LayersOf(chs) \in SUBSET Nat
  BY DEF LayersOf, Chunk
<1> DEFINE f == [c \in chs |-> c.layer]
<1>2. f \in Surjection(chs, LayersOf(chs))
  BY DEF Surjection, LayersOf
<1>3. IsFiniteSet(LayersOf(chs))
  BY <1>2, FS_Surjection
<1> QED BY <1>1, <1>3

\* NotifyOne and NotifyAll move sleeping workers to "pop" and touch no other.
LEMMA NotifyOneType ==
    ASSUME NEW p \in [Workers -> Labels], NEW q \in NotifyOne(p)
    PROVE  /\ q \in [Workers -> Labels]
           /\ \A w \in Workers : q[w] = p[w] \/ (p[w] = "wait" /\ q[w] = "pop")
<1> DEFINE waiting == {w \in Workers : p[w] = "wait"}
<1>1. CASE waiting = {}
  BY <1>1 DEF NotifyOne
<1>2. CASE waiting # {}
  <2>1. PICK v \in waiting : q = [p EXCEPT ![v] = "pop"]
    BY <1>2 DEF NotifyOne
  <2> QED BY <2>1 DEF Labels
<1> QED BY <1>1, <1>2

LEMMA NotifyAllType ==
    ASSUME NEW p \in [Workers -> Labels]
    PROVE  /\ NotifyAll(p) \in [Workers -> Labels]
           /\ \A w \in Workers : \/ NotifyAll(p)[w] = p[w] /\ p[w] # "wait"
                                 \/ p[w] = "wait" /\ NotifyAll(p)[w] = "pop"
BY DEF NotifyAll, Labels

\* The stack without its top, and with one more task.
LEMMA TasksPopped ==
    ASSUME NEW ts \in Seq(Task), ts # <<>>
    PROVE  LET rest == SubSeq(ts, 1, Len(ts) - 1)
           IN  /\ rest \in Seq(Task) /\ Len(rest) = Len(ts) - 1
               /\ DOMAIN rest = 1..(Len(ts) - 1) /\ DOMAIN ts = 1..Len(ts)
               /\ \A i \in DOMAIN rest : i \in DOMAIN ts /\ rest[i] = ts[i]
               /\ Len(ts) \in DOMAIN ts /\ Len(ts) \notin DOMAIN rest
               /\ Len(ts) \in Nat \ {0} /\ ts[Len(ts)] \in Task
<1> DEFINE rest == SubSeq(ts, 1, Len(ts) - 1)
<1>1. Len(ts) \in Nat \ {0} /\ DOMAIN ts = 1..Len(ts)
  BY EmptySeq, LenProperties
<1>2. \A i \in 1..(Len(ts) - 1) : ts[i] \in Task
  BY <1>1, ElementOfSeq
<1>3. /\ rest \in Seq(Task) /\ Len(rest) = Len(ts) - 1
      /\ \A i \in 1..(Len(ts) - 1) : rest[i] = ts[i]
  <2>1. 1 \in Int /\ Len(ts) - 1 \in Int
    BY <1>1
  <2> QED BY <1>1, <1>2, <2>1, SubSeqProperties
<1>4. DOMAIN rest = 1..(Len(ts) - 1)
  BY <1>3, LenProperties
<1>5. Len(ts) \in DOMAIN ts /\ ts[Len(ts)] \in Task
  BY <1>1, ElementOfSeq
<1> QED BY <1>1, <1>3, <1>4, <1>5

LEMMA TasksPushed ==
    ASSUME NEW ts \in Seq(Task), NEW t \in Task
    PROVE  /\ Append(ts, t) \in Seq(Task) /\ Len(Append(ts, t)) = Len(ts) + 1
           /\ DOMAIN Append(ts, t) = 1..(Len(ts) + 1) /\ DOMAIN ts = 1..Len(ts)
           /\ Len(ts) \in Nat
           /\ \A i \in DOMAIN ts : Append(ts, t)[i] = ts[i]
           /\ Append(ts, t)[Len(ts) + 1] = t
BY AppendProperties, LenProperties

LEMMA TypeInit == Init => TypeInv
<1> SUFFICES ASSUME Init PROVE TypeInv
  OBVIOUS
<1> USE DEF Init
<1>1. <<>> \in Seq(Task) /\ DOMAIN <<>> = {}
  BY EmptySeq
<1>2. DOMAIN disk = {}
  OBVIOUS
<1>3. input \in Nat /\ parser \in 0..input
  BY KMergerAssumption
<1>4. IsFiniteSet({})
  BY FS_EmptySet
<1>5. TypeOK
  BY <1>1, <1>2, <1>3 DEF TypeOK, Labels, Result
<1> QED BY <1>1, <1>4, <1>5 DEF TypeInv

\* The steps of PopTask and of the condition variable.
LEMMA TypePop ==
    ASSUME TypeInv, NEW w \in Workers, PopTask(w) \/ SpuriousWakeup(w)
    PROVE  TypeInv'
<1> USE DEF vars, poolVars, listVars, fileVars, mainVars, Goto
<1>1. CASE WaitTask(w)
  BY <1>1 DEF TypeInv, TypeOK, WaitTask, Labels
<1>2. CASE SpuriousWakeup(w)
  BY <1>2 DEF TypeInv, TypeOK, SpuriousWakeup, Labels
<1>3. CASE Quit(w)
  BY <1>3 DEF TypeInv, TypeOK, Quit, Labels
<1>4. CASE TakeTask(w)
  <2> DEFINE task == tasks[Len(tasks)]
  <2>1. tasks \in Seq(Task) /\ tasks # <<>>
    BY <1>4 DEF TakeTask, TypeInv, TypeOK
  <2>2. /\ tasks' \in Seq(Task) /\ task \in Task
        /\ Len(tasks) \in DOMAIN tasks
        /\ \A i \in DOMAIN tasks' : i \in DOMAIN tasks /\ tasks'[i] = tasks[i]
    BY <1>4, <2>1, TasksPopped DEF TakeTask
  <2>3. /\ task.type \in {"create", "merge"} /\ task.chunks \in SUBSET Chunk
        /\ IsFiniteSet(task.chunks)
        /\ task.type = "merge" => task.chunks # {}
    BY <2>2 DEF Task, TypeInv
  <2>4. /\ pc' = [pc EXCEPT ![w] = task.type]
        /\ job' = [job EXCEPT ![w] = task.type]
        /\ hand' = [hand EXCEPT ![w] = task.chunks]
        /\ UNCHANGED <<completed, exception, taskCondMutex, listVars, fileVars, mainVars>>
    BY <1>4 DEF TakeTask
  <2> HIDE DEF task
  <2>5. TypeOK'
    BY <2>2, <2>3, <2>4 DEF TypeInv, TypeOK, Labels
  <2> QED BY <2>2, <2>3, <2>4, <2>5 DEF TypeInv, TypeOK
<1> QED BY <1>1, <1>2, <1>3, <1>4 DEF PopTask

\* The steps that run a task without creating a chunk.
LEMMA TypeSimple ==
    ASSUME TypeInv, NEW w \in Workers,
           \/ CreateChunkFails(w) \/ CreateChunkEnd(w) \/ Complete(w)
           \/ FindNothing(w) \/ UnlockChunks(w) \/ RecordException(w)
    PROVE  TypeInv'
<1> USE DEF vars, poolVars, listVars, fileVars, mainVars, Goto
<1>1. CASE CreateChunkFails(w)
  <2>1. DOMAIN disk' \subseteq 1..idGen'
    BY <1>1 DEF CreateChunkFails, TypeInv, TypeOK
  <2> QED BY <1>1, <2>1 DEF TypeInv, TypeOK, CreateChunkFails, Labels
<1>2. CASE CreateChunkEnd(w)
  <2>1. DOMAIN disk' \subseteq 1..idGen'
    BY <1>2 DEF CreateChunkEnd, TypeInv, TypeOK
  <2> QED BY <1>2, <2>1 DEF TypeInv, TypeOK, CreateChunkEnd, Labels
<1>3. CASE Complete(w)
  BY <1>3 DEF TypeInv, TypeOK, Complete, Labels
<1>4. CASE FindNothing(w)
  BY <1>4 DEF TypeInv, TypeOK, FindNothing, Labels
<1>5. CASE UnlockChunks(w)
  BY <1>5 DEF TypeInv, TypeOK, UnlockChunks, Labels
<1>6. CASE RecordException(w)
  BY <1>6 DEF TypeInv, TypeOK, RecordException, Labels
<1> QED BY <1>1, <1>2, <1>3, <1>4, <1>5, <1>6

\* What FindChunksToMerge takes comes from the list and is not empty.
LEMMA FoundChunks ==
    ASSUME IsFiniteSet(chunks), NEW ch \in FindChunksToMerge
    PROVE  ch \in SUBSET chunks /\ IsFiniteSet(ch) /\ ch # {}
<1>1. Units >= 2 /\ Units \in Nat
  BY KMergerAssumption
<1>2. ASSUME NEW S \in SUBSET chunks, ch \in UnitsOf(S)
      PROVE  ch \in SUBSET chunks /\ ch # {}
  BY <1>1, <1>2, FS_EmptySet DEF UnitsOf
<1>3. CASE completed
  <2>1. CASE ch = chunks /\ ~(Cardinality(chunks) < 2)
    BY <2>1, FS_EmptySet, FS_Subset
  <2>2. CASE ch \in UnitsOf(chunks)
    BY <1>2, <2>2, FS_Subset
  <2> QED BY <1>3, <2>1, <2>2 DEF FindChunksToMerge
<1>4. CASE ~completed
  <2>1. PICK l \in FullLayers : ch \in UnitsOf(AtLayer(l))
    BY <1>4 DEF FindChunksToMerge
  <2>2. AtLayer(l) \in SUBSET chunks
    BY DEF AtLayer
  <2> QED BY <1>2, <2>1, <2>2, FS_Subset
<1> QED BY <1>3, <1>4

\* The steps that create files.
LEMMA TypeFiles ==
    ASSUME TypeInv, NEW w \in Workers,
           CreateChunk(w) \/ MergeChunks(w) \/ MergeChunksFails(w)
    PROVE  TypeInv'
<1> USE DEF vars, poolVars, listVars, fileVars, mainVars, Goto
<1>1. CASE CreateChunk(w)
  <2> DEFINE new == [layer |-> 0, file |-> idGen + 1]
  <2>1. new \in Chunk /\ IsFiniteSet({new})
    <3>1. new \in Chunk
      BY DEF Chunk, TypeInv, TypeOK
    <3> HIDE DEF new
    <3> QED BY <3>1, FS_Singleton
  <2>2. DOMAIN disk' = DOMAIN disk \cup {idGen + 1}
    BY <1>1 DEF CreateChunk
  <2>3. DOMAIN disk' \subseteq 1..idGen'
    BY <1>1, <2>2 DEF CreateChunk, TypeInv, TypeOK
  <2>4. \A f \in DOMAIN disk' : disk'[f] \subseteq 1..parser'
    <3> SUFFICES ASSUME NEW f \in DOMAIN disk' PROVE disk'[f] \subseteq 1..(parser + 1)
      BY <1>1 DEF CreateChunk
    <3>1. disk'[f] = IF f = idGen + 1 THEN {parser + 1} ELSE disk[f]
      BY <1>1, <2>2 DEF CreateChunk
    <3>2. parser \in Nat
      BY DEF TypeInv, TypeOK
    <3>3. f # idGen + 1 => disk[f] \subseteq 1..parser
      BY <2>2 DEF TypeInv, TypeOK
    <3> QED BY <3>1, <3>2, <3>3
  <2>5. /\ pc' = [pc EXCEPT ![w] = "insert"] /\ hand' = [hand EXCEPT ![w] = {new}]
        /\ idGen' = idGen + 1 /\ parser' = parser + 1 /\ parser < input
        /\ UNCHANGED <<poolVars, listVars, mainVars, input, job>>
    BY <1>1 DEF CreateChunk
  <2> HIDE DEF new
  <2>6. TypeOK'
    BY <2>1, <2>3, <2>4, <2>5 DEF TypeInv, TypeOK, Labels
  <2> QED BY <2>1, <2>5, <2>6 DEF TypeInv, TypeOK
<1>2. CASE MergeChunks(w)
  <2> DEFINE inputs == FilesOf(hand[w])
             new == [layer |-> MaxOf(LayersOf(hand[w])) + 1, file |-> idGen + 1]
  <2>1. hand[w] \in SUBSET Chunk /\ IsFiniteSet(hand[w]) /\ hand[w] # {}
    BY <1>2 DEF MergeChunks, TypeInv, TypeOK
  <2>2. IsFiniteSet(LayersOf(hand[w])) /\ LayersOf(hand[w]) \in SUBSET Nat
    BY <2>1, LayersOfFinite
  <2>3. LayersOf(hand[w]) # {}
    BY <2>1 DEF LayersOf
  <2>4. MaxOf(LayersOf(hand[w])) \in Nat
    BY <2>2, <2>3, MaxOfFinite
  <2>5. new \in Chunk /\ IsFiniteSet({new})
    <3>1. new \in Chunk
      BY <2>4 DEF Chunk, TypeInv, TypeOK
    <3> HIDE DEF new
    <3> QED BY <3>1, FS_Singleton
  <2>6. DOMAIN disk' = (DOMAIN disk \ inputs) \cup {idGen + 1}
    BY <1>2 DEF MergeChunks
  <2>7. DOMAIN disk' \subseteq 1..idGen'
    BY <1>2, <2>6 DEF MergeChunks, TypeInv, TypeOK
  <2>8. \A f \in DOMAIN disk' : disk'[f] \subseteq 1..parser'
    <3> SUFFICES ASSUME NEW f \in DOMAIN disk' PROVE disk'[f] \subseteq 1..parser
      BY <1>2 DEF MergeChunks
    <3>1. disk'[f] = IF f = idGen + 1 THEN UNION {disk[g] : g \in inputs} ELSE disk[f]
      BY <1>2, <2>6 DEF MergeChunks
    <3>2. inputs \subseteq DOMAIN disk
      BY <1>2 DEF MergeChunks, MergeInputsExist
    <3>3. \A g \in DOMAIN disk : disk[g] \subseteq 1..parser
      BY DEF TypeInv, TypeOK
    <3> QED BY <2>6, <3>1, <3>2, <3>3
  <2>9. /\ pc' = [pc EXCEPT ![w] = "insert"] /\ hand' = [hand EXCEPT ![w] = {new}]
        /\ idGen' = idGen + 1
        /\ UNCHANGED <<poolVars, listVars, mainVars, input, parser, job>>
    BY <1>2 DEF MergeChunks
  <2> HIDE DEF new
  <2>10. TypeOK'
    BY <2>5, <2>7, <2>8, <2>9 DEF TypeInv, TypeOK, Labels
  <2> QED BY <2>5, <2>9, <2>10 DEF TypeInv, TypeOK
<1>3. CASE MergeChunksFails(w)
  <2>1. DOMAIN disk' \subseteq 1..idGen' /\ \A f \in DOMAIN disk' : disk'[f] \subseteq 1..parser'
    BY <1>3 DEF MergeChunksFails, TypeInv, TypeOK
  <2>2. /\ pc' = [pc EXCEPT ![w] = "failed"] /\ hand' = [hand EXCEPT ![w] = {}]
        /\ idGen' = idGen + 1 /\ job[w] # "none"
        /\ UNCHANGED <<poolVars, listVars, mainVars, input, parser, job>>
    BY <1>3 DEF MergeChunksFails, TypeInv
  <2>3. TypeOK'
    BY <2>1, <2>2 DEF TypeInv, TypeOK, Labels
  <2> QED BY <2>2, <2>3, FS_EmptySet DEF TypeInv, TypeOK
<1> QED BY <1>1, <1>2, <1>3

\* The steps on the chunk list.
LEMMA TypeList ==
    ASSUME TypeInv, NEW w \in Workers, InsertChunk(w) \/ FindChunks(w)
    PROVE  TypeInv'
<1> USE DEF vars, poolVars, listVars, fileVars, mainVars, Goto
<1>1. CASE InsertChunk(w)
  <2>1. hand[w] \in SUBSET Chunk /\ IsFiniteSet(hand[w]) /\ maxLayer \in Nat
    BY DEF TypeInv, TypeOK
  <2> DEFINE S == {maxLayer} \cup LayersOf(hand[w])
  <2>2. S \in SUBSET Nat /\ IsFiniteSet(S) /\ S # {}
    <3>1. IsFiniteSet(LayersOf(hand[w])) /\ LayersOf(hand[w]) \in SUBSET Nat
      BY <2>1, LayersOfFinite
    <3>2. S = LayersOf(hand[w]) \cup {maxLayer}
      OBVIOUS
    <3> QED BY <2>1, <3>1, <3>2, FS_AddElement
  <2>3. MaxOf(S) \in Nat
    BY <2>2, MaxOfFinite
  <2>4. maxLayer' \in Nat
    BY <1>1, <2>3 DEF InsertChunk
  <2>5. chunks' \in SUBSET Chunk /\ IsFiniteSet(chunks')
    BY <1>1, <2>1, FS_Union DEF InsertChunk, TypeInv, TypeOK
  <2>6. /\ pc' = [pc EXCEPT ![w] = IF job[w] = "create" THEN "pushCreate" ELSE "find"]
        /\ hand' = [hand EXCEPT ![w] = {}]
        /\ UNCHANGED <<poolVars, chunksMutex, fileVars, mainVars, job>>
    BY <1>1 DEF InsertChunk
  <2>7. TypeOK'
    BY <2>4, <2>5, <2>6 DEF TypeInv, TypeOK, Labels
  <2> QED BY <2>5, <2>6, <2>7, FS_EmptySet DEF TypeInv, TypeOK
<1>2. CASE FindChunks(w)
  <2>1. PICK ch \in FindChunksToMerge :
           chunks' = chunks \ ch /\ hand' = [hand EXCEPT ![w] = ch]
    BY <1>2 DEF FindChunks
  <2>2. ch \in SUBSET chunks /\ IsFiniteSet(ch) /\ ch # {}
    BY <2>1, FoundChunks DEF TypeInv
  <2>3. chunks' \in SUBSET Chunk /\ IsFiniteSet(chunks')
    BY <2>1, FS_Difference DEF TypeInv, TypeOK
  <2>4. /\ pc' = [pc EXCEPT ![w] = "unlock"] /\ chunksMutex' = w
        /\ UNCHANGED <<poolVars, maxLayer, fileVars, mainVars, job>>
    BY <1>2 DEF FindChunks
  <2>5. TypeOK'
    BY <2>1, <2>2, <2>3, <2>4 DEF TypeInv, TypeOK, Labels
  <2> QED BY <2>1, <2>2, <2>3, <2>4, <2>5 DEF TypeInv, TypeOK
<1> QED BY <1>1, <1>2

\* The steps that push tasks, notify, or belong to PushAndJoin.
LEMMA TypePush ==
    ASSUME TypeInv, NEW w \in Workers,
           PushCreateTask(w) \/ PushMergeTask(w) \/ ReleasePool(w) \/ ClosePool(w)
    PROVE  TypeInv'
<1> USE DEF vars, poolVars, listVars, fileVars, mainVars, Goto
<1>0. tasks \in Seq(Task) /\ pc \in [Workers -> Labels]
  BY DEF TypeInv, TypeOK
<1>1. CASE PushCreateTask(w)
  <2> DEFINE p == [pc EXCEPT ![w] = "find"]
  <2>1. CreateTask \in Task /\ IsFiniteSet(CreateTask.chunks) /\ CreateTask.type = "create"
    BY FS_EmptySet DEF CreateTask, Task
  <2>2. /\ tasks' \in Seq(Task) /\ DOMAIN tasks' = 1..(Len(tasks) + 1)
        /\ DOMAIN tasks = 1..Len(tasks) /\ Len(tasks) \in Nat
        /\ \A i \in DOMAIN tasks : tasks'[i] = tasks[i]
        /\ tasks'[Len(tasks) + 1] = CreateTask
    BY <1>0, <1>1, <2>1, TasksPushed DEF PushCreateTask
  <2>3. p \in [Workers -> Labels] /\ pc' \in NotifyOne(p)
    BY <1>0, <1>1 DEF PushCreateTask, Labels
  <2>4. /\ pc' \in [Workers -> Labels]
        /\ \A v \in Workers : pc'[v] = p[v] \/ pc'[v] = "pop"
    BY <2>3, NotifyOneType
  <2>5. UNCHANGED <<completed, exception, taskCondMutex, listVars, fileVars, mainVars, job, hand>>
    BY <1>1 DEF PushCreateTask
  <2>6. TypeOK'
    BY <2>2, <2>4, <2>5 DEF TypeInv, TypeOK
  <2>7. \A i \in DOMAIN tasks' :
           /\ IsFiniteSet(tasks'[i].chunks)
           /\ tasks'[i].type = "merge" => tasks'[i].chunks # {}
    BY <2>1, <2>2 DEF TypeInv
  <2> QED BY <1>0, <2>4, <2>5, <2>6, <2>7 DEF TypeInv
<1>2. CASE PushMergeTask(w)
  <2> DEFINE p == [pc EXCEPT ![w] = IF taskCondMutex = w THEN "release" ELSE "pop"]
             t == MergeTask(hand[w])
  <2>1. t \in Task /\ IsFiniteSet(t.chunks) /\ t.chunks # {}
    BY <1>2 DEF PushMergeTask, MergeTask, Task, TypeInv, TypeOK
  <2>2. /\ tasks' \in Seq(Task) /\ DOMAIN tasks' = 1..(Len(tasks) + 1)
        /\ DOMAIN tasks = 1..Len(tasks) /\ Len(tasks) \in Nat
        /\ \A i \in DOMAIN tasks : tasks'[i] = tasks[i]
        /\ tasks'[Len(tasks) + 1] = t
    BY <1>0, <1>2, <2>1, TasksPushed DEF PushMergeTask
  <2>3. p \in [Workers -> Labels] /\ pc' \in NotifyOne(p)
    BY <1>0, <1>2 DEF PushMergeTask, Labels
  <2>4. /\ pc' \in [Workers -> Labels]
        /\ \A v \in Workers : pc'[v] = p[v] \/ pc'[v] = "pop"
    BY <2>3, NotifyOneType
  <2>5. /\ hand' = [hand EXCEPT ![w] = {}]
        /\ UNCHANGED <<completed, exception, taskCondMutex, listVars, fileVars, mainVars, job>>
    BY <1>2 DEF PushMergeTask
  <2> HIDE DEF t
  <2>6. TypeOK'
    BY <2>2, <2>4, <2>5 DEF TypeInv, TypeOK
  <2>7. \A i \in DOMAIN tasks' :
           /\ IsFiniteSet(tasks'[i].chunks)
           /\ tasks'[i].type = "merge" => tasks'[i].chunks # {}
    BY <2>1, <2>2 DEF TypeInv
  <2>8. hand \in [Workers -> SUBSET Chunk]
    BY DEF TypeInv, TypeOK
  <2> QED BY <1>0, <2>4, <2>5, <2>6, <2>7, <2>8, FS_EmptySet DEF TypeInv
<1>3. CASE ReleasePool(w)
  <2> DEFINE p == [pc EXCEPT ![w] = "pop"]
  <2>1. p \in [Workers -> Labels] /\ pc' = NotifyAll(p)
    BY <1>0, <1>3 DEF ReleasePool, Labels
  <2>2. pc' \in [Workers -> Labels] /\ \A v \in Workers : pc'[v] = p[v] \/ pc'[v] = "pop"
    BY <2>1, NotifyAllType
  <2>3. /\ taskCondMutex' = NoWorker
        /\ UNCHANGED <<tasks, completed, exception, listVars, fileVars, mainVars, job, hand>>
    BY <1>3 DEF ReleasePool
  <2>4. TypeOK'
    BY <2>2, <2>3 DEF TypeInv, TypeOK
  <2> QED BY <1>0, <2>2, <2>3, <2>4 DEF TypeInv
<1>4. CASE ClosePool(w)
  <2> DEFINE p == [pc EXCEPT ![w] = "done"]
  <2>1. p \in [Workers -> Labels] /\ pc' = NotifyAll(p)
    BY <1>0, <1>4 DEF ClosePool, Labels
  <2>2. pc' \in [Workers -> Labels] /\ \A v \in Workers : pc'[v] = p[v] \/ pc'[v] = "pop"
    BY <2>1, NotifyAllType
  <2>3. /\ tasks' = <<>> /\ completed' = TRUE
        /\ UNCHANGED <<exception, taskCondMutex, listVars, fileVars, mainVars, job, hand>>
    BY <1>4 DEF ClosePool
  <2>4. <<>> \in Seq(Task) /\ DOMAIN <<>> = {}
    BY EmptySeq
  <2>5. TypeOK'
    BY <2>2, <2>3, <2>4 DEF TypeInv, TypeOK
  <2> QED BY <1>0, <2>2, <2>3, <2>4, <2>5 DEF TypeInv
<1> QED BY <1>1, <1>2, <1>3, <1>4

LEMMA TypeMain ==
    ASSUME TypeInv, PushAndJoin
    PROVE  TypeInv'
<1> USE DEF vars, poolVars, listVars, fileVars, mainVars, Goto
<1>1. CASE PushFirstTask
  <2>0. tasks \in Seq(Task) /\ pc \in [Workers -> Labels]
    BY DEF TypeInv, TypeOK
  <2>1. CreateTask \in Task /\ IsFiniteSet(CreateTask.chunks) /\ CreateTask.type = "create"
    BY FS_EmptySet DEF CreateTask, Task
  <2>2. /\ tasks' \in Seq(Task) /\ DOMAIN tasks' = 1..(Len(tasks) + 1)
        /\ DOMAIN tasks = 1..Len(tasks) /\ Len(tasks) \in Nat
        /\ \A i \in DOMAIN tasks : tasks'[i] = tasks[i]
        /\ tasks'[Len(tasks) + 1] = CreateTask
    BY <1>1, <2>0, <2>1, TasksPushed DEF PushFirstTask
  <2>3. /\ pc' \in [Workers -> Labels]
        /\ \A v \in Workers : pc'[v] = pc[v] \/ pc'[v] = "pop"
    BY <1>1, <2>0, NotifyOneType DEF PushFirstTask
  <2>4. mainPc' = "join" /\ UNCHANGED <<completed, exception, taskCondMutex, listVars, fileVars, result, job, hand>>
    BY <1>1 DEF PushFirstTask
  <2>5. TypeOK'
    BY <2>2, <2>3, <2>4 DEF TypeInv, TypeOK
  <2>6. \A i \in DOMAIN tasks' :
           /\ IsFiniteSet(tasks'[i].chunks)
           /\ tasks'[i].type = "merge" => tasks'[i].chunks # {}
    BY <2>1, <2>2 DEF TypeInv
  <2> QED BY <2>3, <2>4, <2>5, <2>6 DEF TypeInv
<1>2. CASE JoinAndReturn
  <2>1. /\ mainPc' = "done" /\ UNCHANGED <<poolVars, listVars, input, parser, pc, job, hand>>
    BY <1>2 DEF JoinAndReturn
  <2>2. idGen' \in Nat /\ result' \in Result /\ DOMAIN disk' \subseteq 1..idGen'
        /\ \A f \in DOMAIN disk' : disk'[f] \subseteq 1..parser
    <3>1. CASE UNCHANGED <<idGen, disk>> /\ result'.file = 0 /\ result' \in Result
      BY <3>1 DEF TypeInv, TypeOK
    <3>2. CASE /\ idGen' = idGen + 1
               /\ disk' = [f \in DOMAIN disk \cup {idGen'} |-> IF f = idGen' THEN {} ELSE disk[f]]
               /\ result' = [status |-> "ok", file |-> idGen']
      BY <3>2 DEF TypeInv, TypeOK, Result
    <3>3. CASE /\ \E c \in chunks : result' = [status |-> "ok", file |-> c.file]
               /\ UNCHANGED <<idGen, disk>>
      BY <3>3 DEF TypeInv, TypeOK, Result, Chunk
    <3> QED BY <1>2, <3>1, <3>2, <3>3 DEF JoinAndReturn, Result
  <2> QED BY <2>1, <2>2 DEF TypeInv, TypeOK
<1> QED BY <1>1, <1>2 DEF PushAndJoin

LEMMA TypeStep == TypeInv /\ [Next]_vars => TypeInv'
<1> SUFFICES ASSUME TypeInv, [Next]_vars PROVE TypeInv'
  OBVIOUS
<1>1. CASE UNCHANGED vars
  BY <1>1 DEF vars, poolVars, listVars, fileVars, mainVars, TypeInv, TypeOK
<1>2. ASSUME NEW w \in Workers, HandleWorker(w) \/ SpuriousWakeup(w) PROVE TypeInv'
  <2>1. CASE PopTask(w) \/ SpuriousWakeup(w)
    BY <2>1, TypePop
  <2>2. CASE RunTask(w)
    BY <2>2, TypeSimple, TypeFiles, TypeList, TypePush DEF RunTask
  <2> QED BY <1>2, <2>1, <2>2 DEF HandleWorker
<1>3. CASE PushAndJoin
  BY <1>3, TypeMain
<1>4. CASE Terminated
  BY <1>1, <1>4 DEF Terminated
<1> QED BY <1>1, <1>2, <1>3, <1>4 DEF Next

LEMMA TypeInvariant == Spec => []TypeInv
<1> QED BY TypeInit, TypeStep, PTL DEF Spec

\* Every variable of the pool keeps its type, whatever the pool's size, the
\* input and the failures (the members declared at kmerger.hpp:26-45).
THEOREM TypeCorrect == Spec => []TypeOK
<1>1. TypeInv => TypeOK
  BY DEF TypeInv
<1> QED BY <1>1, TypeInvariant, PTL

-----------------------------------------------------------------------------
(* One "create" task at a time.                                            *)

\* The "create" task is a token: it is nowhere before PushAndJoin pushes it,
\* then in the queue or with one worker, and only its owner may push it again.
CreateInv ==
    /\ \A i, j \in QueuedCreates : i = j
    /\ \A v, w \in RunningCreates : v = w
    /\ QueuedCreates = {} \/ RunningCreates = {}
    /\ mainPc = "push" => QueuedCreates = {} /\ RunningCreates = {}

\* No token appears: the queued ones are where they were, no worker gets one.
LEMMA CreateKept ==
    ASSUME CreateInv, QueuedCreates' \subseteq QueuedCreates,
           RunningCreates' \subseteq RunningCreates, mainPc' = "push" => mainPc = "push"
    PROVE  CreateInv'
BY DEF CreateInv

LEMMA CreateInit == Init => CreateInv
<1> SUFFICES ASSUME Init PROVE CreateInv
  OBVIOUS
<1>1. QueuedCreates = {} /\ RunningCreates = {}
  BY EmptySeq DEF Init, QueuedCreates, RunningCreates
<1> QED BY <1>1 DEF CreateInv

LEMMA CreatePop ==
    ASSUME TypeInv, CreateInv, NEW w \in Workers, PopTask(w) \/ SpuriousWakeup(w)
    PROVE  CreateInv'
<1> USE DEF vars, poolVars, listVars, fileVars, mainVars, Goto
<1>0. pc \in [Workers -> Labels] /\ job \in [Workers -> {"none", "create", "merge"}]
  BY DEF TypeInv, TypeOK
<1>1. CASE WaitTask(w) \/ SpuriousWakeup(w) \/ Quit(w)
  <2>1. QueuedCreates' \subseteq QueuedCreates
    BY <1>1 DEF WaitTask, SpuriousWakeup, Quit, QueuedCreates
  <2>2. RunningCreates' \subseteq RunningCreates
    BY <1>0, <1>1 DEF WaitTask, SpuriousWakeup, Quit, RunningCreates
  <2>3. mainPc' = mainPc
    BY <1>1 DEF WaitTask, SpuriousWakeup, Quit
  <2> QED BY <2>1, <2>2, <2>3, CreateKept
<1>2. CASE TakeTask(w)
  <2> DEFINE n == Len(tasks)
  <2>1. /\ n \in DOMAIN tasks /\ n \notin DOMAIN tasks' /\ tasks[n] \in Task
        /\ \A i \in DOMAIN tasks' : i \in DOMAIN tasks /\ tasks'[i] = tasks[i]
    BY <1>2, TasksPopped DEF TakeTask, TypeInv, TypeOK
  <2>2. /\ pc' = [pc EXCEPT ![w] = tasks[n].type] /\ job' = [job EXCEPT ![w] = tasks[n].type]
        /\ pc[w] = "pop" /\ mainPc' = mainPc
    BY <1>2 DEF TakeTask
  <2>3. QueuedCreates' \subseteq QueuedCreates \ {n}
    BY <2>1 DEF QueuedCreates
  <2>4. CASE tasks[n].type = "merge"
    <3>1. RunningCreates' \subseteq RunningCreates
      BY <1>0, <2>2, <2>4 DEF RunningCreates
    <3> QED BY <2>2, <2>3, <3>1, CreateKept
  <2>5. CASE tasks[n].type = "create"
    <3>1. n \in QueuedCreates
      BY <2>1, <2>5 DEF QueuedCreates
    <3>2. QueuedCreates' = {} /\ RunningCreates = {} /\ mainPc # "push"
      BY <2>3, <3>1 DEF CreateInv
    <3>3. RunningCreates' \subseteq {w}
      BY <1>0, <2>2, <3>2 DEF RunningCreates
    <3> QED BY <2>2, <3>2, <3>3 DEF CreateInv
  <2> QED BY <2>1, <2>4, <2>5 DEF Task
<1> QED BY <1>1, <1>2 DEF PopTask

LEMMA CreateRun ==
    ASSUME TypeInv, CreateInv, NEW w \in Workers, RunTask(w)
    PROVE  CreateInv'
<1> USE DEF vars, poolVars, listVars, fileVars, mainVars, Goto
<1>0. /\ pc \in [Workers -> Labels] /\ job \in [Workers -> {"none", "create", "merge"}]
      /\ tasks \in Seq(Task)
  BY DEF TypeInv, TypeOK
<1>1. CASE \/ CreateChunk(w) \/ CreateChunkFails(w) \/ CreateChunkEnd(w)
           \/ Complete(w) \/ MergeChunks(w) \/ MergeChunksFails(w)
           \/ InsertChunk(w) \/ FindNothing(w) \/ FindChunks(w) \/ UnlockChunks(w)
           \/ RecordException(w)
  <2> USE DEF CreateChunk, CreateChunkFails, CreateChunkEnd, Complete, MergeChunks,
              MergeChunksFails, InsertChunk, FindNothing, FindChunks, UnlockChunks,
              RecordException
  <2>1. tasks' = tasks /\ mainPc' = mainPc /\ job' = job
    BY <1>1
  <2>2. QueuedCreates' \subseteq QueuedCreates
    BY <2>1 DEF QueuedCreates
  <2>3. /\ \A v \in Workers \ {w} : pc'[v] = pc[v]
        /\ pc'[w] \in {"create", "complete", "insert", "pushCreate"} =>
              pc[w] \in {"create", "complete", "insert", "pushCreate"} \/ job[w] # "create"
    <3>1. CASE MergeChunks(w)
      <4>1. job[w] # "create"
        BY <3>1 DEF TypeInv
      <4> QED BY <1>0, <3>1, <4>1
    <3>2. CASE ~MergeChunks(w)
      BY <1>0, <1>1, <3>2
    <3> QED BY <3>1, <3>2
  <2>4. RunningCreates' \subseteq RunningCreates
    BY <2>1, <2>3 DEF RunningCreates
  <2> QED BY <2>1, <2>2, <2>4, CreateKept
<1>2. CASE ReleasePool(w) \/ ClosePool(w)
  <2>1. mainPc' = mainPc /\ job' = job
    BY <1>2 DEF ReleasePool, ClosePool
  <2>2. QueuedCreates' \subseteq QueuedCreates
    BY <1>2, EmptySeq DEF ReleasePool, ClosePool, QueuedCreates
  <2>3. PICK l \in {"pop", "done"} : pc' = NotifyAll([pc EXCEPT ![w] = l])
    BY <1>2 DEF ReleasePool, ClosePool
  <2>4. [pc EXCEPT ![w] = l] \in [Workers -> Labels]
    BY <1>0 DEF Labels
  <2>5. \A v \in Workers : pc'[v] = [pc EXCEPT ![w] = l][v] \/ pc'[v] = "pop"
    BY <2>3, <2>4, NotifyAllType
  <2>6. RunningCreates' \subseteq RunningCreates
    BY <1>0, <2>1, <2>5 DEF RunningCreates
  <2> QED BY <2>1, <2>2, <2>6, CreateKept
<1>3. CASE PushMergeTask(w)
  <2>1. mainPc' = mainPc /\ job' = job
    BY <1>3 DEF PushMergeTask
  <2>2. MergeTask(hand[w]) \in Task
    BY DEF MergeTask, Task, TypeInv, TypeOK
  <2>3. QueuedCreates' \subseteq QueuedCreates
    BY <1>0, <1>3, <2>2, TasksPushed DEF PushMergeTask, QueuedCreates, MergeTask
  <2>4. PICK l \in {"pop", "release"} : pc' \in NotifyOne([pc EXCEPT ![w] = l])
    BY <1>3 DEF PushMergeTask
  <2>5. [pc EXCEPT ![w] = l] \in [Workers -> Labels]
    BY <1>0 DEF Labels
  <2>6. \A v \in Workers : pc'[v] = [pc EXCEPT ![w] = l][v] \/ pc'[v] = "pop"
    BY <2>4, <2>5, NotifyOneType
  <2>7. RunningCreates' \subseteq RunningCreates
    BY <1>0, <2>1, <2>6 DEF RunningCreates
  <2> QED BY <2>1, <2>3, <2>7, CreateKept
<1>4. CASE PushCreateTask(w)
  <2>1. mainPc' = mainPc /\ job' = job /\ pc[w] = "pushCreate"
    BY <1>4 DEF PushCreateTask
  <2>2. w \in RunningCreates
    BY <2>1 DEF RunningCreates, TypeInv
  <2>3. QueuedCreates = {} /\ mainPc # "push"
    BY <2>2 DEF CreateInv
  <2>4. CreateTask \in Task
    BY DEF CreateTask, Task
  <2>5. QueuedCreates' \subseteq {Len(tasks) + 1}
    BY <1>0, <1>4, <2>3, <2>4, TasksPushed DEF PushCreateTask, QueuedCreates
  <2>6. [pc EXCEPT ![w] = "find"] \in [Workers -> Labels]
    BY <1>0 DEF Labels
  <2>7. \A v \in Workers : pc'[v] = [pc EXCEPT ![w] = "find"][v] \/ pc'[v] = "pop"
    BY <1>4, <2>6, NotifyOneType DEF PushCreateTask
  <2>8. RunningCreates' = {}
    <3>1. RunningCreates' \subseteq RunningCreates \ {w}
      BY <1>0, <2>1, <2>7 DEF RunningCreates
    <3> QED BY <2>2, <3>1 DEF CreateInv
  <2> QED BY <2>1, <2>3, <2>5, <2>8 DEF CreateInv
<1> QED BY <1>1, <1>2, <1>3, <1>4 DEF RunTask

LEMMA CreateMain ==
    ASSUME TypeInv, CreateInv, PushAndJoin
    PROVE  CreateInv'
<1> USE DEF vars, poolVars, listVars, fileVars, mainVars, Goto
<1>0. pc \in [Workers -> Labels] /\ tasks \in Seq(Task)
  BY DEF TypeInv, TypeOK
<1>1. CASE PushFirstTask
  <2>1. mainPc = "push" /\ mainPc' = "join" /\ job' = job
    BY <1>1 DEF PushFirstTask
  <2>2. QueuedCreates = {} /\ RunningCreates = {}
    BY <2>1 DEF CreateInv
  <2>3. CreateTask \in Task
    BY DEF CreateTask, Task
  <2>4. QueuedCreates' \subseteq {Len(tasks) + 1}
    BY <1>0, <1>1, <2>2, <2>3, TasksPushed DEF PushFirstTask, QueuedCreates
  <2>5. \A v \in Workers : pc'[v] = pc[v] \/ pc'[v] = "pop"
    BY <1>0, <1>1, NotifyOneType DEF PushFirstTask
  <2>6. RunningCreates' = {}
    BY <2>1, <2>2, <2>5 DEF RunningCreates
  <2> QED BY <2>1, <2>4, <2>6 DEF CreateInv
<1>2. CASE JoinAndReturn
  <2>1. UNCHANGED <<tasks, pc, job>> /\ mainPc' = "done"
    BY <1>2 DEF JoinAndReturn
  <2> QED BY <2>1, CreateKept DEF QueuedCreates, RunningCreates
<1> QED BY <1>1, <1>2 DEF PushAndJoin

LEMMA CreateStep == TypeInv /\ CreateInv /\ [Next]_vars => CreateInv'
<1> SUFFICES ASSUME TypeInv, CreateInv, [Next]_vars PROVE CreateInv'
  OBVIOUS
<1>1. CASE UNCHANGED vars
  BY <1>1, CreateKept DEF vars, poolVars, mainVars, QueuedCreates, RunningCreates
<1>2. ASSUME NEW w \in Workers, HandleWorker(w) \/ SpuriousWakeup(w) PROVE CreateInv'
  BY <1>2, CreatePop, CreateRun DEF HandleWorker
<1>3. CASE PushAndJoin
  BY <1>3, CreateMain
<1>4. CASE Terminated
  BY <1>1, <1>4 DEF Terminated
<1> QED BY <1>1, <1>2, <1>3, <1>4 DEF Next

\* The token invariant bounds the two cardinalities.
LEMMA CreateBound == TypeInv /\ CreateInv => OneCreateTask
<1> SUFFICES ASSUME TypeInv, CreateInv PROVE OneCreateTask
  OBVIOUS
<1>1. Cardinality({}) = 0 /\ \A x : Cardinality({x}) = 1
  BY FS_EmptySet, FS_Singleton
<1>2. QueuedCreates = {} \/ \E i : QueuedCreates = {i}
  BY DEF CreateInv
<1>3. RunningCreates = {} \/ \E w : RunningCreates = {w}
  BY DEF CreateInv
<1>4. Cardinality(QueuedCreates) + Cardinality(RunningCreates) <= 1
  <2>1. Cardinality(QueuedCreates) = 0 \/ (Cardinality(QueuedCreates) = 1 /\ QueuedCreates # {})
    BY <1>1, <1>2
  <2>2. Cardinality(RunningCreates) = 0 \/ (Cardinality(RunningCreates) = 1 /\ RunningCreates # {})
    BY <1>1, <1>3
  <2>3. QueuedCreates = {} \/ RunningCreates = {}
    BY DEF CreateInv
  <2> QED BY <1>1, <2>1, <2>2, <2>3
<1> QED BY <1>4 DEF OneCreateTask, CreateInv

\* CreateChunk is never run by two workers at once and is never queued twice
\* (kmerger.hpp:195-226), so the parser and the buffers it uses unlocked
\* (raio.hpp:124-128) have one user, for every number of workers.
THEOREM CreateExclusive == Spec => []OneCreateTask
<1>1. Spec => []CreateInv
  BY CreateInit, CreateStep, TypeInvariant, PTL DEF Spec
<1> QED BY <1>1, TypeInvariant, CreateBound, PTL

-----------------------------------------------------------------------------
(* No lost wakeup.                                                         *)

\* Steps that add no task, put no worker to sleep and take none from "pop".
LEMMA WakeupKept ==
    ASSUME TypeInv, NoLostWakeup, tasks' = tasks,
           exception' = exception \/ exception' # "none",
           At({"wait"})' \subseteq At({"wait"}), At({"pop"}) \subseteq At({"pop"})'
    PROVE  NoLostWakeup'
<1>1. IsFiniteSet(At({"pop"})) /\ IsFiniteSet(At({"pop"})')
  <2>1. At({"pop"}) \in SUBSET Workers /\ At({"pop"})' \in SUBSET Workers
    BY DEF At
  <2> QED BY <2>1, FS_Subset, KMergerAssumption
<1>2. Cardinality(At({"pop"})) <= Cardinality(At({"pop"})')
  BY <1>1, FS_Subset
<1>3. Cardinality(At({"pop"})) \in Nat /\ Cardinality(At({"pop"})') \in Nat
  BY <1>1, FS_CardinalityType
<1>4. Len(tasks) \in Nat
  BY LenProperties DEF TypeInv, TypeOK
<1> QED BY <1>2, <1>3, <1>4 DEF NoLostWakeup

\* A push with notify_one: a sleeper, if there is one, joins the workers at "pop".
LEMMA WakeupPush ==
    ASSUME TypeInv, NoLostWakeup, Len(tasks') = Len(tasks) + 1, exception' = exception,
           NEW p \in [Workers -> Labels], pc' \in NotifyOne(p),
           \A v \in Workers : /\ p[v] = "wait" => pc[v] = "wait"
                              /\ pc[v] = "pop" => p[v] = "pop"
    PROVE  NoLostWakeup'
<1> DEFINE waiting == {v \in Workers : p[v] = "wait"}
<1>1. CASE waiting = {}
  <2>1. pc' = p
    BY <1>1 DEF NotifyOne
  <2> QED BY <1>1, <2>1 DEF NoLostWakeup, At
<1>2. CASE waiting # {}
  <2>1. PICK v \in waiting : pc' = [p EXCEPT ![v] = "pop"]
    BY <1>2 DEF NotifyOne
  <2> DEFINE more == At({"pop"}) \cup {v}
  <2>2. v \notin At({"pop"}) /\ v \in At({"wait"}) /\ more \subseteq At({"pop"})'
    BY <2>1 DEF At
  <2>3. IsFiniteSet(At({"pop"})) /\ IsFiniteSet(At({"pop"})')
    <3>1. At({"pop"}) \in SUBSET Workers /\ At({"pop"})' \in SUBSET Workers
      BY DEF At
    <3> QED BY <3>1, FS_Subset, KMergerAssumption
  <2>4. IsFiniteSet(more) /\ Cardinality(more) = Cardinality(At({"pop"})) + 1
    BY <2>2, <2>3, FS_AddElement
  <2>5. Cardinality(more) <= Cardinality(At({"pop"})')
    BY <2>2, <2>3, FS_Subset
  <2>6. Cardinality(At({"pop"})) \in Nat /\ Cardinality(At({"pop"})') \in Nat
    BY <2>3, FS_CardinalityType
  <2>7. Len(tasks) \in Nat
    BY LenProperties DEF TypeInv, TypeOK
  <2>8. exception = "none" => Len(tasks) <= Cardinality(At({"pop"}))
    BY <2>2 DEF NoLostWakeup
  <2> HIDE DEF more
  <2> QED BY <2>4, <2>5, <2>6, <2>7, <2>8 DEF NoLostWakeup
<1> QED BY <1>1, <1>2

LEMMA WakeupPop ==
    ASSUME TypeInv, NoLostWakeup, NEW w \in Workers, PopTask(w) \/ SpuriousWakeup(w)
    PROVE  NoLostWakeup'
<1> USE DEF vars, poolVars, listVars, fileVars, mainVars, Goto
<1>0. pc \in [Workers -> Labels]
  BY DEF TypeInv, TypeOK
<1>1. CASE WaitTask(w) \/ Quit(w)
  <2>1. exception' # "none" \/ tasks' = <<>>
    BY <1>1 DEF WaitTask, Quit
  <2>2. At({"pop"})' \in SUBSET Workers
    BY DEF At
  <2>3. Cardinality(At({"pop"})') \in Nat
    BY <2>2, FS_Subset, FS_CardinalityType, KMergerAssumption
  <2> QED BY <2>1, <2>3, EmptySeq DEF NoLostWakeup
<1>2. CASE SpuriousWakeup(w)
  <2>1. tasks' = tasks /\ exception' = exception /\ pc' = [pc EXCEPT ![w] = "pop"]
    BY <1>2 DEF SpuriousWakeup
  <2>2. At({"wait"})' \subseteq At({"wait"}) /\ At({"pop"}) \subseteq At({"pop"})'
    BY <1>0, <2>1 DEF At
  <2> QED BY <2>1, <2>2, WakeupKept
<1>3. CASE TakeTask(w)
  <2>1. /\ pc[w] = "pop" /\ exception' = exception
        /\ pc' = [pc EXCEPT ![w] = tasks[Len(tasks)].type]
    BY <1>3 DEF TakeTask
  <2>2. /\ Len(tasks') = Len(tasks) - 1 /\ Len(tasks) \in Nat
        /\ tasks[Len(tasks)].type \in {"create", "merge"}
    BY <1>3, TasksPopped DEF TakeTask, TypeInv, TypeOK, Task
  <2>3. /\ At({"pop"})' = At({"pop"}) \ {w} /\ w \in At({"pop"})
        /\ At({"wait"})' = At({"wait"})
    BY <1>0, <2>1, <2>2 DEF At
  <2>4. IsFiniteSet(At({"pop"}))
    <3>1. At({"pop"}) \in SUBSET Workers
      BY DEF At
    <3> QED BY <3>1, FS_Subset, KMergerAssumption
  <2>5. Cardinality(At({"pop"})') = Cardinality(At({"pop"})) - 1 /\ Cardinality(At({"pop"})) \in Nat
    BY <2>3, <2>4, FS_RemoveElement, FS_CardinalityType
  <2> QED BY <2>1, <2>2, <2>3, <2>5 DEF NoLostWakeup
<1> QED BY <1>1, <1>2, <1>3 DEF PopTask

LEMMA WakeupRun ==
    ASSUME TypeInv, NoLostWakeup, NEW w \in Workers, RunTask(w)
    PROVE  NoLostWakeup'
<1> USE DEF vars, poolVars, listVars, fileVars, mainVars, Goto
<1>0. /\ pc \in [Workers -> Labels] /\ tasks \in Seq(Task)
      /\ job \in [Workers -> {"none", "create", "merge"}]
  BY DEF TypeInv, TypeOK
<1>1. CASE \/ CreateChunk(w) \/ CreateChunkFails(w) \/ CreateChunkEnd(w)
           \/ Complete(w) \/ MergeChunks(w) \/ MergeChunksFails(w)
           \/ InsertChunk(w) \/ FindNothing(w) \/ FindChunks(w) \/ UnlockChunks(w)
           \/ RecordException(w)
  <2> USE DEF CreateChunk, CreateChunkFails, CreateChunkEnd, Complete, MergeChunks,
              MergeChunksFails, InsertChunk, FindNothing, FindChunks, UnlockChunks,
              RecordException
  <2>1. tasks' = tasks /\ pc[w] \notin {"wait", "pop"}
    BY <1>1
  <2>2. PICK l \in Labels \ {"wait"} : pc' = [pc EXCEPT ![w] = l]
    BY <1>1 DEF Labels
  <2>3. exception' = exception \/ exception' # "none"
    BY <1>1 DEF TypeInv
  <2>4. At({"wait"})' \subseteq At({"wait"}) /\ At({"pop"}) \subseteq At({"pop"})'
    <3>1. \A v \in Workers : v # w => pc'[v] = pc[v]
      BY <1>0, <2>2
    <3>2. pc'[w] # "wait" /\ pc[w] # "pop"
      BY <1>0, <2>1, <2>2
    <3> QED BY <3>1, <3>2 DEF At
  <2> QED BY <2>1, <2>3, <2>4, WakeupKept
<1>2. CASE ReleasePool(w)
  <2>0. "pop" \in Labels
    BY DEF Labels
  <2>1. pc' = NotifyAll([pc EXCEPT ![w] = "pop"]) /\ [pc EXCEPT ![w] = "pop"] \in [Workers -> Labels]
    <3>1. pc' = NotifyAll([pc EXCEPT ![w] = "pop"])
      BY <1>2 DEF ReleasePool
    <3>2. [pc EXCEPT ![w] = "pop"] \in [Workers -> Labels]
      BY <1>0, <2>0
    <3> QED BY <3>1, <3>2
  <2>2. At({"wait"})' = {}
    <3>1. \A v \in Workers : pc'[v] # "wait"
      BY <2>1, NotifyAllType
    <3> QED BY <3>1 DEF At
  <2> QED BY <2>2 DEF NoLostWakeup
<1>3. CASE ClosePool(w)
  <2>0. "done" \in Labels
    BY DEF Labels
  <2>1. pc' = NotifyAll([pc EXCEPT ![w] = "done"]) /\ [pc EXCEPT ![w] = "done"] \in [Workers -> Labels]
    <3>1. pc' = NotifyAll([pc EXCEPT ![w] = "done"])
      BY <1>3 DEF ClosePool
    <3>2. [pc EXCEPT ![w] = "done"] \in [Workers -> Labels]
      BY <1>0, <2>0
    <3> QED BY <3>1, <3>2
  <2>2. At({"wait"})' = {}
    <3>1. \A v \in Workers : pc'[v] # "wait"
      BY <2>1, NotifyAllType
    <3> QED BY <3>1 DEF At
  <2> QED BY <2>2 DEF NoLostWakeup
<1>4. CASE PushMergeTask(w)
  <2>1. PICK l \in {"pop", "release"} : pc' \in NotifyOne([pc EXCEPT ![w] = l])
    BY <1>4 DEF PushMergeTask
  <2> DEFINE p == [pc EXCEPT ![w] = l]
  <2>2. p \in [Workers -> Labels] /\ pc[w] = "push" /\ exception' = exception
    BY <1>0, <1>4 DEF PushMergeTask, Labels
  <2>3. \A v \in Workers : (p[v] = "wait" => pc[v] = "wait") /\ (pc[v] = "pop" => p[v] = "pop")
    BY <1>0, <2>2
  <2>4. MergeTask(hand[w]) \in Task
    BY DEF MergeTask, Task, TypeInv, TypeOK
  <2>5. Len(tasks') = Len(tasks) + 1
    BY <1>0, <1>4, <2>4, TasksPushed DEF PushMergeTask
  <2> HIDE DEF p
  <2> QED BY <2>1, <2>2, <2>3, <2>5, WakeupPush DEF p
<1>5. CASE PushCreateTask(w)
  <2> DEFINE p == [pc EXCEPT ![w] = "find"]
  <2>1. p \in [Workers -> Labels] /\ pc[w] = "pushCreate" /\ exception' = exception
    BY <1>0, <1>5 DEF PushCreateTask, Labels
  <2>2. \A v \in Workers : (p[v] = "wait" => pc[v] = "wait") /\ (pc[v] = "pop" => p[v] = "pop")
    BY <1>0, <2>1
  <2>3. CreateTask \in Task
    BY DEF CreateTask, Task
  <2>4. Len(tasks') = Len(tasks) + 1
    BY <1>0, <1>5, <2>3, TasksPushed DEF PushCreateTask
  <2>5. pc' \in NotifyOne(p)
    BY <1>5 DEF PushCreateTask
  <2> QED BY <2>1, <2>2, <2>4, <2>5, WakeupPush
<1> QED BY <1>1, <1>2, <1>3, <1>4, <1>5 DEF RunTask

LEMMA WakeupMain ==
    ASSUME TypeInv, NoLostWakeup, PushAndJoin
    PROVE  NoLostWakeup'
<1> USE DEF vars, poolVars, listVars, fileVars, mainVars, Goto
<1>0. pc \in [Workers -> Labels] /\ tasks \in Seq(Task)
  BY DEF TypeInv, TypeOK
<1>1. CASE PushFirstTask
  <2>1. CreateTask \in Task
    BY DEF CreateTask, Task
  <2>2. Len(tasks') = Len(tasks) + 1 /\ exception' = exception /\ pc' \in NotifyOne(pc)
    BY <1>0, <1>1, <2>1, TasksPushed DEF PushFirstTask
  <2> QED BY <1>0, <2>2, WakeupPush
<1>2. CASE JoinAndReturn
  <2>1. UNCHANGED <<tasks, exception, pc>>
    BY <1>2 DEF JoinAndReturn
  <2> QED BY <2>1 DEF NoLostWakeup, At
<1> QED BY <1>1, <1>2 DEF PushAndJoin

LEMMA WakeupStep == TypeInv /\ NoLostWakeup /\ [Next]_vars => NoLostWakeup'
<1> SUFFICES ASSUME TypeInv, NoLostWakeup, [Next]_vars PROVE NoLostWakeup'
  OBVIOUS
<1>1. CASE UNCHANGED vars
  BY <1>1 DEF vars, poolVars, NoLostWakeup, At
<1>2. ASSUME NEW w \in Workers, HandleWorker(w) \/ SpuriousWakeup(w) PROVE NoLostWakeup'
  BY <1>2, WakeupPop, WakeupRun DEF HandleWorker
<1>3. CASE PushAndJoin
  BY <1>3, WakeupMain
<1>4. CASE Terminated
  BY <1>1, <1>4 DEF Terminated
<1> QED BY <1>1, <1>2, <1>3, <1>4 DEF Next

\* While a worker sleeps on taskCondVar every queued task has an awake worker on
\* its way to PopTask: notify_one per push and notify_all at the end are enough
\* (kmerger.hpp:65-98, 210, 247), for every number of workers.
THEOREM WakeupsReachTasks == Spec => []NoLostWakeup
<1>1. Init => NoLostWakeup
  BY DEF Init, NoLostWakeup, At
<1> QED BY <1>1, WakeupStep, TypeInvariant, PTL DEF Spec

-----------------------------------------------------------------------------
(* Ownership of the chunks.                                                *)

Disjoint(a, b) == FilesOf(a) \cap FilesOf(b) = {}

\* One record per file, so that taking a group out of the list takes its files out.
OneRecordPerFile(chs) == \A c, d \in chs : c.file = d.file => c = d

Disjointness ==
    /\ \A w \in Workers : Disjoint(hand[w], chunks)
    /\ \A v, w \in Workers : v # w => Disjoint(hand[v], hand[w])
    /\ \A i \in DOMAIN tasks : Disjoint(tasks[i].chunks, chunks)
    /\ \A i \in DOMAIN tasks, w \in Workers : Disjoint(tasks[i].chunks, hand[w])
    /\ \A i, j \in DOMAIN tasks : i # j => Disjoint(tasks[i].chunks, tasks[j].chunks)

OnDisk ==
    /\ FilesOf(chunks) \subseteq DOMAIN disk
    /\ \A w \in Workers : FilesOf(hand[w]) \subseteq DOMAIN disk
    /\ \A i \in DOMAIN tasks : FilesOf(tasks[i].chunks) \subseteq DOMAIN disk

Singular ==
    /\ OneRecordPerFile(chunks)
    /\ \A w \in Workers : pc[w] = "insert" => OneRecordPerFile(hand[w])

OwnInv == Disjointness /\ OnDisk /\ Singular

\* Steps that touch no chunk.
LEMMA OwnSame ==
    ASSUME OwnInv, UNCHANGED <<chunks, tasks, hand>>, DOMAIN disk \subseteq DOMAIN disk',
           \A w \in Workers : pc'[w] = "insert" => pc[w] = "insert"
    PROVE  OwnInv'
BY DEF OwnInv, Disjointness, OnDisk, Singular, Disjoint, OneRecordPerFile

\* A set without chunks is disjoint from every other.
LEMMA DisjointBasics ==
    /\ \A a : Disjoint({}, a) /\ Disjoint(a, {})
    /\ \A a, b : Disjoint(a, b) => Disjoint(b, a)
    /\ FilesOf({}) = {}
BY DEF Disjoint, FilesOf

\* A push of a task holding the chunks of a worker's hand, which it gives away.
LEMMA OwnPush ==
    ASSUME TypeInv, OwnInv, NEW t \in Task,
           tasks' = Append(tasks, t), UNCHANGED <<chunks, disk>>,
           \/ t.chunks = {} /\ hand' = hand
           \/ \E w \in Workers : t.chunks = hand[w] /\ hand' = [hand EXCEPT ![w] = {}],
           \A w \in Workers : pc'[w] = "insert" => pc[w] = "insert"
    PROVE  OwnInv'
<1>0. tasks \in Seq(Task) /\ hand \in [Workers -> SUBSET Chunk]
  BY DEF TypeInv, TypeOK
<1>1. /\ DOMAIN tasks = 1..Len(tasks) /\ DOMAIN tasks' = 1..(Len(tasks) + 1)
      /\ Len(tasks) \in Nat /\ tasks'[Len(tasks) + 1] = t
      /\ \A i \in DOMAIN tasks : tasks'[i] = tasks[i]
  BY <1>0, TasksPushed
<1>2. \A i \in DOMAIN tasks' : i = Len(tasks) + 1 \/ i \in DOMAIN tasks
  BY <1>1
<1>3. CASE t.chunks = {} /\ hand' = hand
  <2>1. Disjointness'
    <3> SUFFICES /\ \A i \in DOMAIN tasks' : Disjoint(tasks'[i].chunks, chunks)
                 /\ \A i \in DOMAIN tasks', w \in Workers : Disjoint(tasks'[i].chunks, hand[w])
                 /\ \A i, j \in DOMAIN tasks' : i # j => Disjoint(tasks'[i].chunks, tasks'[j].chunks)
      BY <1>3 DEF Disjointness, OwnInv, Disjoint
    <3>1. ASSUME NEW i \in DOMAIN tasks', NEW a, i = Len(tasks) + 1
          PROVE  Disjoint(tasks'[i].chunks, a) /\ Disjoint(a, tasks'[i].chunks)
      <4>1. tasks'[i].chunks = {}
        BY <1>1, <1>3, <3>1
      <4>2. Disjoint({}, a) /\ Disjoint(a, {})
        BY DisjointBasics
      <4> QED BY <4>1, <4>2
    <3>2. ASSUME NEW i \in DOMAIN tasks'
          PROVE  /\ Disjoint(tasks'[i].chunks, chunks)
                 /\ \A w \in Workers : Disjoint(tasks'[i].chunks, hand[w])
      <4>1. CASE i = Len(tasks) + 1
        BY <3>1, <4>1
      <4>2. CASE i \in DOMAIN tasks
        BY <1>1, <4>2 DEF Disjointness, OwnInv
      <4> QED BY <1>2, <4>1, <4>2
    <3>3. ASSUME NEW i \in DOMAIN tasks', NEW j \in DOMAIN tasks', i # j
          PROVE  Disjoint(tasks'[i].chunks, tasks'[j].chunks)
      <4>1. CASE i = Len(tasks) + 1 \/ j = Len(tasks) + 1
        BY <3>1, <4>1
      <4>2. CASE i \in DOMAIN tasks /\ j \in DOMAIN tasks
        BY <1>1, <3>3, <4>2 DEF Disjointness, OwnInv
      <4> QED BY <1>2, <4>1, <4>2
    <3> QED BY <3>2, <3>3
  <2>2. OnDisk'
    BY <1>1, <1>2, <1>3, DisjointBasics DEF OnDisk, OwnInv
  <2>3. Singular'
    BY <1>3 DEF Singular, OwnInv, OneRecordPerFile
  <2> QED BY <2>1, <2>2, <2>3 DEF OwnInv
<1>4. ASSUME NEW w \in Workers, t.chunks = hand[w], hand' = [hand EXCEPT ![w] = {}]
      PROVE  OwnInv'
  <2>1. hand'[w] = {} /\ \A v \in Workers : v # w => hand'[v] = hand[v]
    BY <1>0, <1>4
  <2>2. /\ Disjoint(t.chunks, chunks)
        /\ \A v \in Workers : Disjoint(t.chunks, hand'[v])
        /\ \A i \in DOMAIN tasks : Disjoint(t.chunks, tasks[i].chunks) /\ Disjoint(tasks[i].chunks, t.chunks)
    <3>1. Disjoint(t.chunks, chunks)
      BY <1>4 DEF Disjointness, OwnInv
    <3>2. \A v \in Workers : Disjoint(t.chunks, hand'[v])
      <4> SUFFICES ASSUME NEW v \in Workers PROVE Disjoint(t.chunks, hand'[v])
        OBVIOUS
      <4>1. CASE v = w
        <5>1. Disjoint(t.chunks, {})
          BY DisjointBasics
        <5> QED BY <2>1, <4>1, <5>1
      <4>2. CASE v # w
        <5>1. Disjoint(hand[w], hand[v])
          BY <4>2 DEF Disjointness, OwnInv
        <5> QED BY <1>4, <2>1, <4>2, <5>1
      <4> QED BY <4>1, <4>2
    <3>3. ASSUME NEW i \in DOMAIN tasks
          PROVE  Disjoint(t.chunks, tasks[i].chunks) /\ Disjoint(tasks[i].chunks, t.chunks)
      <4>1. Disjoint(tasks[i].chunks, t.chunks)
        BY <1>4 DEF Disjointness, OwnInv
      <4> QED BY <4>1, DisjointBasics
    <3> QED BY <3>1, <3>2, <3>3
  <2>3. \A v \in Workers : hand'[v] = {} \/ hand'[v] = hand[v]
    BY <2>1
  <2>4. Disjointness'
    <3> SUFFICES /\ \A v \in Workers : Disjoint(hand'[v], chunks)
                 /\ \A u, v \in Workers : u # v => Disjoint(hand'[u], hand'[v])
                 /\ \A i \in DOMAIN tasks' : Disjoint(tasks'[i].chunks, chunks)
                 /\ \A i \in DOMAIN tasks', v \in Workers : Disjoint(tasks'[i].chunks, hand'[v])
                 /\ \A i, j \in DOMAIN tasks' : i # j => Disjoint(tasks'[i].chunks, tasks'[j].chunks)
      BY DEF Disjointness, Disjoint
    <3>1. /\ \A v \in Workers : Disjoint(hand'[v], chunks)
          /\ \A u, v \in Workers : u # v => Disjoint(hand'[u], hand'[v])
      <4>1. ASSUME NEW v \in Workers PROVE Disjoint(hand'[v], chunks)
        <5>1. CASE hand'[v] = {}
          <6>1. Disjoint({}, chunks)
            BY DisjointBasics
          <6> QED BY <5>1, <6>1
        <5>2. CASE hand'[v] = hand[v]
          <6>1. Disjoint(hand[v], chunks)
            BY DEF Disjointness, OwnInv
          <6> QED BY <5>2, <6>1
        <5> QED BY <2>3, <5>1, <5>2
      <4>2. ASSUME NEW u \in Workers, NEW v \in Workers, u # v
            PROVE  Disjoint(hand'[u], hand'[v])
        <5>1. CASE hand'[u] = {}
          <6>1. Disjoint({}, hand'[v])
            BY DisjointBasics
          <6> QED BY <5>1, <6>1
        <5>2. CASE hand'[v] = {}
          <6>1. Disjoint(hand'[u], {})
            BY DisjointBasics
          <6> QED BY <5>2, <6>1
        <5>3. CASE hand'[u] = hand[u] /\ hand'[v] = hand[v]
          <6>1. Disjoint(hand[u], hand[v])
            BY <4>2 DEF Disjointness, OwnInv
          <6> QED BY <5>3, <6>1
        <5>4. (hand'[u] = {} \/ hand'[u] = hand[u]) /\ (hand'[v] = {} \/ hand'[v] = hand[v])
          BY <2>3
        <5> QED BY <5>1, <5>2, <5>3, <5>4
      <4> QED BY <4>1, <4>2
    <3>2. /\ \A i \in DOMAIN tasks' : Disjoint(tasks'[i].chunks, chunks)
          /\ \A i \in DOMAIN tasks', v \in Workers : Disjoint(tasks'[i].chunks, hand'[v])
      <4> SUFFICES ASSUME NEW i \in DOMAIN tasks'
                   PROVE  /\ Disjoint(tasks'[i].chunks, chunks)
                          /\ \A v \in Workers : Disjoint(tasks'[i].chunks, hand'[v])
        OBVIOUS
      <4>1. CASE i = Len(tasks) + 1
        BY <1>1, <2>2, <4>1
      <4>2. CASE i \in DOMAIN tasks
        <5>1. tasks'[i] = tasks[i] /\ Disjoint(tasks[i].chunks, chunks)
          BY <1>1, <4>2 DEF Disjointness, OwnInv
        <5>2. ASSUME NEW v \in Workers PROVE Disjoint(tasks[i].chunks, hand'[v])
          <6>1. Disjoint(tasks[i].chunks, hand[v])
            BY <4>2 DEF Disjointness, OwnInv
          <6>2. CASE hand'[v] = {}
            <7>1. Disjoint(tasks[i].chunks, {})
              BY DisjointBasics
            <7> QED BY <6>2, <7>1
          <6>3. CASE hand'[v] = hand[v]
            BY <6>1, <6>3
          <6> QED BY <2>3, <6>2, <6>3
        <5> QED BY <5>1, <5>2
      <4> QED BY <1>2, <4>1, <4>2
    <3>3. \A i, j \in DOMAIN tasks' : i # j => Disjoint(tasks'[i].chunks, tasks'[j].chunks)
      BY <1>1, <1>2, <2>2 DEF Disjointness, OwnInv
    <3> QED BY <3>1, <3>2, <3>3
  <2>5. OnDisk'
    BY <1>1, <1>2, <1>4, <2>3, DisjointBasics DEF OnDisk, OwnInv
  <2>6. Singular'
    BY <2>3 DEF Singular, OwnInv, OneRecordPerFile
  <2> QED BY <2>4, <2>5, <2>6 DEF OwnInv
<1> QED BY <1>3, <1>4

\* A worker's hand is replaced by chunks that nobody else holds.
LEMMA OwnHand ==
    ASSUME TypeInv, OwnInv, NEW w \in Workers, NEW new \in SUBSET Chunk,
           hand' = [hand EXCEPT ![w] = new],
           chunks' \subseteq chunks,
           \A i \in DOMAIN tasks' : i \in DOMAIN tasks /\ tasks'[i] = tasks[i],
           Disjoint(new, chunks'),
           \A v \in Workers : v # w => Disjoint(new, hand[v]),
           \A i \in DOMAIN tasks' : Disjoint(tasks[i].chunks, new),
           FilesOf(new) \subseteq DOMAIN disk',
           \A f \in DOMAIN disk : f \in DOMAIN disk' \/ f \in FilesOf(hand[w]),
           FilesOf(hand[w]) \cap FilesOf(chunks') \subseteq DOMAIN disk',
           \A v \in Workers : pc'[v] = "insert" => v = w \/ pc[v] = "insert",
           pc'[w] = "insert" => OneRecordPerFile(new)
    PROVE  OwnInv'
<1>0. hand \in [Workers -> SUBSET Chunk]
  BY DEF TypeInv, TypeOK
<1>1. hand'[w] = new /\ \A v \in Workers : v # w => hand'[v] = hand[v]
  BY <1>0
<1>2. FilesOf(chunks') \subseteq FilesOf(chunks)
  BY DEF FilesOf
<1>3. Disjointness'
  <2> SUFFICES /\ \A v \in Workers : Disjoint(hand'[v], chunks')
               /\ \A u, v \in Workers : u # v => Disjoint(hand'[u], hand'[v])
               /\ \A i \in DOMAIN tasks' : Disjoint(tasks'[i].chunks, chunks')
               /\ \A i \in DOMAIN tasks', v \in Workers : Disjoint(tasks'[i].chunks, hand'[v])
               /\ \A i, j \in DOMAIN tasks' : i # j => Disjoint(tasks'[i].chunks, tasks'[j].chunks)
    BY DEF Disjointness, Disjoint
  <2>1. \A a : Disjoint(a, chunks) => Disjoint(a, chunks')
    BY <1>2 DEF Disjoint
  <2>2. \A v \in Workers : Disjoint(hand'[v], chunks')
    BY <1>1, <2>1 DEF Disjointness, OwnInv
  <2>3. \A u, v \in Workers : u # v => Disjoint(hand'[u], hand'[v])
    BY <1>1, DisjointBasics DEF Disjointness, OwnInv
  <2>4. \A i \in DOMAIN tasks' : Disjoint(tasks'[i].chunks, chunks')
    BY <2>1 DEF Disjointness, OwnInv
  <2>5. \A i \in DOMAIN tasks', v \in Workers : Disjoint(tasks'[i].chunks, hand'[v])
    BY <1>1 DEF Disjointness, OwnInv
  <2>6. \A i, j \in DOMAIN tasks' : i # j => Disjoint(tasks'[i].chunks, tasks'[j].chunks)
    BY DEF Disjointness, OwnInv
  <2> QED BY <2>2, <2>3, <2>4, <2>5, <2>6
<1>4. OnDisk'
  <2>1. FilesOf(chunks') \subseteq DOMAIN disk'
    BY <1>2 DEF OnDisk, OwnInv
  <2>2. \A v \in Workers : FilesOf(hand'[v]) \subseteq DOMAIN disk'
    BY <1>1 DEF OnDisk, OwnInv, Disjointness, Disjoint
  <2>3. \A i \in DOMAIN tasks' : FilesOf(tasks'[i].chunks) \subseteq DOMAIN disk'
    BY DEF OnDisk, OwnInv, Disjointness, Disjoint
  <2> QED BY <2>1, <2>2, <2>3 DEF OnDisk, FilesOf
<1>5. Singular'
  BY <1>1 DEF Singular, OwnInv, OneRecordPerFile
<1> QED BY <1>3, <1>4, <1>5 DEF OwnInv

LEMMA OwnInit == Init => OwnInv
<1> SUFFICES ASSUME Init PROVE OwnInv
  OBVIOUS
<1>1. chunks = {} /\ DOMAIN tasks = {} /\ \A w \in Workers : hand[w] = {} /\ pc[w] = "pop"
  BY EmptySeq DEF Init
<1>2. Disjointness
  BY <1>1, DisjointBasics DEF Disjointness
<1>3. OnDisk
  BY <1>1, DisjointBasics DEF OnDisk
<1>4. Singular
  BY <1>1 DEF Singular, OneRecordPerFile
<1> QED BY <1>2, <1>3, <1>4 DEF OwnInv

LEMMA OwnPop ==
    ASSUME TypeInv, OwnInv, NEW w \in Workers, PopTask(w) \/ SpuriousWakeup(w)
    PROVE  OwnInv'
<1> USE DEF vars, poolVars, listVars, fileVars, mainVars, Goto
<1>0. pc \in [Workers -> Labels]
  BY DEF TypeInv, TypeOK
<1>1. CASE WaitTask(w) \/ SpuriousWakeup(w) \/ Quit(w)
  <2>1. UNCHANGED <<chunks, tasks, hand, disk>>
    BY <1>1 DEF WaitTask, SpuriousWakeup, Quit
  <2>2. \A v \in Workers : pc'[v] = "insert" => pc[v] = "insert"
    BY <1>0, <1>1 DEF WaitTask, SpuriousWakeup, Quit
  <2> QED BY <2>1, <2>2, OwnSame
<1>2. CASE TakeTask(w)
  <2> DEFINE n == Len(tasks)
             new == tasks[n].chunks
  <2>1. /\ n \in DOMAIN tasks /\ n \notin DOMAIN tasks' /\ tasks[n] \in Task
        /\ \A i \in DOMAIN tasks' : i \in DOMAIN tasks /\ tasks'[i] = tasks[i]
    BY <1>2, TasksPopped DEF TakeTask, TypeInv, TypeOK
  <2>2. /\ hand' = [hand EXCEPT ![w] = new] /\ chunks' = chunks /\ disk' = disk
        /\ pc' = [pc EXCEPT ![w] = tasks[n].type]
    BY <1>2 DEF TakeTask
  <2>3. new \in SUBSET Chunk /\ tasks[n].type # "insert"
    BY <2>1 DEF Task
  <2>4. Disjoint(new, chunks) /\ \A v \in Workers : Disjoint(new, hand[v])
    BY <2>1 DEF OwnInv, Disjointness
  <2>5. \A i \in DOMAIN tasks' : Disjoint(tasks[i].chunks, new)
    BY <2>1 DEF OwnInv, Disjointness
  <2>6. FilesOf(new) \subseteq DOMAIN disk
    BY <2>1 DEF OwnInv, OnDisk
  <2>7. /\ \A v \in Workers : pc'[v] = "insert" => pc[v] = "insert"
        /\ pc'[w] # "insert"
    BY <1>0, <2>2, <2>3
  <2>8. FilesOf(hand[w]) \cap FilesOf(chunks) \subseteq DOMAIN disk
    BY DEF OwnInv, OnDisk
  <2> HIDE DEF n, new
  <2> QED BY <2>1, <2>2, <2>3, <2>4, <2>5, <2>6, <2>7, <2>8, OwnHand DEF new
<1> QED BY <1>1, <1>2 DEF PopTask

\* The path after idGen is held by nobody yet.
LEMMA FreshChunk ==
    ASSUME TypeInv, OwnInv, NEW l \in Nat
    PROVE  LET new == {[layer |-> l, file |-> idGen + 1]}
           IN  /\ new \in SUBSET Chunk /\ FilesOf(new) = {idGen + 1}
               /\ OneRecordPerFile(new)
               /\ Disjoint(new, chunks)
               /\ \A v \in Workers : Disjoint(new, hand[v])
               /\ \A i \in DOMAIN tasks : Disjoint(tasks[i].chunks, new)
<1> DEFINE new == {[layer |-> l, file |-> idGen + 1]}
<1>1. idGen \in Nat /\ DOMAIN disk \subseteq 1..idGen
  BY DEF TypeInv, TypeOK
<1>2. new \in SUBSET Chunk /\ OneRecordPerFile(new)
  BY <1>1 DEF Chunk, OneRecordPerFile
<1>3. FilesOf(new) = {idGen + 1}
  BY DEF FilesOf
<1>4. idGen + 1 \notin DOMAIN disk
  BY <1>1
<1> HIDE DEF new
<1>5. Disjoint(new, chunks)
  BY <1>3, <1>4 DEF OwnInv, OnDisk, Disjoint
<1>6. \A v \in Workers : Disjoint(new, hand[v])
  BY <1>3, <1>4 DEF OwnInv, OnDisk, Disjoint
<1>7. \A i \in DOMAIN tasks : Disjoint(tasks[i].chunks, new)
  BY <1>3, <1>4 DEF OwnInv, OnDisk, Disjoint
<1> QED BY <1>2, <1>3, <1>5, <1>6, <1>7 DEF new

LEMMA OwnFiles ==
    ASSUME TypeInv, OwnInv, NEW w \in Workers,
           CreateChunk(w) \/ MergeChunks(w) \/ MergeChunksFails(w)
    PROVE  OwnInv'
<1> USE DEF vars, poolVars, listVars, fileVars, mainVars, Goto
<1>0. pc \in [Workers -> Labels]
  BY DEF TypeInv, TypeOK
<1>1. Disjoint(hand[w], chunks)
  BY DEF OwnInv, Disjointness
<1>2. CASE CreateChunk(w) \/ MergeChunks(w)
  <2>1. PICK l \in Nat :
           /\ hand' = [hand EXCEPT ![w] = {[layer |-> l, file |-> idGen + 1]}]
           /\ DOMAIN disk' \in {DOMAIN disk \cup {idGen + 1},
                                (DOMAIN disk \ FilesOf(hand[w])) \cup {idGen + 1}}
    <3>1. CASE CreateChunk(w)
      BY <3>1 DEF CreateChunk
    <3>2. CASE MergeChunks(w)
      <4> DEFINE m == MaxOf(LayersOf(hand[w])) + 1
      <4>1. hand[w] \in SUBSET Chunk /\ IsFiniteSet(hand[w]) /\ hand[w] # {}
        BY <3>2 DEF MergeChunks, TypeInv, TypeOK
      <4>2. /\ IsFiniteSet(LayersOf(hand[w])) /\ LayersOf(hand[w]) \in SUBSET Nat
            /\ LayersOf(hand[w]) # {}
        BY <4>1, LayersOfFinite DEF LayersOf
      <4>3. m \in Nat
        BY <4>2, MaxOfFinite
      <4>4. hand' = [hand EXCEPT ![w] = {[layer |-> m, file |-> idGen + 1]}]
        BY <3>2 DEF MergeChunks
      <4>5. DOMAIN disk' = (DOMAIN disk \ FilesOf(hand[w])) \cup {idGen + 1}
        BY <3>2 DEF MergeChunks
      <4> HIDE DEF m
      <4> QED BY <4>3, <4>4, <4>5
    <3> QED BY <1>2, <3>1, <3>2
  <2> DEFINE new == {[layer |-> l, file |-> idGen + 1]}
  <2>2. UNCHANGED <<tasks, chunks>> /\ pc' = [pc EXCEPT ![w] = "insert"]
    BY <1>2 DEF CreateChunk, MergeChunks
  <2>3. /\ new \in SUBSET Chunk /\ FilesOf(new) = {idGen + 1} /\ OneRecordPerFile(new)
        /\ Disjoint(new, chunks)
        /\ \A v \in Workers : Disjoint(new, hand[v])
        /\ \A i \in DOMAIN tasks : Disjoint(tasks[i].chunks, new)
    BY FreshChunk
  <2>4. FilesOf(new) \subseteq DOMAIN disk'
    BY <2>1, <2>3
  <2>5. \A f \in DOMAIN disk : f \in DOMAIN disk' \/ f \in FilesOf(hand[w])
    BY <2>1
  <2>6. FilesOf(hand[w]) \cap FilesOf(chunks) \subseteq DOMAIN disk'
    BY <1>1 DEF Disjoint
  <2>7. \A v \in Workers : pc'[v] = "insert" => v = w \/ pc[v] = "insert"
    BY <1>0, <2>2
  <2>8. hand' = [hand EXCEPT ![w] = new]
    BY <2>1
  <2> HIDE DEF new
  <2> QED BY <2>2, <2>3, <2>4, <2>5, <2>6, <2>7, <2>8, OwnHand
<1>3. CASE MergeChunksFails(w)
  <2>1. /\ hand' = [hand EXCEPT ![w] = {}] /\ UNCHANGED <<tasks, chunks>>
        /\ DOMAIN disk' = DOMAIN disk \ FilesOf(hand[w]) /\ pc' = [pc EXCEPT ![w] = "failed"]
    BY <1>3 DEF MergeChunksFails
  <2>2. \A f \in DOMAIN disk : f \in DOMAIN disk' \/ f \in FilesOf(hand[w])
    BY <2>1
  <2>3. FilesOf(hand[w]) \cap FilesOf(chunks) \subseteq DOMAIN disk'
    BY <1>1 DEF Disjoint
  <2>4. (\A v \in Workers : pc'[v] = "insert" => pc[v] = "insert") /\ pc'[w] # "insert"
    BY <1>0, <2>1
  <2>5. \A a : Disjoint({}, a) /\ Disjoint(a, {})
    BY DisjointBasics
  <2>6. FilesOf({}) \subseteq DOMAIN disk'
    BY DisjointBasics
  <2> QED BY <2>1, <2>2, <2>3, <2>4, <2>5, <2>6, OwnHand
<1> QED BY <1>2, <1>3

LEMMA OwnList ==
    ASSUME TypeInv, OwnInv, NEW w \in Workers, InsertChunk(w) \/ FindChunks(w)
    PROVE  OwnInv'
<1> USE DEF vars, poolVars, listVars, fileVars, mainVars, Goto
<1>0. pc \in [Workers -> Labels] /\ hand \in [Workers -> SUBSET Chunk]
  BY DEF TypeInv, TypeOK
<1>1. CASE FindChunks(w)
  <2>1. PICK ch \in FindChunksToMerge :
           chunks' = chunks \ ch /\ hand' = [hand EXCEPT ![w] = ch]
    BY <1>1 DEF FindChunks
  <2>2. ch \in SUBSET chunks /\ ch \in SUBSET Chunk
    BY <2>1, FoundChunks DEF TypeInv, TypeOK
  <2>3. UNCHANGED <<tasks, disk>> /\ pc' = [pc EXCEPT ![w] = "unlock"]
    BY <1>1 DEF FindChunks
  <2>4. Disjoint(ch, chunks')
    BY <2>1, <2>2 DEF Disjoint, FilesOf, OwnInv, Singular, OneRecordPerFile
  <2>5. FilesOf(ch) \subseteq FilesOf(chunks)
    BY <2>2 DEF FilesOf
  <2>6. \A v \in Workers : Disjoint(ch, hand[v])
    BY <2>5 DEF OwnInv, Disjointness, Disjoint
  <2>7. \A i \in DOMAIN tasks : Disjoint(tasks[i].chunks, ch)
    BY <2>5 DEF OwnInv, Disjointness, Disjoint
  <2>8. FilesOf(ch) \subseteq DOMAIN disk' /\ FilesOf(hand[w]) \subseteq DOMAIN disk'
    BY <2>3, <2>5 DEF OwnInv, OnDisk
  <2>9. (\A v \in Workers : pc'[v] = "insert" => pc[v] = "insert") /\ pc'[w] # "insert"
    BY <1>0, <2>3
  <2> QED BY <2>1, <2>2, <2>3, <2>4, <2>6, <2>7, <2>8, <2>9, OwnHand
<1>2. CASE InsertChunk(w)
  <2>1. /\ chunks' = chunks \cup hand[w] /\ hand' = [hand EXCEPT ![w] = {}]
        /\ UNCHANGED <<tasks, disk>> /\ pc[w] = "insert"
        /\ pc' = [pc EXCEPT ![w] = IF job[w] = "create" THEN "pushCreate" ELSE "find"]
    BY <1>2 DEF InsertChunk
  <2>2. FilesOf(chunks') = FilesOf(chunks) \cup FilesOf(hand[w])
    BY <2>1 DEF FilesOf
  <2>3. hand'[w] = {} /\ \A v \in Workers : v # w => hand'[v] = hand[v]
    BY <1>0, <2>1
  <2>4. Disjointness'
    <3>1. ASSUME NEW v \in Workers PROVE Disjoint(hand'[v], chunks')
      <4>1. CASE v = w
        BY <2>3, <4>1, DisjointBasics
      <4>2. CASE v # w
        <5>1. Disjoint(hand[v], chunks) /\ Disjoint(hand[v], hand[w])
          BY <4>2 DEF OwnInv, Disjointness
        <5> QED BY <2>2, <2>3, <4>2, <5>1 DEF Disjoint
      <4> QED BY <4>1, <4>2
    <3>2. ASSUME NEW u \in Workers, NEW v \in Workers, u # v
          PROVE  Disjoint(hand'[u], hand'[v])
      <4>1. CASE u = w \/ v = w
        <5>1. hand'[u] = {} \/ hand'[v] = {}
          BY <2>3, <4>1
        <5> QED BY <5>1, DisjointBasics
      <4>2. CASE u # w /\ v # w
        BY <2>3, <3>2, <4>2 DEF OwnInv, Disjointness
      <4> QED BY <4>1, <4>2
    <3>3. ASSUME NEW i \in DOMAIN tasks PROVE Disjoint(tasks[i].chunks, chunks')
      <4>1. Disjoint(tasks[i].chunks, chunks) /\ Disjoint(tasks[i].chunks, hand[w])
        BY DEF OwnInv, Disjointness
      <4> QED BY <2>2, <4>1 DEF Disjoint
    <3>4. ASSUME NEW i \in DOMAIN tasks, NEW v \in Workers
          PROVE  Disjoint(tasks[i].chunks, hand'[v])
      <4>1. CASE v = w
        BY <2>3, <4>1, DisjointBasics
      <4>2. CASE v # w
        BY <2>3, <4>2 DEF OwnInv, Disjointness
      <4> QED BY <4>1, <4>2
    <3> QED BY <2>1, <3>1, <3>2, <3>3, <3>4 DEF OwnInv, Disjointness, Disjoint
  <2>5. OnDisk'
    <3>1. \A v \in Workers : FilesOf(hand'[v]) \subseteq DOMAIN disk
      BY <2>3, DisjointBasics DEF OwnInv, OnDisk
    <3>2. FilesOf(chunks') \subseteq DOMAIN disk
      BY <2>2 DEF OwnInv, OnDisk
    <3> QED BY <2>1, <3>1, <3>2 DEF OwnInv, OnDisk, FilesOf
  <2>6. Singular'
    <3>1. OneRecordPerFile(chunks')
      <4>1. OneRecordPerFile(chunks) /\ OneRecordPerFile(hand[w]) /\ Disjoint(hand[w], chunks)
        BY <2>1 DEF OwnInv, Singular, Disjointness
      <4> QED BY <2>1, <4>1 DEF OneRecordPerFile, Disjoint, FilesOf
    <3>2. \A v \in Workers : pc'[v] = "insert" => OneRecordPerFile(hand'[v])
      BY <1>0, <2>1, <2>3 DEF OwnInv, Singular
    <3> QED BY <3>1, <3>2 DEF Singular, OneRecordPerFile
  <2> QED BY <2>4, <2>5, <2>6 DEF OwnInv
<1> QED BY <1>1, <1>2

LEMMA OwnRest ==
    ASSUME TypeInv, OwnInv, NEW w \in Workers,
           \/ CreateChunkFails(w) \/ CreateChunkEnd(w) \/ Complete(w) \/ ReleasePool(w)
           \/ PushCreateTask(w) \/ FindNothing(w) \/ UnlockChunks(w) \/ PushMergeTask(w)
           \/ RecordException(w) \/ ClosePool(w)
    PROVE  OwnInv'
<1> USE DEF vars, poolVars, listVars, fileVars, mainVars, Goto
<1>0. pc \in [Workers -> Labels]
  BY DEF TypeInv, TypeOK
<1>1. CASE \/ CreateChunkFails(w) \/ CreateChunkEnd(w) \/ Complete(w)
           \/ FindNothing(w) \/ UnlockChunks(w) \/ RecordException(w)
  <2> USE DEF CreateChunkFails, CreateChunkEnd, Complete, FindNothing, UnlockChunks,
              RecordException
  <2>1. UNCHANGED <<chunks, tasks, hand, disk>>
    BY <1>1
  <2>2. \A v \in Workers : pc'[v] = "insert" => pc[v] = "insert"
    BY <1>0, <1>1
  <2> QED BY <2>1, <2>2, OwnSame
<1>2. CASE ReleasePool(w) \/ ClosePool(w)
  <2>1. PICK l \in {"pop", "done"} : pc' = NotifyAll([pc EXCEPT ![w] = l])
    BY <1>2 DEF ReleasePool, ClosePool
  <2>2. [pc EXCEPT ![w] = l] \in [Workers -> Labels]
    BY <1>0 DEF Labels
  <2>3. \A v \in Workers : pc'[v] = [pc EXCEPT ![w] = l][v] \/ pc'[v] = "pop"
    BY <2>1, <2>2, NotifyAllType
  <2>4. \A v \in Workers : pc'[v] = "insert" => pc[v] = "insert"
    BY <1>0, <2>3
  <2>5. CASE ReleasePool(w)
    <3>1. UNCHANGED <<chunks, tasks, hand, disk>>
      BY <2>5 DEF ReleasePool
    <3> QED BY <2>4, <3>1, OwnSame
  <2>6. CASE ClosePool(w)
    <3>1. UNCHANGED <<chunks, hand, disk>> /\ DOMAIN tasks' = {}
      BY <2>6, EmptySeq DEF ClosePool
    <3> QED BY <2>4, <3>1 DEF OwnInv, Disjointness, OnDisk, Singular, Disjoint, OneRecordPerFile
  <2> QED BY <1>2, <2>5, <2>6
<1>3. CASE PushCreateTask(w)
  <2>1. CreateTask \in Task /\ CreateTask.chunks = {}
    BY DEF CreateTask, Task
  <2>2. tasks' = Append(tasks, CreateTask) /\ UNCHANGED <<chunks, disk, hand>>
    BY <1>3 DEF PushCreateTask
  <2>3. [pc EXCEPT ![w] = "find"] \in [Workers -> Labels]
    BY <1>0 DEF Labels
  <2>4. \A v \in Workers : pc'[v] = [pc EXCEPT ![w] = "find"][v] \/ pc'[v] = "pop"
    BY <1>3, <2>3, NotifyOneType DEF PushCreateTask
  <2>5. \A v \in Workers : pc'[v] = "insert" => pc[v] = "insert"
    BY <1>0, <2>4
  <2> QED BY <2>1, <2>2, <2>5, OwnPush
<1>4. CASE PushMergeTask(w)
  <2> DEFINE t == MergeTask(hand[w])
  <2>1. t \in Task /\ t.chunks = hand[w]
    BY DEF MergeTask, Task, TypeInv, TypeOK
  <2>2. /\ tasks' = Append(tasks, t) /\ UNCHANGED <<chunks, disk>>
        /\ hand' = [hand EXCEPT ![w] = {}]
    BY <1>4 DEF PushMergeTask
  <2>3. PICK l \in {"pop", "release"} : pc' \in NotifyOne([pc EXCEPT ![w] = l])
    BY <1>4 DEF PushMergeTask
  <2>4. [pc EXCEPT ![w] = l] \in [Workers -> Labels]
    BY <1>0 DEF Labels
  <2>5. \A v \in Workers : pc'[v] = [pc EXCEPT ![w] = l][v] \/ pc'[v] = "pop"
    BY <2>3, <2>4, NotifyOneType
  <2>6. \A v \in Workers : pc'[v] = "insert" => pc[v] = "insert"
    BY <1>0, <2>5
  <2> HIDE DEF t
  <2> QED BY <2>1, <2>2, <2>6, OwnPush
<1> QED BY <1>1, <1>2, <1>3, <1>4

LEMMA OwnMain ==
    ASSUME TypeInv, OwnInv, PushAndJoin
    PROVE  OwnInv'
<1> USE DEF vars, poolVars, listVars, fileVars, mainVars, Goto
<1>0. pc \in [Workers -> Labels]
  BY DEF TypeInv, TypeOK
<1>1. CASE PushFirstTask
  <2>1. CreateTask \in Task /\ CreateTask.chunks = {}
    BY DEF CreateTask, Task
  <2>2. tasks' = Append(tasks, CreateTask) /\ UNCHANGED <<chunks, disk, hand>>
    BY <1>1 DEF PushFirstTask
  <2>3. \A v \in Workers : pc'[v] = "insert" => pc[v] = "insert"
    BY <1>0, <1>1, NotifyOneType DEF PushFirstTask
  <2> QED BY <2>1, <2>2, <2>3, OwnPush
<1>2. CASE JoinAndReturn
  <2>1. UNCHANGED <<chunks, tasks, hand, pc>> /\ DOMAIN disk \subseteq DOMAIN disk'
    BY <1>2 DEF JoinAndReturn
  <2> QED BY <2>1, OwnSame
<1> QED BY <1>1, <1>2 DEF PushAndJoin

LEMMA OwnStep == TypeInv /\ OwnInv /\ [Next]_vars => OwnInv'
<1> SUFFICES ASSUME TypeInv, OwnInv, [Next]_vars PROVE OwnInv'
  OBVIOUS
<1>1. CASE UNCHANGED vars
  BY <1>1, OwnSame DEF vars, poolVars, listVars, fileVars
<1>2. ASSUME NEW w \in Workers, HandleWorker(w) \/ SpuriousWakeup(w) PROVE OwnInv'
  BY <1>2, OwnPop, OwnFiles, OwnList, OwnRest DEF HandleWorker, RunTask
<1>3. CASE PushAndJoin
  BY <1>3, OwnMain
<1>4. CASE Terminated
  BY <1>1, <1>4 DEF Terminated
<1> QED BY <1>1, <1>2, <1>3, <1>4 DEF Next

LEMMA OwnImplies == TypeInv /\ OwnInv => ChunksOwned
<1> SUFFICES ASSUME TypeInv, OwnInv PROVE ChunksOwned
  OBVIOUS
<1>1. ASSUME NEW p \in Places
      PROVE  \/ p = <<"list", 0>> /\ ChunksAt(p) = chunks
             \/ \E i \in DOMAIN tasks : p = <<"task", i>> /\ ChunksAt(p) = tasks[i].chunks
             \/ \E w \in Workers : p = <<"worker", w>> /\ ChunksAt(p) = hand[w]
  BY DEF Places, ChunksAt
<1>2. ASSUME NEW p \in Places, NEW q \in Places, p # q
      PROVE  Disjoint(ChunksAt(p), ChunksAt(q))
  <2>1. \A a, b : Disjoint(a, b) => Disjoint(b, a)
    BY DisjointBasics
  <2>2. CASE p = <<"list", 0>> /\ ChunksAt(p) = chunks
    BY <1>1, <1>2, <2>1, <2>2 DEF OwnInv, Disjointness
  <2>3. CASE \E i \in DOMAIN tasks : p = <<"task", i>> /\ ChunksAt(p) = tasks[i].chunks
    BY <1>1, <1>2, <2>1, <2>3 DEF OwnInv, Disjointness
  <2>4. CASE \E w \in Workers : p = <<"worker", w>> /\ ChunksAt(p) = hand[w]
    BY <1>1, <1>2, <2>1, <2>4 DEF OwnInv, Disjointness
  <2> QED BY <1>1, <2>2, <2>3, <2>4
<1>3. ASSUME NEW p \in Places PROVE FilesOf(ChunksAt(p)) \subseteq DOMAIN disk
  BY <1>1 DEF OwnInv, OnDisk
<1> QED BY <1>2, <1>3 DEF ChunksOwned, Disjoint

\* No chunk is ever in two places and no held chunk has lost its file, although
\* the list is unlocked between the search and the push of the task
\* (kmerger.hpp:153-163) and merges delete their inputs (raio.hpp:357-366), for
\* every number of workers and whichever tasks throw.
THEOREM Ownership == Spec => []ChunksOwned
<1>1. Spec => []OwnInv
  BY OwnInit, OwnStep, TypeInvariant, PTL DEF Spec
<1> QED BY <1>1, TypeInvariant, OwnImplies, PTL

-----------------------------------------------------------------------------
(* The invariants.                                                         *)

\* Nothing has failed: no task threw, or none that is still to be recorded.
Calm == exception = "none" /\ \A w \in Workers : pc[w] # "failed"

\* What FindChunksToMerge takes: two to Units chunks, one record for each file.
Group(chs) == Cardinality(chs) \in 2..Units /\ OneRecordPerFile(chs)

\* A worker has chunks only between taking and giving them away, and what is
\* merged is a group.
HandInv ==
    /\ \A w \in Workers :
          /\ hand[w] # {} => pc[w] \in {"merge", "insert", "unlock", "push"}
          /\ pc[w] \in {"merge", "unlock", "push"} => Group(hand[w])
    /\ \A i \in DOMAIN tasks :
          /\ tasks[i].type = "create" => tasks[i].chunks = {}
          /\ tasks[i].type = "merge" => Group(tasks[i].chunks)

\* Where the threads are, and what they know there: nobody is busy before the
\* first task or after the join, the pool is completed at the end of the input
\* or after a failure, and no task is left to workers that are gone.
FlowInv ==
    /\ mainPc = "push" =>
          /\ ~completed /\ exception = "none" /\ tasks = <<>>
          /\ \A w \in Workers : pc[w] \in {"pop", "wait"}
    /\ mainPc = "done" => \A w \in Workers : pc[w] = "done"
    /\ mainPc # "done" <=> result.status = "none"
    /\ \A w \in Workers :
          /\ pc[w] = "close" => exception # "none"
          /\ pc[w] = "complete" => parser = input
          /\ pc[w] = "done" => completed \/ exception # "none"
    /\ Calm /\ completed => parser = input
    /\ Calm /\ tasks # <<>> => \E w \in Workers : pc[w] # "done"
    /\ Failing = {} => Calm

\* Somebody who will search the list, or will merge and then search it.
Searching == {"merge", "insert", "pushCreate", "find", "unlock", "push"}
Active ==
    \/ \E w \in Workers : pc[w] \in Searching
    \/ \E i \in DOMAIN tasks : tasks[i].type = "merge"

\* Once the input has ended, two chunks are not forgotten in the list.
SearchInv == Calm /\ completed /\ ~Active => Cardinality(chunks) <= 1

\* The chunks, wherever they are.
Held == chunks \cup (UNION {hand[w] : w \in Workers})
               \cup (UNION {tasks[i].chunks : i \in DOMAIN tasks})

\* A batch is in one file only; and if nothing failed, every batch that was read
\* is in the file of a chunk, and every file is the file of a chunk.
ContentInv ==
    /\ \A f, g \in DOMAIN disk : f # g => disk[f] \cap disk[g] = {}
    /\ mainPc # "done" => \A f \in DOMAIN disk : disk[f] # {}
    /\ Calm => \A b \in 1..parser : \E c \in Held : b \in disk[c.file]
    /\ Calm /\ mainPc # "done" => DOMAIN disk \subseteq FilesOf(Held)

-----------------------------------------------------------------------------
(* Program counters.                                                       *)

\* The other workers stay where they are or are woken.
Others(w) == \A v \in Workers : v # w => \/ pc'[v] = pc[v]
                                         \/ pc[v] = "wait" /\ pc'[v] = "pop"

Moves(w, l) == pc'[w] = l /\ Others(w)

LEMMA MovesOne ==
    ASSUME pc \in [Workers -> Labels], NEW w \in Workers, NEW l \in Labels \ {"wait"},
           pc' = [pc EXCEPT ![w] = l] \/ pc' \in NotifyOne([pc EXCEPT ![w] = l])
    PROVE  Moves(w, l)
<1>1. [pc EXCEPT ![w] = l] \in [Workers -> Labels]
  OBVIOUS
<1>2. CASE pc' = [pc EXCEPT ![w] = l]
  BY <1>2 DEF Moves, Others
<1>3. CASE pc' \in NotifyOne([pc EXCEPT ![w] = l])
  <2>1. \A v \in Workers : \/ pc'[v] = [pc EXCEPT ![w] = l][v]
                           \/ [pc EXCEPT ![w] = l][v] = "wait" /\ pc'[v] = "pop"
    BY <1>1, <1>3, NotifyOneType
  <2> QED BY <2>1 DEF Moves, Others
<1> QED BY <1>2, <1>3

LEMMA MovesAll ==
    ASSUME pc \in [Workers -> Labels], NEW w \in Workers, NEW l \in Labels \ {"wait"},
           pc' = NotifyAll([pc EXCEPT ![w] = l])
    PROVE  Moves(w, l)
<1>1. [pc EXCEPT ![w] = l] \in [Workers -> Labels]
  OBVIOUS
<1>2. \A v \in Workers : \/ pc'[v] = [pc EXCEPT ![w] = l][v]
                         \/ [pc EXCEPT ![w] = l][v] = "wait" /\ pc'[v] = "pop"
  BY <1>1, NotifyAllType
<1> QED BY <1>2 DEF Moves, Others

\* The steps of a worker, by the program counter before and after.
LEMMA WorkerMoves ==
    ASSUME TypeInv, NEW w \in Workers
    PROVE  /\ WaitTask(w) => pc[w] = "pop" /\ pc'[w] = "wait" /\ Others(w)
           /\ SpuriousWakeup(w) => pc[w] = "wait" /\ Moves(w, "pop")
           /\ Quit(w) => pc[w] = "pop" /\ Moves(w, "done")
           /\ TakeTask(w) => pc[w] = "pop" /\ Moves(w, tasks[Len(tasks)].type)
           /\ CreateChunk(w) => pc[w] = "create" /\ Moves(w, "insert")
           /\ CreateChunkFails(w) => pc[w] = "create" /\ Moves(w, "failed")
           /\ CreateChunkEnd(w) => pc[w] = "create" /\ Moves(w, "complete")
           /\ Complete(w) => pc[w] = "complete" /\ Moves(w, "find")
           /\ ReleasePool(w) => pc[w] = "release" /\ Moves(w, "pop")
           /\ PushCreateTask(w) => pc[w] = "pushCreate" /\ Moves(w, "find")
           /\ MergeChunks(w) => pc[w] = "merge" /\ Moves(w, "insert")
           /\ MergeChunksFails(w) => pc[w] = "merge" /\ Moves(w, "failed")
           /\ InsertChunk(w) => pc[w] = "insert" /\ pc'[w] \in {"pushCreate", "find"} /\ Others(w)
           /\ FindNothing(w) => pc[w] = "find" /\ pc'[w] \in {"release", "pop"} /\ Others(w)
           /\ FindChunks(w) => pc[w] = "find" /\ Moves(w, "unlock")
           /\ UnlockChunks(w) => pc[w] = "unlock" /\ Moves(w, "push")
           /\ PushMergeTask(w) => pc[w] = "push" /\ pc'[w] \in {"release", "pop"} /\ Others(w)
           /\ RecordException(w) => pc[w] = "failed" /\ Moves(w, "close")
           /\ ClosePool(w) => pc[w] = "close" /\ Moves(w, "done")
<1>0. pc \in [Workers -> Labels]
  BY DEF TypeInv, TypeOK
<1> USE <1>0 DEF Goto
<1>1. WaitTask(w) => pc[w] = "pop" /\ pc'[w] = "wait" /\ Others(w)
  BY DEF WaitTask, Others
<1>2. TakeTask(w) => pc[w] = "pop" /\ Moves(w, tasks[Len(tasks)].type)
  BY DEF TakeTask, Moves, Others
<1>3. /\ SpuriousWakeup(w) => pc[w] = "wait" /\ Moves(w, "pop")
      /\ Quit(w) => pc[w] = "pop" /\ Moves(w, "done")
      /\ CreateChunk(w) => pc[w] = "create" /\ Moves(w, "insert")
      /\ CreateChunkFails(w) => pc[w] = "create" /\ Moves(w, "failed")
      /\ CreateChunkEnd(w) => pc[w] = "create" /\ Moves(w, "complete")
      /\ Complete(w) => pc[w] = "complete" /\ Moves(w, "find")
      /\ MergeChunks(w) => pc[w] = "merge" /\ Moves(w, "insert")
      /\ MergeChunksFails(w) => pc[w] = "merge" /\ Moves(w, "failed")
      /\ FindChunks(w) => pc[w] = "find" /\ Moves(w, "unlock")
      /\ UnlockChunks(w) => pc[w] = "unlock" /\ Moves(w, "push")
      /\ RecordException(w) => pc[w] = "failed" /\ Moves(w, "close")
  BY DEF SpuriousWakeup, Quit, CreateChunk, CreateChunkFails, CreateChunkEnd, Complete,
         MergeChunks, MergeChunksFails, FindChunks, UnlockChunks, RecordException, Moves, Others
<1>4. ReleasePool(w) => pc[w] = "release" /\ Moves(w, "pop")
  BY MovesAll DEF ReleasePool, Labels
<1>5. ClosePool(w) => pc[w] = "close" /\ Moves(w, "done")
  BY MovesAll DEF ClosePool, Labels
<1>6. PushCreateTask(w) => pc[w] = "pushCreate" /\ Moves(w, "find")
  BY MovesOne DEF PushCreateTask, Labels
<1>7. InsertChunk(w) => pc[w] = "insert" /\ pc'[w] \in {"pushCreate", "find"} /\ Others(w)
  BY DEF InsertChunk, Others
<1>8. FindNothing(w) => pc[w] = "find" /\ pc'[w] \in {"release", "pop"} /\ Others(w)
  BY DEF FindNothing, Others
<1>9. PushMergeTask(w) => pc[w] = "push" /\ pc'[w] \in {"release", "pop"} /\ Others(w)
  BY MovesOne DEF PushMergeTask, Labels, Moves
<1> QED BY <1>1, <1>2, <1>3, <1>4, <1>5, <1>6, <1>7, <1>8, <1>9

\* The steps of the other thread of PushAndJoin.
LEMMA MainMoves ==
    ASSUME TypeInv
    PROVE  /\ PushFirstTask => \A v \in Workers : \/ pc'[v] = pc[v]
                                                  \/ pc[v] = "wait" /\ pc'[v] = "pop"
           /\ JoinAndReturn => pc' = pc /\ \A v \in Workers : pc[v] = "done"
BY NotifyOneType DEF TypeInv, TypeOK, PushFirstTask, JoinAndReturn

-----------------------------------------------------------------------------
(* What the workers hold.                                                  *)

\* FindChunksToMerge takes a group.
LEMMA FoundGroup ==
    ASSUME TypeInv, OwnInv, NEW ch \in FindChunksToMerge
    PROVE  Group(ch)
<1>1. Units \in Nat /\ Units >= 2
  BY KMergerAssumption
<1>2. IsFiniteSet(chunks) /\ Cardinality(chunks) \in Nat
  BY FS_CardinalityType DEF TypeInv
<1>3. ch \in SUBSET chunks /\ IsFiniteSet(ch)
  BY <1>2, FoundChunks
<1>4. OneRecordPerFile(ch)
  BY <1>3 DEF OwnInv, Singular, OneRecordPerFile
<1>5. CASE completed
  <2>1. \/ ch = chunks /\ Cardinality(chunks) < Units /\ ~(Cardinality(chunks) < 2)
        \/ ch \in UnitsOf(chunks)
    BY <1>5 DEF FindChunksToMerge
  <2>2. Cardinality(ch) \in 2..Units
    BY <1>1, <1>2, <2>1 DEF UnitsOf
  <2> QED BY <1>4, <2>2 DEF Group
<1>6. CASE ~completed
  <2>1. PICK l \in FullLayers : ch \in UnitsOf(AtLayer(l))
    BY <1>6 DEF FindChunksToMerge
  <2>2. Cardinality(ch) \in 2..Units
    BY <1>1, <2>1 DEF UnitsOf
  <2> QED BY <1>4, <2>2 DEF Group
<1> QED BY <1>5, <1>6

\* Steps that touch neither the hands nor the queue.
LEMMA HandKept ==
    ASSUME TypeInv, HandInv, UNCHANGED <<tasks, hand>>, NEW w \in Workers, Others(w),
           hand[w] # {} => pc'[w] \in {"merge", "insert", "unlock", "push"},
           pc'[w] \in {"merge", "unlock", "push"} => Group(hand[w])
    PROVE  HandInv'
<1>1. ASSUME NEW v \in Workers
      PROVE  /\ hand[v] # {} => pc'[v] \in {"merge", "insert", "unlock", "push"}
             /\ pc'[v] \in {"merge", "unlock", "push"} => Group(hand[v])
  <2>1. CASE v = w
    BY <2>1
  <2>2. CASE v # w
    BY <2>2 DEF HandInv, Others
  <2> QED BY <2>1, <2>2
<1> QED BY <1>1 DEF HandInv, Group, OneRecordPerFile

\* Steps that change the hand of one worker.
LEMMA HandTaken ==
    ASSUME TypeInv, HandInv, NEW w \in Workers, Others(w), NEW new,
           hand' = [hand EXCEPT ![w] = new],
           new # {} => pc'[w] \in {"merge", "insert", "unlock", "push"},
           pc'[w] \in {"merge", "unlock", "push"} => Group(new),
           \A i \in DOMAIN tasks' :
              /\ tasks'[i].type = "create" => tasks'[i].chunks = {}
              /\ tasks'[i].type = "merge" => Group(tasks'[i].chunks)
    PROVE  HandInv'
<1>0. hand'[w] = new /\ \A v \in Workers : v # w => hand'[v] = hand[v]
  BY DEF TypeInv, TypeOK
<1>1. ASSUME NEW v \in Workers
      PROVE  /\ hand'[v] # {} => pc'[v] \in {"merge", "insert", "unlock", "push"}
             /\ pc'[v] \in {"merge", "unlock", "push"} => Group(hand'[v])
  <2>1. CASE v = w
    BY <1>0, <2>1
  <2>2. CASE v # w
    BY <1>0, <2>2 DEF HandInv, Others
  <2> QED BY <2>1, <2>2
<1> QED BY <1>1 DEF HandInv, Group, OneRecordPerFile

\* A queue with one more task.
LEMMA HandQueued ==
    ASSUME TypeInv, HandInv, NEW t \in Task, tasks' = Append(tasks, t),
           t.type = "create" => t.chunks = {}, t.type = "merge" => Group(t.chunks)
    PROVE  \A i \in DOMAIN tasks' :
              /\ tasks'[i].type = "create" => tasks'[i].chunks = {}
              /\ tasks'[i].type = "merge" => Group(tasks'[i].chunks)
<1>1. tasks \in Seq(Task)
  BY DEF TypeInv, TypeOK
<1>2. /\ DOMAIN tasks' = 1..(Len(tasks) + 1) /\ DOMAIN tasks = 1..Len(tasks) /\ Len(tasks) \in Nat
      /\ \A i \in DOMAIN tasks : tasks'[i] = tasks[i]
      /\ tasks'[Len(tasks) + 1] = t
  BY <1>1, TasksPushed
<1>3. ASSUME NEW i \in DOMAIN tasks'
      PROVE  \/ i = Len(tasks) + 1
             \/ i \in DOMAIN tasks
  BY <1>2
<1>4. ASSUME NEW i \in DOMAIN tasks
      PROVE  /\ tasks'[i].type = "create" => tasks'[i].chunks = {}
             /\ tasks'[i].type = "merge" => Group(tasks'[i].chunks)
  BY <1>2 DEF HandInv
<1> QED BY <1>2, <1>3, <1>4

LEMMA HandWorker ==
    ASSUME TypeInv, OwnInv, HandInv, NEW w \in Workers, HandleWorker(w) \/ SpuriousWakeup(w)
    PROVE  HandInv'
<1> USE DEF poolVars, listVars, fileVars, mainVars
<1>0. /\ hand[w] # {} => pc[w] \in {"merge", "insert", "unlock", "push"}
      /\ pc[w] \in {"merge", "unlock", "push"} => Group(hand[w])
      /\ \A i \in DOMAIN tasks :
            /\ tasks[i].type = "create" => tasks[i].chunks = {}
            /\ tasks[i].type = "merge" => Group(tasks[i].chunks)
  BY DEF HandInv
<1>1. CASE \/ WaitTask(w) \/ SpuriousWakeup(w) \/ Quit(w) \/ CreateChunkFails(w)
           \/ CreateChunkEnd(w) \/ Complete(w) \/ ReleasePool(w) \/ FindNothing(w)
           \/ UnlockChunks(w) \/ RecordException(w)
  <2>1. UNCHANGED <<tasks, hand>>
    BY <1>1 DEF WaitTask, SpuriousWakeup, Quit, CreateChunkFails, CreateChunkEnd, Complete,
                ReleasePool, FindNothing, UnlockChunks, RecordException
  <2>2. /\ Others(w)
        /\ \/ pc[w] = "unlock" /\ pc'[w] = "push"
           \/ pc[w] \notin {"merge", "insert", "unlock", "push"}
              /\ pc'[w] \notin {"merge", "unlock", "push"}
    BY <1>1, WorkerMoves DEF Moves
  <2> QED BY <1>0, <2>1, <2>2, HandKept
<1>2. CASE ClosePool(w)
  <2>1. hand' = hand /\ DOMAIN tasks' = {}
    BY <1>2, EmptySeq DEF ClosePool
  <2>2. Others(w) /\ pc[w] = "close" /\ pc'[w] = "done"
    BY <1>2, WorkerMoves DEF Moves
  <2>3. hand' = [hand EXCEPT ![w] = hand[w]]
    BY <2>1 DEF TypeInv, TypeOK
  <2> QED BY <1>0, <2>1, <2>2, <2>3, HandTaken
<1>3. CASE TakeTask(w)
  <2> DEFINE t == tasks[Len(tasks)]
  <2>1. tasks \in Seq(Task) /\ tasks # <<>>
    BY <1>3 DEF TakeTask, TypeInv, TypeOK
  <2>2. /\ Len(tasks) \in DOMAIN tasks /\ t \in Task
        /\ \A i \in DOMAIN tasks' : i \in DOMAIN tasks /\ tasks'[i] = tasks[i]
    BY <1>3, <2>1, TasksPopped DEF TakeTask
  <2>3. hand' = [hand EXCEPT ![w] = t.chunks]
    BY <1>3 DEF TakeTask
  <2>4. Others(w) /\ pc'[w] = t.type
    BY <1>3, WorkerMoves DEF Moves
  <2>5. /\ t.type \in {"create", "merge"}
        /\ t.type = "create" => t.chunks = {}
        /\ t.type = "merge" => Group(t.chunks)
    BY <1>0, <2>2 DEF Task
  <2> HIDE DEF t
  <2> QED BY <1>0, <2>2, <2>3, <2>4, <2>5, HandTaken
<1>4. CASE CreateChunk(w) \/ MergeChunks(w)
  <2>1. PICK c : hand' = [hand EXCEPT ![w] = {c}]
    BY <1>4 DEF CreateChunk, MergeChunks
  <2>2. tasks' = tasks
    BY <1>4 DEF CreateChunk, MergeChunks
  <2>3. Others(w) /\ pc'[w] = "insert"
    BY <1>4, WorkerMoves DEF Moves
  <2> QED BY <1>0, <2>1, <2>2, <2>3, HandTaken
<1>5. CASE MergeChunksFails(w) \/ InsertChunk(w)
  <2>1. hand' = [hand EXCEPT ![w] = {}] /\ tasks' = tasks
    BY <1>5 DEF MergeChunksFails, InsertChunk
  <2>2. Others(w) /\ pc'[w] \notin {"merge", "unlock", "push"}
    BY <1>5, WorkerMoves DEF Moves
  <2> QED BY <1>0, <2>1, <2>2, HandTaken
<1>6. CASE FindChunks(w)
  <2>1. PICK ch \in FindChunksToMerge : hand' = [hand EXCEPT ![w] = ch]
    BY <1>6 DEF FindChunks
  <2>2. Group(ch) /\ tasks' = tasks
    BY <1>6, FoundGroup DEF FindChunks
  <2>3. Others(w) /\ pc'[w] = "unlock"
    BY <1>6, WorkerMoves DEF Moves
  <2> QED BY <1>0, <2>1, <2>2, <2>3, HandTaken
<1>7. CASE PushCreateTask(w)
  <2>1. CreateTask \in Task /\ CreateTask.type = "create" /\ CreateTask.chunks = {}
    BY DEF CreateTask, Task
  <2>2. tasks' = Append(tasks, CreateTask) /\ hand' = hand
    BY <1>7 DEF PushCreateTask
  <2>3. Others(w) /\ pc[w] = "pushCreate" /\ pc'[w] = "find"
    BY <1>7, WorkerMoves DEF Moves
  <2>4. hand' = [hand EXCEPT ![w] = hand[w]]
    BY <2>2 DEF TypeInv, TypeOK
  <2>5. \A i \in DOMAIN tasks' :
           /\ tasks'[i].type = "create" => tasks'[i].chunks = {}
           /\ tasks'[i].type = "merge" => Group(tasks'[i].chunks)
    BY <2>1, <2>2, HandQueued
  <2> QED BY <1>0, <2>3, <2>4, <2>5, HandTaken
<1>8. CASE PushMergeTask(w)
  <2> DEFINE t == MergeTask(hand[w])
  <2>1. t \in Task /\ t.type = "merge" /\ t.chunks = hand[w]
    BY DEF MergeTask, Task, TypeInv, TypeOK
  <2>2. tasks' = Append(tasks, t) /\ hand' = [hand EXCEPT ![w] = {}]
    BY <1>8 DEF PushMergeTask
  <2>3. Others(w) /\ pc[w] = "push" /\ pc'[w] \in {"release", "pop"}
    BY <1>8, WorkerMoves
  <2> HIDE DEF t
  <2>4. \A i \in DOMAIN tasks' :
           /\ tasks'[i].type = "create" => tasks'[i].chunks = {}
           /\ tasks'[i].type = "merge" => Group(tasks'[i].chunks)
    BY <1>0, <2>1, <2>2, <2>3, HandQueued
  <2> QED BY <2>2, <2>3, <2>4, HandTaken
<1> QED BY <1>1, <1>2, <1>3, <1>4, <1>5, <1>6, <1>7, <1>8 DEF HandleWorker, PopTask, RunTask

LEMMA HandInit == Init => HandInv
BY EmptySeq DEF Init, HandInv

LEMMA HandMain ==
    ASSUME TypeInv, HandInv, PushAndJoin
    PROVE  HandInv'
<1> USE DEF poolVars, listVars, fileVars, mainVars
<1>1. CASE PushFirstTask
  <2>1. CreateTask \in Task /\ CreateTask.type = "create" /\ CreateTask.chunks = {}
    BY DEF CreateTask, Task
  <2>2. tasks' = Append(tasks, CreateTask) /\ hand' = hand
    BY <1>1 DEF PushFirstTask
  <2>3. \A i \in DOMAIN tasks' :
           /\ tasks'[i].type = "create" => tasks'[i].chunks = {}
           /\ tasks'[i].type = "merge" => Group(tasks'[i].chunks)
    BY <2>1, <2>2, HandQueued
  <2>4. \A v \in Workers : \/ pc'[v] = pc[v]
                           \/ pc[v] = "wait" /\ pc'[v] = "pop"
    BY <1>1, MainMoves
  <2>5. ASSUME NEW v \in Workers
        PROVE  /\ hand'[v] # {} => pc'[v] \in {"merge", "insert", "unlock", "push"}
               /\ pc'[v] \in {"merge", "unlock", "push"} => Group(hand'[v])
    BY <2>2, <2>4 DEF HandInv
  <2> QED BY <2>3, <2>5 DEF HandInv, Group, OneRecordPerFile
<1>2. CASE JoinAndReturn
  BY <1>2 DEF JoinAndReturn, HandInv, Group, OneRecordPerFile
<1> QED BY <1>1, <1>2 DEF PushAndJoin

LEMMA HandStep == TypeInv /\ OwnInv /\ HandInv /\ [Next]_vars => HandInv'
<1> SUFFICES ASSUME TypeInv, OwnInv, HandInv, [Next]_vars PROVE HandInv'
  OBVIOUS
<1>1. CASE UNCHANGED vars
  BY <1>1 DEF vars, poolVars, HandInv, Group, OneRecordPerFile
<1>2. ASSUME NEW w \in Workers, HandleWorker(w) \/ SpuriousWakeup(w) PROVE HandInv'
  BY <1>2, HandWorker
<1>3. CASE PushAndJoin
  BY <1>3, HandMain
<1>4. CASE Terminated
  BY <1>1, <1>4 DEF Terminated
<1> QED BY <1>1, <1>2, <1>3, <1>4 DEF Next

-----------------------------------------------------------------------------
(* The flow of the threads.                                                *)

\* A failure stays, and a step that fails needs a kind of task that may.
LEMMA CalmBack ==
    ASSUME TypeInv, OwnInv, NEW w \in Workers, HandleWorker(w) \/ SpuriousWakeup(w)
    PROVE  /\ Calm' => Calm
           /\ exception # "none" => exception' # "none"
           /\ Calm /\ ~Calm' => Failing # {}
<1> USE DEF poolVars, listVars, fileVars, mainVars
<1>1. CASE RecordException(w)
  <2>1. exception' = job[w] /\ pc[w] = "failed"
    BY <1>1 DEF RecordException
  <2>2. job[w] # "none"
    BY <2>1 DEF TypeInv
  <2> QED BY <2>1, <2>2 DEF Calm
<1>2. CASE CreateChunkFails(w) \/ MergeChunksFails(w)
  <2>1. MergeInputsExist(w)
    BY DEF OwnInv, OnDisk, MergeInputsExist
  <2>2. Failing # {} /\ exception' = exception
    BY <1>2, <2>1 DEF CreateChunkFails, MergeChunksFails
  <2>3. pc[w] # "failed" /\ Moves(w, "failed")
    BY <1>2, WorkerMoves
  <2> QED BY <2>2, <2>3 DEF Calm, Moves, Others
<1>3. CASE ~(RecordException(w) \/ CreateChunkFails(w) \/ MergeChunksFails(w))
  <2>1. exception' = exception
    BY <1>3 DEF HandleWorker, PopTask, RunTask, WaitTask, SpuriousWakeup, Quit, TakeTask,
       CreateChunk, CreateChunkEnd, Complete, ReleasePool, PushCreateTask, MergeChunks,
       InsertChunk, FindNothing, FindChunks, UnlockChunks, PushMergeTask, ClosePool
  <2>2. Others(w) /\ pc[w] # "failed" /\ (pc'[w] # "failed" \/ TakeTask(w))
    BY <1>3, WorkerMoves DEF HandleWorker, PopTask, RunTask, Moves
  <2>3. ASSUME TakeTask(w) PROVE pc'[w] # "failed"
    <3>1. tasks \in Seq(Task) /\ tasks # <<>>
      BY <2>3 DEF TakeTask, TypeInv, TypeOK
    <3>2. tasks[Len(tasks)] \in Task /\ pc'[w] = tasks[Len(tasks)].type
      BY <2>3, <3>1, TasksPopped, WorkerMoves DEF Moves
    <3> QED BY <3>2 DEF Task
  <2> QED BY <2>1, <2>2, <2>3 DEF Calm, Others
<1> QED BY <1>1, <1>2, <1>3

\* A worker does not touch the other thread's variables, nor the input.
LEMMA WorkerKeeps ==
    ASSUME NEW w \in Workers, HandleWorker(w) \/ SpuriousWakeup(w)
    PROVE  UNCHANGED <<mainPc, result, input>>
BY DEF poolVars, listVars, fileVars, mainVars,
       HandleWorker, PopTask, RunTask, WaitTask, SpuriousWakeup, Quit, TakeTask,
       CreateChunk, CreateChunkFails, CreateChunkEnd, Complete, ReleasePool, PushCreateTask,
       MergeChunks, MergeChunksFails, InsertChunk, FindNothing, FindChunks, UnlockChunks,
       PushMergeTask, RecordException, ClosePool

\* What a step of a worker can do to the queue and to the flags.
LEMMA WorkerFlags ==
    ASSUME TypeInv, NEW w \in Workers, HandleWorker(w) \/ SpuriousWakeup(w)
    PROVE  /\ completed => completed'
           /\ completed' # completed => pc[w] \in {"complete", "close"}
           /\ tasks' # tasks => \/ pc[w] \in {"pushCreate", "push"}
                                \/ tasks' = <<>> /\ pc[w] = "close"
                                \/ TakeTask(w)
           /\ parser' = parser \/ CreateChunk(w)
BY DEF poolVars, listVars, fileVars, mainVars,
       HandleWorker, PopTask, RunTask, WaitTask, SpuriousWakeup, Quit, TakeTask,
       CreateChunk, CreateChunkFails, CreateChunkEnd, Complete, ReleasePool, PushCreateTask,
       MergeChunks, MergeChunksFails, InsertChunk, FindNothing, FindChunks, UnlockChunks,
       PushMergeTask, RecordException, ClosePool

LEMMA FlowWorker ==
    ASSUME TypeInv, OwnInv, FlowInv, NEW w \in Workers, HandleWorker(w) \/ SpuriousWakeup(w)
    PROVE  FlowInv'
<1> USE DEF poolVars, listVars, fileVars, mainVars
<1>0. UNCHANGED <<mainPc, result, input>> /\ pc[w] # "done"
  <2>1. pc[w] # "done"
    BY WorkerMoves DEF HandleWorker, PopTask, RunTask
  <2> QED BY <2>1, WorkerKeeps
<1>1. mainPc' = "push" =>
          /\ ~completed' /\ exception' = "none" /\ tasks' = <<>>
          /\ \A v \in Workers : pc'[v] \in {"pop", "wait"}
  <2> SUFFICES ASSUME mainPc = "push"
               PROVE  /\ ~completed' /\ exception' = "none" /\ tasks' = <<>>
                      /\ \A v \in Workers : pc'[v] \in {"pop", "wait"}
    BY <1>0
  <2>1. /\ ~completed /\ exception = "none" /\ tasks = <<>>
        /\ \A v \in Workers : pc[v] \in {"pop", "wait"}
    BY DEF FlowInv
  <2>2. WaitTask(w) \/ SpuriousWakeup(w)
    BY <2>1, WorkerMoves DEF HandleWorker, PopTask, RunTask, Quit, TakeTask
  <2>3. UNCHANGED <<completed, exception, tasks>>
    BY <2>2 DEF WaitTask, SpuriousWakeup
  <2>4. pc'[w] \in {"pop", "wait"} /\ Others(w)
    BY <2>2, WorkerMoves DEF Moves
  <2>5. \A v \in Workers : pc'[v] \in {"pop", "wait"}
    BY <2>1, <2>4 DEF Others
  <2> QED BY <2>1, <2>3, <2>5
<1>2. mainPc' # "done" /\ (mainPc' # "done" <=> result'.status = "none")
  BY <1>0 DEF FlowInv
<1>3. ASSUME NEW v \in Workers
      PROVE  /\ pc'[v] = "close" => exception' # "none"
             /\ pc'[v] = "complete" => parser' = input'
             /\ pc'[v] = "done" => completed' \/ exception' # "none"
  <2>1. /\ pc[v] = "close" => exception # "none"
        /\ pc[v] = "complete" => parser = input
        /\ pc[v] = "done" => completed \/ exception # "none"
    BY DEF FlowInv
  <2>2. /\ exception # "none" => exception' # "none"
        /\ completed => completed'
        /\ parser = input => parser' = parser
    BY CalmBack, WorkerFlags DEF CreateChunk, TypeInv, TypeOK
  <2>3. CASE v = w
    <3>1. pc'[w] = "close" => exception' # "none"
      <4>1. ASSUME TakeTask(w) PROVE pc'[w] \in {"create", "merge"}
        <5>1. tasks \in Seq(Task) /\ tasks # <<>>
          BY <4>1 DEF TakeTask, TypeInv, TypeOK
        <5> QED BY <4>1, <5>1, TasksPopped, WorkerMoves DEF Moves, Task
      <4>2. CASE RecordException(w)
        <5>1. exception' = job[w] /\ pc[w] = "failed"
          BY <4>2 DEF RecordException
        <5> QED BY <5>1 DEF TypeInv
      <4>3. CASE ~RecordException(w)
        BY <4>1, <4>3, WorkerMoves DEF HandleWorker, PopTask, RunTask, Moves
      <4> QED BY <4>2, <4>3
    <3>2. pc'[w] = "complete" => parser' = input'
      <4>1. ASSUME TakeTask(w) PROVE pc'[w] \in {"create", "merge"}
        <5>1. tasks \in Seq(Task) /\ tasks # <<>>
          BY <4>1 DEF TakeTask, TypeInv, TypeOK
        <5> QED BY <4>1, <5>1, TasksPopped, WorkerMoves DEF Moves, Task
      <4>2. pc'[w] = "complete" => CreateChunkEnd(w)
        BY <4>1, WorkerMoves DEF HandleWorker, PopTask, RunTask, Moves
      <4> QED BY <1>0, <4>2 DEF CreateChunkEnd
    <3>3. pc'[w] = "done" => completed' \/ exception' # "none"
      <4>1. ASSUME TakeTask(w) PROVE pc'[w] \in {"create", "merge"}
        <5>1. tasks \in Seq(Task) /\ tasks # <<>>
          BY <4>1 DEF TakeTask, TypeInv, TypeOK
        <5> QED BY <4>1, <5>1, TasksPopped, WorkerMoves DEF Moves, Task
      <4>2. pc'[w] = "done" => Quit(w) \/ ClosePool(w)
        BY <4>1, WorkerMoves DEF HandleWorker, PopTask, RunTask, Moves
      <4> QED BY <4>2 DEF Quit, ClosePool
    <3> QED BY <2>3, <3>1, <3>2, <3>3
  <2>4. CASE v # w
    <3>1. pc'[v] = pc[v] \/ pc'[v] = "pop"
      BY <2>4, WorkerMoves DEF HandleWorker, PopTask, RunTask, Moves, Others
    <3> QED BY <1>0, <2>1, <2>2, <3>1
  <2> QED BY <2>3, <2>4
<1>4. Calm' /\ completed' => parser' = input'
  <2> SUFFICES ASSUME Calm', completed' PROVE parser' = input'
    OBVIOUS
  <2>1. Calm
    BY CalmBack
  <2>2. CASE completed
    BY <1>0, <2>1, <2>2, WorkerFlags DEF FlowInv, CreateChunk, TypeInv, TypeOK
  <2>3. CASE ~completed
    <3>1. pc[w] \in {"complete", "close"}
      BY <2>3, WorkerFlags
    <3>2. parser = input
      BY <2>1, <3>1 DEF FlowInv, Calm
    <3>3. ~CreateChunk(w)
      BY <3>1, WorkerMoves
    <3>4. parser' = parser
      BY <3>3, WorkerFlags
    <3> QED BY <1>0, <3>2, <3>4
  <2> QED BY <2>2, <2>3
<1>5. Calm' /\ tasks' # <<>> => \E v \in Workers : pc'[v] # "done"
  <2> SUFFICES ASSUME Calm', tasks' # <<>>, \A v \in Workers : pc'[v] = "done"
               PROVE  FALSE
    OBVIOUS
  <2>1. Calm /\ exception = "none"
    BY CalmBack DEF Calm
  <2>2. pc'[w] = "done"
    OBVIOUS
  <2>3. ASSUME TakeTask(w) PROVE pc'[w] \in {"create", "merge"}
    <3>1. tasks \in Seq(Task) /\ tasks # <<>>
      BY <2>3 DEF TakeTask, TypeInv, TypeOK
    <3> QED BY <2>3, <3>1, TasksPopped, WorkerMoves DEF Moves, Task
  <2>4. Quit(w) \/ ClosePool(w)
    BY <2>2, <2>3, WorkerMoves DEF HandleWorker, PopTask, RunTask, Moves
  <2>5. tasks' = <<>>
    BY <2>1, <2>4 DEF Quit, ClosePool
  <2> QED BY <2>5
<1>6. Failing = {} => Calm'
  BY CalmBack DEF FlowInv
<1> QED BY <1>1, <1>2, <1>3, <1>4, <1>5, <1>6 DEF FlowInv

LEMMA FlowInit == Init => FlowInv
BY DEF Init, FlowInv, Calm

LEMMA FlowMain ==
    ASSUME TypeInv, FlowInv, PushAndJoin
    PROVE  FlowInv'
<1> USE DEF poolVars, listVars, fileVars, mainVars
<1>1. CASE PushFirstTask
  <2>1. /\ ~completed /\ exception = "none"
        /\ \A v \in Workers : pc[v] \in {"pop", "wait"}
        /\ result.status = "none"
    BY <1>1 DEF FlowInv, PushFirstTask
  <2>2. /\ mainPc' = "join" /\ UNCHANGED <<completed, exception, result, input, parser>>
    BY <1>1 DEF PushFirstTask
  <2>3. \A v \in Workers : pc'[v] \in {"pop", "wait"}
    BY <1>1, <2>1, MainMoves
  <2>4. Workers # {}
    BY KMergerAssumption
  <2> QED BY <2>1, <2>2, <2>3, <2>4 DEF FlowInv, Calm
<1>2. CASE JoinAndReturn
  <2>1. /\ mainPc' = "done" /\ UNCHANGED <<poolVars, input, parser, pc>>
        /\ \A v \in Workers : pc[v] = "done"
    BY <1>2 DEF JoinAndReturn
  <2>2. result'.status # "none"
    BY <1>2 DEF JoinAndReturn
  <2> QED BY <2>1, <2>2 DEF FlowInv, Calm
<1> QED BY <1>1, <1>2 DEF PushAndJoin

LEMMA FlowStep == TypeInv /\ OwnInv /\ FlowInv /\ [Next]_vars => FlowInv'
<1> SUFFICES ASSUME TypeInv, OwnInv, FlowInv, [Next]_vars PROVE FlowInv'
  OBVIOUS
<1>1. CASE UNCHANGED vars
  BY <1>1 DEF vars, poolVars, listVars, fileVars, mainVars, FlowInv, Calm
<1>2. ASSUME NEW w \in Workers, HandleWorker(w) \/ SpuriousWakeup(w) PROVE FlowInv'
  BY <1>2, FlowWorker
<1>3. CASE PushAndJoin
  BY <1>3, FlowMain
<1>4. CASE Terminated
  BY <1>1, <1>4 DEF Terminated
<1> QED BY <1>1, <1>2, <1>3, <1>4 DEF Next

-----------------------------------------------------------------------------
(* No chunks are forgotten.                                                *)

\* A finite set has a subset of every smaller size.
LEMMA SubsetOfSize ==
    ASSUME NEW S, IsFiniteSet(S), NEW n \in Nat, n <= Cardinality(S)
    PROVE  \E T \in SUBSET S : Cardinality(T) = n
<1>1. Cardinality(S) \in Nat /\ ExistsBijection(1..Cardinality(S), S)
  BY FS_CardinalityType
<1>2. PICK f \in Bijection(1..Cardinality(S), S) : TRUE
  BY <1>1 DEF ExistsBijection
<1> DEFINE T == {f[i] : i \in 1..n}
           g == [i \in 1..n |-> f[i]]
<1>3. 1..n \subseteq 1..Cardinality(S)
  BY <1>1
<1>4. /\ f \in [1..Cardinality(S) -> S]
      /\ \A i, j \in 1..Cardinality(S) : f[i] = f[j] => i = j
  BY <1>2 DEF Bijection, Injection, Surjection, IsInjective
<1>5. T \in SUBSET S
  BY <1>3, <1>4
<1>6. g \in Bijection(1..n, T)
  BY <1>3, <1>4 DEF Bijection, Injection, Surjection, IsInjective
<1>7. IsFiniteSet(1..n) /\ Cardinality(1..n) = n
  BY FS_Interval
<1>8. ExistsBijection(1..n, T)
  BY <1>6 DEF ExistsBijection
<1>9. Cardinality(T) = n
  <2> HIDE DEF T
  <2> QED BY <1>7, <1>8, FS_Bijection
<1> QED BY <1>5, <1>9

\* After the end of the input the search fails on a single chunk only.
LEMMA NothingFound ==
    ASSUME TypeInv, completed, FindChunksToMerge = {}
    PROVE  Cardinality(chunks) <= 1
<1>1. Units \in Nat
  BY KMergerAssumption
<1>2. IsFiniteSet(chunks) /\ Cardinality(chunks) \in Nat
  BY FS_CardinalityType DEF TypeInv
<1>3. SUFFICES ASSUME ~(Cardinality(chunks) <= 1) PROVE FALSE
  OBVIOUS
<1>4. CASE Cardinality(chunks) < Units
  BY <1>2, <1>3, <1>4 DEF FindChunksToMerge
<1>5. CASE ~(Cardinality(chunks) < Units)
  <2>1. Units <= Cardinality(chunks)
    BY <1>1, <1>2, <1>5
  <2>2. UnitsOf(chunks) # {}
    BY <1>1, <1>2, <2>1, SubsetOfSize DEF UnitsOf
  <2> QED BY <1>2, <1>3, <1>5, <2>2 DEF FindChunksToMerge
<1> QED BY <1>4, <1>5

LEMMA SearchWorker ==
    ASSUME TypeInv, OwnInv, FlowInv, SearchInv, NEW w \in Workers,
           HandleWorker(w) \/ SpuriousWakeup(w)
    PROVE  SearchInv'
<1> USE DEF poolVars, listVars, fileVars, mainVars
<1> SUFFICES ASSUME Calm', completed', ~Active' PROVE Cardinality(chunks') <= 1
  BY DEF SearchInv
<1>1. Calm /\ pc[w] # "close" /\ pc[w] # "failed"
  BY CalmBack DEF FlowInv, Calm
<1>2. /\ \A v \in Workers : pc'[v] \notin Searching
      /\ \A i \in DOMAIN tasks' : tasks'[i].type # "merge"
      /\ \A v \in Workers : pc'[v] # "failed"
  BY DEF Active, Calm
<1>3. ~PushMergeTask(w)
  <2> SUFFICES ASSUME PushMergeTask(w) PROVE FALSE
    OBVIOUS
  <2> DEFINE t == MergeTask(hand[w])
  <2>1. t \in Task /\ t.type = "merge"
    BY DEF MergeTask, Task, TypeInv, TypeOK
  <2>2. tasks \in Seq(Task) /\ tasks' = Append(tasks, t)
    BY DEF PushMergeTask, TypeInv, TypeOK
  <2> HIDE DEF t
  <2>3. Len(tasks) + 1 \in DOMAIN tasks' /\ tasks'[Len(tasks) + 1] = t
    BY <2>1, <2>2, TasksPushed
  <2> QED BY <1>2, <2>1, <2>3
<1>4. \/ WaitTask(w) \/ SpuriousWakeup(w) \/ Quit(w) \/ TakeTask(w)
      \/ CreateChunkEnd(w) \/ ReleasePool(w) \/ FindNothing(w)
  BY <1>1, <1>2, <1>3, WorkerMoves DEF HandleWorker, PopTask, RunTask, Moves, Searching
<1>5. UNCHANGED <<chunks, completed>>
  BY <1>4 DEF WaitTask, SpuriousWakeup, Quit, TakeTask, CreateChunkEnd, ReleasePool, FindNothing
<1>6. CASE FindNothing(w)
  BY <1>5, <1>6, NothingFound DEF FindNothing
<1>7. CASE ~FindNothing(w)
  <2>1. pc[w] \notin Searching /\ Others(w)
    BY <1>4, <1>7, WorkerMoves DEF Moves, Searching
  <2>2. \A v \in Workers : pc[v] \notin Searching
    BY <1>2, <2>1 DEF Others, Searching
  <2>3. ASSUME NEW i \in DOMAIN tasks PROVE tasks[i].type # "merge"
    <3>1. CASE TakeTask(w)
      <4>1. tasks \in Seq(Task) /\ tasks # <<>>
        BY <3>1 DEF TakeTask, TypeInv, TypeOK
      <4>2. /\ i \in 1..Len(tasks) /\ DOMAIN tasks' = 1..(Len(tasks) - 1)
            /\ Len(tasks) \in Nat \ {0}
            /\ \A j \in DOMAIN tasks' : tasks'[j] = tasks[j]
        BY <3>1, <4>1, TasksPopped DEF TakeTask
      <4>3. CASE i = Len(tasks)
        <5>1. pc'[w] = tasks[i].type
          BY <3>1, <4>3, WorkerMoves DEF Moves
        <5> QED BY <1>2, <5>1 DEF Searching
      <4>4. CASE i # Len(tasks)
        <5>1. i \in DOMAIN tasks'
          BY <4>2, <4>4
        <5> QED BY <1>2, <4>2, <5>1
      <4> QED BY <4>3, <4>4
    <3>2. CASE ~TakeTask(w)
      <4>1. tasks' = tasks
        BY <1>4, <3>2 DEF WaitTask, SpuriousWakeup, Quit, CreateChunkEnd, ReleasePool, FindNothing
      <4> QED BY <1>2, <4>1
    <3> QED BY <3>1, <3>2
  <2>4. ~Active
    BY <2>2, <2>3 DEF Active
  <2> QED BY <1>1, <1>5, <2>4 DEF SearchInv
<1> QED BY <1>6, <1>7

LEMMA SearchInit == Init => SearchInv
BY DEF Init, SearchInv

LEMMA SearchStep ==
    TypeInv /\ OwnInv /\ FlowInv /\ SearchInv /\ [Next]_vars => SearchInv'
<1> SUFFICES ASSUME TypeInv, OwnInv, FlowInv, SearchInv, [Next]_vars PROVE SearchInv'
  OBVIOUS
<1> USE DEF vars, poolVars, listVars, fileVars, mainVars
<1>1. CASE UNCHANGED vars
  BY <1>1 DEF SearchInv, Calm, Active
<1>2. ASSUME NEW w \in Workers, HandleWorker(w) \/ SpuriousWakeup(w) PROVE SearchInv'
  BY <1>2, SearchWorker
<1>3. CASE PushFirstTask
  BY <1>3 DEF PushFirstTask, FlowInv, SearchInv
<1>4. CASE JoinAndReturn
  BY <1>4 DEF JoinAndReturn, SearchInv, Calm, Active
<1>5. CASE Terminated
  BY <1>1, <1>5 DEF Terminated
<1> QED BY <1>1, <1>2, <1>3, <1>4, <1>5 DEF Next, PushAndJoin

-----------------------------------------------------------------------------
(* No batch is lost or copied.                                             *)

LEMMA HeldIs ==
    \A c : c \in Held <=> \/ c \in chunks
                          \/ \E w \in Workers : c \in hand[w]
                          \/ \E i \in DOMAIN tasks : c \in tasks[i].chunks
BY DEF Held

LEMMA HeldIsNext ==
    \A c : c \in Held' <=> \/ c \in chunks'
                           \/ \E w \in Workers : c \in hand'[w]
                           \/ \E i \in DOMAIN tasks' : c \in tasks'[i].chunks
BY DEF Held

\* The file of a held chunk is on the disk.
LEMMA HeldOnDisk ==
    ASSUME TypeInv, OwnInv, NEW c \in Held
    PROVE  c.file \in DOMAIN disk /\ c.file \in 1..idGen
<1>1. c.file \in DOMAIN disk
  BY HeldIs DEF OwnInv, OnDisk, FilesOf
<1> QED BY <1>1 DEF TypeInv, TypeOK

\* Steps that leave the files and the input alone.
LEMMA ContentKept ==
    ASSUME ContentInv, UNCHANGED <<disk, parser>>, mainPc' # "done" => mainPc # "done",
           Calm' => Calm /\ Held \subseteq Held'
    PROVE  ContentInv'
BY DEF ContentInv, FilesOf

\* A chunk that is handed on stays held.
LEMMA HeldWorker ==
    ASSUME TypeInv, OwnInv, HandInv, FlowInv, NEW w \in Workers,
           HandleWorker(w) \/ SpuriousWakeup(w), Calm'
    PROVE  /\ ~MergeChunks(w) => Held \subseteq Held'
           /\ MergeChunks(w) => \A c \in Held : c \in hand[w] \/ c \in Held'
<1> USE DEF poolVars, listVars, fileVars, mainVars
<1>0. hand \in [Workers -> SUBSET Chunk]
  BY DEF TypeInv, TypeOK
<1>1. /\ hand[w] # {} => pc[w] \in {"merge", "insert", "unlock", "push"}
      /\ Calm /\ pc[w] # "close"
  BY CalmBack DEF HandInv, FlowInv, Calm
<1> SUFFICES ASSUME NEW c \in Held
             PROVE  c \in Held' \/ (MergeChunks(w) /\ c \in hand[w])
  OBVIOUS
<1>2. CASE \/ WaitTask(w) \/ SpuriousWakeup(w) \/ Quit(w) \/ CreateChunkFails(w)
           \/ CreateChunkEnd(w) \/ Complete(w) \/ ReleasePool(w) \/ FindNothing(w)
           \/ UnlockChunks(w) \/ RecordException(w)
  <2>1. UNCHANGED <<chunks, tasks, hand>>
    BY <1>2 DEF WaitTask, SpuriousWakeup, Quit, CreateChunkFails, CreateChunkEnd, Complete,
                ReleasePool, FindNothing, UnlockChunks, RecordException
  <2> QED BY <2>1, HeldIs, HeldIsNext
<1>3. CASE ClosePool(w) \/ MergeChunksFails(w)
  BY <1>1, <1>3, WorkerMoves DEF Moves, Calm
<1>4. CASE TakeTask(w)
  <2>1. tasks \in Seq(Task) /\ tasks # <<>>
    BY <1>4 DEF TakeTask, TypeInv, TypeOK
  <2>2. /\ DOMAIN tasks = 1..Len(tasks) /\ DOMAIN tasks' = 1..(Len(tasks) - 1)
        /\ Len(tasks) \in Nat \ {0}
        /\ \A i \in DOMAIN tasks' : tasks'[i] = tasks[i]
    BY <1>4, <2>1, TasksPopped DEF TakeTask
  <2>3. /\ chunks' = chunks /\ hand'[w] = tasks[Len(tasks)].chunks
        /\ \A v \in Workers : v # w => hand'[v] = hand[v]
    BY <1>0, <1>4 DEF TakeTask
  <2>4. hand[w] = {}
    BY <1>1, <1>4, WorkerMoves
  <2>5. CASE c \in chunks \/ \E v \in Workers : c \in hand[v]
    BY <2>3, <2>4, <2>5, HeldIsNext
  <2>6. CASE \E i \in DOMAIN tasks : c \in tasks[i].chunks
    <3>1. PICK i \in DOMAIN tasks : c \in tasks[i].chunks
      BY <2>6
    <3>2. CASE i = Len(tasks)
      BY <2>3, <3>1, <3>2, HeldIsNext
    <3>3. CASE i # Len(tasks)
      <4>1. i \in DOMAIN tasks'
        BY <2>2, <3>3
      <4> QED BY <2>2, <3>1, <4>1, HeldIsNext
    <3> QED BY <3>2, <3>3
  <2> QED BY <2>5, <2>6, HeldIs
<1>5. CASE CreateChunk(w) \/ MergeChunks(w)
  <2>1. /\ UNCHANGED <<chunks, tasks>>
        /\ \A v \in Workers : v # w => hand'[v] = hand[v]
    BY <1>0, <1>5 DEF CreateChunk, MergeChunks
  <2>2. CreateChunk(w) => hand[w] = {}
    BY <1>1, WorkerMoves
  <2> QED BY <1>5, <2>1, <2>2, HeldIs, HeldIsNext
<1>6. CASE InsertChunk(w)
  <2>1. /\ chunks' = chunks \cup hand[w] /\ tasks' = tasks
        /\ \A v \in Workers : v # w => hand'[v] = hand[v]
    BY <1>0, <1>6 DEF InsertChunk
  <2> QED BY <2>1, HeldIs, HeldIsNext
<1>7. CASE FindChunks(w)
  <2>1. PICK ch \in FindChunksToMerge :
           chunks' = chunks \ ch /\ hand' = [hand EXCEPT ![w] = ch]
    BY <1>7 DEF FindChunks
  <2>2. tasks' = tasks /\ hand'[w] = ch /\ \A v \in Workers : v # w => hand'[v] = hand[v]
    BY <1>0, <1>7, <2>1 DEF FindChunks
  <2>3. hand[w] = {}
    BY <1>1, <1>7, WorkerMoves
  <2> QED BY <2>1, <2>2, <2>3, HeldIs, HeldIsNext
<1>8. CASE PushCreateTask(w) \/ PushMergeTask(w)
  <2>1. PICK t \in Task : /\ tasks' = Append(tasks, t)
                          /\ PushMergeTask(w) => t.chunks = hand[w]
    <3>1. CASE PushCreateTask(w)
      <4>1. CreateTask \in Task
        BY DEF CreateTask, Task
      <4>2. tasks' = Append(tasks, CreateTask) /\ pc[w] = "pushCreate"
        BY <3>1 DEF PushCreateTask
      <4>3. ~PushMergeTask(w)
        BY <4>2 DEF PushMergeTask
      <4> QED BY <4>1, <4>2, <4>3
    <3>2. CASE PushMergeTask(w)
      <4>1. MergeTask(hand[w]) \in Task /\ MergeTask(hand[w]).chunks = hand[w]
        BY <1>0 DEF MergeTask, Task
      <4> QED BY <3>2, <4>1 DEF PushMergeTask
    <3> QED BY <1>8, <3>1, <3>2
  <2>2. tasks \in Seq(Task)
    BY DEF TypeInv, TypeOK
  <2>3. /\ Len(tasks) + 1 \in DOMAIN tasks' /\ tasks'[Len(tasks) + 1] = t
        /\ \A i \in DOMAIN tasks : i \in DOMAIN tasks' /\ tasks'[i] = tasks[i]
    BY <2>1, <2>2, TasksPushed
  <2>4. /\ chunks' = chunks /\ \A v \in Workers : v # w => hand'[v] = hand[v]
        /\ PushCreateTask(w) => hand'[w] = hand[w]
    BY <1>0, <1>8 DEF PushCreateTask, PushMergeTask
  <2>5. CASE c \in chunks
    BY <2>4, <2>5, HeldIsNext
  <2>6. CASE \E i \in DOMAIN tasks : c \in tasks[i].chunks
    BY <2>3, <2>6, HeldIsNext
  <2>7. CASE \E v \in Workers : c \in hand[v]
    BY <1>8, <2>1, <2>3, <2>4, <2>7, HeldIsNext
  <2> QED BY <2>5, <2>6, <2>7, HeldIs
<1> QED BY <1>2, <1>3, <1>4, <1>5, <1>6, <1>7, <1>8 DEF HandleWorker, PopTask, RunTask

\* A new run of one batch.
LEMMA ContentCreate ==
    ASSUME TypeInv, OwnInv, HandInv, FlowInv, ContentInv, NEW w \in Workers, CreateChunk(w)
    PROVE  ContentInv'
<1> USE DEF poolVars, listVars, fileVars, mainVars
<1> DEFINE new == [layer |-> 0, file |-> idGen + 1]
<1>1. /\ parser \in Nat /\ idGen \in Nat /\ DOMAIN disk \subseteq 1..idGen
      /\ \A f \in DOMAIN disk : disk[f] \subseteq 1..parser
  BY DEF TypeInv, TypeOK
<1>2. /\ parser' = parser + 1 /\ idGen' = idGen + 1 /\ mainPc' = mainPc
      /\ DOMAIN disk' = DOMAIN disk \cup {idGen + 1}
      /\ disk'[idGen + 1] = {parser + 1}
      /\ \A f \in DOMAIN disk : f # idGen + 1 => disk'[f] = disk[f]
      /\ hand'[w] = {new}
  BY DEF CreateChunk, TypeInv, TypeOK
<1>3. idGen + 1 \notin DOMAIN disk
  BY <1>1
<1>4. \A f, g \in DOMAIN disk' : f # g => disk'[f] \cap disk'[g] = {}
  <2> SUFFICES ASSUME NEW f \in DOMAIN disk', NEW g \in DOMAIN disk', f # g
               PROVE  disk'[f] \cap disk'[g] = {}
    OBVIOUS
  <2>1. CASE f # idGen + 1 /\ g # idGen + 1
    BY <1>2, <2>1 DEF ContentInv
  <2>2. \A h \in DOMAIN disk : {parser + 1} \cap disk[h] = {} /\ disk[h] \cap {parser + 1} = {}
    BY <1>1
  <2>3. CASE f = idGen + 1 \/ g = idGen + 1
    BY <1>2, <2>2, <2>3
  <2> QED BY <2>1, <2>3
<1>5. mainPc' # "done" => \A f \in DOMAIN disk' : disk'[f] # {}
  BY <1>2 DEF ContentInv
<1>6. ASSUME Calm' PROVE \A b \in 1..parser' : \E c \in Held' : b \in disk'[c.file]
  <2> SUFFICES ASSUME NEW b \in 1..(parser + 1) PROVE \E c \in Held' : b \in disk'[c.file]
    BY <1>2
  <2>1. CASE b = parser + 1
    <3>1. new \in Held' /\ new.file = idGen + 1
      BY <1>2, HeldIsNext
    <3> QED BY <1>2, <2>1, <3>1
  <2>2. CASE b # parser + 1
    <3>1. b \in 1..parser /\ Calm
      BY <1>1, <1>6, <2>2, CalmBack DEF HandleWorker, RunTask
    <3>2. PICK c \in Held : b \in disk[c.file]
      BY <3>1 DEF ContentInv
    <3>3. c.file \in DOMAIN disk
      BY HeldOnDisk
    <3>4. c \in Held'
      <4>1. ~MergeChunks(w)
        BY DEF MergeChunks, CreateChunk
      <4> QED BY <1>6, <4>1, HeldWorker DEF HandleWorker, RunTask
    <3> QED BY <1>2, <1>3, <3>2, <3>3, <3>4
  <2> QED BY <2>1, <2>2
<1>7. ASSUME Calm', mainPc' # "done" PROVE DOMAIN disk' \subseteq FilesOf(Held')
  <2>1. Calm /\ Held \subseteq Held'
    <3>1. ~MergeChunks(w)
      BY DEF MergeChunks, CreateChunk
    <3> QED BY <1>7, <3>1, HeldWorker, CalmBack DEF HandleWorker, RunTask
  <2>2. new \in Held' /\ new.file = idGen + 1
    BY <1>2, HeldIsNext
  <2> QED BY <1>2, <1>7, <2>1, <2>2 DEF ContentInv, FilesOf
<1> QED BY <1>4, <1>5, <1>6, <1>7 DEF ContentInv

\* A chunk held elsewhere does not share a file with the hand of a worker.
LEMMA InputsApart ==
    ASSUME OwnInv, NEW w \in Workers, NEW c \in Held, c \notin hand[w]
    PROVE  c.file \notin FilesOf(hand[w])
<1>1. CASE c \in chunks
  BY <1>1 DEF OwnInv, Disjointness, Disjoint, FilesOf
<1>2. CASE \E v \in Workers : c \in hand[v]
  BY <1>2 DEF OwnInv, Disjointness, Disjoint, FilesOf
<1>3. CASE \E i \in DOMAIN tasks : c \in tasks[i].chunks
  BY <1>3 DEF OwnInv, Disjointness, Disjoint, FilesOf
<1> QED BY <1>1, <1>2, <1>3, HeldIs

\* A merge moves the batches of its inputs to the new file.
LEMMA ContentMerge ==
    ASSUME TypeInv, OwnInv, HandInv, FlowInv, ContentInv, NEW w \in Workers, MergeChunks(w)
    PROVE  ContentInv'
<1> USE DEF poolVars, listVars, fileVars, mainVars
<1> DEFINE inputs == FilesOf(hand[w])
           merged == UNION {disk[g] : g \in inputs}
           new == [layer |-> MaxOf(LayersOf(hand[w])) + 1, file |-> idGen + 1]
<1>1. idGen \in Nat /\ DOMAIN disk \subseteq 1..idGen
  BY DEF TypeInv, TypeOK
<1>2. /\ parser' = parser /\ mainPc' = mainPc
      /\ DOMAIN disk' = (DOMAIN disk \ inputs) \cup {idGen + 1}
      /\ disk'[idGen + 1] = merged
      /\ \A f \in DOMAIN disk \ inputs : f # idGen + 1 => disk'[f] = disk[f]
      /\ hand'[w] = {new} /\ pc[w] = "merge"
  BY DEF MergeChunks, TypeInv, TypeOK
<1>3. idGen + 1 \notin DOMAIN disk /\ inputs \subseteq DOMAIN disk
  BY <1>1 DEF OwnInv, OnDisk
<1>4. new \in Held' /\ new.file = idGen + 1
  BY <1>2, HeldIsNext
<1>5. \A b : b \in merged <=> \E g \in inputs : b \in disk[g]
  OBVIOUS
<1> HIDE DEF merged, new
<1>6. \A f, g \in DOMAIN disk' : f # g => disk'[f] \cap disk'[g] = {}
  <2> SUFFICES ASSUME NEW f \in DOMAIN disk', NEW g \in DOMAIN disk', f # g
               PROVE  disk'[f] \cap disk'[g] = {}
    OBVIOUS
  <2>1. CASE f # idGen + 1 /\ g # idGen + 1
    BY <1>2, <2>1 DEF ContentInv
  <2>2. \A h \in DOMAIN disk \ inputs : merged \cap disk[h] = {} /\ disk[h] \cap merged = {}
    <3> SUFFICES ASSUME NEW h \in DOMAIN disk \ inputs, NEW b \in merged, b \in disk[h]
                 PROVE  FALSE
      OBVIOUS
    <3>1. PICK g1 \in inputs : b \in disk[g1]
      BY <1>5
    <3>2. g1 # h /\ g1 \in DOMAIN disk
      BY <1>3
    <3> QED BY <3>1, <3>2 DEF ContentInv
  <2>3. CASE f = idGen + 1 \/ g = idGen + 1
    BY <1>2, <2>2, <2>3
  <2> QED BY <2>1, <2>3
<1>7. ASSUME mainPc' # "done" PROVE \A f \in DOMAIN disk' : disk'[f] # {}
  <2>1. PICK c \in hand[w] : TRUE
    BY <1>2 DEF TypeInv
  <2>2. c.file \in inputs /\ disk[c.file] # {}
    <3>1. c.file \in inputs
      BY <2>1 DEF FilesOf
    <3> QED BY <1>2, <1>3, <1>7, <3>1 DEF ContentInv
  <2>3. merged # {}
    BY <1>5, <2>2
  <2> QED BY <1>2, <1>7, <2>3 DEF ContentInv
<1>8. ASSUME Calm' PROVE Calm /\ \A c \in Held : c \in hand[w] \/ c \in Held'
  BY <1>8, HeldWorker, CalmBack DEF HandleWorker, RunTask
<1>9. ASSUME NEW c \in Held, c \notin hand[w] PROVE c.file \notin inputs
  BY <1>9, InputsApart
<1>10. ASSUME Calm' PROVE \A b \in 1..parser' : \E c \in Held' : b \in disk'[c.file]
  <2> SUFFICES ASSUME NEW b \in 1..parser PROVE \E c \in Held' : b \in disk'[c.file]
    BY <1>2
  <2>1. PICK c \in Held : b \in disk[c.file]
    BY <1>8, <1>10 DEF ContentInv
  <2>2. CASE c \in hand[w]
    <3>1. c.file \in inputs
      BY <2>2 DEF FilesOf
    <3>2. b \in merged
      BY <1>5, <2>1, <3>1
    <3> QED BY <1>2, <1>4, <3>2
  <2>3. CASE c \notin hand[w]
    <3>1. c \in Held' /\ c.file \in DOMAIN disk \ inputs
      BY <1>8, <1>9, <1>10, <2>3, HeldOnDisk
    <3>2. disk'[c.file] = disk[c.file]
      BY <1>2, <1>3, <3>1
    <3> QED BY <2>1, <3>1, <3>2
  <2> QED BY <2>2, <2>3
<1>11. ASSUME Calm', mainPc' # "done" PROVE DOMAIN disk' \subseteq FilesOf(Held')
  <2> SUFFICES ASSUME NEW f \in DOMAIN disk' PROVE \E c \in Held' : f = c.file
    BY DEF FilesOf
  <2>1. CASE f = idGen + 1
    BY <1>4, <2>1
  <2>2. CASE f # idGen + 1
    <3>1. f \in DOMAIN disk \ inputs
      BY <1>2, <2>2
    <3>2. DOMAIN disk \subseteq FilesOf(Held)
      BY <1>2, <1>8, <1>11 DEF ContentInv
    <3>3. PICK c \in Held : f = c.file
      BY <3>1, <3>2 DEF FilesOf
    <3>4. c \notin hand[w]
      BY <3>1, <3>3 DEF FilesOf
    <3> QED BY <1>8, <1>11, <3>3, <3>4
  <2> QED BY <2>1, <2>2
<1> QED BY <1>6, <1>7, <1>10, <1>11 DEF ContentInv

LEMMA ContentWorker ==
    ASSUME TypeInv, OwnInv, HandInv, FlowInv, ContentInv, NEW w \in Workers,
           HandleWorker(w) \/ SpuriousWakeup(w)
    PROVE  ContentInv'
<1> USE DEF poolVars, listVars, fileVars, mainVars
<1>1. CASE CreateChunk(w)
  BY <1>1, ContentCreate
<1>2. CASE MergeChunks(w)
  BY <1>2, ContentMerge
<1>3. CASE MergeChunksFails(w)
  <2>1. ~Calm'
    BY <1>3, WorkerMoves DEF Moves, Calm
  <2>2. /\ DOMAIN disk' = DOMAIN disk \ FilesOf(hand[w]) /\ mainPc' = mainPc
        /\ \A f \in DOMAIN disk' : disk'[f] = disk[f]
    BY <1>3 DEF MergeChunksFails
  <2> QED BY <2>1, <2>2 DEF ContentInv
<1>4. CASE ~(CreateChunk(w) \/ MergeChunks(w) \/ MergeChunksFails(w))
  <2>1. UNCHANGED <<disk, parser, mainPc>>
    BY <1>4 DEF HandleWorker, PopTask, RunTask, WaitTask, SpuriousWakeup, Quit, TakeTask,
       CreateChunkFails, CreateChunkEnd, Complete, ReleasePool, PushCreateTask,
       InsertChunk, FindNothing, FindChunks, UnlockChunks, PushMergeTask,
       RecordException, ClosePool
  <2>2. Calm' => Calm /\ Held \subseteq Held'
    BY <1>4, CalmBack, HeldWorker
  <2> QED BY <2>1, <2>2, ContentKept
<1> QED BY <1>1, <1>2, <1>3, <1>4

LEMMA ContentInit == Init => ContentInv
BY DEF Init, ContentInv

LEMMA ContentMain ==
    ASSUME TypeInv, OwnInv, ContentInv, PushAndJoin
    PROVE  ContentInv'
<1> USE DEF poolVars, listVars, fileVars, mainVars
<1>1. CASE PushFirstTask
  <2>1. UNCHANGED <<disk, parser, chunks, hand, exception>> /\ mainPc # "done"
    BY <1>1 DEF PushFirstTask
  <2>2. tasks \in Seq(Task) /\ CreateTask \in Task
    BY DEF TypeInv, TypeOK, CreateTask, Task
  <2>3. \A i \in DOMAIN tasks : i \in DOMAIN tasks' /\ tasks'[i] = tasks[i]
    BY <1>1, <2>2, TasksPushed DEF PushFirstTask
  <2>4. Held \subseteq Held'
    BY <2>1, <2>3, HeldIs, HeldIsNext
  <2>5. Calm' => Calm
    BY <1>1, <2>1, MainMoves DEF Calm
  <2> QED BY <2>1, <2>4, <2>5, ContentKept
<1>2. CASE JoinAndReturn
  <2>1. /\ UNCHANGED <<parser, chunks, hand, tasks, exception, pc>> /\ mainPc' = "done"
    BY <1>2 DEF JoinAndReturn
  <2>2. Held' = Held /\ (Calm' <=> Calm)
    BY <2>1 DEF Held, Calm
  <2>3. CASE disk' = disk
    BY <2>1, <2>2, <2>3 DEF ContentInv
  <2>4. CASE disk' = [f \in DOMAIN disk \cup {idGen + 1} |-> IF f = idGen + 1 THEN {} ELSE disk[f]]
    <3>1. /\ DOMAIN disk' = DOMAIN disk \cup {idGen + 1} /\ disk'[idGen + 1] = {}
          /\ \A f \in DOMAIN disk : f # idGen + 1 => disk'[f] = disk[f]
      BY <2>4
    <3>2. idGen + 1 \notin DOMAIN disk
      BY DEF TypeInv, TypeOK
    <3>3. \A f, g \in DOMAIN disk' : f # g => disk'[f] \cap disk'[g] = {}
      BY <3>1 DEF ContentInv
    <3>4. ASSUME Calm' PROVE \A b \in 1..parser' : \E c \in Held' : b \in disk'[c.file]
      BY <2>1, <2>2, <3>1, <3>2, <3>4, HeldOnDisk DEF ContentInv
    <3> QED BY <2>1, <3>3, <3>4 DEF ContentInv
  <2> QED BY <1>2, <2>3, <2>4 DEF JoinAndReturn
<1> QED BY <1>1, <1>2 DEF PushAndJoin

LEMMA ContentStep ==
    TypeInv /\ OwnInv /\ HandInv /\ FlowInv /\ ContentInv /\ [Next]_vars => ContentInv'
<1> SUFFICES ASSUME TypeInv, OwnInv, HandInv, FlowInv, ContentInv, [Next]_vars
             PROVE  ContentInv'
  OBVIOUS
<1>1. CASE UNCHANGED vars
  <2>1. UNCHANGED <<disk, parser, chunks, hand, tasks, exception, pc, mainPc>>
    BY <1>1 DEF vars, poolVars, listVars, fileVars, mainVars
  <2>2. Held' = Held /\ (Calm' <=> Calm)
    BY <2>1 DEF Held, Calm
  <2> QED BY <2>1, <2>2, ContentKept
<1>2. ASSUME NEW w \in Workers, HandleWorker(w) \/ SpuriousWakeup(w) PROVE ContentInv'
  BY <1>2, ContentWorker
<1>3. CASE PushAndJoin
  BY <1>3, ContentMain
<1>4. CASE Terminated
  BY <1>1, <1>4 DEF Terminated
<1> QED BY <1>1, <1>2, <1>3, <1>4 DEF Next

-----------------------------------------------------------------------------
(* The result.                                                             *)

ResultInv ==
    /\ ResultComplete
    /\ result.status # "many"
    /\ result.status = "error" => exception # "none"

MergeInv == TypeInv /\ OwnInv /\ HandInv /\ FlowInv /\ SearchInv /\ ContentInv

\* Where the workers have left and nothing failed, one chunk at most is left,
\* and it is the whole input.
LEMMA AtTheJoin ==
    ASSUME MergeInv, \A v \in Workers : pc[v] = "done", exception = "none"
    PROVE  /\ parser = input /\ Cardinality(chunks) <= 1 /\ Held = chunks
           /\ \A b \in 1..input : \E c \in chunks : b \in disk[c.file]
           /\ \A c \in chunks : c.file \in DOMAIN disk /\ disk[c.file] \subseteq 1..input
<1> USE DEF MergeInv
<1>1. Calm
  BY DEF Calm
<1>2. completed
  BY KMergerAssumption DEF FlowInv
<1>3. tasks = <<>> /\ parser = input
  BY <1>1, <1>2 DEF FlowInv
<1>4. DOMAIN tasks = {}
  BY <1>3, EmptySeq
<1>5. \A v \in Workers : hand[v] = {}
  BY DEF HandInv
<1>6. ~Active
  BY <1>4 DEF Active, Searching
<1>7. Cardinality(chunks) <= 1
  BY <1>1, <1>2, <1>6 DEF SearchInv
<1>8. Held = chunks
  BY <1>4, <1>5, HeldIs
<1>9. \A c \in chunks : c.file \in DOMAIN disk /\ disk[c.file] \subseteq 1..input
  BY <1>3, <1>8, HeldOnDisk DEF TypeInv, TypeOK
<1> QED BY <1>1, <1>3, <1>7, <1>8, <1>9 DEF ContentInv

LEMMA ResultInit == Init => ResultInv
BY DEF Init, ResultInv, ResultComplete

LEMMA ResultJoin ==
    ASSUME MergeInv, ResultInv, JoinAndReturn
    PROVE  ResultInv'
<1> USE DEF poolVars, listVars, fileVars, mainVars
<1>0. /\ \A v \in Workers : pc[v] = "done"
      /\ UNCHANGED <<exception, chunks, input, parser>>
  BY DEF JoinAndReturn
<1>1. CASE exception # "none"
  BY <1>0, <1>1 DEF JoinAndReturn, ResultInv, ResultComplete
<1>2. CASE exception = "none"
  <2>1. /\ Cardinality(chunks) <= 1
        /\ \A b \in 1..input : \E c \in chunks : b \in disk[c.file]
        /\ \A c \in chunks : c.file \in DOMAIN disk /\ disk[c.file] \subseteq 1..input
    BY <1>0, <1>2, AtTheJoin
  <2>2. ~(Cardinality(chunks) > 1)
    <3>1. Cardinality(chunks) \in Nat
      BY FS_CardinalityType DEF MergeInv, TypeInv
    <3> QED BY <2>1, <3>1
  <2>3. CASE chunks = {}
    <3>1. 1..input = {}
      BY <2>1, <2>3
    <3>2. result' = [status |-> "ok", file |-> idGen + 1]
          /\ disk' = [f \in DOMAIN disk \cup {idGen + 1} |->
                         IF f = idGen + 1 THEN {} ELSE disk[f]]
      BY <1>2, <2>2, <2>3 DEF JoinAndReturn
    <3>3. idGen + 1 \in DOMAIN disk' /\ disk'[idGen + 1] = {}
      BY <3>2
    <3> QED BY <1>0, <3>1, <3>2, <3>3 DEF ResultInv, ResultComplete
  <2>4. CASE chunks # {}
    <3>1. PICK c \in chunks : chunks = {c} /\ result' = [status |-> "ok", file |-> c.file]
      BY <1>2, <2>2, <2>4 DEF JoinAndReturn
    <3>2. disk' = disk
      BY <1>2, <2>2, <2>4 DEF JoinAndReturn
    <3>3. disk[c.file] = 1..input /\ c.file \in DOMAIN disk
      BY <2>1, <3>1
    <3> QED BY <1>0, <3>1, <3>2, <3>3 DEF ResultInv, ResultComplete
  <2> QED BY <2>3, <2>4
<1> QED BY <1>1, <1>2

LEMMA ResultStep == MergeInv /\ ResultInv /\ [Next]_vars => ResultInv'
<1> SUFFICES ASSUME MergeInv, ResultInv, [Next]_vars PROVE ResultInv'
  OBVIOUS
<1> USE DEF vars, poolVars, listVars, fileVars, mainVars
<1>1. CASE UNCHANGED vars
  BY <1>1 DEF ResultInv, ResultComplete
<1>2. ASSUME NEW w \in Workers, HandleWorker(w) \/ SpuriousWakeup(w) PROVE ResultInv'
  <2>1. result' = result /\ mainPc' = mainPc
    BY <1>2, WorkerKeeps
  <2>2. result.status = "none"
    <3>1. pc[w] # "done"
      BY <1>2, WorkerMoves DEF HandleWorker, PopTask, RunTask, MergeInv
    <3> QED BY <3>1 DEF MergeInv, FlowInv
  <2> QED BY <2>1, <2>2 DEF ResultInv, ResultComplete
<1>3. CASE PushFirstTask
  BY <1>3 DEF PushFirstTask, ResultInv, ResultComplete
<1>4. CASE JoinAndReturn
  BY <1>4, ResultJoin
<1>5. CASE Terminated
  BY <1>1, <1>5 DEF Terminated
<1> QED BY <1>1, <1>2, <1>3, <1>4, <1>5 DEF Next, PushAndJoin

LEMMA MergeInvHolds == Spec => [](MergeInv /\ ResultInv)
<1>1. Init => OwnInv /\ HandInv /\ FlowInv /\ SearchInv /\ ContentInv /\ ResultInv
  BY OwnInit, HandInit, FlowInit, SearchInit, ContentInit, ResultInit
<1>2. TypeInv /\ (OwnInv /\ HandInv /\ FlowInv /\ SearchInv /\ ContentInv /\ ResultInv)
         /\ [Next]_vars
      => (OwnInv /\ HandInv /\ FlowInv /\ SearchInv /\ ContentInv /\ ResultInv)'
  BY OwnStep, HandStep, FlowStep, SearchStep, ContentStep, ResultStep DEF MergeInv
<1>3. Spec => [](OwnInv /\ HandInv /\ FlowInv /\ SearchInv /\ ContentInv /\ ResultInv)
  BY <1>1, <1>2, TypeInvariant, PTL DEF Spec
<1> QED BY <1>3, TypeInvariant, PTL DEF MergeInv

\* The file PushAndJoin returns holds every batch of the input
\* (kmerger.hpp:268-293), for every number of workers, units and batches, and
\* whichever tasks throw: an exception lost by the pool, a chunk left in the list
\* or overtaken by a merge would make it partial.
THEOREM ResultWhole == Spec => []ResultComplete
BY MergeInvHolds, PTL DEF ResultInv

\* The error "more than 1 chunk after a KMerger run" (kmerger.hpp:281-283) is never
\* thrown, and without a task that throws there is no error: every merge that is
\* due has a worker or a queued task that will do it, to the last one.
THEOREM ErrorsHaveCause == Spec => []NoSpuriousError
<1>1. MergeInv /\ ResultInv => NoSpuriousError
  BY DEF MergeInv, ResultInv, FlowInv, Calm, NoSpuriousError
<1> QED BY <1>1, MergeInvHolds, PTL

-----------------------------------------------------------------------------
(* The pool implements ExternalMerge.                                      *)

\* ExternalMerge's variables, as the pool has them.
Runs    == {disk[f] : f \in DOMAIN disk} \ {{}}
Failed  == exception # "none" \/ At({"failed"}) # {}
Outcome == [status |-> result.status,
            data   |-> IF result.status = "ok" THEN disk[result.file] ELSE {}]

LEMMA AbsCardinality == \A S : Abs!Cardinality(S) = Cardinality(S)
BY DEF Cardinality, Abs!Cardinality, IsFiniteSet, Abs!IsFiniteSet

LEMMA FailedIs == Failed = ~Calm
BY DEF Failed, Calm, At

LEMMA FailedIsNext == Failed' = ~Calm'
BY DEF Failed, Calm, At

\* Before the return, distinct files hold distinct runs and none is empty.
LEMMA RunsApart ==
    ASSUME ContentInv, mainPc # "done"
    PROVE  /\ \A f, g \in DOMAIN disk : disk[f] = disk[g] => f = g
           /\ \A f \in DOMAIN disk : disk[f] # {}
           /\ Runs = {disk[f] : f \in DOMAIN disk}
BY DEF ContentInv, Runs

LEMMA AbsInit == Init => Abs!Init
<1> SUFFICES ASSUME Init PROVE Abs!Init
  OBVIOUS
<1>1. input \in 0..MaxBatches /\ parser = 0
  BY DEF Init
<1>2. Runs = {}
  BY DEF Init, Runs
<1>3. Failed = FALSE
  BY DEF Init, Failed, At
<1>4. Outcome = [status |-> "none", data |-> {}]
  BY DEF Init, Outcome
<1> QED BY <1>1, <1>2, <1>3, <1>4 DEF Abs!Init, Abs!Pending, Runs, Failed, Outcome

\* What an abstract step needs: the outcome is pending until the join.
LEMMA OutcomePending ==
    ASSUME FlowInv, mainPc # "done"
    PROVE  Outcome = [status |-> "none", data |-> {}] /\ result.status = "none"
BY DEF FlowInv, Outcome

\* A new chunk is a run that was read.
LEMMA AbsCreate ==
    ASSUME MergeInv, mainPc # "done", UNCHANGED <<mainPc, result, input>>,
           NEW w \in Workers, CreateChunk(w)
    PROVE  Abs!ReadBatch
<1> USE DEF poolVars, listVars, fileVars, mainVars
<1>1. /\ parser < input /\ parser' = parser + 1
      /\ disk' = [f \in DOMAIN disk \cup {idGen + 1} |->
                     IF f = idGen + 1 THEN {parser + 1} ELSE disk[f]]
  BY DEF CreateChunk
<1>2. Outcome = [status |-> "none", data |-> {}] /\ Outcome' = Outcome
  <2>1. Outcome' = [status |-> "none", data |-> {}]
    BY OutcomePending DEF MergeInv, Outcome
  <2> QED BY <2>1, OutcomePending DEF MergeInv
<1>3. Failed' = Failed
  <2>1. exception' = exception
    BY DEF CreateChunk
  <2>2. pc[w] # "failed" /\ Moves(w, "insert")
    BY WorkerMoves DEF MergeInv
  <2>3. Calm' <=> Calm
    BY <2>1, <2>2 DEF Calm, Moves, Others
  <2> QED BY <2>3, FailedIs, FailedIsNext
<1>4. idGen + 1 \notin DOMAIN disk
  BY DEF MergeInv, TypeInv, TypeOK
<1>5. Runs' = Runs \cup {{parser + 1}}
  <2>1. Runs' = {disk'[f] : f \in DOMAIN disk'} \ {{}}
    BY DEF Runs
  <2>2. DOMAIN disk' = DOMAIN disk \cup {idGen + 1}
    BY <1>1
  <2>3. disk'[idGen + 1] = {parser + 1} /\ \A f \in DOMAIN disk : disk'[f] = disk[f]
    BY <1>1, <1>4
  <2>4. ASSUME NEW r PROVE r \in Runs' <=> r \in Runs \cup {{parser + 1}}
    BY <2>1, <2>2, <2>3 DEF Runs
  <2> QED BY <2>4
<1> QED BY <1>1, <1>2, <1>3, <1>5 DEF Abs!ReadBatch, Abs!Pending, Runs, Failed, Outcome

\* A merge of a group combines as many runs as the group has chunks.
LEMMA AbsMerge ==
    ASSUME MergeInv, mainPc # "done", UNCHANGED <<mainPc, result, input>>,
           NEW w \in Workers, MergeChunks(w)
    PROVE  Abs!Combine
<1> USE DEF poolVars, listVars, fileVars, mainVars
<1> DEFINE inputs == FilesOf(hand[w])
           some == {disk[g] : g \in inputs}
<1>1. /\ parser' = parser /\ exception' = exception
      /\ DOMAIN disk' = (DOMAIN disk \ inputs) \cup {idGen + 1}
      /\ disk'[idGen + 1] = UNION some
      /\ \A f \in DOMAIN disk \ inputs : f # idGen + 1 => disk'[f] = disk[f]
  BY DEF MergeChunks
<1>2. Outcome = [status |-> "none", data |-> {}] /\ Outcome' = Outcome
  <2>1. Outcome' = [status |-> "none", data |-> {}]
    BY OutcomePending DEF MergeInv, Outcome
  <2> QED BY <2>1, OutcomePending DEF MergeInv
<1>3. Failed' = Failed
  <2>1. pc[w] # "failed" /\ Moves(w, "insert")
    BY WorkerMoves DEF MergeInv
  <2>2. Calm' <=> Calm
    BY <1>1, <2>1 DEF Calm, Moves, Others
  <2> QED BY <2>2, FailedIs, FailedIsNext
<1>4. idGen + 1 \notin DOMAIN disk /\ inputs \subseteq DOMAIN disk
  BY DEF MergeInv, TypeInv, TypeOK, OwnInv, OnDisk
<1>5. /\ \A f, g \in DOMAIN disk : disk[f] = disk[g] => f = g
      /\ \A f \in DOMAIN disk : disk[f] # {}
      /\ Runs = {disk[f] : f \in DOMAIN disk}
  BY RunsApart DEF MergeInv
<1>6. some \in SUBSET Runs
  BY <1>4, <1>5
<1>7. Cardinality(some) \in 2..Units
  <2>1. Group(hand[w]) /\ IsFiniteSet(hand[w])
    BY WorkerMoves DEF MergeInv, HandInv, TypeInv
  <2> DEFINE m == [c \in hand[w] |-> disk[c.file]]
  <2>2. \A c \in hand[w] : c.file \in inputs
    BY DEF FilesOf
  <2>3. some = {disk[c.file] : c \in hand[w]}
    BY DEF FilesOf
  <2>4. \A c, d \in hand[w] : disk[c.file] = disk[d.file] => c = d
    BY <1>4, <1>5, <2>1, <2>2 DEF Group, OneRecordPerFile
  <2>5. m \in Bijection(hand[w], some)
    <3> HIDE DEF some
    <3> QED BY <2>3, <2>4 DEF Bijection, Injection, Surjection, IsInjective
  <2>6. ExistsBijection(hand[w], some)
    BY <2>5 DEF ExistsBijection
  <2> HIDE DEF some
  <2>7. Cardinality(some) = Cardinality(hand[w])
    BY <2>1, <2>6, FS_Bijection
  <2> QED BY <2>1, <2>7 DEF Group
<1>8. Runs' = (Runs \ some) \cup {UNION some}
  <2>1. UNION some # {}
    <3>1. PICK c \in hand[w] : TRUE
      BY WorkerMoves DEF MergeInv, TypeInv
    <3>2. c.file \in inputs
      BY <3>1 DEF FilesOf
    <3>3. disk[c.file] # {} /\ disk[c.file] \in some
      BY <1>4, <1>5, <3>2
    <3> QED BY <3>3
  <2> DEFINE u == UNION some
  <2>2. \A f \in DOMAIN disk \ inputs : disk'[f] = disk[f] /\ disk[f] \notin some
    BY <1>1, <1>4, <1>5
  <2> HIDE DEF u
  <2>3. disk'[idGen + 1] = u /\ u # {}
    BY <1>1, <2>1 DEF u
  <2>4. Runs' = {disk'[f] : f \in DOMAIN disk'} \ {{}}
    BY DEF Runs
  <2>5. ASSUME NEW r PROVE r \in Runs' => r \in (Runs \ some) \cup {u}
    <3> SUFFICES ASSUME r \in Runs' PROVE r \in (Runs \ some) \cup {u}
      OBVIOUS
    <3>1. PICK f \in DOMAIN disk' : r = disk'[f]
      BY <2>4
    <3>2. CASE f = idGen + 1
      BY <2>3, <3>1, <3>2
    <3>3. CASE f # idGen + 1
      <4>1. f \in DOMAIN disk \ inputs
        BY <1>1, <3>3
      <4> QED BY <1>5, <2>2, <3>1, <4>1
    <3> QED BY <3>2, <3>3
  <2>6. ASSUME NEW r, r \in (Runs \ some) \cup {u} PROVE r \in Runs'
    <3>1. CASE r = u
      BY <1>1, <2>3, <2>4, <3>1
    <3>2. CASE r \in Runs \ some
      <4>1. PICK f \in DOMAIN disk : r = disk[f]
        BY <1>5, <3>2
      <4>2. f \in DOMAIN disk \ inputs
        BY <3>2, <4>1
      <4> QED BY <1>1, <1>5, <2>2, <2>4, <4>1, <4>2
    <3> QED BY <2>6, <3>1, <3>2
  <2> QED BY <2>5, <2>6 DEF u
<1> HIDE DEF some
<1>9. \E s \in SUBSET Runs : /\ Cardinality(s) \in 2..Units
                             /\ Runs' = (Runs \ s) \cup {UNION s}
  BY <1>6, <1>7, <1>8
<1> QED BY <1>1, <1>2, <1>3, <1>9, AbsCardinality DEF Abs!Combine, Abs!Pending, Runs, Failed, Outcome

\* A failing task fails, and a failing merge loses its inputs.
LEMMA AbsFails ==
    ASSUME MergeInv, mainPc # "done", UNCHANGED <<mainPc, result, input>>,
           NEW w \in Workers, CreateChunkFails(w) \/ MergeChunksFails(w)
    PROVE  Abs!Fail
<1> USE DEF poolVars, listVars, fileVars, mainVars
<1>1. parser' = parser
  BY DEF CreateChunkFails, MergeChunksFails
<1>2. Outcome = [status |-> "none", data |-> {}] /\ Outcome' = Outcome
  <2>1. Outcome' = [status |-> "none", data |-> {}]
    BY OutcomePending DEF MergeInv, Outcome
  <2> QED BY <2>1, OutcomePending DEF MergeInv
<1>3. Failed' = TRUE
  <2>1. Moves(w, "failed")
    BY WorkerMoves DEF MergeInv
  <2>2. ~Calm'
    BY <2>1 DEF Calm, Moves
  <2> QED BY <2>2, FailedIsNext
<1>4. \E some \in SUBSET Runs : Runs' = Runs \ some
  <2>1. CASE CreateChunkFails(w)
    <3>1. disk' = disk
      BY <2>1 DEF CreateChunkFails
    <3>2. Runs' = Runs \ {}
      BY <3>1 DEF Runs
    <3> QED BY <3>2
  <2>2. CASE MergeChunksFails(w)
    <3> DEFINE some == {disk[g] : g \in FilesOf(hand[w])}
    <3>1. /\ DOMAIN disk' = DOMAIN disk \ FilesOf(hand[w])
          /\ \A f \in DOMAIN disk' : disk'[f] = disk[f]
      BY <2>2 DEF MergeChunksFails
    <3>2. /\ \A f, g \in DOMAIN disk : disk[f] = disk[g] => f = g
          /\ \A f \in DOMAIN disk : disk[f] # {}
          /\ Runs = {disk[f] : f \in DOMAIN disk}
      BY RunsApart DEF MergeInv
    <3>3. FilesOf(hand[w]) \subseteq DOMAIN disk
      BY DEF MergeInv, OwnInv, OnDisk
    <3>4. some \in SUBSET Runs
      BY <3>2, <3>3
    <3>5. Runs' = {disk'[f] : f \in DOMAIN disk'} \ {{}}
      BY DEF Runs
    <3>6. ASSUME NEW r, r \in Runs' PROVE r \in Runs \ some
      <4>1. PICK f \in DOMAIN disk' : r = disk'[f]
        BY <3>5, <3>6
      <4>2. f \in DOMAIN disk \ FilesOf(hand[w]) /\ r = disk[f]
        BY <3>1, <4>1
      <4> QED BY <3>2, <3>3, <4>2
    <3>7. ASSUME NEW r, r \in Runs \ some PROVE r \in Runs'
      <4>1. PICK f \in DOMAIN disk : r = disk[f]
        BY <3>2, <3>7
      <4>2. f \notin FilesOf(hand[w])
        BY <3>7, <4>1
      <4>3. f \in DOMAIN disk' /\ disk'[f] = r /\ r # {}
        BY <3>1, <3>2, <4>1, <4>2
      <4> QED BY <3>5, <4>3
    <3>8. Runs' = Runs \ some
      BY <3>6, <3>7
    <3> QED BY <3>4, <3>8
  <2> QED BY <2>1, <2>2
<1> QED BY <1>1, <1>2, <1>3, <1>4 DEF Abs!Fail, Abs!Pending, Runs, Failed, Outcome

\* Joining the workers returns an error, or the one run there is.
LEMMA AbsReturn ==
    ASSUME MergeInv, JoinAndReturn
    PROVE  Abs!Return
<1> USE DEF poolVars, listVars, fileVars, mainVars
<1>1. /\ mainPc = "join" /\ \A v \in Workers : pc[v] = "done"
      /\ UNCHANGED <<exception, chunks, hand, tasks, input, parser, pc>>
  BY DEF JoinAndReturn
<1>2. Outcome = [status |-> "none", data |-> {}]
  BY <1>1, OutcomePending DEF MergeInv
<1>3. Failed' = Failed /\ Failed = (exception # "none")
  BY <1>1 DEF Failed, At
<1>4. CASE exception # "none"
  <2>1. result' = [status |-> "error", file |-> 0] /\ disk' = disk
    BY <1>4 DEF JoinAndReturn
  <2>2. Outcome' = [status |-> "error", data |-> {}]
    BY <2>1 DEF Outcome
  <2>3. Runs' = Runs
    BY <2>1 DEF Runs
  <2> QED BY <1>1, <1>2, <1>3, <1>4, <2>2, <2>3
          DEF Abs!Return, Abs!Pending, Abs!Error, Runs, Failed, Outcome
<1>5. CASE exception = "none"
  <2>1. /\ parser = input /\ Cardinality(chunks) <= 1 /\ Held = chunks
        /\ \A c \in chunks : c.file \in DOMAIN disk /\ disk[c.file] \subseteq 1..input
    BY <1>1, <1>5, AtTheJoin
  <2>2. DOMAIN disk \subseteq FilesOf(chunks)
    BY <1>1, <1>5, <2>1 DEF MergeInv, ContentInv, Calm
  <2>3. ~(Cardinality(chunks) > 1)
    <3>1. Cardinality(chunks) \in Nat
      BY FS_CardinalityType DEF MergeInv, TypeInv
    <3> QED BY <2>1, <3>1
  <2>4. /\ Runs = {disk[f] : f \in DOMAIN disk}
        /\ \A f \in DOMAIN disk : disk[f] # {}
    BY <1>1, RunsApart DEF MergeInv
  <2>5. /\ Runs' = Runs /\ Cardinality(Runs) <= 1
        /\ Outcome' = [status |-> "ok", data |-> UNION Runs]
    <3>1. CASE chunks = {}
      <4>1. DOMAIN disk = {}
        BY <2>2, <3>1 DEF FilesOf
      <4>2. Runs = {}
        BY <2>4, <4>1
      <4>3. result' = [status |-> "ok", file |-> idGen + 1]
            /\ disk' = [f \in {idGen + 1} |-> {}]
        <5>1. DOMAIN disk \cup {idGen + 1} = {idGen + 1}
          BY <4>1
        <5>2. result' = [status |-> "ok", file |-> idGen']
              /\ disk' = [f \in DOMAIN disk \cup {idGen'} |-> IF f = idGen' THEN {} ELSE disk[f]]
              /\ idGen' = idGen + 1
          BY <1>5, <2>3, <3>1 DEF JoinAndReturn
        <5>3. disk' = [f \in {idGen + 1} |-> IF f = idGen + 1 THEN {} ELSE disk[f]]
          BY <5>1, <5>2
        <5>4. [f \in {idGen + 1} |-> IF f = idGen + 1 THEN {} ELSE disk[f]]
                 = [f \in {idGen + 1} |-> {}]
          OBVIOUS
        <5> QED BY <5>2, <5>3, <5>4
      <4>4. Runs' = {}
        BY <4>3 DEF Runs
      <4>5. Outcome' = [status |-> "ok", data |-> {}]
        BY <4>3 DEF Outcome
      <4>6. UNION Runs = {} /\ Cardinality(Runs) = 0
        BY <4>2, FS_EmptySet
      <4> QED BY <4>2, <4>4, <4>5, <4>6
    <3>2. CASE chunks # {}
      <4>1. PICK c \in chunks : chunks = {c} /\ result' = [status |-> "ok", file |-> c.file]
        BY <1>5, <2>3, <3>2 DEF JoinAndReturn
      <4>2. disk' = disk
        BY <1>5, <2>3, <3>2 DEF JoinAndReturn
      <4>3. DOMAIN disk = {c.file}
        BY <2>1, <2>2, <4>1 DEF FilesOf
      <4>4. Runs = {disk[c.file]}
        BY <2>4, <4>3
      <4>5. Runs' = Runs
        BY <4>2 DEF Runs
      <4>6. Outcome' = [status |-> "ok", data |-> disk[c.file]]
        BY <4>1, <4>2 DEF Outcome
      <4>7. UNION Runs = disk[c.file] /\ Cardinality(Runs) = 1
        BY <4>4, FS_Singleton
      <4>8. Cardinality(Runs) <= 1
        BY <4>7
      <4>9. Outcome' = [status |-> "ok", data |-> UNION Runs]
        BY <4>6, <4>7
      <4> QED BY <4>5, <4>8, <4>9
    <3> QED BY <3>1, <3>2
  <2> QED BY <1>1, <1>2, <1>3, <1>5, <2>1, <2>5, AbsCardinality
          DEF Abs!Return, Abs!Pending, Runs, Failed, Outcome
<1> QED BY <1>4, <1>5

\* Everything else is invisible: the queue, the locks, the wakeups.
LEMMA AbsStutter ==
    ASSUME MergeInv, UNCHANGED <<input, parser, disk, result>>, Calm' <=> Calm
    PROVE  UNCHANGED Abs!absVars
<1>1. Failed' = Failed
  BY FailedIs, FailedIsNext
<1>2. Runs' = Runs /\ Outcome' = Outcome
  BY DEF Runs, Outcome
<1> QED BY <1>1, <1>2 DEF Abs!absVars, Runs, Failed, Outcome

LEMMA AbsWorker ==
    ASSUME MergeInv, NEW w \in Workers, HandleWorker(w) \/ SpuriousWakeup(w)
    PROVE  [Abs!Next]_(Abs!absVars)
<1> USE DEF poolVars, listVars, fileVars, mainVars
<1>1. mainPc # "done" /\ UNCHANGED <<mainPc, result, input>>
  <2>1. pc[w] # "done"
    BY WorkerMoves DEF HandleWorker, PopTask, RunTask, MergeInv
  <2> QED BY <2>1, WorkerKeeps DEF MergeInv, FlowInv
<1>2. CASE CreateChunk(w)
  BY <1>1, <1>2, AbsCreate DEF Abs!Next
<1>3. CASE MergeChunks(w)
  BY <1>1, <1>3, AbsMerge DEF Abs!Next
<1>4. CASE CreateChunkFails(w) \/ MergeChunksFails(w)
  BY <1>1, <1>4, AbsFails DEF Abs!Next
<1>5. CASE ~(CreateChunk(w) \/ MergeChunks(w) \/ CreateChunkFails(w) \/ MergeChunksFails(w))
  <2>1. UNCHANGED <<disk, parser>>
    BY <1>5 DEF HandleWorker, PopTask, RunTask, WaitTask, SpuriousWakeup, Quit, TakeTask,
       CreateChunkEnd, Complete, ReleasePool, PushCreateTask,
       InsertChunk, FindNothing, FindChunks, UnlockChunks, PushMergeTask,
       RecordException, ClosePool
  <2>2. Calm' => Calm
    BY CalmBack DEF MergeInv
  <2>3. Calm => Calm'
    <3> SUFFICES ASSUME Calm PROVE Calm'
      OBVIOUS
    <3>1. ~RecordException(w)
      BY DEF RecordException, Calm
    <3>2. exception' = exception
      BY <1>5, <3>1 DEF HandleWorker, PopTask, RunTask, WaitTask, SpuriousWakeup, Quit, TakeTask,
         CreateChunkEnd, Complete, ReleasePool, PushCreateTask,
         InsertChunk, FindNothing, FindChunks, UnlockChunks, PushMergeTask, ClosePool
    <3>3. ASSUME TakeTask(w) PROVE pc'[w] # "failed"
      <4>1. tasks \in Seq(Task) /\ tasks # <<>>
        BY <3>3 DEF TakeTask, MergeInv, TypeInv, TypeOK
      <4>2. tasks[Len(tasks)] \in Task /\ pc'[w] = tasks[Len(tasks)].type
        BY <3>3, <4>1, TasksPopped, WorkerMoves DEF Moves, MergeInv
      <4> QED BY <4>2 DEF Task
    <3>4. Others(w) /\ pc'[w] # "failed"
      BY <1>5, <3>1, <3>3, WorkerMoves DEF HandleWorker, PopTask, RunTask, Moves, MergeInv
    <3> QED BY <3>2, <3>4 DEF Calm, Others
  <2> QED BY <1>1, <2>1, <2>2, <2>3, AbsStutter
<1> QED BY <1>2, <1>3, <1>4, <1>5

LEMMA AbsStep == MergeInv /\ [Next]_vars => [Abs!Next]_(Abs!absVars)
<1> SUFFICES ASSUME MergeInv, [Next]_vars PROVE [Abs!Next]_(Abs!absVars)
  OBVIOUS
<1> USE DEF vars, poolVars, listVars, fileVars, mainVars
<1>1. CASE UNCHANGED vars
  BY <1>1, AbsStutter DEF Calm
<1>2. ASSUME NEW w \in Workers, HandleWorker(w) \/ SpuriousWakeup(w)
      PROVE  [Abs!Next]_(Abs!absVars)
  BY <1>2, AbsWorker
<1>3. CASE PushFirstTask
  <2>1. UNCHANGED <<input, parser, disk, result, exception>>
    BY <1>3 DEF PushFirstTask
  <2>2. Calm' <=> Calm
    BY <1>3, <2>1, MainMoves DEF Calm, MergeInv
  <2> QED BY <2>1, <2>2, AbsStutter
<1>4. CASE JoinAndReturn
  BY <1>4, AbsReturn DEF Abs!Next
<1>5. CASE Terminated
  BY <1>1, <1>5 DEF Terminated
<1> QED BY <1>1, <1>2, <1>3, <1>4, <1>5 DEF Next, PushAndJoin

\* Every step of the pool is one of ExternalMerge or none of its business: what the
\* threads do with the queue, the list and the locks never shows in the runs, the
\* failures or the result but as reading a batch, combining two to Units runs,
\* failing, or returning (kmerger.hpp:83-293).  This is ImplementsExternalMerge
\* without the fairness.
THEOREM StepsRefine == Spec => Abs!Init /\ [][Abs!Next]_(Abs!absVars)
BY AbsInit, AbsStep, MergeInvHolds, PTL DEF Spec

-----------------------------------------------------------------------------
(* No merge is forgotten while the input lasts.                            *)

Level(chs, l) == {c \in chs : c.layer = l}

\* The full groups of a list: a layer, and the number of a group within it.
FullGroups(m, chs) == {g \in (0..m) \X (1..Cardinality(chs)) :
                          g[2] * Units <= Cardinality(Level(chs, g[1]))}

\* The list knows its layers, and what is inserted is one chunk.
LayerInv ==
    /\ \A c \in chunks : c.layer <= maxLayer
    /\ \A w \in Workers : pc[w] = "insert" => \E c \in Chunk : hand[w] = {c}

LEMMA LevelFinite ==
    ASSUME NEW chs, IsFiniteSet(chs), NEW l
    PROVE  /\ IsFiniteSet(Level(chs, l)) /\ Level(chs, l) \in SUBSET chs
           /\ Cardinality(Level(chs, l)) \in Nat /\ Cardinality(chs) \in Nat
           /\ Cardinality(Level(chs, l)) <= Cardinality(chs)
<1>1. Level(chs, l) \in SUBSET chs
  BY DEF Level
<1> QED BY <1>1, FS_Subset, FS_CardinalityType

\* The bounds of FullGroups leave no group out.
LEMMA GroupIs ==
    ASSUME NEW chs \in SUBSET Chunk, IsFiniteSet(chs), NEW m \in Nat,
           \A c \in chs : c.layer <= m
    PROVE  /\ IsFiniteSet(FullGroups(m, chs)) /\ Cardinality(FullGroups(m, chs)) \in Nat
           /\ \A g \in FullGroups(m, chs) : \E l \in Nat, k \in Nat \ {0} : g = <<l, k>>
           /\ \A l \in Nat, k \in Nat \ {0} :
                 <<l, k>> \in FullGroups(m, chs) <=> k * Units <= Cardinality(Level(chs, l))
<1>0. Units \in Nat /\ Units >= 2
  BY KMergerAssumption
<1>1. Cardinality(chs) \in Nat
  BY FS_CardinalityType
<1>2. IsFiniteSet(FullGroups(m, chs)) /\ Cardinality(FullGroups(m, chs)) \in Nat
  <2>1. IsFiniteSet(0..m) /\ IsFiniteSet(1..Cardinality(chs))
    BY <1>1, FS_Interval
  <2>2. IsFiniteSet((0..m) \X (1..Cardinality(chs)))
    BY <2>1, FS_Product
  <2>3. FullGroups(m, chs) \in SUBSET ((0..m) \X (1..Cardinality(chs)))
    BY DEF FullGroups
  <2> QED BY <2>2, <2>3, FS_Subset, FS_CardinalityType
<1>3. \A g \in FullGroups(m, chs) : \E l \in Nat, k \in Nat \ {0} : g = <<l, k>>
  BY <1>1 DEF FullGroups
<1>4. ASSUME NEW l \in Nat, NEW k \in Nat \ {0}
      PROVE  <<l, k>> \in FullGroups(m, chs) <=> k * Units <= Cardinality(Level(chs, l))
  <2>1. ASSUME k * Units <= Cardinality(Level(chs, l))
        PROVE  l \in 0..m /\ k \in 1..Cardinality(chs)
    <3>1. k <= k * Units /\ k * Units \in Nat
      BY <1>0
    <3>2. Cardinality(Level(chs, l)) \in Nat /\ Cardinality(Level(chs, l)) <= Cardinality(chs)
          /\ IsFiniteSet(Level(chs, l))
      BY LevelFinite
    <3>3. k <= Cardinality(chs) /\ Cardinality(Level(chs, l)) # 0
      BY <1>1, <2>1, <3>1, <3>2
    <3>4. PICK c \in Level(chs, l) : TRUE
      BY <3>2, <3>3, FS_EmptySet
    <3>5. c \in chs /\ c.layer = l
      BY <3>4 DEF Level
    <3> QED BY <1>1, <3>3, <3>5
  <2> QED BY <2>1 DEF FullGroups
<1> QED BY <1>2, <1>3, <1>4

\* One more chunk completes one group at most.
LEMMA GroupsInserted ==
    ASSUME NEW chs \in SUBSET Chunk, IsFiniteSet(chs), NEW m \in Nat,
           \A c \in chs : c.layer <= m,
           NEW d \in Chunk, NEW n \in Nat, m <= n, d.layer <= n
    PROVE  Cardinality(FullGroups(n, chs \cup {d})) <= Cardinality(FullGroups(m, chs)) + 1
<1> DEFINE more == chs \cup {d}
           old == FullGroups(m, chs)
           new == FullGroups(n, more)
           size == Cardinality(Level(chs, d.layer))
<1>0. Units \in Nat /\ Units >= 2 /\ d.layer \in Nat
  BY KMergerAssumption DEF Chunk
<1>1. more \in SUBSET Chunk /\ IsFiniteSet(more) /\ \A c \in more : c.layer <= n
  <2>1. \A c \in chs : c.layer \in Nat
    BY DEF Chunk
  <2> QED BY <2>1, FS_AddElement
<1>2. \A l \in Nat \ {d.layer} : Level(more, l) = Level(chs, l)
  BY DEF Level
<1>3. size \in Nat /\ IsFiniteSet(Level(chs, d.layer))
  BY LevelFinite
<1>4. Cardinality(Level(more, d.layer)) \in {size, size + 1}
  <2>1. Level(more, d.layer) = Level(chs, d.layer) \cup {d}
    BY DEF Level
  <2> QED BY <1>3, <2>1, FS_AddElement
<1>5. /\ IsFiniteSet(old) /\ Cardinality(old) \in Nat
      /\ \A l \in Nat, k \in Nat \ {0} : <<l, k>> \in old <=> k * Units <= Cardinality(Level(chs, l))
  BY GroupIs
<1>6. /\ IsFiniteSet(new) /\ Cardinality(new) \in Nat
      /\ \A g \in new : \E l \in Nat, k \in Nat \ {0} : g = <<l, k>>
      /\ \A l \in Nat, k \in Nat \ {0} : <<l, k>> \in new <=> k * Units <= Cardinality(Level(more, l))
  <2> HIDE DEF more
  <2> QED BY <1>1, GroupIs
<1> HIDE DEF more, old, new, size
<1>7. ASSUME NEW l \in Nat, NEW k \in Nat \ {0}, <<l, k>> \in new, <<l, k>> \notin old
      PROVE  l = d.layer /\ k * Units = size + 1
  <2>1. l = d.layer
    BY <1>2, <1>5, <1>6, <1>7
  <2>2. k * Units <= Cardinality(Level(more, l)) /\ ~(k * Units <= Cardinality(Level(chs, l)))
    BY <1>5, <1>6, <1>7
  <2>3. k * Units \in Nat
    BY <1>0
  <2>4. Cardinality(Level(chs, l)) = size
    BY <2>1 DEF size
  <2> QED BY <1>3, <1>4, <2>1, <2>2, <2>3, <2>4
<1>8. \E x : new \subseteq old \cup {x}
  <2>1. CASE new \subseteq old
    BY <2>1
  <2>2. CASE ~(new \subseteq old)
    <3>1. PICK x \in new : x \notin old
      BY <2>2
    <3>2. PICK l \in Nat, k \in Nat \ {0} : x = <<l, k>>
      BY <1>6, <3>1
    <3>3. l = d.layer /\ k * Units = size + 1
      BY <1>7, <3>1, <3>2
    <3>4. ASSUME NEW y \in new, y \notin old PROVE y = x
      <4>1. PICK i \in Nat, j \in Nat \ {0} : y = <<i, j>>
        BY <1>6, <3>4
      <4>2. i = d.layer /\ j * Units = size + 1
        BY <1>7, <3>4, <4>1
      <4>3. j = k
        <5>1. j * Units = k * Units
          BY <3>3, <4>2
        <5>2. CASE j < k
          <6>1. j + 1 <= k
            BY <5>2
          <6>2. (j + 1) * Units <= k * Units
            BY <1>0, <6>1
          <6>3. (j + 1) * Units = j * Units + Units
            BY <1>0
          <6> QED BY <1>0, <5>1, <6>2, <6>3
        <5>3. CASE k < j
          <6>1. k + 1 <= j
            BY <5>3
          <6>2. (k + 1) * Units <= j * Units
            BY <1>0, <6>1
          <6>3. (k + 1) * Units = k * Units + Units
            BY <1>0
          <6> QED BY <1>0, <5>1, <6>2, <6>3
        <5> QED BY <5>2, <5>3
      <4> QED BY <3>2, <3>3, <4>1, <4>2, <4>3
    <3> QED BY <3>4
  <2> QED BY <2>1, <2>2
<1>9. PICK x : new \subseteq old \cup {x}
  BY <1>8
<1>10. /\ IsFiniteSet(old \cup {x})
       /\ Cardinality(old \cup {x}) \in {Cardinality(old), Cardinality(old) + 1}
  BY <1>5, FS_AddElement
<1>11. Cardinality(new) <= Cardinality(old \cup {x})
  BY <1>9, <1>10, FS_Subset
<1>12. Cardinality(new) <= Cardinality(old) + 1
  BY <1>5, <1>6, <1>10, <1>11
<1> QED BY <1>12 DEF new, old, more

\* Taking a group away leaves one full group less.
LEMMA GroupsTaken ==
    ASSUME NEW chs \in SUBSET Chunk, IsFiniteSet(chs), NEW m \in Nat,
           \A c \in chs : c.layer <= m,
           NEW l \in Nat, NEW ch \in UnitsOf(Level(chs, l))
    PROVE  Cardinality(FullGroups(m, chs \ ch)) + 1 <= Cardinality(FullGroups(m, chs))
<1> DEFINE less == chs \ ch
           old == FullGroups(m, chs)
           new == FullGroups(m, less)
           size == Cardinality(Level(chs, l))
           S == {k \in 1..size : k * Units <= size}
<1>0. Units \in Nat /\ Units >= 2
  BY KMergerAssumption
<1>1. less \in SUBSET Chunk /\ IsFiniteSet(less) /\ \A c \in less : c.layer <= m
  BY FS_Subset
<1>2. size \in Nat /\ IsFiniteSet(Level(chs, l))
  BY LevelFinite
<1>3. ch \in SUBSET Level(chs, l) /\ Cardinality(ch) = Units
  BY DEF UnitsOf
<1>4. Units <= size
  BY <1>2, <1>3, FS_Subset
<1>5. Cardinality(Level(less, l)) = size - Units
  <2>1. Level(less, l) = Level(chs, l) \ ch /\ Level(chs, l) \cap ch = ch
    BY <1>3 DEF Level
  <2> QED BY <1>2, <1>3, <2>1, FS_Difference, ZenonT(60)
<1>6. \A i \in Nat : Cardinality(Level(less, i)) <= Cardinality(Level(chs, i))
  <2> TAKE i \in Nat
  <2>1. Level(less, i) \in SUBSET Level(chs, i)
    BY DEF Level
  <2> QED BY <2>1, LevelFinite, FS_Subset
<1>7. /\ IsFiniteSet(old) /\ Cardinality(old) \in Nat
      /\ \A i \in Nat, k \in Nat \ {0} : <<i, k>> \in old <=> k * Units <= Cardinality(Level(chs, i))
  BY GroupIs
<1>8. /\ IsFiniteSet(new) /\ Cardinality(new) \in Nat
      /\ \A g \in new : \E i \in Nat, k \in Nat \ {0} : g = <<i, k>>
      /\ \A i \in Nat, k \in Nat \ {0} : <<i, k>> \in new <=> k * Units <= Cardinality(Level(less, i))
  <2> HIDE DEF less
  <2> QED BY <1>1, GroupIs
<1>9. \A i \in Nat : Cardinality(Level(less, i)) \in Nat /\ Cardinality(Level(chs, i)) \in Nat
  BY <1>1, LevelFinite
<1>10. S \in SUBSET Nat /\ IsFiniteSet(S) /\ 1 \in S
  <2>1. IsFiniteSet(1..size)
    BY <1>2, FS_Interval
  <2>2. S \in SUBSET (1..size)
    OBVIOUS
  <2>3. 1 \in S
    BY <1>0, <1>2, <1>4
  <2>4. S \in SUBSET Nat
    OBVIOUS
  <2> HIDE DEF S
  <2> QED BY <2>1, <2>2, <2>3, <2>4, FS_Subset
<1> DEFINE K == MaxOf(S)
<1>11. K \in S /\ \A k \in S : k <= K
  <2> HIDE DEF S
  <2> QED BY <1>10, MaxOfFinite
<1> HIDE DEF K
<1>12. K \in 1..size /\ K * Units <= size
  BY <1>11
<1>13. ~(K * Units <= size - Units)
  <2> SUFFICES ASSUME K * Units <= size - Units PROVE FALSE
    OBVIOUS
  <2>1. (K + 1) * Units = K * Units + Units /\ K * Units \in Nat /\ (K + 1) * Units \in Nat
    BY <1>0, <1>12
  <2>2. (K + 1) * Units <= size
    BY <1>0, <1>2, <2>1
  <2>3. K + 1 <= (K + 1) * Units
    BY <1>0, <1>12
  <2>4. K + 1 \in 1..size
    BY <1>2, <1>12, <2>1, <2>2, <2>3
  <2>5. K + 1 \in S
    BY <2>2, <2>4
  <2> QED BY <1>11, <1>12, <2>5
<1> HIDE DEF less, old, new, size, S
<1>14. <<l, K>> \in old /\ <<l, K>> \notin new
  <2>1. K \in Nat \ {0}
    BY <1>2, <1>12
  <2> QED BY <1>5, <1>7, <1>8, <1>12, <1>13, <2>1 DEF size
<1>15. new \subseteq old
  <2> SUFFICES ASSUME NEW g \in new PROVE g \in old
    OBVIOUS
  <2>1. PICK i \in Nat, k \in Nat \ {0} : g = <<i, k>>
    BY <1>8
  <2>2. k * Units <= Cardinality(Level(less, i)) /\ k * Units \in Nat
    BY <1>0, <1>8, <2>1
  <2>3. k * Units <= Cardinality(Level(chs, i))
    BY <1>6, <1>9, <2>2
  <2> QED BY <1>7, <2>1, <2>3
<1>16. new \in SUBSET (old \ {<<l, K>>})
  BY <1>14, <1>15
<1>17. IsFiniteSet(old \ {<<l, K>>}) /\ Cardinality(old \ {<<l, K>>}) = Cardinality(old) - 1
  BY <1>7, <1>14, FS_RemoveElement
<1>18. Cardinality(new) <= Cardinality(old \ {<<l, K>>})
  BY <1>16, <1>17, FS_Subset
<1>19. Cardinality(new) + 1 <= Cardinality(old)
  BY <1>7, <1>8, <1>17, <1>18
<1> QED BY <1>19 DEF new, old, less

\* The hands of the other workers, and where "insert" comes from.
LEMMA InsertComesFrom ==
    ASSUME TypeInv, NEW w \in Workers, HandleWorker(w) \/ SpuriousWakeup(w)
    PROVE  /\ \A v \in Workers : v # w => hand'[v] = hand[v] /\ (pc'[v] = pc[v] \/ pc'[v] = "pop")
           /\ pc'[w] = "insert" => CreateChunk(w) \/ MergeChunks(w)
<1> USE DEF poolVars, listVars, fileVars, mainVars
<1>0. hand \in [Workers -> SUBSET Chunk]
  BY DEF TypeInv, TypeOK
<1>1. \A v \in Workers : v # w => hand'[v] = hand[v]
  BY <1>0 DEF HandleWorker, PopTask, RunTask, WaitTask, SpuriousWakeup, Quit, TakeTask,
     CreateChunk, CreateChunkFails, CreateChunkEnd, Complete, ReleasePool, PushCreateTask,
     MergeChunks, MergeChunksFails, InsertChunk, FindNothing, FindChunks, UnlockChunks,
     PushMergeTask, RecordException, ClosePool
<1>2. Others(w)
  BY WorkerMoves DEF HandleWorker, PopTask, RunTask, Moves
<1>3. ASSUME TakeTask(w) PROVE pc'[w] # "insert"
  <2>1. tasks \in Seq(Task) /\ tasks # <<>>
    BY <1>3 DEF TakeTask, TypeInv, TypeOK
  <2>2. tasks[Len(tasks)] \in Task /\ pc'[w] = tasks[Len(tasks)].type
    BY <1>3, <2>1, TasksPopped, WorkerMoves DEF Moves
  <2> QED BY <2>2 DEF Task
<1>4. pc'[w] = "insert" => CreateChunk(w) \/ MergeChunks(w)
  BY <1>3, WorkerMoves DEF HandleWorker, PopTask, RunTask, Moves
<1> QED BY <1>1, <1>2, <1>4 DEF Others

LEMMA LayerStep == TypeInv /\ LayerInv /\ [Next]_vars => LayerInv'
<1> SUFFICES ASSUME TypeInv, LayerInv, [Next]_vars PROVE LayerInv'
  OBVIOUS
<1> USE DEF vars, poolVars, listVars, fileVars, mainVars
<1>1. CASE UNCHANGED vars \/ Terminated
  BY <1>1 DEF Terminated, LayerInv
<1>2. ASSUME NEW w \in Workers, HandleWorker(w) \/ SpuriousWakeup(w) PROVE LayerInv'
  <2>1. \A c \in chunks' : c.layer <= maxLayer'
    <3>1. CASE InsertChunk(w)
      <4>1. PICK d \in Chunk : hand[w] = {d}
        BY <3>1 DEF LayerInv, InsertChunk
      <4> DEFINE S == {maxLayer} \cup LayersOf(hand[w])
      <4>2. chunks' = chunks \cup {d} /\ maxLayer' = MaxOf(S)
        BY <3>1, <4>1 DEF InsertChunk
      <4>3. S = {maxLayer} \cup {d.layer} /\ d.layer \in Nat /\ maxLayer \in Nat
        BY <4>1 DEF LayersOf, Chunk, TypeInv, TypeOK
      <4>4. IsFiniteSet(S) /\ S \in SUBSET Nat /\ S # {}
        BY <4>3, FS_Singleton, FS_AddElement
      <4> HIDE DEF S
      <4>5. \A n \in S : n <= MaxOf(S)
        BY <4>4, MaxOfFinite
      <4>6. MaxOf(S) \in Nat /\ maxLayer <= MaxOf(S) /\ d.layer <= MaxOf(S)
        BY <4>3, <4>4, <4>5, MaxOfFinite
      <4>7. \A c \in chunks : c.layer \in Nat /\ c.layer <= maxLayer
        BY DEF LayerInv, TypeInv, TypeOK, Chunk
      <4> QED BY <4>2, <4>3, <4>6, <4>7
    <3>2. CASE ~InsertChunk(w)
      <4>1. chunks' \subseteq chunks /\ maxLayer' = maxLayer
        BY <1>2, <3>2 DEF HandleWorker, PopTask, RunTask, WaitTask, SpuriousWakeup, Quit, TakeTask,
           CreateChunk, CreateChunkFails, CreateChunkEnd, Complete, ReleasePool, PushCreateTask,
           MergeChunks, MergeChunksFails, FindNothing, FindChunks, UnlockChunks,
           PushMergeTask, RecordException, ClosePool
      <4> QED BY <4>1 DEF LayerInv
    <3> QED BY <3>1, <3>2
  <2>2. ASSUME NEW v \in Workers, pc'[v] = "insert" PROVE \E c \in Chunk : hand'[v] = {c}
    <3>1. CASE v = w
      <4>1. CreateChunk(w) \/ MergeChunks(w)
        BY <1>2, <2>2, <3>1, InsertComesFrom
      <4>2. PICK c : hand' = [hand EXCEPT ![w] = {c}]
        BY <4>1 DEF CreateChunk, MergeChunks
      <4>3. hand'[w] = {c} /\ hand' \in [Workers -> SUBSET Chunk]
        <5>1. TypeInv'
          BY <4>1, TypeFiles
        <5>2. hand' \in [Workers -> SUBSET Chunk]
          BY <5>1 DEF TypeInv, TypeOK
        <5> QED BY <4>2, <5>2 DEF TypeInv, TypeOK
      <4> QED BY <3>1, <4>3
    <3>2. CASE v # w
      <4>1. pc[v] = "insert" /\ hand'[v] = hand[v]
        BY <1>2, <2>2, <3>2, InsertComesFrom
      <4> QED BY <4>1 DEF LayerInv
    <3> QED BY <3>1, <3>2
  <2> QED BY <2>1, <2>2 DEF LayerInv
<1>3. CASE PushAndJoin
  <2>1. UNCHANGED <<chunks, maxLayer, hand>>
    BY <1>3 DEF PushAndJoin, PushFirstTask, JoinAndReturn
  <2>2. \A v \in Workers : pc'[v] = pc[v] \/ pc'[v] = "pop"
    BY <1>3, MainMoves DEF PushAndJoin
  <2> QED BY <2>1, <2>2 DEF LayerInv
<1> QED BY <1>1, <1>2, <1>3 DEF Next

\* The workers that have still to search the list.
Searchers == At({"pushCreate", "find"})

LEMMA GroupsSearchedIs ==
    FullGroupsSearched <=>
        (~completed => Cardinality(FullGroups(maxLayer, chunks)) <= Cardinality(Searchers))
BY DEF FullGroupsSearched, FullGroups, Level, AtLayer, Searchers

LEMMA GroupsSearchedIsNext ==
    FullGroupsSearched' <=>
        (~completed' => Cardinality(FullGroups(maxLayer', chunks')) <= Cardinality(Searchers'))
BY DEF FullGroupsSearched, FullGroups, Level, AtLayer, Searchers

LEMMA SearchersFinite ==
    /\ IsFiniteSet(Searchers) /\ Cardinality(Searchers) \in Nat
    /\ IsFiniteSet(Searchers') /\ Cardinality(Searchers') \in Nat
<1>1. Searchers \in SUBSET Workers /\ Searchers' \in SUBSET Workers
  BY DEF Searchers, At
<1> QED BY <1>1, FS_Subset, FS_CardinalityType, KMergerAssumption

\* Steps that leave the list and keep the searchers.
LEMMA GroupsKept ==
    ASSUME FullGroupsSearched, UNCHANGED <<chunks, maxLayer>>, completed => completed',
           Searchers \subseteq Searchers', TypeInv, LayerInv
    PROVE  FullGroupsSearched'
<1>1. Cardinality(Searchers) <= Cardinality(Searchers')
  BY SearchersFinite, FS_Subset
<1>2. Cardinality(FullGroups(maxLayer, chunks)) \in Nat
  BY GroupIs DEF TypeInv, TypeOK, LayerInv
<1>3. Cardinality(Searchers) \in Nat /\ Cardinality(Searchers') \in Nat
  BY SearchersFinite
<1>4. Cardinality(FullGroups(maxLayer', chunks')) = Cardinality(FullGroups(maxLayer, chunks))
  OBVIOUS
<1> QED BY <1>1, <1>2, <1>3, <1>4, GroupsSearchedIs, GroupsSearchedIsNext

LEMMA GroupsWorker ==
    ASSUME TypeInv, LayerInv, FullGroupsSearched, NEW w \in Workers,
           HandleWorker(w) \/ SpuriousWakeup(w)
    PROVE  FullGroupsSearched'
<1> USE DEF poolVars, listVars, fileVars, mainVars
<1>0. /\ chunks \in SUBSET Chunk /\ IsFiniteSet(chunks) /\ maxLayer \in Nat
      /\ \A c \in chunks : c.layer <= maxLayer
      /\ Cardinality(FullGroups(maxLayer, chunks)) \in Nat
  <2>1. /\ chunks \in SUBSET Chunk /\ IsFiniteSet(chunks) /\ maxLayer \in Nat
        /\ \A c \in chunks : c.layer <= maxLayer
    BY DEF TypeInv, TypeOK, LayerInv
  <2> QED BY <2>1, GroupIs
<1>1. CASE InsertChunk(w)
  <2>1. completed' = completed /\ pc[w] = "insert"
    BY <1>1 DEF InsertChunk
  <2>2. PICK d \in Chunk : hand[w] = {d}
    BY <2>1 DEF LayerInv
  <2> DEFINE S == {maxLayer} \cup LayersOf(hand[w])
  <2>3. chunks' = chunks \cup {d} /\ maxLayer' = MaxOf(S)
    BY <1>1, <2>2 DEF InsertChunk
  <2>4. S = {maxLayer} \cup {d.layer} /\ d.layer \in Nat
    BY <2>2 DEF LayersOf, Chunk
  <2>5. IsFiniteSet(S) /\ S \in SUBSET Nat /\ S # {}
    BY <1>0, <2>4, FS_Singleton, FS_AddElement
  <2> HIDE DEF S
  <2>6. MaxOf(S) \in Nat /\ maxLayer <= MaxOf(S) /\ d.layer <= MaxOf(S)
    BY <2>4, <2>5, MaxOfFinite
  <2>7. Cardinality(FullGroups(maxLayer', chunks')) <= Cardinality(FullGroups(maxLayer, chunks)) + 1
    BY <1>0, <2>3, <2>6, GroupsInserted
  <2>8. Searchers' = Searchers \cup {w} /\ w \notin Searchers
    <3>1. /\ pc[w] = "insert" /\ pc'[w] \in {"pushCreate", "find"}
          /\ \A v \in Workers : v # w => pc'[v] = pc[v] \/ (pc[v] = "wait" /\ pc'[v] = "pop")
      BY <1>1, WorkerMoves DEF Others
    <3> QED BY <3>1 DEF Searchers, At
  <2>9. Cardinality(Searchers') = Cardinality(Searchers) + 1 /\ Cardinality(Searchers) \in Nat
    BY <2>8, SearchersFinite, FS_AddElement
  <2>10. Cardinality(FullGroups(maxLayer', chunks')) \in Nat
    <3>1. TypeInv'
      BY <1>1, TypeList
    <3>2. LayerInv'
      BY <1>1, LayerStep DEF Next, HandleWorker, RunTask
    <3> QED BY <3>1, <3>2, GroupIs DEF TypeInv, TypeOK, LayerInv
  <2> QED BY <1>0, <2>1, <2>7, <2>9, <2>10, GroupsSearchedIs, GroupsSearchedIsNext
<1>2. CASE FindChunks(w)
  <2> SUFFICES ASSUME ~completed' PROVE FullGroupsSearched'
    BY GroupsSearchedIsNext
  <2>1. completed' = completed /\ ~completed /\ maxLayer' = maxLayer
    BY <1>2 DEF FindChunks
  <2>2. PICK ch \in FindChunksToMerge : chunks' = chunks \ ch
    BY <1>2 DEF FindChunks
  <2>3. PICK l \in FullLayers : ch \in UnitsOf(Level(chunks, l))
    BY <2>1, <2>2 DEF FindChunksToMerge, AtLayer, Level
  <2>4. l \in Nat
    BY <1>0 DEF FullLayers
  <2>5. Cardinality(FullGroups(maxLayer', chunks')) + 1 <= Cardinality(FullGroups(maxLayer, chunks))
    BY <1>0, <2>1, <2>2, <2>3, <2>4, GroupsTaken
  <2>6. Searchers' = Searchers \ {w} /\ w \in Searchers
    <3>1. /\ pc[w] = "find" /\ pc'[w] = "unlock"
          /\ \A v \in Workers : v # w => pc'[v] = pc[v] \/ (pc[v] = "wait" /\ pc'[v] = "pop")
      BY <1>2, WorkerMoves DEF Others, Moves
    <3> QED BY <3>1 DEF Searchers, At
  <2>7. Cardinality(Searchers') = Cardinality(Searchers) - 1 /\ Cardinality(Searchers) \in Nat
    BY <2>6, SearchersFinite, FS_RemoveElement
  <2>8. Cardinality(FullGroups(maxLayer', chunks')) \in Nat
    <3>1. chunks' \in SUBSET Chunk /\ IsFiniteSet(chunks') /\ \A c \in chunks' : c.layer <= maxLayer
      BY <1>0, <2>2, FS_Subset
    <3> QED BY <1>0, <2>1, <3>1, GroupIs
  <2> QED BY <1>0, <2>1, <2>5, <2>7, <2>8, GroupsSearchedIs, GroupsSearchedIsNext
<1>3. CASE FindNothing(w)
  <2> SUFFICES ASSUME ~completed' PROVE FullGroupsSearched'
    BY GroupsSearchedIsNext
  <2>1. ~completed /\ UNCHANGED <<maxLayer, chunks>> /\ FindChunksToMerge = {}
    BY <1>3 DEF FindNothing
  <2>2. \A l \in 0..maxLayer : ~(Units <= Cardinality(Level(chunks, l)))
    <3> SUFFICES ASSUME NEW i \in 0..maxLayer, Units <= Cardinality(Level(chunks, i)) PROVE FALSE
      OBVIOUS
    <3> DEFINE F == FullLayers
    <3>1. Units \in Nat /\ \A l \in Nat : Cardinality(Level(chunks, l)) \in Nat
                                          /\ IsFiniteSet(Level(chunks, l))
      BY <1>0, LevelFinite, KMergerAssumption
    <3>2. F = {l \in 0..maxLayer : Cardinality(Level(chunks, l)) >= Units}
      BY DEF FullLayers, AtLayer, Level
    <3>3. i \in F /\ F \in SUBSET Nat
      BY <1>0, <3>1, <3>2
    <3> HIDE DEF F
    <3>4. PICK l \in F : \A n \in F : l <= n
      <4> DEFINE R == OpToRel(<, Nat)
      <4>1. IsWellFoundedOn(R, Nat)
        BY NatLessThanWellFounded
      <4>2. \E l \in F : \A n \in F : ~(<<n, l>> \in R)
        <5> HIDE DEF R
        <5> QED BY <3>3, <4>1, WFMin
      <4>3. PICK l \in F : \A n \in F : ~(<<n, l>> \in R)
        BY <4>2
      <4>4. ASSUME NEW n \in F PROVE l <= n
        <5>1. n \in Nat /\ l \in Nat /\ ~(n < l)
          BY <3>3, <4>3 DEF OpToRel
        <5> QED BY <5>1
      <4> QED BY <4>4
    <3>5. l \in Nat /\ Units <= Cardinality(Level(chunks, l))
      BY <3>1, <3>2, <3>3
    <3>6. PICK T \in SUBSET Level(chunks, l) : Cardinality(T) = Units
      BY <3>1, <3>5, SubsetOfSize
    <3>7. T \in UnitsOf(AtLayer(l))
      BY <3>6 DEF UnitsOf, AtLayer, Level
    <3>8. T \in FindChunksToMerge
      BY <2>1, <3>4, <3>7 DEF FindChunksToMerge, F
    <3> QED BY <2>1, <3>8
  <2>3. FullGroups(maxLayer, chunks) = {}
    <3> SUFFICES ASSUME NEW g \in FullGroups(maxLayer, chunks) PROVE FALSE
      OBVIOUS
    <3>1. /\ g[1] \in 0..maxLayer /\ g[2] \in 1..Cardinality(chunks)
          /\ g[2] * Units <= Cardinality(Level(chunks, g[1]))
      BY DEF FullGroups
    <3>2. Units \in Nat /\ g[2] \in Nat /\ g[2] >= 1 /\ Cardinality(Level(chunks, g[1])) \in Nat
      BY <1>0, <3>1, LevelFinite, FS_CardinalityType, KMergerAssumption
    <3>3. Units <= g[2] * Units
      BY <3>2
    <3>4. Units <= Cardinality(Level(chunks, g[1]))
      BY <3>1, <3>2, <3>3
    <3> QED BY <2>2, <3>1, <3>4
  <2>4. Cardinality(FullGroups(maxLayer', chunks')) = 0
    BY <2>1, <2>3, FS_EmptySet
  <2> QED BY <2>4, SearchersFinite, GroupsSearchedIsNext
<1>4. CASE ~(InsertChunk(w) \/ FindChunks(w) \/ FindNothing(w))
  <2>1. UNCHANGED <<chunks, maxLayer>>
    BY <1>4 DEF HandleWorker, PopTask, RunTask, WaitTask, SpuriousWakeup, Quit, TakeTask,
       CreateChunk, CreateChunkFails, CreateChunkEnd, Complete, ReleasePool, PushCreateTask,
       MergeChunks, MergeChunksFails, UnlockChunks, PushMergeTask, RecordException, ClosePool
  <2>2. Others(w) /\ (pc[w] \in {"pushCreate", "find"} => pc'[w] = "find")
    BY <1>4, WorkerMoves DEF HandleWorker, PopTask, RunTask, Moves
  <2>3. Searchers \subseteq Searchers'
    BY <2>2 DEF Searchers, At, Others
  <2> QED BY <2>1, <2>3, WorkerFlags, GroupsKept
<1> QED BY <1>1, <1>2, <1>3, <1>4

LEMMA GroupsStep ==
    TypeInv /\ LayerInv /\ FullGroupsSearched /\ [Next]_vars => FullGroupsSearched'
<1> SUFFICES ASSUME TypeInv, LayerInv, FullGroupsSearched, [Next]_vars
             PROVE  FullGroupsSearched'
  OBVIOUS
<1> USE DEF vars, poolVars, listVars, fileVars, mainVars
<1>1. CASE UNCHANGED vars \/ Terminated
  BY <1>1 DEF Terminated, FullGroupsSearched, AtLayer, At
<1>2. ASSUME NEW w \in Workers, HandleWorker(w) \/ SpuriousWakeup(w) PROVE FullGroupsSearched'
  BY <1>2, GroupsWorker
<1>3. CASE PushAndJoin
  <2>1. UNCHANGED <<chunks, maxLayer, completed>>
    BY <1>3 DEF PushAndJoin, PushFirstTask, JoinAndReturn
  <2>2. Searchers \subseteq Searchers'
    BY <1>3, MainMoves DEF PushAndJoin, Searchers, At
  <2> QED BY <2>1, <2>2, GroupsKept
<1> QED BY <1>1, <1>2, <1>3 DEF Next

\* No merge is forgotten: while the input lasts, the workers on their way to the
\* list are at least as many as the full groups in it (kmerger.hpp:100-170), for
\* every number of workers and units, so no layer grows beyond what somebody will
\* merge.
THEOREM GroupsFound == Spec => []FullGroupsSearched
<1>1. Init => LayerInv /\ FullGroupsSearched
  <2> SUFFICES ASSUME Init PROVE LayerInv /\ FullGroupsSearched
    OBVIOUS
  <2>1. chunks = {} /\ maxLayer = 0 /\ \A w \in Workers : pc[w] = "pop"
    BY DEF Init
  <2>2. FullGroups(maxLayer, chunks) = {}
    BY <2>1, FS_EmptySet DEF FullGroups
  <2> QED BY <2>1, <2>2, FS_EmptySet, SearchersFinite, GroupsSearchedIs DEF LayerInv
<1> QED BY <1>1, LayerStep, GroupsStep, TypeInvariant, PTL DEF Spec

-----------------------------------------------------------------------------
(* The merge tree is balanced while the input lasts.                       *)

\* A set of numbers that has each number whose predecessors it has, has them all.
LEMMA SetInduction ==
    ASSUME NEW T \in SUBSET Nat, \A m \in Nat : (\A k \in 0..(m - 1) : k \in T) => m \in T
    PROVE  T = Nat
<1> SUFFICES ASSUME Nat \ T # {} PROVE FALSE
  OBVIOUS
<1> DEFINE R == OpToRel(<, Nat)
           Bad == Nat \ T
<1>1. IsWellFoundedOn(R, Nat)
  BY NatLessThanWellFounded
<1>2. \E x \in Bad : \A y \in Bad : ~(<<y, x>> \in R)
  <2>1. Bad \subseteq Nat /\ Bad # {}
    OBVIOUS
  <2> HIDE DEF R, Bad
  <2> QED BY <1>1, <2>1, WFMin
<1>3. PICK x \in Bad : \A y \in Bad : ~(<<y, x>> \in R)
  BY <1>2
<1>4. \A k \in 0..(x - 1) : k \in Nat /\ <<k, x>> \in R
  BY DEF OpToRel
<1>5. \A k \in 0..(x - 1) : k \in T
  <2> HIDE DEF R
  <2> QED BY <1>3, <1>4
<1> QED BY <1>5

\* What the function of BatchesIn is, and that there is one for every layer.
Growth(f, m) == f = [l \in 0..m |-> IF l = 0 THEN 1 ELSE Units * f[l - 1]]

LEMMA GrowthExists == \A m \in Nat : \E f : Growth(f, m)
<1> DEFINE T == {m \in Nat : \E f : Growth(f, m)}
<1>1. ASSUME NEW m \in Nat, \A k \in 0..(m - 1) : k \in T PROVE m \in T
  <2>1. CASE m = 0
    <3>1. Growth([l \in 0..0 |-> 1], 0)
      BY DEF Growth
    <3> QED BY <2>1, <3>1
  <2>2. CASE m > 0
    <3>1. PICK f : Growth(f, m - 1)
      BY <1>1, <2>2
    <3> DEFINE e == Units * f[m - 1]
               g == [l \in 0..m |-> IF l = m THEN e ELSE f[l]]
    <3>2. \A l \in 0..(m - 1) : f[l] = IF l = 0 THEN 1 ELSE Units * f[l - 1]
      BY <3>1 DEF Growth
    <3>3. \A l \in 0..m : g[l] = IF l = 0 THEN 1 ELSE Units * g[l - 1]
      <4> SUFFICES ASSUME NEW l \in 0..m
                   PROVE  g[l] = IF l = 0 THEN 1 ELSE Units * g[l - 1]
        OBVIOUS
      <4>1. CASE l = 0
        <5>1. l \in 0..(m - 1) /\ l # m
          BY <2>2, <4>1
        <5> QED BY <3>2, <4>1, <5>1
      <4>2. CASE l > 0
        <5>1. l - 1 \in 0..m /\ l - 1 # m
          BY <4>2
        <5>2. g[l - 1] = f[l - 1]
          BY <5>1
        <5> HIDE DEF g
        <5>3. g[l] = Units * f[l - 1]
          <6>1. CASE l = m
            BY <6>1 DEF g
          <6>2. CASE l # m
            <7>1. l \in 0..(m - 1)
              BY <6>2
            <7>2. g[l] = f[l]
              BY <6>2 DEF g
            <7>3. l # 0
              BY <4>2
            <7>4. f[l] = Units * f[l - 1]
              BY <3>2, <7>1, <7>3, Zenon
            <7> QED BY <7>2, <7>4
          <6> QED BY <6>1, <6>2
        <5> QED BY <4>2, <5>2, <5>3
      <4> QED BY <4>1, <4>2
    <3>4. g = [l \in 0..m |-> g[l]]
      OBVIOUS
    <3> HIDE DEF g
    <3>5. Growth(g, m)
      BY <3>3, <3>4 DEF Growth
    <3> QED BY <3>5
  <2> QED BY <2>1, <2>2
<1>2. T = Nat
  <2>1. T \in SUBSET Nat
    OBVIOUS
  <2> HIDE DEF T
  <2> QED BY <1>1, <2>1, SetInduction
<1> QED BY <1>2

LEMMA GrowthUnique ==
    ASSUME NEW a \in Nat, NEW b \in Nat, NEW f, NEW g, Growth(f, a), Growth(g, b)
    PROVE  \A l \in Nat : l <= a /\ l <= b => f[l] = g[l]
<1> DEFINE T == {l \in Nat : l <= a /\ l <= b => f[l] = g[l]}
<1>1. ASSUME NEW m \in Nat, \A k \in 0..(m - 1) : k \in T PROVE m \in T
  <2> SUFFICES ASSUME m <= a, m <= b PROVE f[m] = g[m]
    OBVIOUS
  <2>1. /\ f[m] = IF m = 0 THEN 1 ELSE Units * f[m - 1]
        /\ g[m] = IF m = 0 THEN 1 ELSE Units * g[m - 1]
    <3>1. m \in 0..a /\ m \in 0..b
      OBVIOUS
    <3> QED BY <3>1 DEF Growth
  <2>2. CASE m = 0
    BY <2>1, <2>2
  <2>3. CASE m > 0
    <3>1. f[m - 1] = g[m - 1]
      <4>1. m - 1 \in T
        BY <1>1, <2>3
      <4> QED BY <2>3, <4>1
    <3> QED BY <2>1, <2>3, <3>1
  <2> QED BY <2>2, <2>3
<1>2. T = Nat
  <2>1. T \in SUBSET Nat
    OBVIOUS
  <2> HIDE DEF T
  <2> QED BY <1>1, <2>1, SetInduction
<1> QED BY <1>2

\* A layer more, Units times the batches.
LEMMA BatchesInIs ==
    BatchesIn(0) = 1 /\ \A l \in Nat : BatchesIn(l + 1) = Units * BatchesIn(l)
<1>1. \A k \in Nat : \E f : Growth(f, k) /\ BatchesIn(k) = f[k]
  <2> TAKE k \in Nat
  <2> DEFINE F == CHOOSE f : Growth(f, k)
  <2>1. Growth(F, k)
    BY GrowthExists
  <2>2. BatchesIn(k) = F[k]
    BY Zenon DEF BatchesIn, Growth
  <2> HIDE DEF F
  <2> QED BY <2>1, <2>2
<1>2. BatchesIn(0) = 1
  <2>1. PICK f : Growth(f, 0) /\ BatchesIn(0) = f[0]
    BY <1>1
  <2> QED BY <2>1 DEF Growth
<1>3. ASSUME NEW l \in Nat PROVE BatchesIn(l + 1) = Units * BatchesIn(l)
  <2>1. PICK n \in Nat : n = l + 1
    OBVIOUS
  <2>2. PICK f : Growth(f, n) /\ BatchesIn(n) = f[n]
    BY <1>1
  <2>3. PICK g : Growth(g, l) /\ BatchesIn(l) = g[l]
    BY <1>1
  <2>4. f[l] = g[l]
    BY <2>1, <2>2, <2>3, GrowthUnique
  <2>5. f[n] = Units * f[l]
    <3>1. n \in 0..n /\ n # 0 /\ n - 1 = l
      BY <2>1
    <3> QED BY <2>2, <3>1 DEF Growth
  <2> HIDE DEF BatchesIn
  <2> QED BY <2>1, <2>2, <2>3, <2>4, <2>5
<1> QED BY <1>2, <1>3

\* As many disjoint sets of a size as the elements of C have together so many elements.
All(C, g) == UNION {g[c] : c \in C}

Sized(C, g, n, s) ==
    /\ IsFiniteSet(C) /\ Cardinality(C) = n
    /\ \A c \in C : IsFiniteSet(g[c]) /\ Cardinality(g[c]) = s
    /\ \A c, d \in C : c # d => g[c] \cap g[d] = {}

LEMMA UnionSize ==
    ASSUME NEW s \in Nat
    PROVE  \A n \in Nat : \A C, g : Sized(C, g, n, s) =>
              IsFiniteSet(All(C, g)) /\ Cardinality(All(C, g)) = n * s
<1> DEFINE T == {n \in Nat : \A C, g : Sized(C, g, n, s) =>
                    IsFiniteSet(All(C, g)) /\ Cardinality(All(C, g)) = n * s}
<1>1. ASSUME NEW n \in Nat, \A k \in 0..(n - 1) : k \in T PROVE n \in T
  <2> SUFFICES ASSUME NEW C, NEW g, Sized(C, g, n, s)
               PROVE  IsFiniteSet(All(C, g)) /\ Cardinality(All(C, g)) = n * s
    OBVIOUS
  <2>1. CASE n = 0
    <3>1. C = {}
      BY <2>1, FS_EmptySet DEF Sized
    <3>2. All(C, g) = {}
      BY <3>1 DEF All
    <3>3. n * s = 0
      BY <2>1
    <3> QED BY <3>2, <3>3, FS_EmptySet
  <2>2. CASE n > 0
    <3>1. PICK x \in C : TRUE
      BY <2>2, FS_EmptySet DEF Sized
    <3> DEFINE D == C \ {x}
               A == All(D, g)
               B == g[x]
    <3>2. PICK m \in 0..(n - 1) : m = n - 1
      BY <2>2
    <3>3. IsFiniteSet(D) /\ Cardinality(D) = m
      BY <3>1, <3>2, FS_RemoveElement DEF Sized
    <3>4. Sized(D, g, m, s)
      BY <3>3 DEF Sized
    <3>5. IsFiniteSet(A) /\ Cardinality(A) = m * s
      <4>1. m \in T
        BY <1>1, <3>2
      <4> HIDE DEF D
      <4> QED BY <3>4, <4>1
    <3>6. IsFiniteSet(B) /\ Cardinality(B) = s
      BY <3>1 DEF Sized
    <3>7. A \cap B = {}
      BY <3>1 DEF Sized, All
    <3>8. All(C, g) = A \cup B
      BY <3>1 DEF All
    <3> HIDE DEF A, B
    <3>9. IsFiniteSet(A \cup B) /\ Cardinality(A \cup B) = m * s + s
      <4>0. /\ IsFiniteSet(A \cup B)
            /\ Cardinality(A \cup B) = Cardinality(A) + Cardinality(B) - Cardinality(A \cap B)
        BY ONLY <3>5, <3>6, FS_Union
      <4>1. /\ IsFiniteSet(A \cup B)
            /\ Cardinality(A \cup B) = Cardinality(A) + Cardinality(B) - Cardinality({})
        BY <3>7, <4>0
      <4>2. PICK a \in Nat : a = m * s
        <5>1. m * s \in Nat
          BY <3>2
        <5> QED BY <5>1
      <4> QED BY <3>5, <3>6, <4>1, <4>2, FS_EmptySet
    <3>10. m * s + s = n * s
      BY <3>2
    <3> QED BY <3>8, <3>9, <3>10
  <2> QED BY <2>1, <2>2
<1>2. T = Nat
  <2>1. T \in SUBSET Nat
    OBVIOUS
  <2> HIDE DEF T
  <2> QED BY <1>1, <2>1, SetInduction
<1> QED BY <1>2

\* What is merged while the input lasts: a full group of one layer.
SameLayer(chs) ==
    Cardinality(chs) = Units /\ \A c, d \in chs : c.layer = d.layer

TreeInv ==
    ~completed =>
        /\ \A c \in Held : Cardinality(disk[c.file]) = BatchesIn(c.layer)
        /\ \A w \in Workers : pc[w] \in {"merge", "unlock", "push"} => SameLayer(hand[w])
        /\ \A i \in DOMAIN tasks : tasks[i].type = "merge" => SameLayer(tasks[i].chunks)

\* The chunks held after a step are held before it or new.
LEMMA HeldBefore ==
    ASSUME TypeInv, NEW w \in Workers, HandleWorker(w) \/ SpuriousWakeup(w), NEW c \in Held'
    PROVE  c \in Held \/ ((CreateChunk(w) \/ MergeChunks(w)) /\ c \in hand'[w])
<1> USE DEF poolVars, listVars, fileVars, mainVars
<1>0. hand \in [Workers -> SUBSET Chunk] /\ tasks \in Seq(Task)
  BY DEF TypeInv, TypeOK
<1>1. \A v \in Workers : v # w => hand'[v] = hand[v]
  BY InsertComesFrom
<1>2. c \in chunks' => c \in chunks \/ c \in hand[w]
  BY DEF HandleWorker, PopTask, RunTask, WaitTask, SpuriousWakeup, Quit, TakeTask,
     CreateChunk, CreateChunkFails, CreateChunkEnd, Complete, ReleasePool, PushCreateTask,
     MergeChunks, MergeChunksFails, InsertChunk, FindNothing, FindChunks, UnlockChunks,
     PushMergeTask, RecordException, ClosePool
<1>3. ASSUME c \in hand'[w], ~(CreateChunk(w) \/ MergeChunks(w)) PROVE c \in Held
  <2>1. CASE TakeTask(w)
    <3>1. tasks # <<>> /\ hand'[w] = tasks[Len(tasks)].chunks
      BY <1>0, <2>1 DEF TakeTask
    <3>2. Len(tasks) \in DOMAIN tasks
      BY <1>0, <3>1
    <3> QED BY <1>3, <3>1, <3>2, HeldIs
  <2>2. CASE FindChunks(w)
    <3>1. PICK ch \in FindChunksToMerge : hand' = [hand EXCEPT ![w] = ch]
      BY <2>2 DEF FindChunks
    <3>2. ch \in SUBSET chunks
      BY FoundChunks DEF TypeInv
    <3> QED BY <1>0, <1>3, <3>1, <3>2, HeldIs
  <2>3. CASE ~TakeTask(w) /\ ~FindChunks(w)
    <3>1. c \in hand[w]
      BY <1>0, <1>3, <2>3 DEF HandleWorker, PopTask, RunTask, WaitTask, SpuriousWakeup, Quit,
         CreateChunkFails, CreateChunkEnd, Complete, ReleasePool, PushCreateTask,
         MergeChunksFails, InsertChunk, FindNothing, UnlockChunks,
         PushMergeTask, RecordException, ClosePool
    <3> QED BY <3>1, HeldIs
  <2> QED BY <2>1, <2>2, <2>3
<1>4. ASSUME NEW i \in DOMAIN tasks', c \in tasks'[i].chunks PROVE c \in Held
  <2>1. CASE TakeTask(w)
    <3>1. tasks # <<>> /\ tasks' = SubSeq(tasks, 1, Len(tasks) - 1)
      BY <2>1 DEF TakeTask
    <3>2. i \in DOMAIN tasks /\ tasks'[i] = tasks[i]
      BY <1>0, <3>1, TasksPopped
    <3> QED BY <1>4, <3>2, HeldIs
  <2>2. CASE PushCreateTask(w) \/ PushMergeTask(w)
    <3>1. PICK t \in Task : tasks' = Append(tasks, t) /\ (t.chunks = {} \/ t.chunks = hand[w])
      <4>1. CreateTask \in Task /\ CreateTask.chunks = {}
        BY DEF CreateTask, Task
      <4>2. MergeTask(hand[w]) \in Task /\ MergeTask(hand[w]).chunks = hand[w]
        BY <1>0 DEF MergeTask, Task
      <4> QED BY <2>2, <4>1, <4>2 DEF PushCreateTask, PushMergeTask
    <3>2. /\ DOMAIN tasks' = 1..(Len(tasks) + 1) /\ DOMAIN tasks = 1..Len(tasks)
          /\ Len(tasks) \in Nat
          /\ \A k \in DOMAIN tasks : tasks'[k] = tasks[k]
          /\ tasks'[Len(tasks) + 1] = t
      BY <1>0, <3>1, TasksPushed
    <3>3. i = Len(tasks) + 1 \/ i \in DOMAIN tasks
      BY <3>2
    <3> QED BY <1>4, <3>1, <3>2, <3>3, HeldIs
  <2>3. CASE ClosePool(w)
    BY <1>4, <2>3, EmptySeq DEF ClosePool
  <2>4. CASE ~TakeTask(w) /\ ~PushCreateTask(w) /\ ~PushMergeTask(w) /\ ~ClosePool(w)
    <3>1. tasks' = tasks
      BY <2>4 DEF HandleWorker, PopTask, RunTask, WaitTask, SpuriousWakeup, Quit,
         CreateChunk, CreateChunkFails, CreateChunkEnd, Complete, ReleasePool,
         MergeChunks, MergeChunksFails, InsertChunk, FindNothing, FindChunks, UnlockChunks,
         RecordException
    <3> QED BY <1>4, <3>1, HeldIs
  <2> QED BY <2>1, <2>2, <2>3, <2>4
<1> QED BY <1>1, <1>2, <1>3, <1>4, HeldIs, HeldIsNext

LEMMA FoundLayer ==
    ASSUME ~completed, NEW ch \in FindChunksToMerge
    PROVE  SameLayer(ch)
<1>1. PICK l \in FullLayers : ch \in UnitsOf(AtLayer(l))
  BY DEF FindChunksToMerge
<1> QED BY <1>1 DEF UnitsOf, AtLayer, SameLayer

\* The batches of a merged file, and the layer of its chunk.
LEMMA MergedSize ==
    ASSUME TypeInv, OwnInv, HandInv, ContentInv, TreeInv, ~completed,
           NEW w \in Workers, MergeChunks(w)
    PROVE  /\ LayersOf(hand[w]) # {}
           /\ Cardinality(UNION {disk[f] : f \in FilesOf(hand[w])})
                = BatchesIn(MaxOf(LayersOf(hand[w])) + 1)
<1> DEFINE C == hand[w]
           L == LayersOf(C)
           l == MaxOf(L)
           s == BatchesIn(l)
<1>1. pc[w] = "merge" /\ C \in SUBSET Chunk /\ IsFiniteSet(C) /\ C # {}
  BY DEF MergeChunks, TypeInv, TypeOK
<1>2. Cardinality(C) = Units /\ (\A c, d \in C : c.layer = d.layer) /\ OneRecordPerFile(C)
  BY <1>1 DEF TreeInv, SameLayer, HandInv, Group
<1>3. IsFiniteSet(L) /\ L \in SUBSET Nat /\ L # {}
  <2>1. IsFiniteSet(L) /\ L \in SUBSET Nat
    BY <1>1, LayersOfFinite
  <2>2. L # {}
    BY <1>1 DEF LayersOf
  <2> QED BY <2>1, <2>2
<1>4. l \in L /\ l \in Nat
  BY <1>3, MaxOfFinite
<1>5. \A c \in C : c.layer = l
  BY <1>2, <1>4 DEF LayersOf
<1>6. \A c \in C : /\ c.file \in DOMAIN disk
                   /\ Cardinality(disk[c.file]) = s /\ IsFiniteSet(disk[c.file])
  <2> SUFFICES ASSUME NEW c \in C
               PROVE  /\ c.file \in DOMAIN disk
                      /\ Cardinality(disk[c.file]) = s /\ IsFiniteSet(disk[c.file])
    OBVIOUS
  <2>1. c \in Held
    BY HeldIs
  <2>2. c.file \in DOMAIN disk
    BY <2>1, HeldOnDisk
  <2>3. Cardinality(disk[c.file]) = BatchesIn(c.layer)
    BY <2>1 DEF TreeInv
  <2>4. IsFiniteSet(1..parser) /\ disk[c.file] \in SUBSET (1..parser)
    BY <2>2, FS_Interval DEF TypeInv, TypeOK
  <2>5. IsFiniteSet(disk[c.file])
    BY <2>4, FS_Subset
  <2> QED BY <1>5, <2>2, <2>3, <2>5
<1>7. \A c, d \in C : c # d => disk[c.file] \cap disk[d.file] = {}
  BY <1>2, <1>6 DEF OneRecordPerFile, ContentInv
<1>8. s \in Nat
  <2>1. PICK c \in C : TRUE
    BY <1>1
  <2>2. Cardinality(disk[c.file]) \in Nat
    BY <1>6, FS_CardinalityType
  <2> QED BY <1>6, <2>2
<1> DEFINE g == [c \in C |-> disk[c.file]]
<1>9. UNION {disk[f] : f \in FilesOf(C)} = UNION {g[c] : c \in C}
  BY DEF FilesOf
<1> HIDE DEF C, L, l, s
<1>10. /\ \A c \in C : IsFiniteSet(g[c]) /\ Cardinality(g[c]) = s
       /\ \A c, d \in C : c # d => g[c] \cap g[d] = {}
  BY <1>6, <1>7
<1>11. Units \in Nat
  BY KMergerAssumption
<1> HIDE DEF g
<1>12. Cardinality(UNION {g[c] : c \in C}) = Units * s
  <2>1. IsFiniteSet(C) /\ Cardinality(C) = Units
    BY <1>1, <1>2
  <2>2. Sized(C, g, Units, s)
    BY <1>10, <2>1 DEF Sized
  <2>3. PICK D, h, k : D = C /\ h = g /\ k = s
    OBVIOUS
  <2>4. k \in Nat /\ Units \in Nat /\ Sized(D, h, Units, k)
    BY <1>8, <1>11, <2>2, <2>3
  <2>5. Cardinality(All(D, h)) = Units * k
    BY <2>4, UnionSize
  <2> QED BY <2>3, <2>5 DEF All
<1>13. BatchesIn(l + 1) = Units * s
  BY <1>4, BatchesInIs DEF s
<1> QED BY <1>3, <1>9, <1>12, <1>13 DEF C, L, l

\* The chunks keep the size of their layer.
LEMMA TreeSizes ==
    ASSUME TypeInv, OwnInv, HandInv, ContentInv, TreeInv, ~completed,
           NEW w \in Workers, HandleWorker(w) \/ SpuriousWakeup(w), NEW c \in Held'
    PROVE  Cardinality(disk'[c.file]) = BatchesIn(c.layer)
<1> USE DEF poolVars, listVars, fileVars, mainVars
<1>0. /\ idGen \in Nat /\ DOMAIN disk \subseteq 1..idGen
      /\ \A v \in Workers : v # w => hand'[v] = hand[v]
      /\ hand \in [Workers -> SUBSET Chunk]
  BY InsertComesFrom DEF TypeInv, TypeOK
<1>1. CASE CreateChunk(w)
  <2>1. /\ hand'[w] = {[layer |-> 0, file |-> idGen + 1]}
        /\ disk'[idGen + 1] = {parser + 1}
        /\ \A f \in DOMAIN disk : f # idGen + 1 => disk'[f] = disk[f]
    BY <1>1 DEF CreateChunk, TypeInv, TypeOK
  <2>2. CASE c \in hand'[w]
    <3>1. c.layer = 0 /\ disk'[c.file] = {parser + 1}
      BY <2>1, <2>2
    <3> QED BY <3>1, FS_Singleton, BatchesInIs
  <2>3. CASE c \in Held
    <3>1. c.file \in DOMAIN disk /\ c.file # idGen + 1
      BY <1>0, <2>3, HeldOnDisk
    <3> QED BY <2>1, <2>3, <3>1 DEF TreeInv
  <2> QED BY <2>2, <2>3, HeldBefore
<1>2. CASE MergeChunks(w) \/ MergeChunksFails(w)
  <2> DEFINE inputs == FilesOf(hand[w])
             merged == UNION {disk[f] : f \in inputs}
             up == MaxOf(LayersOf(hand[w])) + 1
  <2>1. /\ UNCHANGED <<chunks, tasks>>
        /\ \A f \in DOMAIN disk \ inputs : f # idGen + 1 => disk'[f] = disk[f]
        /\ MergeChunks(w) => /\ disk'[idGen + 1] = merged
                             /\ hand'[w] = {[layer |-> up, file |-> idGen + 1]}
        /\ ~MergeChunks(w) => hand'[w] = {}
    BY <1>0, <1>2 DEF MergeChunks, MergeChunksFails
  <2>2. CASE c \in hand'[w]
    <3>1. MergeChunks(w) /\ c.layer = up /\ disk'[c.file] = merged
      BY <2>1, <2>2
    <3> QED BY <3>1, MergedSize
  <2>3. CASE c \notin hand'[w]
    <3>1. \/ c \in chunks
          \/ \E v \in Workers : v # w /\ c \in hand[v]
          \/ \E i \in DOMAIN tasks : c \in tasks[i].chunks
      BY <1>0, <2>1, <2>3, HeldIsNext
    <3>2. c \in Held
      BY <3>1, HeldIs
    <3>3. c.file \notin inputs
      BY <3>1 DEF OwnInv, Disjointness, Disjoint, FilesOf
    <3>4. c.file \in DOMAIN disk /\ c.file # idGen + 1
      BY <1>0, <3>2, HeldOnDisk
    <3> HIDE DEF inputs, merged, up
    <3>5. disk'[c.file] = disk[c.file]
      BY <2>1, <3>3, <3>4
    <3> QED BY <3>2, <3>5 DEF TreeInv
  <2> QED BY <2>2, <2>3
<1>3. CASE ~(CreateChunk(w) \/ MergeChunks(w) \/ MergeChunksFails(w))
  <2>1. disk' = disk
    BY <1>3 DEF HandleWorker, PopTask, RunTask, WaitTask, SpuriousWakeup, Quit, TakeTask,
       CreateChunkFails, CreateChunkEnd, Complete, ReleasePool, PushCreateTask,
       InsertChunk, FindNothing, FindChunks, UnlockChunks, PushMergeTask,
       RecordException, ClosePool
  <2>2. c \in Held
    BY <1>3, HeldBefore
  <2> QED BY <2>1, <2>2 DEF TreeInv
<1> QED BY <1>1, <1>2, <1>3

LEMMA TreeWorker ==
    ASSUME TypeInv, OwnInv, HandInv, ContentInv, TreeInv,
           NEW w \in Workers, HandleWorker(w) \/ SpuriousWakeup(w)
    PROVE  TreeInv'
<1> USE DEF poolVars, listVars, fileVars, mainVars
<1> SUFFICES ASSUME ~completed' PROVE TreeInv'
  BY DEF TreeInv
<1>0. /\ hand \in [Workers -> SUBSET Chunk] /\ tasks \in Seq(Task)
      /\ \A v \in Workers : v # w => hand'[v] = hand[v] /\ (pc'[v] = pc[v] \/ pc'[v] = "pop")
  BY InsertComesFrom DEF TypeInv, TypeOK
<1>1. ~completed /\ ~ClosePool(w)
  BY DEF HandleWorker, PopTask, RunTask, WaitTask, SpuriousWakeup, Quit, TakeTask,
     CreateChunk, CreateChunkFails, CreateChunkEnd, Complete, ReleasePool, PushCreateTask,
     MergeChunks, MergeChunksFails, InsertChunk, FindNothing, FindChunks, UnlockChunks,
     PushMergeTask, RecordException, ClosePool
<1>2. /\ pc[w] \in {"merge", "unlock", "push"} => SameLayer(hand[w])
      /\ \A i \in DOMAIN tasks : tasks[i].type = "merge" => SameLayer(tasks[i].chunks)
  BY <1>1 DEF TreeInv
<1>3. \A c \in Held' : Cardinality(disk'[c.file]) = BatchesIn(c.layer)
  BY <1>1, TreeSizes
<1>4. ASSUME pc'[w] \in {"merge", "unlock", "push"} PROVE SameLayer(hand'[w])
  <2>1. CASE TakeTask(w)
    <3>1. tasks # <<>> /\ hand'[w] = tasks[Len(tasks)].chunks /\ pc'[w] = tasks[Len(tasks)].type
      BY <1>0, <2>1, WorkerMoves DEF TakeTask, Moves
    <3>2. Len(tasks) \in DOMAIN tasks /\ tasks[Len(tasks)] \in Task
      BY <1>0, <3>1, TasksPopped
    <3>3. tasks[Len(tasks)].type = "merge"
      BY <1>4, <3>1, <3>2 DEF Task
    <3> QED BY <1>2, <3>1, <3>2, <3>3
  <2>2. CASE FindChunks(w)
    <3>1. PICK ch \in FindChunksToMerge : hand' = [hand EXCEPT ![w] = ch]
      BY <2>2 DEF FindChunks
    <3>2. hand'[w] = ch
      BY <1>0, <3>1
    <3> QED BY <1>1, <3>2, FoundLayer
  <2>3. CASE UnlockChunks(w)
    BY <1>2, <2>3 DEF UnlockChunks
  <2>4. CASE ~TakeTask(w) /\ ~FindChunks(w) /\ ~UnlockChunks(w)
    BY <1>4, <2>4, WorkerMoves DEF HandleWorker, PopTask, RunTask, Moves
  <2> QED BY <2>1, <2>2, <2>3, <2>4
<1>5. ASSUME NEW v \in Workers, pc'[v] \in {"merge", "unlock", "push"} PROVE SameLayer(hand'[v])
  <2>1. CASE v = w
    BY <1>4, <1>5, <2>1
  <2>2. CASE v # w
    BY <1>0, <1>1, <1>5, <2>2 DEF TreeInv
  <2> QED BY <2>1, <2>2
<1>6. ASSUME NEW i \in DOMAIN tasks', tasks'[i].type = "merge" PROVE SameLayer(tasks'[i].chunks)
  <2>1. CASE TakeTask(w)
    <3>1. tasks # <<>> /\ tasks' = SubSeq(tasks, 1, Len(tasks) - 1)
      BY <2>1 DEF TakeTask
    <3>2. i \in DOMAIN tasks /\ tasks'[i] = tasks[i]
      BY <1>0, <3>1, TasksPopped
    <3> QED BY <1>2, <1>6, <3>2
  <2>2. CASE PushCreateTask(w) \/ PushMergeTask(w)
    <3>1. PICK t \in Task : /\ tasks' = Append(tasks, t)
                            /\ t.type = "merge" => t.chunks = hand[w] /\ pc[w] = "push"
      <4>1. CreateTask \in Task /\ CreateTask.type = "create"
        BY DEF CreateTask, Task
      <4>2. MergeTask(hand[w]) \in Task /\ MergeTask(hand[w]).chunks = hand[w]
        BY <1>0 DEF MergeTask, Task
      <4> QED BY <2>2, <4>1, <4>2 DEF PushCreateTask, PushMergeTask
    <3>2. /\ DOMAIN tasks' = 1..(Len(tasks) + 1) /\ DOMAIN tasks = 1..Len(tasks)
          /\ Len(tasks) \in Nat
          /\ \A k \in DOMAIN tasks : tasks'[k] = tasks[k]
          /\ tasks'[Len(tasks) + 1] = t
      BY <1>0, <3>1, TasksPushed
    <3>3. i = Len(tasks) + 1 \/ i \in DOMAIN tasks
      BY <3>2
    <3> QED BY <1>2, <1>6, <3>1, <3>2, <3>3
  <2>3. CASE ~TakeTask(w) /\ ~PushCreateTask(w) /\ ~PushMergeTask(w)
    <3>1. tasks' = tasks
      BY <1>1, <2>3 DEF HandleWorker, PopTask, RunTask, WaitTask, SpuriousWakeup, Quit,
         CreateChunk, CreateChunkFails, CreateChunkEnd, Complete, ReleasePool,
         MergeChunks, MergeChunksFails, InsertChunk, FindNothing, FindChunks, UnlockChunks,
         RecordException
    <3> QED BY <1>2, <1>6, <3>1
  <2> QED BY <2>1, <2>2, <2>3
<1>7. \A chs : SameLayer(chs)' = SameLayer(chs)
  BY DEF SameLayer
<1> QED BY <1>3, <1>5, <1>6 DEF TreeInv, SameLayer

LEMMA TreeStep == MergeInv /\ TreeInv /\ [Next]_vars => TreeInv'
<1> SUFFICES ASSUME MergeInv, TreeInv, [Next]_vars PROVE TreeInv'
  OBVIOUS
<1> USE DEF vars, poolVars, listVars, fileVars, mainVars
<1>1. CASE UNCHANGED vars \/ Terminated
  <2>1. UNCHANGED <<completed, chunks, hand, tasks, disk, pc>>
    BY <1>1 DEF Terminated
  <2>2. Held' = Held
    BY <2>1 DEF Held
  <2> QED BY <2>1, <2>2 DEF TreeInv, SameLayer
<1>2. ASSUME NEW w \in Workers, HandleWorker(w) \/ SpuriousWakeup(w) PROVE TreeInv'
  BY <1>2, TreeWorker DEF MergeInv
<1>3. CASE PushFirstTask
  <2>1. UNCHANGED <<completed, chunks, hand, disk>> /\ tasks' = Append(tasks, CreateTask)
    BY <1>3 DEF PushFirstTask
  <2>2. tasks \in Seq(Task) /\ CreateTask \in Task /\ CreateTask.type = "create" /\ CreateTask.chunks = {}
    BY DEF MergeInv, TypeInv, TypeOK, CreateTask, Task
  <2>3. /\ DOMAIN tasks' = 1..(Len(tasks) + 1) /\ DOMAIN tasks = 1..Len(tasks)
        /\ Len(tasks) \in Nat
        /\ \A k \in DOMAIN tasks : tasks'[k] = tasks[k]
        /\ tasks'[Len(tasks) + 1] = CreateTask
    BY <2>1, <2>2, TasksPushed
  <2>4. \A i \in DOMAIN tasks' : \/ i \in DOMAIN tasks /\ tasks'[i] = tasks[i]
                                 \/ tasks'[i].type = "create" /\ tasks'[i].chunks = {}
    <3>1. \A i \in DOMAIN tasks' : i = Len(tasks) + 1 \/ i \in DOMAIN tasks
      BY <2>3
    <3> QED BY <2>2, <2>3, <3>1
  <2>5. \A c \in Held' : c \in Held
    BY <2>1, <2>4, HeldIs, HeldIsNext
  <2>6. \A v \in Workers : pc'[v] = pc[v] \/ pc'[v] = "pop"
    BY <1>3, MainMoves DEF MergeInv
  <2> QED BY <2>1, <2>4, <2>5, <2>6 DEF TreeInv, SameLayer
<1>4. CASE JoinAndReturn
  <2>1. UNCHANGED <<completed, chunks, hand, tasks, pc>>
    BY <1>4 DEF JoinAndReturn
  <2>2. CASE completed
    BY <2>1, <2>2 DEF TreeInv
  <2>3. CASE ~completed
    <3>1. exception # "none"
      BY <1>4, <2>3, KMergerAssumption DEF JoinAndReturn, MergeInv, FlowInv
    <3>2. disk' = disk
      BY <1>4, <3>1 DEF JoinAndReturn
    <3>3. Held' = Held
      BY <2>1 DEF Held
    <3> QED BY <2>1, <3>2, <3>3 DEF TreeInv, SameLayer
  <2> QED BY <2>2, <2>3
<1> QED BY <1>1, <1>2, <1>3, <1>4 DEF Next, PushAndJoin

\* Until the input ends the merge tree is balanced (FindChunksToMerge,
\* kmerger.hpp:121-147): a chunk of layer l holds Units^l batches, so the work of a
\* merge is bounded by its layer, for every number of workers and units and whichever
\* tasks throw.
THEOREM TreeBalanced == Spec => []BalancedTree
<1>1. Init => TreeInv
  <2> SUFFICES ASSUME Init PROVE TreeInv
    OBVIOUS
  <2>1. chunks = {} /\ DOMAIN tasks = {} /\ \A w \in Workers : hand[w] = {} /\ pc[w] = "pop"
    BY EmptySeq DEF Init
  <2> QED BY <2>1, HeldIs DEF TreeInv
<1>2. TreeInv => BalancedTree
  BY HeldIs DEF TreeInv, BalancedTree
<1> QED BY <1>1, <1>2, TreeStep, MergeInvHolds, PTL DEF Spec

=============================================================================
