# A TLA+ development of atian-cod-tools

Atian Tools (`acts`) is a C++ program that reads, dumps, compiles and links the
files of several games: scripts (GSC), asset archives (fastfiles), names kept
as hashes, tables. Most of it is translation between memory and the formats of the games. What
it decides by itself is small: what its threads, processes and restarts share, and the
algorithms whose result does not depend on a format (how sorted files are merged, how
bytecode is placed, what a preprocessor keeps). This directory is
about that part: TLA+ modules, the TLC runs that check them on small instances, and
proofs that TLAPS checks for every value of their constants.

Source paths below are relative to `src/src/core/` unless they start with `src/`.

## Inventory

| Component | State it keeps | Operations | What is hard, and what makes it correct | Module |
|---|---|---|---|---|
| **KMerger** (`lib/actslib/data/kmerger.hpp`, its configuration in `lib/actslib/rdf/raio.hpp`): external merge sort by a pool of threads | stack of tasks, list of chunks, layers, `completed`, `exception`, two mutexes, a condition variable, files | create a chunk, insert it and look for a group to merge, merge, close, `PushAndJoin` | two mutexes taken in one order only; the list unlocked between search and push; merges that delete their inputs; workers asleep. The file returned has the whole input, or the call throws; it returns | `KMerger`, `ExternalMerge` |
| **Merge iterators** (`lib/actslib/data/iterator.hpp`, `lib/actslib/rdf/raio.hpp`): the merge of some chunks into one | for each chunk a position, the node decoded last and two flags; for each iterator a pointer into a reader; the calls of `operator bool` | ask, read a node, read the end, choose, write | lazy readers that decode over the node an iterator points to; an odd iterator carried up; a cut file. Every node once and in order, or an exception | `MergeIterators`, `SortedMerge` |
| **Hash table and parallel decompilation** (`acts/hashutils.cpp`, `shared/core/hashes/hash_store.cpp`, `shared/core/async.cpp`, `acts/tools/gsc/gsc_decompiler.cpp`) | table of strings by hash, `asyncMode`, `asyncMutex`, `asyncMtx`, counts of the batch | `SetAsync`, lazy load of the default files, `Extract`, `ExtractPtr`, `AddPrecomputed`, the task of a script | whether a mutex is taken depends on a variable that every lookup rewrites, some lookups ask for none, and a task may end without counting. No unlocked write, one load, no string replaced, an exact count, the batch ends | `HashStore` |
| **Updater** (`shared/core/updater.cpp`, `src/src/exe/updater/main.cpp`) | installed files, downloaded archive, copy of the updater, `acts-updater.json` | `FindUpdate`, `CheckUpdate`, the wait, `ApplyUpdate`, two commands | several processes, kills, restarts, half-written files. One version in the directory, never an older one, one request per period | `Updater` |
| **Text expansion** (`acts/tools/hashes/text_expand.cpp`) | one index per task, `AsyncStop` | start the tasks, try a word, stop, wait | the index space shared by stride, the end counted by tasks that may end before the last one starts, the stop, which may be null. Each word once | `TextExpand` |
| **Static allocator** (`shared/core/memory_allocator_static.hpp`) | block headers inside one array | `AllocRef`, `FreeRef` | links back that go stale at a split and at a merge, headers among the bytes of the caller. Blocks never overlap | `StaticAllocator` |
| **GSC compiler** (`acts/tools/gsc/compiler/`) | nodes of a function, their locations, the buffer, the link tables | parse, compute the locations, write the nodes, link | the size of a node is computed twice, by two functions that depend on where it starts and on the machine; jumps and link tables use the first, the bytes are where the second put them | `AsmLayout` |
| **Preprocessor** (`shared/core/preprocessor.cpp`) | definitions and depth, shared by all the files of a compilation; a stack of erased conditionals for each call | `ApplyPreProcessor`, calling itself for `#insert` | what a call leaves in the options, errors of inserted files, conditionals inside conditionals | `Preprocessor` |
| **RDF parser** (`lib/actslib/rdf/`) | cursor in a text | next triple | sequential parsing | not modelled |
| **ActsVM** (`vm/`) | variables and strings with counts, free lists, threads, linked scripts | opcodes, allocation, link, thread start | unfinished | not modelled |
| **Events, systems, plugins** (`shared/core/eventhandler.cpp`, `system.cpp`, `plugins.cpp`) | callbacks by event, systems by identifier | register, ignore, init, run | one thread, two maps | not modelled |
| **Configuration, logs, byte buffers** (`shared/core/`) | JSON document, log file, cursors | get, set, save; log; read, write | a save that is cut off | in `Updater` only |
| **GSC decompiler** (`acts/tools/gsc/decompiler/`) | stack of nodes, locations | read the code, find control flow | one script is sequential; the batch is in `HashStore`, its patch of the link tables in `AsmLayout` | those parts only |
| **GSC obfuscator** (`acts/tools/gsc/obfuscator/`) | map of names, private file | rename, save, load | names distinct and stable over runs | not modelled |
| **Fastfiles** (`acts/tools/fastfile/`): reader, patches, binary difference, linkers, handlers | blocks, zones, pools | read, patch, link, dump | data layout | not modelled |
| **Windows and Qt interface** (`acts/tools/tools_nui.cpp`, `acts-ui/`) | widgets, a pool of one thread | draw, start work | user interface | not modelled |
| **Hooks and game plugins** (`shared/hook/`, `src/src/dll/`) | detours, pointers into the games | install, call back | what they call is not in the repository | not modelled |
| **Dumpers, opcode tables, generated parsers, decryption, vendored code, data** | | | data and third-party code | not modelled |

How they interact: `KMerger` calls its configuration object without a lock and
relies on its own scheduling for exclusion; the configuration's `MergeChunks` is the
merge iterators. A tool (`gscinfo`) makes tasks in a pool,
turns `asyncMode` on and off around them, and each task calls the hash table and
reports to the batch. The windows start the text expansion in the same kind of pool
and stop it. `main` runs the updater before anything else, in every process; the
processes meet in the files of the installation. The zone linker and the ADL compiler give
all their files to the preprocessor with one set of options; the GSC compiler gives it one
file and then places the bytecode of each function, which the decompiler (or the game) reads
back. The VM takes its strings from the static allocator.

`PROJECT.json` lists every component with its sources, and the hazards, each
at the line where it bites with the properties that watch it.

## Plan

Done, in this order: `KMerger` with `ExternalMerge` above it; `TextExpand`; `Updater`;
`HashStore`; `StaticAllocator`; `AsmLayout`; `Preprocessor`; `MergeIterators` with `SortedMerge`
above it; and for each of the eight a module of proofs, in which every invariant of the runs is
a theorem.

What is left of the program to model is sequential code over formats: see "Not modelled".
What is left to prove:

1. the steps of `ImplementsSortedMerge`: that a written node precedes all that are left needs that
   the answer of an iterator is the least of what its chunks have left, for any tree; and
   that `GetDeltaLen` gives back the string that was written;
2. `NoDowngrade` of `Updater` with tools that are started by hand, for the runs in which none is.

## Modules

A definition `D_Something` beside a definition `D` is `D` with an error a programmer could make.
No specification uses one; each shows, put in the place of `D`, that a property
of a run notices the error.

### KMerger and ExternalMerge

`KMerger` has the workers and the thread in `PushAndJoin`. A step is what a thread
does between two synchronisation points; a critical section in which nothing can
block is one step, enabled when its mutex is free. The mutexes a thread keeps over
several steps are variables, so that the order of `taskCondMutex` and
`chunksMutex` matters. The condition variable is the set of workers that wait;
a notification wakes any one of them, and a worker may wake for no reason.

| Code | Module |
|---|---|
| `tasks`, `chunks`, `completed`, `exception`, `idGen`, the mutexes | variables of the same names |
| `PopTask` | `WaitTask`, `Quit`, `TakeTask`, `SpuriousWakeup` |
| `PushCreateChunkTask` | `CreateChunk`, `CreateChunkEnd`, `Complete`, `ReleasePool`, `PushCreateTask` |
| `PushMergeTaskIfRequired`, `FindChunksToMerge` | `InsertChunk`, `FindNothing`, `FindChunks`, `UnlockChunks`, `PushMergeTask` |
| `HandleWorker` | `MergeChunks`, the `...Fails` actions, `RecordException`, `ClosePool` |
| `PushAndJoin` | `PushFirstTask`, `JoinAndReturn` |

Abstractions. The content of a file is the set of batches in it. The input is the
number of batches it will yield, from none to `MaxBatches`. The vector of chunks is
a set: its order only decides which chunks of a layer go first, and here any may.
An identifier is taken in the step that writes its file. `BatchesIn` is how many batches a
chunk of a layer has in a balanced tree, Units to the power of the layer. `CreateChunk` and
`MergeChunks` of `CompressComponentKMerger` are their effect on the files,
including the files a failing merge has already removed.

`ExternalMerge` is what the caller is promised: batches are read, runs combined,
an operation may fail, and the call returns either an error or all that was read.
`KMerger!ImplementsExternalMerge` maps the chunks, wherever they are, to the runs.

### MergeIterators and SortedMerge

`MergeIterators` is what happens inside the step `MergeChunks` of `KMerger`. A reader of chunk
`k` is `<<k>>` and a `MergeIterator` is the pair of the two it merges, so that the tree built
by `AllocatedMergeAIterator` is a value (`Levels`, `Paired`, `Top`). The state that matters is
who still looks at a node: each reader decodes into one node, `next` is
the pointer an iterator keeps into a reader, and `++` only notes that the node may be
replaced. The recursion of `operator bool` is the stack `calls`; a step is a call, or what one
call does between two others.

| Code | Module |
|---|---|
| `CompressComponentReader::operator bool` | `Known`, `ReadNode`, `ReadEnd`, `ReadFails` |
| `MergeIterator::operator bool`, `operator++`, `operator*` | `Known`, `AskChild`, `Choose`, `Advanced`, `Pointed` |
| `AllocatedMergeAIterator` | `Paired`, `Levels`, `Tree`, `Top` |
| the loop of `MergeChunks`, `CompressComponentWriter` | `Test`, `Write`, `WriteEnd`, `WriteNode` |
| `GetDeltaLen`, `operator<`, `StreamAppendStringComponent::Append` | `GetDeltaLen`, `Less`, `Appended` |

`InputsAssumption` is what a chunk is: the string each entry makes with the one before it can be
decoded, and no two entries are the same node (they may have equal strings).

Abstractions. One of the three kinds of nodes of a file, since each has its own iterators and
its own end mark. A string is a sequence of numbers. An entry of a file has the length it
shares with the string before it, the rest, and whether the final 0 is there; a file has its
end mark or is cut. A number is read whole or not at all. The merged file can be written.

`SortedMerge` is the promise: nodes are taken each once, never one that another must precede,
until none is left, or the call throws because a chunk is cut. The refinement reads the
written file back with the decoder of the reader, so that the prefixes the writer computes
are part of it.

### HashStore

A step of a worker is one access to a shared variable, so that everything the
mutex is for can go wrong if it is not taken: `GetMode`, `SetMode`, `Load`,
`ResetMode` are the load of the default files with its save and restore of
`asyncMode`; `GetMutex` reads the mode, `Enter` takes the mutex or nothing,
`Extract`, `AddPrecomputed` and `SetString` use the table, `Leave` gives the mutex back.
`LockBatch`, `Gdb`, `ReadCount`, `WriteCount`, `Fail` and `UnlockBatch` are the part of a
task under the other mutex. `SetAsyncAll` and `Wait` are the main thread.
A task makes any sequence of at most `Calls` calls, any of which may be made with the
batch's mutex held, as a warning about a second script of the same name is. It then counts
the script or sets an error (`Finish`), or ends with neither: `Skip` is `DecompileGsc` returning
OK for a script of another vm or one that `PreLoadCode` wrote, `Throw` an exception that
leaves the detached task. `dropped` remembers these scripts, so that `CountsExact` says where the
count of the tool and the number of its scripts differ.

`ExtractPtr` looks a hash up with no mutex. With a writer in the table that is a data race, and
the end of the process is one of its outcomes (`terminated`), after which no thread goes on.
`GuardsExclude` is therefore about the calls that ask for the mutex, and `BatchEnds` allows
this end and that of an exception.

Abstractions. The other threads of the process do not use the hashes during the
batch (the command line waits for the pool; see the hazard about the window that
does not). The default files can be read. A hash is already masked. The batch adds strings
one by one. The pool runs a task on any free thread.

### Updater

The variables are the files of the installation (`installed`, `zip`, `tmp`,
`cfg`), the server's version, and for each process where it is and what it holds:
its configuration, its own version, its download, and the state of the updater it
started. `Acts` are the processes the updater waits for, `Tools` the
`acts-updater.exe` processes that it does not. A file is written in two steps,
torn between them. Any process may be killed at any step, time may pass, a version may
be published, a download or a write may fail.

Abstractions. Time is the boolean `recent` (`lastCheck + timeDelta > now`). The
archive is the version in it. The
configuration file can be written. The refusals of a development build or
of the user are one outcome of `FetchVersion`. Three variables are not in the program:
`damaged` remembers that an extraction left a file
out or half written, or that two updaters extracted different archives together, after which nothing
is claimed until reinstallation; `checks` counts the
requests since the time passed; `overlap` remembers that two processes were in `FindUpdate`
together. Such processes read the file before any saves it and each
asks the server, which the code does not prevent: `CheckedOnce` is about
processes that start after one another.

### TextExpand

The caller counts a task and detaches it, one at a time, then waits; a task handles
its indices, looks at the stop at the multiples of `Period`, adds its stride,
and counts itself out. `Word` is the loop that turns an index into a word. A user may
stop at any time. `handled` remembers which task had which index: `AllWords` says that
no index is handled twice and that at the end the words of the indices are all the words.
`hasStop` is whether the caller gave an `AsyncStop`: without one the first task that ends
calls a null object (`NullDecRun`), and the process ends with it.

### StaticAllocator

The array is a function from offsets to headers. A header stays in memory when its
block is merged, and the bytes of a block belong to the caller, so that the
field `allocated` which a split does not write may hold what was there. Offsets and
lengths are in units; the program's are bytes, and the code does not align.

Blocks are freed in any order. `FreeRef` finds the block before through `prev`, which a split and
a merge leave stale in the block after: it then reads `allocated` where there is no header,
or that of some other block, and may write there. That free is a step like the others, and
`misled` remembers it; the bytes of the caller decide what happens next, and the model stops.
`Disjoint` and `LiveInChain` hold up to there: nothing else breaks them.

### AsmLayout

A behaviour compiles one function, from the size of the buffer before it to its link
tables. `LayoutNode` is one iteration of `ComputeRelativeLocations`, `WriteNode` one call of
`Write`; `JumpDelta` and `GetFLoc` are what the second pass and the tables take from the first.
`Link` compares with the reader: `ImportAt` is where `PatchCode` of the decompiler, which does
what the game does when it loads a script, writes the reference.

| Code | Module |
|---|---|
| `writeExport` | `AlignExport` |
| `ComputeRelativeLocations`, the `ShiftSize` methods | `LayoutNode`, `ShiftSize`, `Laid`, `LaidCall` |
| the `Write` methods | `WriteNode`, `Put`, `PutCall`, `WriteFails` |
| `AscmNodeCreateLocalVariables` | `CreateLocalVariables` |
| `AscmNodeJump` | `JumpDelta`, `TooFar`, `AsInt16` |
| the link tables, `PatchCode` | `Link`, `GetFLoc`, `GetDataFLoc`, `ImportAt` |

Abstractions. A node is its sizes and alignments: the two families of formulas are written out
separately, from the two families of methods, never one from the other. Opcodes and values have no content. The
flags of a machine are the six that change a size. `MachinesAssumption` says two things of them
that every machine the compiler accepts satisfies. One of these machines, T7_1B (`VMF_ALIGN` without
`VMF_OPCODE_U16`), lays opcodes out one byte wide and writes them aligned and two wide: `OneWidth` says of
a machine that it does not. The behaviours of T7_1B are in the model and in the run; the properties of the
placement are stated for the machines with `OneWidth`, and are false for it: see "Findings".

### Preprocessor

A line is its effect. A step handles one line of the running call, a call being a record with
its text, its line and its stack `eraseCtx`; `#insert` pushes a call, and the definitions
and the depth are shared by all. `ends` says whether the last comment of a file is closed (the
pass over strings and comments that comes first only fails there). `ReplaceDefines` ends the text early
after a value longer than its name, which the code does.

`taken` is not in the code: it keeps, for each open conditional, whether its condition
holds in the branch the line is in. `BranchesFollowed` says that the stack of flags means just that. It
stops at an `#else` of an inner conditional (`nested`), where the code does
something else: see "Findings".

## Runs

| Run | Instance | Question |
|---|---|---|
| `kmerger_safety` | 3 workers, 2 units, up to 5 batches, any task may throw | exclusion, ownership, wakeups, balance of the tree |
| `kmerger_refines` | 3 workers, 3 units, up to 5 batches, any task may throw | whole result or an error that happened, the call returns, `ExternalMerge` is implemented |
| `mergeiterators` | 1, 2, 3 and 5 chunks of up to 3 nodes, whole or with one cut anywhere | no node decoded over while pointed to, `SortedMerge` is implemented |
| `hashstore` | 2 threads, 3 scripts, 2 hashes, 2 strings, 1 call, each way a task can end | the table under its mutex, the counts, no deadlock |
| `updater_acts` | 2 `acts`, 2 versions, 2 looks | no downgrade, updaters end |
| `updater_tools` | 1 `acts` with both commands, 1 tool, 2 versions, 1 look | one version in the directory, one request per period |
| `textexpand_odd` | 3 tasks, 2 entries and a terminator, period 4, indices below 27, a stop or none | each word once, exact count, stop obeyed, return |
| `textexpand_even` | 2 tasks | refuted: every task obeys a stop |
| `staticallocator` | 8 units, lengths 1 to 3, freed in any order | no overlap and no lost block until a free follows a stale `prev` |
| `asmlayout` | 5 kinds of machine (T7_1B among them), bodies of up to 3 nodes after the variables | the two passes agree, links hit operands, jumps land |
| `preprocessor` | a file of up to 3 lines or a nested one, and one it inserts; 2 texts, depth 4 | depth given back, errors never lost, parts kept as their conditionals say, cyclic inserts end |
| `preprocessor_else` | the lines of `src/test/gsc-parser/preproc.gsc` | refuted: an inner `#else` chooses the other branch |

Why the bounds are enough. *KMerger*: three workers are one that creates, one that
merges and one that sleeps or searches; five batches with two units fill layers 0, 1
and 2 and leave a chunk over, with three units the last merge takes fewer than a
full group. The instance with three workers is what the proofs lift to any number.
*MergeIterators*: three chunks and five have an odd level at the bottom and above it; strings that
continue each other and one that does not give every length of shared prefix; equal strings
are in the same chunk and in different ones; three nodes make a reader that is asked again
after its node was taken, asked again while it waits, and asked at its end.
*HashStore*: two threads are enough for a race on one table and for a cycle of two
mutexes; the third script finds the batch half counted; one hash of the default files and
one that is not separate the two kinds of answers. Its safety properties are proved
for all values. *Updater*: two processes are needed to have a stale download, two
versions for a downgrade, since a forced update downloads the one already installed, and
it may be stale when it is applied; one
look or two at the processes is zero, some or all of the wait; the commands matter where a
second request could be made. *TextExpand*: a period of
four against three and two tasks has the two cases, a stride prime to the period or not;
27 indices hold every word of up to three entries. *StaticAllocator*: eight
units hold four blocks, so that a block has neighbours on both sides that
have neighbours; the first stale `prev` is followed at the seventh call, and
the instance goes on to the twenty-seventh. *AsmLayout*: three nodes are a jump, what it jumps over and its target, behind
zero to three variables that move the function's first bytes through the alignments; groups
of 17000 and 66000 opcodes take a jump past what an `int16_t` and past what `MAX_JUMP` allows.
The proofs lift it to any body. *Preprocessor*: depth 4 instead of 10 is a file that inserts another
that inserts another and is refused; two texts show what the first leaves; two names for the
same conditional are not needed, since a conditional looks at one.

Deadlock is checked, except for `Updater` and `HashStore`: the processes of a user may
all be closed and the batch ends. `BatchEnds` says that a batch does not stop before.
The sequential modules have a step `Done` that is enabled where they may stop and nowhere
else.

## Fairness

Weak fairness of each worker and of the thread that waits, in `KMerger`, `HashStore` and
`TextExpand`: an operating system runs a thread that can go on. A mutex is given
to somebody, not to everybody: nothing here needs strong fairness, since no worker has
to win for the call to return. `SpuriousWakeup` and failures are not fair: they may
never happen. In `TextExpand` a stop is not fair: the user may never stop. In
`Updater` only the started updater is fair. Nothing makes a user close `acts`, a server
publish or time pass, so that `UpdatersEnd` holds because the updater counts its looks.
In `Preprocessor` and `MergeIterators` the thread that called goes on (weak fairness of `Step`);
a call from outside of the preprocessor need not come. `ExternalMerge` and `SortedMerge` are weakly
fair as a whole.

## Proofs

One module of proofs extends each component. What follows holds for every value of the
constants that the named assumptions of the modules allow (`KMergerAssumption`,
`InputsAssumption`, `HashStoreAssumption`, `UpdaterAssumption`, `TextExpandAssumption`,
`StaticAllocatorAssumption`, `VMAssumption`, `MachinesAssumption`, `NodesAssumption`,
`LocalsAssumption`, `SizesAssumption`, `TextsAssumption`, `OptionsAssumption`,
`DepthAssumption`); TLC evaluates them in the runs. A theorem that needs a hypothesis more
is given with it.

**`KMergerProofs`**: any finite set of workers, any number of units, any bound on the
input, any choice of what may fail.

- `TypeCorrect`: `Spec => []TypeOK`, from `TypeInv`, which adds to `TypeOK` that the
  sets of chunks are finite, that a merge has inputs, and that a worker's program
  counter agrees with its job: the layer of a merged chunk is the maximum of a
  set that must be finite and not empty;
- `CreateExclusive`: `Spec => []OneCreateTask`, from `CreateInv`: one token passes from
  the thread in `PushAndJoin` to the queue, to the worker that creates, to the queue
  again, and is gone when the input ends or the task fails. `OneCreateTask` alone is not
  inductive: nothing in it keeps `PushAndJoin` from pushing while a worker creates;
- `WakeupsReachTasks`: `Spec => []NoLostWakeup`, inductive by itself: each push wakes a
  worker if one sleeps, and a worker goes to sleep only when no task is queued;
- `Ownership`: `Spec => []ChunksOwned`, from `OwnInv`: disjointness, presence on disk, and
  one record for each file of the list (`Singular`), without which a search could take
  one of two records of a file and leave the other;
- `ResultWhole` (`ResultComplete`) and `ErrorsHaveCause` (`NoSpuriousError`): what a worker holds is a
  group (`HandInv`), the ends of the threads (`FlowInv`), two chunks in the list
  always have somebody who will merge them once the input has ended (`SearchInv`), each batch
  read is in one file somebody has (`ContentInv`); `ResultInv` is what follows for the call;
- `StepsRefine`: the initial states and the steps of `KMerger` are those of `ExternalMerge`, or
  stutters, under the mapping of `ImplementsExternalMerge`: one lemma for each action;
- `GroupsFound` (`FullGroupsSearched`), from `LayerInv`: the full groups of each layer are
  counted, and each insertion makes at most one more and sends one worker;
- `TreeBalanced` (`BalancedTree`), from `TreeInv`: before the input has ended every group in a task or a
  worker's hands is `Units` chunks of one layer, each with `BatchesIn` that layer; their batches
  are apart (`ContentInv`), so that the merged chunk has `Units` times as many.

**`HashStoreProofs`**: any pool, scripts, hashes, strings, default files, initial mode and
number of calls.

- `ModeStays` (`ModeKept`) and `WritersExclusive` (`GuardsExclude`) from `LockInv`: during the
  batch the mode is `Types` wherever a thread is, each saved copy holds `Types`, therefore
  each guard was made with the mutex, and a thread that asked for it owns it while it is in the
  table. `ExtractPtr` does not ask, and is not in it;
- `DefaultsFirst` (`LoadedOnce`) and `StringsStay` (`FirstWins`) from `TableInv`: the
  default files are in the table once loaded, nobody looks a hash up before,
  and what a thread saw of an entry just before it writes is still true, which
  needs `LockInv`;
- `TypeCorrect` (`TypeOK`) and `AnswerExact` (`CountsExact`) from `BatchInv`: the other mutex has
  one owner (`HolderInv`), a script is to be done, held by one worker, or over (`FileInv`), and the
  count is that of the scripts counted less those of which a worker has
  read the count and not written it (`AnswerInv`); those dropped are over and in neither. That the count stays within the scripts
  rests on all of it.

**`AsmLayoutProofs`**: any machines, nodes, variables, buffer sizes and
length of bodies. `Inv` has the input (`InputInv`), the counters of the passes (`Counters`), what the first
pass left for each node (`Layout`: `rloc` of a node is `rloc` of the one before moved by its `ShiftSize`), what the
second did (`Written`: it wrote where the first said, so far) and the tables (`Tables`).

- `TypeCorrect`: `Spec => []TypeOK`;
- `Agreement`: `Spec => []PassesAgree`. The two families of sizes differ in their
  formulas: they agree because the function starts at a multiple of 8 (`AlignExport`), so that
  aligning a relative or an absolute location is the same, and for the machines whose opcodes have
  one width (`OneWidth`, a condition of the three properties): for the others it is false;
- `JumpsLandInReach`: `Spec => []JumpsInReachLand`. The target may be padded after the end of the jump,
  forwards or backwards: both passes pad it to the same place;
- `LinksHitOperands`: `Spec => []OperandsLinked`, for every reference but that of a builtin call of a
  machine with IW calls (`ShiftedByFLoc`), which is linked one byte too far.

**`PreprocessorProofs`**: any files, texts, names, configuration, depth and
number of calls. `Inv` is `TypeOK`, that `taken` and `eraseCtx` have the same length (`Balanced`), that an
error of a call that still runs was reported and the other way round (`ErrInv`), and that each
flag of a stack says that a condition at or under it does not hold (`BranchInv`).

- `TypeCorrect`: `Spec => []TypeOK`, with the depth equal to the number of calls;
- `ErrorsSurface`: `Spec => []ErrorsReach`;
- `FlagsFollow`: `Spec => []BranchesFollowed`. The property speaks of the top of each stack, and an
  `#endif` uncovers what is under it: the invariant must speak of every flag.

**`TextExpandProofs`**: any number of tasks, any last index, period and dictionary.

- `TypeCorrect` (`TypeOK`) and `NoOverflow` (`RunningCounts`) from `CountInv`: the tasks that
  were not announced have not begun;
- `IndicesShared` (`EachIndexOnce`) and `TriedOnce` (the action property `NeverTwice`) from `PathInv`: an
  index has the residue of its task, and a task has handled all of its residue up to where it is, unless
  stopped;
- `EveryWord` (`AllWords`), if the dictionary has no entry twice (`Distinct`): an index becomes
  a word by `Word`, a recursive function; that it is one to one and reaches every word is an induction on the
  index and on the length, joined to `IndicesShared`. With an entry twice two indices are the same
  word, so that the hypothesis is needed;
- `StopSeen` (`StopEndsTasks`), if the number of tasks and the period have no common
  factor (`Coprime`; for the code's period, if the number is odd): in as many rounds as the
  period a task meets a multiple of it. The run `textexpand_even` is what happens
  without it.

**`MergeIteratorsProofs`**: any number of chunks, any contents, cut anywhere.

- `TypeCorrect` (`TypeOK`) from `TypeInv` and `PathInv`: the calls of `operator bool` are a path down
  the tree, through iterators that have no node. That the tree of the constructor is one, each
  iterator the child of one other, is an induction on the levels (`Levels`), each at most half as
  long as the one before, until one node is left;
- `NoneOverwritten` (`NothingOverwritten`) from `HolderInv` and `WrittenInv`: at most one
  pointer leads to a node, from above its reader, which does not wait, and what was decoded was written unless
  it is still wanted.

**`UpdaterProofs`**: any processes, files, number of versions and looks, and commands.

- `TypeCorrect` (`TypeOK`);
- `OneVersion` (`InstallWhole`) from `WholeInv`: updaters that extract together have one archive, the files
  they have done are of it, and when none extracts all files are of one version;
- `AskedOnce` (`CheckedOnce`) from `CheckInv`: unless two overlapped or the configuration was torn, a process that
  is between reading the configuration and saving it is alone there, and it saves the date
  before it asks;
- `NeverOlder` (`NoDowngrade`) from `AgeInv`, if `Tools` is empty: nobody brings an archive while an updater
  has stopped waiting, because it waits for all that could. A tool started by hand
  is not waited for. The run `updater_acts`, which checks the property, has none either.

**`StaticAllocatorProofs`**: any size of the array and of a header, any lengths, blocks freed in any
order. The invariant `ListInv` says that until a free was `misled` there is a set of headers, the
list, in which each block ends before the next header (`Linked`); each block of the caller is one of
them, marked and long enough, with a header of its own (`Held`); the caller writes into none of them
(`Clean`); and no link goes back, in the headers that are no more in the list either (`Rising`). It
says nothing of `prev`: a free that follows it to the block before removes a header from the list
(`LinkedLess`), as one that takes in the next block does, and any other is misled. `Chain`, which follows
the links, is related to the list by an induction from the end of the array (`BlocksAre`).

- `TypeCorrect` (`TypeOK`): no length of a split is negative, no link leaves the array, in the misled
  step either;
- `BlocksApart` (`Disjoint`) and `BlocksFound` (`LiveInChain`), whose walk cannot pass a header of the list.

Each step lemma splits on the actions of `Next`; the theorems combine initial state,
step and consequence with PTL. An induction over the numbers is made with a set: the
lemma `SetInduction`, from `WFMin`, says that a set of naturals that has each number
whose predecessors it has is `Nat`.

Model-checked only: liveness (`Returns`, `BatchEnds`, `UpdatersEnd`) and the fairness of
`ImplementsExternalMerge`, which are outside the prover; `ImplementsSortedMerge`, of which
the invariants above are a part and which is in the plan. Not claimed: `NoDowngrade` where a tool
is started by hand; blocks of the allocator after a free has followed a stale `prev`; the placement
of the machine T7_1B; lookups beside an insertion.

## Findings

Checked by a run that refutes what the source says:

- `textexpand_even`: with an even number of threads, tasks whose indices are never a
  multiple of the period ignore the stop (`acts/tools/hashes/text_expand.cpp:124`).
- `preprocessor_else`: the `#else` of a conditional that is inside a kept one always keeps its text
  (`shared/core/preprocessor.cpp:376`), so that both branches stay.

Seen while modelling, where nothing in the repository says otherwise, so that no run
refutes anything; the modules do what the code does, except where said:

- a jump of more than 32767 bytes passes the test on `MAX_JUMP` and is cut to 16 bits
  (`acts/tools/gsc/compiler/gsc_compiler_asm.hpp:693`);
- `GetFLoc` gives a builtin call one byte more than `PatchCode` takes back (l.393);
- a split does not set the `prev` of the block after it (`shared/core/memory_allocator_static.hpp:53`),
  and neither does a merge into the block before (l.86). In twelve units: allocate 2, 3 and 1,
  free the 3, allocate 1 and 1 in its place, free the first of these two and then the first 1. Its `prev` is
  still where the 3 was, so that it merges into the first of the two, past the live second one, and the
  next allocation of 2 overlaps that one: `Disjoint` is false there. `ActsVM` frees the nodes of
  an array head first and then the array (`vm/acts_vm.cpp:105-137`), so that no order can be
  relied on. A merge does not give back the bytes of the second header (l.79);
- `ExtractPtr` looks a hash up with no mutex (`acts/hashutils.cpp:450-453`), from parallel tasks
  (`acts/tools/gsc/gsc_decompiler.cpp:301, 318, 341, 392, 779, 1135, 1151`), while others
  insert under it; the asynchronous mode is announced as experimental (l.2304);
- a parallel decompilation reports OK for scripts it did not decompile: those of another vm and
  those `PreLoadCode` wrote (l.131-133, 244-246) are not counted, and an exception of the detached task
  (l.2329) is neither caught, as in the branch that is not parallel (l.2297), nor reported;
- the `AsyncStop` of the text expansion may be null, its default (`acts/tools/hashes/text_expand.hpp:46, 51, 59`),
  and l.111 and 125 of `text_expand.cpp` test it, but the end of a task does not (l.137). The calls of
  `acts/tools/hashes/hash_scanner.cpp:712-768, 924` give none; the tests give one. `NullDecRun` is this step;
- for T7_1B, which `src/README.md:86` lists as compilable, the first pass takes opcodes of one byte
  (`acts/tools/gsc/compiler/gsc_compiler_function_object.cpp:137`) and the second writes them aligned and
  two bytes wide (`gsc_compiler_asm.hpp:99-104`). Without `OneWidth` TLC refutes `PassesAgree`,
  `OperandsLinked` and `JumpsInReachLand`: a body of one opcode is 1 byte long for the first pass and 2 for
  the second; a lazy link between an opcode and a jump back to it makes the jump land two bytes late;
- a member of the archive that cannot be written is skipped, and the new version is
  announced all the same (`shared/core/updater.cpp:143`);
- `ReplaceDefines` moves the end of the line to the end of the text when a value is longer
  than its name, so that the lines after it are not processed (`shared/core/preprocessor.cpp:220`);
- nothing keeps two updaters from extracting together: three processes of which one is
  `acts-updater.exe` can start two with different archives, whose files end up mixed
  (`shared/core/updater.cpp:105`); `damaged` excludes it;
- a list of definitions keeps its commas (`shared/core/preprocessor.cpp:151`); not modelled;
- `MergeChunks` does not look at the state of the file it wrote (`lib/actslib/rdf/raio.hpp:406`);
  not modelled.

## Not modelled

What a modelled component leaves out is in its `note` in `PROJECT.json`. Nothing more of the
following can be modelled and be worth a check:

- *ActsVM*: nothing in the repository makes a VM, most opcodes have no handler, and the loop
  over the exports of a script never moves to the next one (`vm/acts_vm.cpp:501`). What it
  should promise is not in the source.
- *RDF parser, byte buffers, configuration, logs*: one cursor over a text or bytes, moved by one
  thread. What the rest of the program needs of them (the number of batches, a file torn by a
  kill) is in `KMerger` and `Updater`.
- *Events, systems, plugins*: filled by static constructors and walked once, in order, by
  one thread.
- *Obfuscator*: the file of names is read, added to and written back by one thread. That names
  stay distinct rests on a hash over a large alphabet, which a small instance does not have.
- *Fastfile reader, patches, binary difference*: blocks and windows of bytes read in order, by
  formats of the games.
- *The rest of the compiler*: the grammar's tree to nodes is the translation of a language, one
  case for each construct; `OptimizeNodes` runs before the first pass and only removes and
  replaces nodes, for which the bodies of `AsmLayout` stand.
- *Decompilation of one script*: patterns of control flow of each game, read from
  opcode tables that are data.
- *Dumpers, linkers, unlinkers, opcode tables, generated parsers, decryption tables, GPU
  kernels, hooks and plugins, user interfaces, wrappers of the operating system, vendored
  libraries, data and build files*: pure translations whose correctness is a fact about
  a foreign format, or code whose environment is not in the repository.
