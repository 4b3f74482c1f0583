----------------------------- MODULE HashStore -----------------------------
(***************************************************************************)
(* The hash table and the locks of a parallel decompilation                *)
(* (core/acts/hashutils.cpp, core/shared/core/async.cpp, the asynchronous  *)
(* branch of gscinfo in gsc_decompiler.cpp).                               *)
(*                                                                         *)
(* asyncMutex (here hashLock) protects the table, but it is only taken     *)
(* when asyncMode says so when the guard is made, and every reader first   *)
(* changes asyncMode and puts it back.  asyncMtx (here batchLock) protects *)
(* what the scripts share.                                                 *)
(*                                                                         *)
(* A step of a worker is one access to a shared variable; a task makes any *)
(* sequence of the calls a script makes.  Some of these calls look a hash  *)
(* up with no lock at all (ExtractPtr): that race is in the model, with    *)
(* what it can do to the process.  The pool is external; an exception that *)
(* leaves a task is swallowed by it or ends the process.                   *)
(***************************************************************************)
EXTENDS Naturals, FiniteSets

CONSTANTS
    Workers,  \* the threads of the pool
    Files,    \* the scripts
    NameOf,   \* the name in the header of each script
    Keys,     \* hashes, already masked
    Strings,  \* what a hash may stand for
    Default,  \* the content of the default hash files
    PrevMode, \* asyncMode when the batch starts
    Calls,    \* bound on the calls made for one script
    None      \* no owner, no string

Types == {"LOGS", "HASHES"}

ASSUME HashStoreAssumption ==
    /\ IsFiniteSet(Files) /\ None \notin Workers \cup Strings \cup Keys \cup Files
    /\ DOMAIN Default \subseteq Keys
    /\ \A k \in DOMAIN Default : Default[k] \in Strings
    /\ PrevMode \subseteq Types /\ Calls \in Nat

VARIABLES
    \* core::async and the two mutexes
    mode, hashLock, batchLock,
    \* the table
    loaded, map,
    \* GscDecompilerGlobalContext and the answer of the tool
    gdb, decompiled, failed,
    \* the thread that makes the tasks
    mainPc, prev, todo,
    \* the workers: program counter, script, call and its arguments, locals
    pc, file, op, key, str, left, old, guard, seen, num,
    \* history: loads of the default files, keys not found, scripts decompiled,
    \* scripts whose task ended with neither a count nor an error
    loads, unknown, counted, dropped

asyncVars == <<mode, hashLock, batchLock>>
tableVars == <<loaded, map>>
batchVars == <<gdb, decompiled, failed>>
mainVars  == <<mainPc, prev, todo>>
argVars   == <<file, op, key, str, left>>
localVars == <<old, guard, seen, num>>
histVars  == <<loads, unknown, counted, dropped>>
vars == <<asyncVars, tableVars, batchVars, mainVars, pc, argVars, localVars, histVars>>

Init ==
    /\ mode = PrevMode /\ hashLock = None /\ batchLock = None
    /\ loaded \in BOOLEAN
    /\ map = [k \in Keys |-> IF loaded /\ k \in DOMAIN Default THEN Default[k] ELSE None]
    /\ gdb = {} /\ decompiled = 0 /\ failed = FALSE
    /\ mainPc = "start" /\ prev = {} /\ todo = Files
    /\ pc = [w \in Workers |-> "idle"]
    /\ file = [w \in Workers |-> None] /\ op = [w \in Workers |-> "extract"]
    /\ key = [w \in Workers |-> None] /\ str = [w \in Workers |-> None]
    /\ left = [w \in Workers |-> 0]
    /\ old = [w \in Workers |-> {}] /\ guard = [w \in Workers |-> FALSE]
    /\ seen = [w \in Workers |-> None]
    /\ num = [w \in Workers |-> 0]
    /\ loads = 0 /\ unknown = {} /\ counted = {} /\ dropped = {}

\* Where a worker may be.
Places ==
    {"idle", "work", "lockLoad", "getMode", "setMode", "load", "resetMode", "unlockLoad",
     "getMutex", "enter", "extract", "peek", "add", "set", "leave",
     "lockGdb", "lockCount", "lockFail", "gdb", "count", "writeCount", "fail",
     "unlockBatch", "endBatch"}

Goto(w, l) == pc' = [pc EXCEPT ![w] = l]

\* A call made for a log goes back to where it was made.
Return(w) == Goto(w, IF batchLock = w THEN "unlockBatch" ELSE "work")

\* The thread is free again.
EndTask(w) ==
    /\ Goto(w, "idle")
    /\ file' = [file EXCEPT ![w] = None] /\ left' = [left EXCEPT ![w] = 0]

-----------------------------------------------------------------------------
(* gscinfo, asynchronous.                                                  *)

SetAsyncAll ==
    /\ mainPc = "start"
    /\ prev' = mode /\ mode' = Types
    /\ mainPc' = "wait"
    /\ UNCHANGED <<hashLock, batchLock, tableVars, batchVars, todo, pc, argVars, localVars,
                   histVars>>

\* pool.wait(), then the mode of before.
Wait ==
    /\ mainPc = "wait" /\ todo = {} /\ \A w \in Workers : pc[w] = "idle"
    /\ mode' = prev
    /\ mainPc' = "done"
    /\ UNCHANGED <<hashLock, batchLock, tableVars, batchVars, prev, todo, pc, argVars,
                   localVars,
                   histVars>>

\* A free thread of the pool takes a task.
TakeTask(w) ==
    /\ mainPc = "wait" /\ pc[w] = "idle"
    /\ \E f \in todo : todo' = todo \ {f} /\ file' = [file EXCEPT ![w] = f]
    /\ left' = [left EXCEPT ![w] = Calls]
    /\ Goto(w, "work")
    /\ UNCHANGED <<asyncVars, tableVars, batchVars, mainPc, prev, op, key, str, localVars,
                   histVars>>

\* The next call of DecompileGsc.
Call(w) ==
    /\ pc[w] = "work" /\ left[w] > 0
    /\ left' = [left EXCEPT ![w] = @ - 1]
    /\ \E k \in Keys, s \in Strings :
          \/ /\ \E o \in {"extract", "peek"} : op' = [op EXCEPT ![w] = o]
             /\ key' = [key EXCEPT ![w] = k]
             /\ Goto(w, "lockLoad") /\ UNCHANGED str
          \/ /\ op' = [op EXCEPT ![w] = "add"] /\ key' = [key EXCEPT ![w] = k]
             /\ str' = [str EXCEPT ![w] = s]
             /\ Goto(w, "getMutex")
    /\ UNCHANGED <<asyncVars, tableVars, batchVars, mainVars, file, localVars, histVars>>

CallGdb(w) ==
    /\ pc[w] = "work" /\ left[w] > 0
    /\ left' = [left EXCEPT ![w] = @ - 1]
    /\ Goto(w, "lockGdb")
    /\ UNCHANGED <<asyncVars, tableVars, batchVars, mainVars, file, op, key, str, localVars,
                   histVars>>

\* The end of DecompileGsc: the count, or an error for the tool to return.
Finish(w) ==
    /\ pc[w] = "work"
    /\ \/ Goto(w, "lockCount") /\ counted' = counted \cup {file[w]}
       \/ Goto(w, "lockFail") /\ UNCHANGED counted
    /\ UNCHANGED <<asyncVars, tableVars, batchVars, mainVars, argVars, localVars, loads,
                   unknown, dropped>>

\* DecompileGsc is done with nothing to count: a script of another vm, or one whose
\* code PreLoadCode has already written.
Skip(w) ==
    /\ pc[w] = "work"
    /\ EndTask(w)
    /\ dropped' = dropped \cup {file[w]}
    /\ UNCHANGED <<asyncVars, tableVars, batchVars, mainVars, op, key, str, localVars, loads,
                   unknown, counted>>

\* An exception, which nothing in the task catches (its locks are released on the
\* way): the pool drops it, or it ends the process.
Throw(w) ==
    /\ pc[w] = "work"
    /\ \/ /\ EndTask(w)
          /\ dropped' = dropped \cup {file[w]} /\ UNCHANGED mainPc
       \/ /\ mainPc' = "terminated" /\ UNCHANGED <<pc, file, left, dropped>>
    /\ UNCHANGED <<asyncVars, tableVars, batchVars, prev, todo, op, key, str, localVars,
                   loads, unknown, counted>>

-----------------------------------------------------------------------------
(* ReadDefaultFileP.                                                       *)

LockLoad(w) ==
    /\ pc[w] = "lockLoad" /\ hashLock = None
    /\ hashLock' = w
    /\ Goto(w, "getMode")
    /\ UNCHANGED <<mode, batchLock, tableVars, batchVars, mainVars, argVars, localVars,
                   histVars>>

GetMode(w) ==
    /\ pc[w] = "getMode"
    /\ old' = [old EXCEPT ![w] = mode]
    /\ Goto(w, "setMode")
    /\ UNCHANGED <<asyncVars, tableVars, batchVars, mainVars, argVars, guard, seen, num,
                   histVars>>

SetMode(w) ==
    /\ pc[w] = "setMode"
    /\ mode' = old[w] \cup {"HASHES"}
    /\ Goto(w, "load")
    /\ UNCHANGED <<hashLock, batchLock, tableVars, batchVars, mainVars, argVars, localVars,
                   histVars>>

\* Forgets that the files were read.
Load_Again(w) ==
    /\ pc[w] = "load"
    /\ loads' = loads + 1
    /\ map' = [k \in Keys |->
                  IF map[k] = None /\ k \in DOMAIN Default THEN Default[k] ELSE map[k]]
    /\ loaded' = TRUE
    /\ Goto(w, "resetMode")
    /\ UNCHANGED <<asyncVars, batchVars, mainVars, argVars, localVars, unknown, counted,
                   dropped>>

\* The files are read into the table; a key that has a string keeps it.
Load(w) ==
    /\ pc[w] = "load"
    /\ IF loaded
       THEN UNCHANGED <<tableVars, loads>>
       ELSE /\ loads' = loads + 1
            /\ map' = [k \in Keys |->
                          IF map[k] = None /\ k \in DOMAIN Default THEN Default[k] ELSE map[k]]
            /\ loaded' = TRUE
    /\ Goto(w, "resetMode")
    /\ UNCHANGED <<asyncVars, batchVars, mainVars, argVars, localVars, unknown, counted,
                   dropped>>

ResetMode(w) ==
    /\ pc[w] = "resetMode"
    /\ mode' = old[w]
    /\ Goto(w, "unlockLoad")
    /\ UNCHANGED <<hashLock, batchLock, tableVars, batchVars, mainVars, argVars, localVars,
                   histVars>>

UnlockLoad(w) ==
    /\ pc[w] = "unlockLoad"
    /\ hashLock' = None
    /\ old' = [old EXCEPT ![w] = {}]
    /\ Goto(w, IF op[w] = "peek" THEN "peek" ELSE "getMutex")
    /\ UNCHANGED <<mode, batchLock, tableVars, batchVars, mainVars, argVars, guard, seen,
                   num, histVars>>

-----------------------------------------------------------------------------
(* Extract, and the loops that add the strings of a script.                *)

\* The loop asks for no lock, like the calls it makes.
GetMutex_AddForced(w) ==
    /\ pc[w] = "getMutex"
    /\ guard' = [guard EXCEPT ![w] = "HASHES" \in mode /\ op[w] # "add"]
    /\ Goto(w, "enter")
    /\ UNCHANGED <<asyncVars, tableVars, batchVars, mainVars, argVars, old, seen, num,
                   histVars>>

\* GetMutex(false): the mutex, or no mutex at all.
GetMutex(w) ==
    /\ pc[w] = "getMutex"
    /\ guard' = [guard EXCEPT ![w] = "HASHES" \in mode]
    /\ Goto(w, "enter")
    /\ UNCHANGED <<asyncVars, tableVars, batchVars, mainVars, argVars, old, seen, num,
                   histVars>>

Enter(w) ==
    /\ pc[w] = "enter"
    /\ IF guard[w] THEN hashLock = None /\ hashLock' = w ELSE UNCHANGED hashLock
    /\ Goto(w, op[w])
    /\ UNCHANGED <<mode, batchLock, tableVars, batchVars, mainVars, argVars, localVars,
                   histVars>>

Extract(w) ==
    /\ pc[w] = "extract"
    /\ unknown' = IF map[key[w]] = None THEN unknown \cup {key[w]} ELSE unknown
    /\ Goto(w, "leave")
    /\ UNCHANGED <<asyncVars, tableVars, batchVars, mainVars, argVars, localVars, loads,
                   counted, dropped>>

\* Asks for the mutex the loop already holds.
AddPrecomputed_Locks(w) ==
    /\ pc[w] = "add"
    /\ hashLock = None
    /\ seen' = [seen EXCEPT ![w] = map[key[w]]]
    /\ Goto(w, "set")
    /\ UNCHANGED <<asyncVars, tableVars, batchVars, mainVars, argVars, old, guard, num,
                   histVars>>

\* AddPrecomputed takes no lock here (async is true): it reads the entry, then
\* writes it when it is empty.
AddPrecomputed(w) ==
    /\ pc[w] = "add"
    /\ seen' = [seen EXCEPT ![w] = map[key[w]]]
    /\ Goto(w, "set")
    /\ UNCHANGED <<asyncVars, tableVars, batchVars, mainVars, argVars, old, guard, num,
                   histVars>>

\* The loop goes on with another hash or another string.
SetString(w) ==
    /\ pc[w] = "set"
    /\ map' = IF seen[w] = None THEN [map EXCEPT ![key[w]] = str[w]] ELSE map
    /\ \/ Goto(w, "leave") /\ UNCHANGED <<key, str, left>>
       \/ /\ left[w] > 0 /\ left' = [left EXCEPT ![w] = @ - 1]
          /\ \E k \in Keys, s \in Strings :
                key' = [key EXCEPT ![w] = k] /\ str' = [str EXCEPT ![w] = s]
          /\ Goto(w, "add")
    /\ UNCHANGED <<asyncVars, loaded, batchVars, mainVars, file, op, localVars, histVars>>

\* The end of the guard.
Leave(w) ==
    /\ pc[w] = "leave"
    /\ hashLock' = IF guard[w] THEN None ELSE hashLock
    /\ guard' = [guard EXCEPT ![w] = FALSE] /\ seen' = [seen EXCEPT ![w] = None]
    /\ op' = [op EXCEPT ![w] = "extract"]
    /\ key' = [key EXCEPT ![w] = None] /\ str' = [str EXCEPT ![w] = None]
    /\ Return(w)
    /\ UNCHANGED <<mode, batchLock, tableVars, batchVars, mainVars, file, left, old, num,
                   histVars>>

\* A thread that is writing the table.
Writes(w) == pc[w] \in {"add", "set"} \/ (pc[w] = "load" /\ ~loaded)

\* ExtractPtr asks for no mutex: with a writer in the table what it reads is a data
\* race, with any answer (nothing here depends on it) or the end of the process.
ExtractPtr(w) ==
    /\ pc[w] = "peek"
    /\ op' = [op EXCEPT ![w] = "extract"] /\ key' = [key EXCEPT ![w] = None]
    /\ Return(w)
    /\ \/ UNCHANGED mainPc
       \/ (\E v \in Workers \ {w} : Writes(v)) /\ mainPc' = "terminated"
    /\ UNCHANGED <<asyncVars, tableVars, batchVars, prev, todo, file, str, left, localVars,
                   histVars>>

-----------------------------------------------------------------------------
(* What the scripts share.                                                 *)

\* Does not lock to count.
LockBatch_NotToCount(w) ==
    /\ IF pc[w] = "lockCount" THEN UNCHANGED batchLock
       ELSE batchLock = None /\ batchLock' = w
    /\ \/ pc[w] = "lockGdb" /\ Goto(w, "gdb")
       \/ pc[w] = "lockCount" /\ Goto(w, "count")
       \/ pc[w] = "lockFail" /\ Goto(w, "fail")
    /\ UNCHANGED <<mode, hashLock, tableVars, batchVars, mainVars, argVars, localVars,
                   histVars>>

LockBatch(w) ==
    /\ batchLock = None /\ batchLock' = w
    /\ \/ pc[w] = "lockGdb" /\ Goto(w, "gdb")
       \/ pc[w] = "lockCount" /\ Goto(w, "count")
       \/ pc[w] = "lockFail" /\ Goto(w, "fail")
    /\ UNCHANGED <<mode, hashLock, tableVars, batchVars, mainVars, argVars, localVars,
                   histVars>>

\* The debug data of a name is made once; the warning extracts the name, which
\* takes the other mutex.
Gdb(w) ==
    /\ pc[w] = "gdb"
    /\ IF NameOf[file[w]] \in gdb
       THEN /\ op' = [op EXCEPT ![w] = "extract"] /\ \E k \in Keys : key' = [key EXCEPT ![w] = k]
            /\ Goto(w, "lockLoad") /\ UNCHANGED gdb
       ELSE /\ gdb' = gdb \cup {NameOf[file[w]]}
            /\ Goto(w, "unlockBatch") /\ UNCHANGED <<op, key>>
    /\ UNCHANGED <<asyncVars, tableVars, decompiled, failed, mainVars, file, str, left,
                   localVars,
                   histVars>>

\* decompiledFiles++, which reads and writes.
ReadCount(w) ==
    /\ pc[w] = "count"
    /\ num' = [num EXCEPT ![w] = decompiled]
    /\ Goto(w, "writeCount")
    /\ UNCHANGED <<asyncVars, tableVars, batchVars, mainVars, argVars, old, guard, seen,
                   histVars>>

WriteCount(w) ==
    /\ pc[w] = "writeCount"
    /\ decompiled' = num[w] + 1
    /\ Goto(w, "endBatch")
    /\ UNCHANGED <<asyncVars, tableVars, gdb, failed, mainVars, argVars, localVars, histVars>>

Fail(w) ==
    /\ pc[w] = "fail"
    /\ failed' = TRUE
    /\ Goto(w, "endBatch")
    /\ UNCHANGED <<asyncVars, tableVars, gdb, decompiled, mainVars, argVars, localVars,
                   histVars>>

\* Goes on with a script that is finished.
UnlockBatch_NoReturn(w) ==
    /\ pc[w] \in {"unlockBatch", "endBatch"}
    /\ batchLock' = IF batchLock = w THEN None ELSE batchLock
    /\ Goto(w, "work")
    /\ UNCHANGED <<mode, hashLock, tableVars, batchVars, mainVars, argVars, localVars, histVars>>

UnlockBatch(w) ==
    /\ pc[w] \in {"unlockBatch", "endBatch"}
    /\ batchLock' = IF batchLock = w THEN None ELSE batchLock
    /\ IF pc[w] = "unlockBatch"
       THEN Goto(w, "work") /\ UNCHANGED <<file, left, num>>
       ELSE EndTask(w) /\ num' = [num EXCEPT ![w] = 0]
    /\ UNCHANGED <<mode, hashLock, tableVars, batchVars, mainVars, op, key, str, old,
                   guard, seen,
                   histVars>>

-----------------------------------------------------------------------------

ReadDefaultFile(w) ==
    LockLoad(w) \/ GetMode(w) \/ SetMode(w) \/ Load(w) \/ ResetMode(w) \/ UnlockLoad(w)
UseTable(w) ==
    \/ GetMutex(w) \/ Enter(w) \/ Extract(w) \/ AddPrecomputed(w) \/ SetString(w) \/ Leave(w)
    \/ ExtractPtr(w)
UseShared(w) ==
    LockBatch(w) \/ Gdb(w) \/ ReadCount(w) \/ WriteCount(w) \/ Fail(w) \/ UnlockBatch(w)

\* A thread of the pool runs while the process does.
DecompileGsc(w) ==
    /\ mainPc # "terminated"
    /\ \/ TakeTask(w) \/ Call(w) \/ CallGdb(w) \/ Finish(w) \/ Skip(w) \/ Throw(w)
       \/ ReadDefaultFile(w) \/ UseTable(w) \/ UseShared(w)

Next == SetAsyncAll \/ Wait \/ \E w \in Workers : DecompileGsc(w)

\* The caller and the threads of the pool are scheduled, and a script ends.
Spec ==
    /\ Init /\ [][Next]_vars
    /\ WF_vars(SetAsyncAll \/ Wait)
    /\ \A w \in Workers : WF_vars(DecompileGsc(w))

-----------------------------------------------------------------------------
(* Properties.                                                             *)

\* Every variable keeps its type.
TypeOK ==
    /\ mode \subseteq Types /\ prev \subseteq Types
    /\ {hashLock, batchLock} \subseteq Workers \cup {None}
    /\ loaded \in BOOLEAN /\ map \in [Keys -> Strings \cup {None}]
    /\ decompiled \in 0..Cardinality(Files) /\ failed \in BOOLEAN
    /\ mainPc \in {"start", "wait", "done", "terminated"} /\ todo \subseteq Files
    /\ pc \in [Workers -> Places]
    /\ file \in [Workers -> Files \cup {None}]
    /\ op \in [Workers -> {"extract", "peek", "add"}]
    /\ key \in [Workers -> Keys \cup {None}] /\ str \in [Workers -> Strings \cup {None}]
    /\ left \in [Workers -> 0..Calls]
    /\ old \in [Workers -> SUBSET Types] /\ guard \in [Workers -> BOOLEAN]
    /\ seen \in [Workers -> Strings \cup {None}] /\ num \in [Workers -> Nat]
    /\ loads \in Nat /\ counted \subseteq Files /\ dropped \subseteq Files

\* No thread writes the table while another one writes it or looks a hash up in Extract,
\* although the lock of each depends on a mode all of them keep writing (hashutils.cpp:
\* 28-33 and 172-189).  ExtractPtr makes no guard and is not in this promise.
GuardsExclude ==
    \A v, w \in Workers : v # w => ~(Writes(v) /\ (Writes(w) \/ pc[w] = "extract"))

\* The mode of the batch is in force until the batch ends, logs included, and then the
\* mode of before is back (gsc_decompiler.cpp:2305-2306 and 2342).
ModeKept ==
    /\ mainPc = "wait" => mode = Types
    /\ mainPc = "done" => mode = PrevMode

\* The string of a hash never changes once it has one: Extract may have given it to
\* any thread (hash_store.cpp:62-72).
FirstWins ==
    [][\A k \in Keys : map[k] # None => map'[k] = map[k]]_vars

\* The default files are read once for all the threads, and a hash of these files is
\* never reported unknown, however early it is asked (hashutils.cpp:173-187).
LoadedOnce ==
    /\ loads <= 1
    /\ unknown \cap DOMAIN Default = {}

\* When the tool returns, it says how many scripts were decompiled, and it returns an
\* error exactly when a script was neither decompiled nor dropped without a word
\* (gsc_decompiler.cpp:1802 and 2334-2337; 131-133, 244-246 and 2329 for the dropped).
CountsExact ==
    mainPc = "done" =>
        decompiled = Cardinality(counted) /\ failed = (counted \cup dropped # Files)

\* The batch ends, unless the process does: no order of the two mutexes and of the calls
\* made with one of them held blocks the threads.
BatchEnds == <>(mainPc \in {"done", "terminated"})
=============================================================================
