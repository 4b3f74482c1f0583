-------------------------- MODULE HashStoreProofs --------------------------
(***************************************************************************)
(* What holds of HashStore for every pool of threads, every set of scripts *)
(* and of hashes, and every mode the batch is started in.                  *)
(***************************************************************************)
EXTENDS HashStore, FiniteSetTheorems, TLAPS

\* The places where a worker must own the mutex of the table: in the load of the
\* default files, and with the guard of a call.
InLoad  == {"getMode", "setMode", "load", "resetMode", "unlockLoad"}
InTable == {"extract", "add", "set", "leave"}

-----------------------------------------------------------------------------
(* The mode and the mutex.                                                 *)

\* What the proofs need of the types of the variables of the locks.
LockTypes ==
    /\ pc \in [Workers -> Places] /\ op \in [Workers -> {"extract", "peek", "add"}]
    /\ guard \in [Workers -> BOOLEAN] /\ old \in [Workers -> SUBSET Types]
    /\ mainPc \in {"start", "wait", "done", "terminated"}

\* No task runs outside the batch, and the mode is the batch's while it runs.
ModeInv ==
    /\ mainPc \in {"start", "done"} => mode = PrevMode /\ \A w \in Workers : pc[w] = "idle"
    /\ mainPc \in {"wait", "terminated"} => mode = Types /\ prev = PrevMode
    /\ \A w \in Workers : pc[w] \in {"setMode", "load", "resetMode"} => old[w] = Types

\* A guard made in the batch locks, and the mutex has one owner.
OwnerInv ==
    \A w \in Workers :
       /\ pc[w] \in InTable \cup {"enter"} => guard[w]
       /\ pc[w] \in InLoad \cup InTable => hashLock = w

LockInv == LockTypes /\ ModeInv /\ OwnerInv

\* The three parts hold at the start and no step of any thread breaks them.
LEMMA LockInvHolds == Spec => []LockInv
<1> USE HashStoreAssumption
<1>1. Init => LockInv
  <2> SUFFICES ASSUME Init PROVE LockInv
    OBVIOUS
  <2>1. guard \in [Workers -> BOOLEAN]
    BY Zenon DEF Init
  <2>2. LockTypes
    BY <2>1 DEF Init, LockTypes, Places
  <2>3. ModeInv
    BY DEF Init, ModeInv
  <2>4. OwnerInv
    BY DEF Init, OwnerInv, InLoad, InTable
  <2> QED BY <2>2, <2>3, <2>4 DEF LockInv
<1>2. ASSUME LockInv, [Next]_vars PROVE LockInv'
  <2> USE <1>2 DEF LockInv
  <2>1. CASE UNCHANGED vars
    BY <2>1 DEF vars, Places, Goto, LockTypes, ModeInv, OwnerInv, InLoad, InTable,
            asyncVars, tableVars, batchVars, mainVars, argVars, localVars
  <2>2. CASE SetAsyncAll
    BY <2>2 DEF SetAsyncAll, Places, Goto, LockTypes, ModeInv, OwnerInv, InLoad, InTable,
            asyncVars, tableVars, batchVars, mainVars, argVars, localVars
  <2>3. CASE Wait
    BY <2>3 DEF Wait, Places, Goto, LockTypes, ModeInv, OwnerInv, InLoad, InTable,
            asyncVars, tableVars, batchVars, mainVars, argVars, localVars
  <2>4. CASE \E w \in Workers : DecompileGsc(w)
    <3> SUFFICES ASSUME NEW w \in Workers, DecompileGsc(w) PROVE LockInv'
      BY <2>4
    <3>1. CASE TakeTask(w)
      <4> USE <3>1 DEF TakeTask, Goto, asyncVars, tableVars, batchVars, mainVars,
            argVars, localVars
      <4>1. LockTypes'
        BY DEF LockTypes, ModeInv, Places
      <4>2. ModeInv'
        BY DEF LockTypes, ModeInv, Places
      <4>3. OwnerInv'
        BY DEF LockTypes, ModeInv, OwnerInv, InLoad, InTable, Places
      <4> QED BY <4>1, <4>2, <4>3
    <3>2. CASE Call(w)
      <4> USE <3>2 DEF Call, Goto, asyncVars, tableVars, batchVars, mainVars, argVars,
            localVars
      <4>1. LockTypes'
        BY DEF LockTypes, ModeInv, Places
      <4>2. ModeInv'
        BY DEF LockTypes, ModeInv, Places
      <4>3. OwnerInv'
        BY DEF LockTypes, ModeInv, OwnerInv, InLoad, InTable, Places
      <4> QED BY <4>1, <4>2, <4>3
    <3>3. CASE CallGdb(w)
      <4> USE <3>3 DEF CallGdb, Goto, asyncVars, tableVars, batchVars, mainVars, argVars,
            localVars
      <4>1. LockTypes'
        BY DEF LockTypes, ModeInv, Places
      <4>2. ModeInv'
        BY DEF LockTypes, ModeInv, Places
      <4>3. OwnerInv'
        BY DEF LockTypes, ModeInv, OwnerInv, InLoad, InTable, Places
      <4> QED BY <4>1, <4>2, <4>3
    <3>4. CASE Finish(w)
      <4> USE <3>4 DEF Finish, Goto, asyncVars, tableVars, batchVars, mainVars, argVars,
            localVars
      <4>1. LockTypes'
        BY DEF LockTypes, ModeInv, Places
      <4>2. ModeInv'
        BY DEF LockTypes, ModeInv, Places
      <4>3. OwnerInv'
        BY DEF LockTypes, ModeInv, OwnerInv, InLoad, InTable, Places
      <4> QED BY <4>1, <4>2, <4>3
    <3>5. CASE LockLoad(w)
      <4> USE <3>5 DEF LockLoad, Goto, asyncVars, tableVars, batchVars, mainVars,
            argVars, localVars
      <4>1. LockTypes'
        BY DEF LockTypes, ModeInv, Places
      <4>2. ModeInv'
        BY DEF LockTypes, ModeInv, Places
      <4>3. OwnerInv'
        BY DEF LockTypes, ModeInv, OwnerInv, InLoad, InTable, Places
      <4> QED BY <4>1, <4>2, <4>3
    <3>6. CASE GetMode(w)
      <4> USE <3>6 DEF GetMode, Goto, asyncVars, tableVars, batchVars, mainVars, argVars,
            localVars
      <4>1. LockTypes'
        BY DEF LockTypes, ModeInv, Places, Types
      <4>2. ModeInv'
        BY DEF LockTypes, ModeInv, Places
      <4>3. OwnerInv'
        BY DEF LockTypes, ModeInv, OwnerInv, InLoad, InTable, Places
      <4> QED BY <4>1, <4>2, <4>3
    <3>7. CASE SetMode(w)
      <4> USE <3>7 DEF SetMode, Goto, asyncVars, tableVars, batchVars, mainVars, argVars,
            localVars
      <4>1. LockTypes'
        BY DEF LockTypes, ModeInv, Places
      <4>2. ModeInv'
        BY DEF LockTypes, ModeInv, Places, Types
      <4>3. OwnerInv'
        BY DEF LockTypes, ModeInv, OwnerInv, InLoad, InTable, Places
      <4> QED BY <4>1, <4>2, <4>3
    <3>8. CASE Load(w)
      <4> USE <3>8 DEF Load, Goto, asyncVars, tableVars, batchVars, mainVars, argVars,
            localVars
      <4>1. LockTypes'
        BY DEF LockTypes, ModeInv, Places
      <4>2. ModeInv'
        BY DEF LockTypes, ModeInv, Places
      <4>3. OwnerInv'
        BY DEF LockTypes, ModeInv, OwnerInv, InLoad, InTable, Places
      <4> QED BY <4>1, <4>2, <4>3
    <3>9. CASE ResetMode(w)
      <4> USE <3>9 DEF ResetMode, Goto, asyncVars, tableVars, batchVars, mainVars,
            argVars, localVars
      <4>1. LockTypes'
        BY DEF LockTypes, ModeInv, Places
      <4>2. ModeInv'
        BY DEF LockTypes, ModeInv, Places
      <4>3. OwnerInv'
        BY DEF LockTypes, ModeInv, OwnerInv, InLoad, InTable, Places
      <4> QED BY <4>1, <4>2, <4>3
    <3>10. CASE UnlockLoad(w)
      <4> USE <3>10 DEF UnlockLoad, Goto, asyncVars, tableVars, batchVars, mainVars,
            argVars, localVars
      <4>1. LockTypes'
        BY DEF LockTypes, ModeInv, Places
      <4>2. ModeInv'
        BY DEF LockTypes, ModeInv, Places
      <4>3. OwnerInv'
        BY DEF LockTypes, ModeInv, OwnerInv, InLoad, InTable, Places
      <4> QED BY <4>1, <4>2, <4>3
    <3>11. CASE GetMutex(w)
      <4> USE <3>11 DEF GetMutex, Goto, asyncVars, tableVars, batchVars, mainVars,
            argVars, localVars
      <4>1. LockTypes'
        BY DEF LockTypes, ModeInv, Places
      <4>2. ModeInv'
        BY DEF LockTypes, ModeInv, Places
      <4>3. OwnerInv'
        BY DEF LockTypes, ModeInv, OwnerInv, InLoad, InTable, Places, Types
      <4> QED BY <4>1, <4>2, <4>3
    <3>12. CASE Enter(w)
      <4> USE <3>12 DEF Enter, Goto, asyncVars, tableVars, batchVars, mainVars, argVars,
            localVars
      <4>1. LockTypes'
        BY DEF LockTypes, ModeInv, Places
      <4>2. ModeInv'
        BY DEF LockTypes, ModeInv, Places
      <4>3. OwnerInv'
        BY DEF LockTypes, ModeInv, OwnerInv, InLoad, InTable, Places
      <4> QED BY <4>1, <4>2, <4>3
    <3>13. CASE Extract(w)
      <4> USE <3>13 DEF Extract, Goto, asyncVars, tableVars, batchVars, mainVars,
            argVars, localVars
      <4>1. LockTypes'
        BY DEF LockTypes, ModeInv, Places
      <4>2. ModeInv'
        BY DEF LockTypes, ModeInv, Places
      <4>3. OwnerInv'
        BY DEF LockTypes, ModeInv, OwnerInv, InLoad, InTable, Places
      <4> QED BY <4>1, <4>2, <4>3
    <3>14. CASE AddPrecomputed(w)
      <4> USE <3>14 DEF AddPrecomputed, Goto, asyncVars, tableVars, batchVars, mainVars,
            argVars, localVars
      <4>1. LockTypes'
        BY DEF LockTypes, ModeInv, Places
      <4>2. ModeInv'
        BY DEF LockTypes, ModeInv, Places
      <4>3. OwnerInv'
        BY DEF LockTypes, ModeInv, OwnerInv, InLoad, InTable, Places
      <4> QED BY <4>1, <4>2, <4>3
    <3>15. CASE SetString(w)
      <4> USE <3>15 DEF SetString, Goto, asyncVars, tableVars, batchVars, mainVars,
            argVars, localVars
      <4>1. LockTypes'
        BY DEF LockTypes, ModeInv, Places
      <4>2. ModeInv'
        BY DEF LockTypes, ModeInv, Places
      <4>3. OwnerInv'
        BY DEF LockTypes, ModeInv, OwnerInv, InLoad, InTable, Places
      <4> QED BY <4>1, <4>2, <4>3
    <3>16. CASE Leave(w)
      <4> USE <3>16 DEF Leave, Goto, Return, asyncVars, tableVars, batchVars, mainVars, argVars,
            localVars
      <4>1. LockTypes'
        BY DEF LockTypes, ModeInv, Places
      <4>2. ModeInv'
        BY DEF LockTypes, ModeInv, Places
      <4>3. OwnerInv'
        BY DEF LockTypes, ModeInv, OwnerInv, InLoad, InTable, Places
      <4> QED BY <4>1, <4>2, <4>3
    <3>17. CASE LockBatch(w)
      <4> USE <3>17 DEF LockBatch, Goto, asyncVars, tableVars, batchVars, mainVars,
            argVars, localVars
      <4>1. LockTypes'
        BY DEF LockTypes, ModeInv, Places
      <4>2. ModeInv'
        BY DEF LockTypes, ModeInv, Places
      <4>3. OwnerInv'
        BY DEF LockTypes, ModeInv, OwnerInv, InLoad, InTable, Places
      <4> QED BY <4>1, <4>2, <4>3
    <3>18. CASE Gdb(w)
      <4> USE <3>18 DEF Gdb, Goto, asyncVars, tableVars, batchVars, mainVars, argVars,
            localVars
      <4>1. LockTypes'
        BY DEF LockTypes, ModeInv, Places
      <4>2. ModeInv'
        BY DEF LockTypes, ModeInv, Places
      <4>3. OwnerInv'
        BY DEF LockTypes, ModeInv, OwnerInv, InLoad, InTable, Places
      <4> QED BY <4>1, <4>2, <4>3
    <3>19. CASE ReadCount(w)
      <4> USE <3>19 DEF ReadCount, Goto, asyncVars, tableVars, batchVars, mainVars,
            argVars, localVars
      <4>1. LockTypes'
        BY DEF LockTypes, ModeInv, Places
      <4>2. ModeInv'
        BY DEF LockTypes, ModeInv, Places
      <4>3. OwnerInv'
        BY DEF LockTypes, ModeInv, OwnerInv, InLoad, InTable, Places
      <4> QED BY <4>1, <4>2, <4>3
    <3>20. CASE WriteCount(w)
      <4> USE <3>20 DEF WriteCount, Goto, asyncVars, tableVars, batchVars, mainVars,
            argVars, localVars
      <4>1. LockTypes'
        BY DEF LockTypes, ModeInv, Places
      <4>2. ModeInv'
        BY DEF LockTypes, ModeInv, Places
      <4>3. OwnerInv'
        BY DEF LockTypes, ModeInv, OwnerInv, InLoad, InTable, Places
      <4> QED BY <4>1, <4>2, <4>3
    <3>21. CASE Fail(w)
      <4> USE <3>21 DEF Fail, Goto, asyncVars, tableVars, batchVars, mainVars, argVars,
            localVars
      <4>1. LockTypes'
        BY DEF LockTypes, ModeInv, Places
      <4>2. ModeInv'
        BY DEF LockTypes, ModeInv, Places
      <4>3. OwnerInv'
        BY DEF LockTypes, ModeInv, OwnerInv, InLoad, InTable, Places
      <4> QED BY <4>1, <4>2, <4>3
    <3>22. CASE UnlockBatch(w)
      <4> USE <3>22 DEF UnlockBatch, Goto, EndTask, asyncVars, tableVars, batchVars, mainVars,
            argVars, localVars
      <4>1. LockTypes'
        BY DEF LockTypes, ModeInv, Places
      <4>2. ModeInv'
        BY DEF LockTypes, ModeInv, Places
      <4>3. OwnerInv'
        BY DEF LockTypes, ModeInv, OwnerInv, InLoad, InTable, Places
      <4> QED BY <4>1, <4>2, <4>3
    <3>23. CASE Skip(w)
      <4> USE <3>23 DEF Skip, Goto, EndTask, asyncVars, tableVars, batchVars, mainVars,
            argVars, localVars
      <4>1. LockTypes'
        BY DEF LockTypes, ModeInv, Places
      <4>2. ModeInv'
        BY DEF LockTypes, ModeInv, Places
      <4>3. OwnerInv'
        BY DEF LockTypes, ModeInv, OwnerInv, InLoad, InTable, Places
      <4> QED BY <4>1, <4>2, <4>3
    <3>24. CASE Throw(w)
      <4> USE <3>24 DEF Throw, Goto, EndTask, asyncVars, tableVars, batchVars, mainVars,
            argVars, localVars
      <4>1. LockTypes'
        BY DEF LockTypes, ModeInv, Places
      <4>2. ModeInv'
        BY DEF LockTypes, ModeInv, Places
      <4>3. OwnerInv'
        BY DEF LockTypes, ModeInv, OwnerInv, InLoad, InTable, Places
      <4> QED BY <4>1, <4>2, <4>3
    <3>25. CASE ExtractPtr(w)
      <4> USE <3>25 DEF ExtractPtr, Goto, Return, asyncVars, tableVars, batchVars, mainVars,
            argVars, localVars
      <4>1. LockTypes'
        BY DEF LockTypes, ModeInv, Places
      <4>2. ModeInv'
        BY DEF LockTypes, ModeInv, Places
      <4>3. OwnerInv'
        BY DEF LockTypes, ModeInv, OwnerInv, InLoad, InTable, Places
      <4> QED BY <4>1, <4>2, <4>3
    <3> QED
      BY <3>1, <3>2, <3>3, <3>4, <3>5, <3>6, <3>7, <3>8, <3>9, <3>10, <3>11,
         <3>12, <3>13, <3>14, <3>15, <3>16, <3>17, <3>18, <3>19, <3>20, <3>21, <3>22,
         <3>23, <3>24, <3>25
         DEF DecompileGsc, ReadDefaultFile, UseTable, UseShared
  <2> QED BY <2>1, <2>2, <2>3, <2>4 DEF Next
<1> QED BY <1>1, <1>2, PTL DEF Spec

\* ModeKept for every pool: a part of the invariant.
THEOREM ModeStays == Spec => []ModeKept
<1>1. LockInv => ModeKept
  BY DEF LockInv, ModeInv, ModeKept
<1> QED BY <1>1, LockInvHolds, PTL

\* GuardsExclude for every pool: two threads in the table, the lookups with no guard
\* apart, would both own its mutex.
THEOREM WritersExclusive == Spec => []GuardsExclude
<1>1. LockInv => GuardsExclude
  BY DEF LockInv, OwnerInv, GuardsExclude, Writes, InLoad, InTable
<1> QED BY <1>1, LockInvHolds, PTL

-----------------------------------------------------------------------------
(* The content of the table.                                               *)

\* What the proofs need of the types of the variables of the table.
TableTypes ==
    /\ map \in [Keys -> Strings \cup {None}] /\ loaded \in BOOLEAN
    /\ seen \in [Workers -> Strings \cup {None}]
    /\ key \in [Workers -> Keys \cup {None}] /\ str \in [Workers -> Strings \cup {None}]

Adds(w) ==
    pc[w] \in {"add", "set"} \/ (pc[w] \in {"getMutex", "enter"} /\ op[w] = "add")

\* A string about to be added is one, and what was read of its entry is still true.
StringInv ==
    \A w \in Workers :
       /\ Adds(w) => key[w] \in Keys /\ str[w] \in Strings
       /\ pc[w] = "set" => seen[w] = map[key[w]]
       /\ pc[w] \in InLoad \cup {"lockLoad"} => op[w] \in {"extract", "peek"}
       /\ pc[w] \in {"getMutex", "enter"} => op[w] # "peek"

\* The default files are in the table once they are loaded, and they are loaded
\* before a hash is looked up.
DefaultInv ==
    /\ loaded => \A k \in DOMAIN Default : map[k] # None
    /\ \A w \in Workers :
          /\ pc[w] \in {"resetMode", "unlockLoad", "extract"} => loaded
          /\ pc[w] \in {"getMutex", "enter"} /\ op[w] = "extract" => loaded
    /\ loads \in {0, 1} /\ (~loaded => loads = 0)
    /\ \A k \in unknown : k \notin DOMAIN Default

TableInv == TableTypes /\ StringInv /\ DefaultInv

\* The three parts hold at the start, and every step keeps them while LockInv holds.
LEMMA TableInvHolds == Spec => []TableInv
<1> USE HashStoreAssumption
<1>1. Init => TableInv
  <2> SUFFICES ASSUME Init PROVE TableInv
    OBVIOUS
  <2>1. TableTypes
    BY DEF Init, TableTypes
  <2>2. StringInv
    BY DEF Init, StringInv, Adds, InLoad
  <2>3. DefaultInv
    BY DEF Init, DefaultInv
  <2> QED BY <2>1, <2>2, <2>3 DEF TableInv
<1>2. ASSUME LockInv, TableInv, [Next]_vars PROVE TableInv'
  <2> USE <1>2 DEF LockInv, TableInv
  <2>1. CASE UNCHANGED vars \/ SetAsyncAll \/ Wait
    BY <2>1 DEF vars, SetAsyncAll, Wait, TableTypes, StringInv, DefaultInv, Adds,
            asyncVars, tableVars, batchVars, mainVars, argVars, localVars, histVars
  <2>2. CASE \E w \in Workers : DecompileGsc(w)
    <3> SUFFICES ASSUME NEW w \in Workers, DecompileGsc(w) PROVE TableInv'
      BY <2>2
    <3>1. CASE TakeTask(w)
      <4> USE <3>1 DEF TakeTask, Goto, asyncVars, tableVars, batchVars, mainVars,
            argVars, localVars, histVars
      <4>1. TableTypes'
        BY DEF TableTypes, StringInv, Adds
      <4>2. StringInv'
        BY DEF LockTypes, OwnerInv, TableTypes, StringInv, Adds, InLoad, InTable, Places
      <4>3. DefaultInv'
        BY DEF LockTypes, TableTypes, StringInv, DefaultInv, Adds, InLoad, Places
      <4> QED BY <4>1, <4>2, <4>3
    <3>2. CASE Call(w)
      <4> USE <3>2 DEF Call, Goto, asyncVars, tableVars, batchVars, mainVars, argVars,
            localVars, histVars
      <4>1. TableTypes'
        BY DEF TableTypes, StringInv, Adds
      <4>2. StringInv'
        BY DEF LockTypes, OwnerInv, TableTypes, StringInv, Adds, InLoad, InTable, Places
      <4>3. DefaultInv'
        BY DEF LockTypes, TableTypes, StringInv, DefaultInv, Adds, InLoad, Places
      <4> QED BY <4>1, <4>2, <4>3
    <3>3. CASE CallGdb(w)
      <4> USE <3>3 DEF CallGdb, Goto, asyncVars, tableVars, batchVars, mainVars, argVars,
            localVars, histVars
      <4>1. TableTypes'
        BY DEF TableTypes, StringInv, Adds
      <4>2. StringInv'
        BY DEF LockTypes, OwnerInv, TableTypes, StringInv, Adds, InLoad, InTable, Places
      <4>3. DefaultInv'
        BY DEF LockTypes, TableTypes, StringInv, DefaultInv, Adds, InLoad, Places
      <4> QED BY <4>1, <4>2, <4>3
    <3>4. CASE Finish(w)
      <4> USE <3>4 DEF Finish, Goto, asyncVars, tableVars, batchVars, mainVars, argVars,
            localVars, histVars
      <4>1. TableTypes'
        BY DEF TableTypes, StringInv, Adds
      <4>2. StringInv'
        BY DEF LockTypes, OwnerInv, TableTypes, StringInv, Adds, InLoad, InTable, Places
      <4>3. DefaultInv'
        BY DEF LockTypes, TableTypes, StringInv, DefaultInv, Adds, InLoad, Places
      <4> QED BY <4>1, <4>2, <4>3
    <3>5. CASE LockLoad(w)
      <4> USE <3>5 DEF LockLoad, Goto, asyncVars, tableVars, batchVars, mainVars,
            argVars, localVars, histVars
      <4>1. TableTypes'
        BY DEF TableTypes, StringInv, Adds
      <4>2. StringInv'
        BY DEF LockTypes, OwnerInv, TableTypes, StringInv, Adds, InLoad, InTable, Places
      <4>3. DefaultInv'
        BY DEF LockTypes, TableTypes, StringInv, DefaultInv, Adds, InLoad, Places
      <4> QED BY <4>1, <4>2, <4>3
    <3>6. CASE GetMode(w)
      <4> USE <3>6 DEF GetMode, Goto, asyncVars, tableVars, batchVars, mainVars, argVars,
            localVars, histVars
      <4>1. TableTypes'
        BY DEF TableTypes, StringInv, Adds
      <4>2. StringInv'
        BY DEF LockTypes, OwnerInv, TableTypes, StringInv, Adds, InLoad, InTable, Places
      <4>3. DefaultInv'
        BY DEF LockTypes, TableTypes, StringInv, DefaultInv, Adds, InLoad, Places
      <4> QED BY <4>1, <4>2, <4>3
    <3>7. CASE SetMode(w)
      <4> USE <3>7 DEF SetMode, Goto, asyncVars, tableVars, batchVars, mainVars, argVars,
            localVars, histVars
      <4>1. TableTypes'
        BY DEF TableTypes, StringInv, Adds
      <4>2. StringInv'
        BY DEF LockTypes, OwnerInv, TableTypes, StringInv, Adds, InLoad, InTable, Places
      <4>3. DefaultInv'
        BY DEF LockTypes, TableTypes, StringInv, DefaultInv, Adds, InLoad, Places
      <4> QED BY <4>1, <4>2, <4>3
    <3>8. CASE Load(w)
      <4> USE <3>8 DEF Load, Goto, asyncVars, tableVars, batchVars, mainVars, argVars,
            localVars, histVars
      <4>1. TableTypes'
        <5>1. CASE loaded
          BY <5>1 DEF TableTypes
        <5>2. CASE ~loaded
          <6> DEFINE read(k) ==
                IF map[k] = None /\ k \in DOMAIN Default THEN Default[k] ELSE map[k]
          <6>1. \A k \in Keys : read(k) \in Strings \cup {None}
            BY DEF TableTypes
          <6>2. map' = [k \in Keys |-> read(k)]
            BY <5>2
          <6>3. map' \in [Keys -> Strings \cup {None}]
            <7> HIDE DEF read
            <7> QED BY <6>1, <6>2
          <6> QED BY <5>2, <6>3 DEF TableTypes
        <5> QED BY <5>1, <5>2
      <4>2. StringInv'
        BY DEF LockTypes, OwnerInv, TableTypes, StringInv, Adds, InLoad, InTable, Places
      <4>3. DefaultInv'
        BY DEF LockTypes, TableTypes, StringInv, DefaultInv, Adds, InLoad, Places
      <4> QED BY <4>1, <4>2, <4>3
    <3>9. CASE ResetMode(w)
      <4> USE <3>9 DEF ResetMode, Goto, asyncVars, tableVars, batchVars, mainVars,
            argVars, localVars, histVars
      <4>1. TableTypes'
        BY DEF TableTypes, StringInv, Adds
      <4>2. StringInv'
        BY DEF LockTypes, OwnerInv, TableTypes, StringInv, Adds, InLoad, InTable, Places
      <4>3. DefaultInv'
        BY DEF LockTypes, TableTypes, StringInv, DefaultInv, Adds, InLoad, Places
      <4> QED BY <4>1, <4>2, <4>3
    <3>10. CASE UnlockLoad(w)
      <4> USE <3>10 DEF UnlockLoad, Goto, asyncVars, tableVars, batchVars, mainVars,
            argVars, localVars, histVars
      <4>1. TableTypes'
        BY DEF TableTypes, StringInv, Adds
      <4>2. StringInv'
        BY DEF LockTypes, OwnerInv, TableTypes, StringInv, Adds, InLoad, InTable, Places
      <4>3. DefaultInv'
        BY DEF LockTypes, TableTypes, StringInv, DefaultInv, Adds, InLoad, Places
      <4> QED BY <4>1, <4>2, <4>3
    <3>11. CASE GetMutex(w)
      <4> USE <3>11 DEF GetMutex, Goto, asyncVars, tableVars, batchVars, mainVars,
            argVars, localVars, histVars
      <4>1. TableTypes'
        BY DEF TableTypes, StringInv, Adds
      <4>2. StringInv'
        BY DEF LockTypes, OwnerInv, TableTypes, StringInv, Adds, InLoad, InTable, Places
      <4>3. DefaultInv'
        BY DEF LockTypes, TableTypes, StringInv, DefaultInv, Adds, InLoad, Places
      <4> QED BY <4>1, <4>2, <4>3
    <3>12. CASE Enter(w)
      <4> USE <3>12 DEF Enter, Goto, asyncVars, tableVars, batchVars, mainVars, argVars,
            localVars, histVars
      <4>1. TableTypes'
        BY DEF TableTypes, StringInv, Adds
      <4>2. StringInv'
        BY DEF LockTypes, OwnerInv, TableTypes, StringInv, Adds, InLoad, InTable, Places
      <4>3. DefaultInv'
        BY DEF LockTypes, TableTypes, StringInv, DefaultInv, Adds, InLoad, Places
      <4> QED BY <4>1, <4>2, <4>3
    <3>13. CASE Extract(w)
      <4> USE <3>13 DEF Extract, Goto, asyncVars, tableVars, batchVars, mainVars,
            argVars, localVars, histVars
      <4>1. TableTypes'
        BY DEF TableTypes, StringInv, Adds
      <4>2. StringInv'
        BY DEF LockTypes, OwnerInv, TableTypes, StringInv, Adds, InLoad, InTable, Places
      <4>3. DefaultInv'
        BY DEF LockTypes, TableTypes, StringInv, DefaultInv, Adds, InLoad, Places
      <4> QED BY <4>1, <4>2, <4>3
    <3>14. CASE AddPrecomputed(w)
      <4> USE <3>14 DEF AddPrecomputed, Goto, asyncVars, tableVars, batchVars, mainVars,
            argVars, localVars, histVars
      <4>1. TableTypes'
        BY DEF TableTypes, StringInv, Adds
      <4>2. StringInv'
        BY DEF LockTypes, OwnerInv, TableTypes, StringInv, Adds, InLoad, InTable, Places
      <4>3. DefaultInv'
        BY DEF LockTypes, TableTypes, StringInv, DefaultInv, Adds, InLoad, Places
      <4> QED BY <4>1, <4>2, <4>3
    <3>15. CASE SetString(w)
      <4> USE <3>15 DEF SetString, Goto, asyncVars, tableVars, batchVars, mainVars,
            argVars, localVars, histVars
      <4>1. TableTypes'
        BY DEF TableTypes, StringInv, Adds
      <4>2. StringInv'
        BY DEF LockTypes, OwnerInv, TableTypes, StringInv, Adds, InLoad, InTable, Places
      <4>3. DefaultInv'
        BY DEF LockTypes, TableTypes, StringInv, DefaultInv, Adds, InLoad, Places
      <4> QED BY <4>1, <4>2, <4>3
    <3>16. CASE Leave(w)
      <4> USE <3>16 DEF Leave, Goto, Return, asyncVars, tableVars, batchVars, mainVars, argVars,
            localVars, histVars
      <4>1. TableTypes'
        BY DEF TableTypes, StringInv, Adds
      <4>2. StringInv'
        BY DEF LockTypes, OwnerInv, TableTypes, StringInv, Adds, InLoad, InTable, Places
      <4>3. DefaultInv'
        BY DEF LockTypes, TableTypes, StringInv, DefaultInv, Adds, InLoad, Places
      <4> QED BY <4>1, <4>2, <4>3
    <3>17. CASE LockBatch(w)
      <4> USE <3>17 DEF LockBatch, Goto, asyncVars, tableVars, batchVars, mainVars,
            argVars, localVars, histVars
      <4>1. TableTypes'
        BY DEF TableTypes, StringInv, Adds
      <4>2. StringInv'
        BY DEF LockTypes, OwnerInv, TableTypes, StringInv, Adds, InLoad, InTable, Places
      <4>3. DefaultInv'
        BY DEF LockTypes, TableTypes, StringInv, DefaultInv, Adds, InLoad, Places
      <4> QED BY <4>1, <4>2, <4>3
    <3>18. CASE Gdb(w)
      <4> USE <3>18 DEF Gdb, Goto, asyncVars, tableVars, batchVars, mainVars, argVars,
            localVars, histVars
      <4>1. TableTypes'
        BY DEF TableTypes, StringInv, Adds
      <4>2. StringInv'
        BY DEF LockTypes, OwnerInv, TableTypes, StringInv, Adds, InLoad, InTable, Places
      <4>3. DefaultInv'
        BY DEF LockTypes, TableTypes, StringInv, DefaultInv, Adds, InLoad, Places
      <4> QED BY <4>1, <4>2, <4>3
    <3>19. CASE ReadCount(w)
      <4> USE <3>19 DEF ReadCount, Goto, asyncVars, tableVars, batchVars, mainVars,
            argVars, localVars, histVars
      <4>1. TableTypes'
        BY DEF TableTypes, StringInv, Adds
      <4>2. StringInv'
        BY DEF LockTypes, OwnerInv, TableTypes, StringInv, Adds, InLoad, InTable, Places
      <4>3. DefaultInv'
        BY DEF LockTypes, TableTypes, StringInv, DefaultInv, Adds, InLoad, Places
      <4> QED BY <4>1, <4>2, <4>3
    <3>20. CASE WriteCount(w)
      <4> USE <3>20 DEF WriteCount, Goto, asyncVars, tableVars, batchVars, mainVars,
            argVars, localVars, histVars
      <4>1. TableTypes'
        BY DEF TableTypes, StringInv, Adds
      <4>2. StringInv'
        BY DEF LockTypes, OwnerInv, TableTypes, StringInv, Adds, InLoad, InTable, Places
      <4>3. DefaultInv'
        BY DEF LockTypes, TableTypes, StringInv, DefaultInv, Adds, InLoad, Places
      <4> QED BY <4>1, <4>2, <4>3
    <3>21. CASE Fail(w)
      <4> USE <3>21 DEF Fail, Goto, asyncVars, tableVars, batchVars, mainVars, argVars,
            localVars, histVars
      <4>1. TableTypes'
        BY DEF TableTypes, StringInv, Adds
      <4>2. StringInv'
        BY DEF LockTypes, OwnerInv, TableTypes, StringInv, Adds, InLoad, InTable, Places
      <4>3. DefaultInv'
        BY DEF LockTypes, TableTypes, StringInv, DefaultInv, Adds, InLoad, Places
      <4> QED BY <4>1, <4>2, <4>3
    <3>22. CASE UnlockBatch(w)
      <4> USE <3>22 DEF UnlockBatch, Goto, EndTask, asyncVars, tableVars, batchVars, mainVars,
            argVars, localVars, histVars
      <4>1. TableTypes'
        BY DEF TableTypes, StringInv, Adds
      <4>2. StringInv'
        BY DEF LockTypes, OwnerInv, TableTypes, StringInv, Adds, InLoad, InTable, Places
      <4>3. DefaultInv'
        BY DEF LockTypes, TableTypes, StringInv, DefaultInv, Adds, InLoad, Places
      <4> QED BY <4>1, <4>2, <4>3
    <3>23. CASE Skip(w)
      <4> USE <3>23 DEF Skip, Goto, EndTask, asyncVars, tableVars, batchVars, mainVars,
            argVars, localVars, histVars
      <4>1. TableTypes'
        BY DEF TableTypes, StringInv, Adds
      <4>2. StringInv'
        BY DEF LockTypes, OwnerInv, TableTypes, StringInv, Adds, InLoad, InTable, Places
      <4>3. DefaultInv'
        BY DEF LockTypes, TableTypes, StringInv, DefaultInv, Adds, InLoad, Places
      <4> QED BY <4>1, <4>2, <4>3
    <3>24. CASE Throw(w)
      <4> USE <3>24 DEF Throw, Goto, EndTask, asyncVars, tableVars, batchVars, mainVars,
            argVars, localVars, histVars
      <4>1. TableTypes'
        BY DEF TableTypes, StringInv, Adds
      <4>2. StringInv'
        BY DEF LockTypes, OwnerInv, TableTypes, StringInv, Adds, InLoad, InTable, Places
      <4>3. DefaultInv'
        BY DEF LockTypes, TableTypes, StringInv, DefaultInv, Adds, InLoad, Places
      <4> QED BY <4>1, <4>2, <4>3
    <3>25. CASE ExtractPtr(w)
      <4> USE <3>25 DEF ExtractPtr, Goto, Return, asyncVars, tableVars, batchVars, mainVars,
            argVars, localVars, histVars
      <4>1. TableTypes'
        BY DEF TableTypes, StringInv, Adds
      <4>2. StringInv'
        BY DEF LockTypes, OwnerInv, TableTypes, StringInv, Adds, InLoad, InTable, Places
      <4>3. DefaultInv'
        BY DEF LockTypes, TableTypes, StringInv, DefaultInv, Adds, InLoad, Places
      <4> QED BY <4>1, <4>2, <4>3
    <3> QED
      BY <3>1, <3>2, <3>3, <3>4, <3>5, <3>6, <3>7, <3>8, <3>9, <3>10, <3>11,
         <3>12, <3>13, <3>14, <3>15, <3>16, <3>17, <3>18, <3>19, <3>20, <3>21, <3>22,
         <3>23, <3>24, <3>25
         DEF DecompileGsc, ReadDefaultFile, UseTable, UseShared
  <2> QED BY <2>1, <2>2 DEF Next
<1> QED BY <1>1, <1>2, LockInvHolds, PTL DEF Spec

\* LoadedOnce for every pool and every content of the default files.
THEOREM DefaultsFirst == Spec => []LoadedOnce
<1>1. TableInv => LoadedOnce
  BY DEF TableInv, DefaultInv, LoadedOnce
<1> QED BY <1>1, TableInvHolds, PTL

\* FirstWins for every pool: the only steps that write the table are SetString, whose
\* worker owns the mutex since it read an empty entry, and Load.
THEOREM StringsStay == Spec => FirstWins
<1> DEFINE Keeps == \A k \in Keys : map[k] # None => map'[k] = map[k]
<1>1. ASSUME LockInv, TableInv, [Next]_vars PROVE [Keeps]_vars
  <2> USE <1>1
  <2>1. ASSUME NEW w \in Workers, Load(w) PROVE Keeps
    BY <2>1 DEF Load, tableVars
  <2>2. ASSUME NEW w \in Workers, SetString(w) PROVE Keeps
    BY <2>2 DEF SetString, TableInv, TableTypes, StringInv, Adds
  <2>3. ASSUME NEW w \in Workers, DecompileGsc(w), ~Load(w), ~SetString(w) PROVE Keeps
    <3>1. map' = map
      BY <2>3 DEF DecompileGsc, ReadDefaultFile, UseTable, UseShared, TakeTask, Call,
            CallGdb,
        Finish, Skip, Throw, ExtractPtr, LockLoad, GetMode, SetMode, ResetMode, UnlockLoad,
        GetMutex, Enter, Extract,
        AddPrecomputed, Leave, LockBatch, Gdb, ReadCount, WriteCount, Fail, UnlockBatch, tableVars
    <3> QED BY <3>1
  <2>4. ASSUME SetAsyncAll \/ Wait PROVE Keeps
    BY <2>4 DEF SetAsyncAll, Wait, tableVars
  <2> QED BY <2>1, <2>2, <2>3, <2>4 DEF Next
<1>2. Spec => [][Keeps]_vars
  BY <1>1, LockInvHolds, TableInvHolds, PTL DEF Spec
<1> QED BY <1>2 DEF FirstWins

-----------------------------------------------------------------------------
(* The count of the scripts, and the answer of the tool.                   *)

\* The types the invariants above do not give.
BatchTypes ==
    /\ prev \subseteq Types /\ hashLock \in Workers \cup {None}
    /\ batchLock \in Workers \cup {None}
    /\ decompiled \in Nat /\ num \in [Workers -> Nat] /\ failed \in BOOLEAN
    /\ todo \subseteq Files /\ file \in [Workers -> Files \cup {None}]
    /\ left \in [Workers -> 0..Calls] /\ counted \subseteq Files /\ dropped \subseteq Files
    /\ \A w \in Workers : file[w] = None <=> pc[w] = "idle"

\* The mutex of the batch has one owner, who may also be in a call of the log.
HolderInv ==
    \A w \in Workers :
       /\ pc[w] \in {"gdb", "count", "writeCount", "fail", "unlockBatch", "endBatch"} =>
             batchLock = w
       /\ pc[w] \in {"idle", "work", "lockGdb", "lockCount", "lockFail"} => batchLock # w

\* Every step leaves the types and the owner as they must be.
LEMMA HolderInvHolds == Spec => [](BatchTypes /\ HolderInv)
<1> USE HashStoreAssumption
<1>1. Init => BatchTypes /\ HolderInv
  <2> SUFFICES ASSUME Init PROVE BatchTypes /\ HolderInv
    OBVIOUS
  <2>1. failed \in BOOLEAN
    BY Zenon DEF Init
  <2>2. BatchTypes
    BY <2>1 DEF Init, BatchTypes
  <2>3. HolderInv
    BY DEF Init, HolderInv
  <2> QED BY <2>2, <2>3
<1>2. ASSUME LockInv, BatchTypes, HolderInv, [Next]_vars PROVE BatchTypes' /\ HolderInv'
  <2> USE <1>2 DEF LockInv
  <2>1. CASE UNCHANGED vars
    BY <2>1 DEF vars, asyncVars, batchVars, mainVars, argVars, localVars, histVars,
       BatchTypes, HolderInv
  <2>2. CASE SetAsyncAll
    BY <2>2 DEF SetAsyncAll, batchVars, argVars, localVars, histVars, BatchTypes, HolderInv,
       ModeInv
  <2>3. CASE Wait
    BY <2>3 DEF Wait, batchVars, argVars, localVars, histVars, BatchTypes, HolderInv
  <2>4. CASE \E w \in Workers : DecompileGsc(w)
    <3> SUFFICES ASSUME NEW w \in Workers, DecompileGsc(w) PROVE BatchTypes' /\ HolderInv'
      BY <2>4
    <3> USE DEF Goto, asyncVars, batchVars, mainVars, argVars, localVars, histVars
    <3>1. CASE TakeTask(w)
      <4>1. BatchTypes'
        BY <3>1 DEF TakeTask, BatchTypes, LockTypes
      <4>2. HolderInv'
        BY <3>1 DEF TakeTask, BatchTypes, HolderInv, LockTypes, Places
      <4> QED BY <4>1, <4>2
    <3>2. CASE Call(w)
      <4>1. BatchTypes'
        BY <3>2 DEF Call, BatchTypes, LockTypes
      <4>2. HolderInv'
        BY <3>2 DEF Call, BatchTypes, HolderInv, LockTypes, Places
      <4> QED BY <4>1, <4>2
    <3>3. CASE CallGdb(w)
      <4>1. BatchTypes'
        BY <3>3 DEF CallGdb, BatchTypes, LockTypes
      <4>2. HolderInv'
        BY <3>3 DEF CallGdb, BatchTypes, HolderInv, LockTypes, Places
      <4> QED BY <4>1, <4>2
    <3>4. CASE Finish(w)
      <4>1. BatchTypes'
        BY <3>4 DEF Finish, BatchTypes, LockTypes
      <4>2. HolderInv'
        BY <3>4 DEF Finish, BatchTypes, HolderInv, LockTypes, Places
      <4> QED BY <4>1, <4>2
    <3>5. CASE LockLoad(w)
      <4>1. BatchTypes'
        BY <3>5 DEF LockLoad, BatchTypes, LockTypes
      <4>2. HolderInv'
        BY <3>5 DEF LockLoad, BatchTypes, HolderInv, LockTypes, Places
      <4> QED BY <4>1, <4>2
    <3>6. CASE GetMode(w)
      <4>1. BatchTypes'
        BY <3>6 DEF GetMode, BatchTypes, LockTypes
      <4>2. HolderInv'
        BY <3>6 DEF GetMode, BatchTypes, HolderInv, LockTypes, Places
      <4> QED BY <4>1, <4>2
    <3>7. CASE SetMode(w)
      <4>1. BatchTypes'
        BY <3>7 DEF SetMode, BatchTypes, LockTypes
      <4>2. HolderInv'
        BY <3>7 DEF SetMode, BatchTypes, HolderInv, LockTypes, Places
      <4> QED BY <4>1, <4>2
    <3>8. CASE Load(w)
      <4>1. BatchTypes'
        BY <3>8 DEF Load, BatchTypes, LockTypes
      <4>2. HolderInv'
        BY <3>8 DEF Load, BatchTypes, HolderInv, LockTypes, Places
      <4> QED BY <4>1, <4>2
    <3>9. CASE ResetMode(w)
      <4>1. BatchTypes'
        BY <3>9 DEF ResetMode, BatchTypes, LockTypes
      <4>2. HolderInv'
        BY <3>9 DEF ResetMode, BatchTypes, HolderInv, LockTypes, Places
      <4> QED BY <4>1, <4>2
    <3>10. CASE UnlockLoad(w)
      <4>1. BatchTypes'
        BY <3>10 DEF UnlockLoad, BatchTypes, LockTypes
      <4>2. HolderInv'
        BY <3>10 DEF UnlockLoad, BatchTypes, HolderInv, LockTypes, Places
      <4> QED BY <4>1, <4>2
    <3>11. CASE GetMutex(w)
      <4>1. BatchTypes'
        BY <3>11 DEF GetMutex, BatchTypes, LockTypes
      <4>2. HolderInv'
        BY <3>11 DEF GetMutex, BatchTypes, HolderInv, LockTypes, Places
      <4> QED BY <4>1, <4>2
    <3>12. CASE Enter(w)
      <4>1. BatchTypes'
        BY <3>12 DEF Enter, BatchTypes, LockTypes
      <4>2. HolderInv'
        BY <3>12 DEF Enter, BatchTypes, HolderInv, LockTypes, Places
      <4> QED BY <4>1, <4>2
    <3>13. CASE Extract(w)
      <4>1. BatchTypes'
        BY <3>13 DEF Extract, BatchTypes, LockTypes
      <4>2. HolderInv'
        BY <3>13 DEF Extract, BatchTypes, HolderInv, LockTypes, Places
      <4> QED BY <4>1, <4>2
    <3>14. CASE AddPrecomputed(w)
      <4>1. BatchTypes'
        BY <3>14 DEF AddPrecomputed, BatchTypes, LockTypes
      <4>2. HolderInv'
        BY <3>14 DEF AddPrecomputed, BatchTypes, HolderInv, LockTypes, Places
      <4> QED BY <4>1, <4>2
    <3>15. CASE SetString(w)
      <4>1. BatchTypes'
        BY <3>15 DEF SetString, BatchTypes, LockTypes
      <4>2. HolderInv'
        BY <3>15 DEF SetString, BatchTypes, HolderInv, LockTypes, Places
      <4> QED BY <4>1, <4>2
    <3>16. CASE Leave(w)
      <4>1. BatchTypes'
        BY <3>16 DEF Leave, Return, BatchTypes, LockTypes
      <4>2. HolderInv'
        BY <3>16 DEF Leave, Return, BatchTypes, HolderInv, LockTypes, Places
      <4> QED BY <4>1, <4>2
    <3>17. CASE LockBatch(w)
      <4>1. BatchTypes'
        BY <3>17 DEF LockBatch, BatchTypes, LockTypes
      <4>2. HolderInv'
        BY <3>17 DEF LockBatch, BatchTypes, HolderInv, LockTypes, Places
      <4> QED BY <4>1, <4>2
    <3>18. CASE Gdb(w)
      <4>1. BatchTypes'
        BY <3>18 DEF Gdb, BatchTypes, LockTypes
      <4>2. HolderInv'
        BY <3>18 DEF Gdb, BatchTypes, HolderInv, LockTypes, Places
      <4> QED BY <4>1, <4>2
    <3>19. CASE ReadCount(w)
      <4>1. BatchTypes'
        BY <3>19 DEF ReadCount, BatchTypes, LockTypes
      <4>2. HolderInv'
        BY <3>19 DEF ReadCount, BatchTypes, HolderInv, LockTypes, Places
      <4> QED BY <4>1, <4>2
    <3>20. CASE WriteCount(w)
      <4>1. BatchTypes'
        BY <3>20 DEF WriteCount, BatchTypes, LockTypes
      <4>2. HolderInv'
        BY <3>20 DEF WriteCount, BatchTypes, HolderInv, LockTypes, Places
      <4> QED BY <4>1, <4>2
    <3>21. CASE Fail(w)
      <4>1. BatchTypes'
        BY <3>21 DEF Fail, BatchTypes, LockTypes
      <4>2. HolderInv'
        BY <3>21 DEF Fail, BatchTypes, HolderInv, LockTypes, Places
      <4> QED BY <4>1, <4>2
    <3>22. CASE UnlockBatch(w)
      <4>1. BatchTypes'
        BY <3>22 DEF UnlockBatch, EndTask, BatchTypes, LockTypes
      <4>2. HolderInv'
        BY <3>22 DEF UnlockBatch, EndTask, BatchTypes, HolderInv, LockTypes, Places
      <4> QED BY <4>1, <4>2
    <3>23. CASE Skip(w)
      <4>1. BatchTypes'
        BY <3>23 DEF Skip, EndTask, BatchTypes, LockTypes
      <4>2. HolderInv'
        BY <3>23 DEF Skip, EndTask, BatchTypes, HolderInv, LockTypes, Places
      <4> QED BY <4>1, <4>2
    <3>24. CASE Throw(w)
      <4>1. BatchTypes'
        BY <3>24 DEF Throw, EndTask, BatchTypes, LockTypes
      <4>2. HolderInv'
        BY <3>24 DEF Throw, EndTask, BatchTypes, HolderInv, LockTypes, Places
      <4> QED BY <4>1, <4>2
    <3>25. CASE ExtractPtr(w)
      <4>1. BatchTypes'
        BY <3>25 DEF ExtractPtr, Return, BatchTypes, LockTypes
      <4>2. HolderInv'
        BY <3>25 DEF ExtractPtr, Return, BatchTypes, HolderInv, LockTypes, Places
      <4> QED BY <4>1, <4>2
    <3> QED
      BY <3>1, <3>2, <3>3, <3>4, <3>5, <3>6, <3>7, <3>8, <3>9, <3>10, <3>11,
         <3>12, <3>13, <3>14, <3>15, <3>16, <3>17, <3>18, <3>19, <3>20, <3>21, <3>22,
         <3>23, <3>24, <3>25
         DEF DecompileGsc, ReadDefaultFile, UseTable, UseShared
  <2> QED BY <2>1, <2>2, <2>3, <2>4 DEF Next
<1> QED BY <1>1, <1>2, LockInvHolds, PTL DEF Spec

\* Where the script of a worker is not decided yet, and where it is to be counted.
Working  == Places \ {"idle", "lockCount", "count", "writeCount", "lockFail", "fail", "endBatch"}
Counting == {"lockCount", "count", "writeCount"}

\* The scripts decompiled that the count does not have yet.
Pending == {f \in Files : \E w \in Workers : file[w] = f /\ pc[w] \in Counting}

\* A script is to be done, held by one worker, or over.
FileInv ==
    /\ \A w \in Workers : file[w] \notin todo
    /\ \A v, w \in Workers : v # w /\ file[v] = file[w] => file[v] = None
    /\ mainPc = "done" => todo = {}

\* Every script that is over is counted, was dropped or made the tool fail, and nothing
\* else did.
AnswerInv ==
    /\ counted \cap todo = {} /\ dropped \cap todo = {}
    /\ \A w \in Workers :
          /\ pc[w] \in Working \cup {"lockFail", "fail"} => file[w] \notin counted \cup dropped
          /\ pc[w] \in Counting => file[w] \in counted
          /\ pc[w] = "endBatch" => file[w] \in counted \/ failed
          /\ pc[w] = "writeCount" => num[w] = decompiled
    /\ \A f \in Files :
           f \notin counted \cup dropped \cup todo /\ (\A w \in Workers : file[w] # f) => failed
    /\ failed => \E f \in Files : f \notin counted \cup dropped \cup todo
                    /\ \A w \in Workers : file[w] = f => pc[w] = "endBatch"
    /\ decompiled = Cardinality(counted \ Pending)

BatchInv == BatchTypes /\ HolderInv /\ FileInv /\ AnswerInv

\* A step of a worker that is not done with its script, and leaves the answer alone.
Quiet(w) ==
    /\ UNCHANGED <<decompiled, failed, todo, file, num, counted, dropped>>
    /\ mainPc' \in {mainPc, "terminated"}
    /\ \A v \in Workers : v # w => pc'[v] = pc[v]
    /\ pc[w] \in Working /\ pc'[w] \in Working

LEMMA QuietKeeps ==
    ASSUME FileInv, AnswerInv, NEW w \in Workers, Quiet(w)
    PROVE  FileInv' /\ AnswerInv'
<1> USE DEF Quiet
<1>1. FileInv'
  BY DEF FileInv
<1>2. Pending' = Pending
  BY DEF Pending, Working, Counting, Places
<1>3. \A v \in Workers :
         /\ pc'[v] \in Working \cup {"lockFail", "fail"} =>
               file'[v] \notin counted' \cup dropped'
         /\ pc'[v] \in Counting => file'[v] \in counted'
         /\ pc'[v] = "endBatch" => file'[v] \in counted' \/ failed'
         /\ pc'[v] = "writeCount" => num'[v] = decompiled'
  BY DEF AnswerInv, Working, Counting, Places
<1>4. failed' => \E f \in Files : f \notin counted' \cup dropped' \cup todo'
                    /\ \A v \in Workers : file'[v] = f => pc'[v] = "endBatch"
  BY DEF AnswerInv, Working, Places
<1> QED BY <1>1, <1>2, <1>3, <1>4 DEF AnswerInv

\* Most steps are quiet.
LEMMA QuietSteps ==
    ASSUME LockInv, BatchTypes, HolderInv, NEW w \in Workers, DecompileGsc(w)
    PROVE  \/ Quiet(w) \/ TakeTask(w) \/ Finish(w) \/ Skip(w) \/ Throw(w)
           \/ LockBatch(w) /\ pc[w] # "lockGdb"
           \/ ReadCount(w) \/ WriteCount(w) \/ Fail(w)
           \/ UnlockBatch(w) /\ pc[w] = "endBatch"
<1> USE DEF LockInv, LockTypes, Places, Working, Quiet, Goto, asyncVars, tableVars, batchVars,
        mainVars, argVars, localVars, histVars
<1>1. ASSUME Call(w) \/ CallGdb(w) PROVE Quiet(w)
  BY <1>1 DEF Call, CallGdb
<1>2. ASSUME ReadDefaultFile(w) PROVE Quiet(w)
  BY <1>2 DEF ReadDefaultFile, LockLoad, GetMode, SetMode, Load, ResetMode, UnlockLoad
<1>3. ASSUME GetMutex(w) \/ Enter(w) PROVE Quiet(w)
  BY <1>3 DEF GetMutex, Enter
<1>4. ASSUME Extract(w) \/ AddPrecomputed(w) \/ SetString(w) PROVE Quiet(w)
  BY <1>4 DEF Extract, AddPrecomputed, SetString
<1>5. ASSUME Leave(w) \/ ExtractPtr(w) PROVE Quiet(w)
  BY <1>5 DEF Leave, ExtractPtr, Return
<1>6. ASSUME LockBatch(w), pc[w] = "lockGdb" PROVE Quiet(w)
  BY <1>6 DEF LockBatch
<1>7. ASSUME Gdb(w) PROVE Quiet(w)
  BY <1>7 DEF Gdb
<1>8. ASSUME UnlockBatch(w), pc[w] # "endBatch" PROVE Quiet(w)
  BY <1>8 DEF UnlockBatch
<1> HIDE DEF Quiet
<1> QED
  BY <1>1, <1>2, <1>3, <1>4, <1>5, <1>6, <1>7, <1>8 DEF DecompileGsc, UseTable, UseShared

\* Each of the other steps leaves the scripts and the answer as they must be.
LEMMA BatchInvHolds == Spec => [](LockInv /\ BatchInv)
<1> USE HashStoreAssumption
<1>1. Init => FileInv /\ AnswerInv
  <2> SUFFICES ASSUME Init PROVE FileInv /\ AnswerInv
    OBVIOUS
  <2>1. FileInv
    BY DEF Init, FileInv
  <2>2. counted \ Pending = {}
    BY DEF Init
  <2>3. Cardinality(counted \ Pending) = 0
    BY <2>2, FS_EmptySet
  <2>4. ~failed
    BY Zenon DEF Init
  <2> QED BY <2>1, <2>3, <2>4 DEF Init, AnswerInv, Working, Counting
<1>2. ASSUME LockInv, BatchInv, [Next]_vars, BatchTypes' PROVE FileInv' /\ AnswerInv'
  <2> USE <1>2 DEF BatchInv
  <2>1. CASE UNCHANGED <<pc, decompiled, failed, todo, file, num, counted, dropped>>
             /\ (mainPc' = "done" => todo = {})
    <3>1. Pending' = Pending
      BY <2>1 DEF Pending
    <3>2. FileInv'
      BY <2>1 DEF FileInv
    <3>3. AnswerInv'
      BY <2>1, <3>1 DEF AnswerInv
    <3> QED BY <3>2, <3>3
  <2>2. ASSUME UNCHANGED vars \/ SetAsyncAll \/ Wait
        PROVE  UNCHANGED <<pc, decompiled, failed, todo, file, num, counted, dropped>>
               /\ (mainPc' = "done" => todo = {})
    <3>1. UNCHANGED <<pc, decompiled, failed, todo, file, num, counted, dropped>>
      BY <2>2 DEF vars, SetAsyncAll, Wait, asyncVars, batchVars, mainVars, argVars, localVars,
         histVars
    <3>2. mainPc' = "done" => todo = {}
      BY <2>2 DEF vars, SetAsyncAll, Wait, mainVars, FileInv
    <3> QED BY <3>1, <3>2
  <2>3. ASSUME NEW w \in Workers, TakeTask(w) PROVE FileInv' /\ AnswerInv'
    <3>1. PICK f \in todo : todo' = todo \ {f} /\ file' = [file EXCEPT ![w] = f]
      BY <2>3 DEF TakeTask
    <3>2. pc[w] = "idle" /\ pc' = [pc EXCEPT ![w] = "work"] /\ mainPc = "wait"
      BY <2>3 DEF TakeTask, Goto
    <3>3. UNCHANGED <<decompiled, failed, mainPc, num, counted, dropped>>
      BY <2>3 DEF TakeTask, batchVars, localVars, histVars
    <3>4. file[w] = None /\ f \in Files /\ f # None
      BY <3>1, <3>2 DEF BatchTypes
    <3>5. /\ \A v \in Workers : v # w => file'[v] = file[v] /\ pc'[v] = pc[v]
          /\ file'[w] = f /\ pc'[w] = "work"
      BY <3>1, <3>2 DEF BatchTypes, LockInv, LockTypes
    <3>6. FileInv'
      BY <3>1, <3>2, <3>3, <3>4, <3>5 DEF FileInv
    <3>7. Pending' = Pending
      BY <3>2, <3>5 DEF Pending, Counting
    <3>8. \A g \in Files :
           g \notin counted' \cup dropped' \cup todo' /\ (\A v \in Workers : file'[v] # g) =>
             g \notin counted \cup dropped \cup todo /\ \A v \in Workers : file[v] # g
      BY <3>1, <3>3, <3>4, <3>5
    <3>9. \A v \in Workers :
             /\ pc'[v] \in Working \cup {"lockFail", "fail"} =>
                   file'[v] \notin counted' \cup dropped'
             /\ pc'[v] \in Counting => file'[v] \in counted'
             /\ pc'[v] = "endBatch" => file'[v] \in counted' \/ failed'
             /\ pc'[v] = "writeCount" => num'[v] = decompiled'
      BY <3>1, <3>3, <3>5, SMTT(30) DEF AnswerInv, Counting
    <3>10. failed' => \E g \in Files : g \notin counted' \cup dropped' \cup todo'
                         /\ \A v \in Workers : file'[v] = g => pc'[v] = "endBatch"
      BY <3>1, <3>3, <3>5 DEF AnswerInv
    <3>11. AnswerInv'
      BY <3>1, <3>3, <3>7, <3>8, <3>9, <3>10 DEF AnswerInv
    <3> QED BY <3>6, <3>11
  <2>4. ASSUME NEW w \in Workers, Finish(w) PROVE FileInv' /\ AnswerInv'
    <3>1. pc[w] = "work" /\ pc[w] \in Working /\ file[w] \in Files
          /\ file[w] \notin counted \cup dropped /\ file[w] \notin todo
      BY <2>4 DEF Finish, Working, Places, BatchTypes, AnswerInv, FileInv
    <3>2. UNCHANGED <<decompiled, failed, mainPc, todo, file, num, dropped>>
          /\ \A v \in Workers : v # w => pc'[v] = pc[v]
      BY <2>4 DEF Finish, Goto, batchVars, mainVars, argVars, localVars, LockInv, LockTypes
    <3>3. FileInv'
      BY <3>2 DEF FileInv
    <3>4. \A v \in Workers : v # w => file[v] # file[w]
      BY <3>1 DEF FileInv
    <3>5. CASE pc'[w] = "lockCount" /\ counted' = counted \cup {file[w]}
      <4>1. Pending' = Pending \cup {file[w]}
        BY <3>1, <3>2, <3>5 DEF Pending, Counting
      <4>2. counted' \ Pending' = counted \ Pending
        BY <3>1, <3>5, <4>1
      <4>3. \A v \in Workers :
               /\ pc'[v] \in Working \cup {"lockFail", "fail"} =>
                     file'[v] \notin counted' \cup dropped'
               /\ pc'[v] \in Counting => file'[v] \in counted'
               /\ pc'[v] = "endBatch" => file'[v] \in counted' \/ failed'
               /\ pc'[v] = "writeCount" => num'[v] = decompiled'
        BY <3>2, <3>4, <3>5 DEF AnswerInv, Working
      <4>4. failed' => \E f \in Files : f \notin counted' \cup dropped' \cup todo'
                          /\ \A v \in Workers : file'[v] = f => pc'[v] = "endBatch"
        <5> SUFFICES ASSUME failed'
                     PROVE  \E f \in Files : f \notin counted' \cup dropped' \cup todo'
                              /\ \A v \in Workers : file'[v] = f => pc'[v] = "endBatch"
          OBVIOUS
        <5>1. PICK f \in Files : f \notin counted \cup dropped \cup todo
                 /\ \A v \in Workers : file[v] = f => pc[v] = "endBatch"
          BY <3>2 DEF AnswerInv
        <5>2. f # file[w]
          BY <3>1, <5>1
        <5> QED BY <3>2, <3>5, <5>1, <5>2
      <4>5. \A f \in Files :
             f \notin counted' \cup dropped' \cup todo' /\ (\A v \in Workers : file'[v] # f) =>
               failed'
        BY <3>2, <3>5 DEF AnswerInv
      <4>6. counted' \cap todo' = {}
        BY <3>1, <3>2, <3>5 DEF AnswerInv
      <4> QED BY <3>2, <3>3, <4>2, <4>3, <4>4, <4>5, <4>6 DEF AnswerInv
    <3>6. CASE pc'[w] = "lockFail" /\ UNCHANGED counted
      <4>1. Pending' = Pending
        BY <3>1, <3>2, <3>6 DEF Pending, Counting
      <4>2. \A v \in Workers :
               /\ pc'[v] \in Working \cup {"lockFail", "fail"} =>
                     file'[v] \notin counted' \cup dropped'
               /\ pc'[v] \in Counting => file'[v] \in counted'
               /\ pc'[v] = "endBatch" => file'[v] \in counted' \/ failed'
               /\ pc'[v] = "writeCount" => num'[v] = decompiled'
        BY <3>1, <3>2, <3>6, SMTT(30) DEF AnswerInv, Counting
      <4>3. failed' => \E f \in Files : f \notin counted' \cup dropped' \cup todo'
                          /\ \A v \in Workers : file'[v] = f => pc'[v] = "endBatch"
        BY <3>1, <3>2, <3>6 DEF AnswerInv
      <4> QED BY <3>2, <3>3, <3>6, <4>1, <4>2, <4>3 DEF AnswerInv
    <3>7. (pc'[w] = "lockCount" /\ counted' = counted \cup {file[w]})
          \/ (pc'[w] = "lockFail" /\ UNCHANGED counted)
      BY <2>4 DEF Finish, Goto, LockInv, LockTypes
    <3> QED BY <3>5, <3>6, <3>7
  <2>5. ASSUME NEW w \in Workers, LockBatch(w), pc[w] # "lockGdb" PROVE FileInv' /\ AnswerInv'
    <3>1. UNCHANGED <<decompiled, failed, mainPc, todo, file, num, counted, dropped>>
          /\ \A v \in Workers : v # w => pc'[v] = pc[v]
      BY <2>5 DEF LockBatch, Goto, batchVars, mainVars, argVars, localVars, histVars, LockInv,
         LockTypes
    <3>2. \/ pc[w] = "lockCount" /\ pc'[w] = "count"
          \/ pc[w] = "lockFail" /\ pc'[w] = "fail"
      BY <2>5 DEF LockBatch, Goto, LockInv, LockTypes
    <3>3. FileInv'
      BY <3>1 DEF FileInv
    <3>4. Pending' = Pending
      BY <3>1, <3>2 DEF Pending, Counting
    <3>5. \A v \in Workers :
             /\ pc'[v] \in Working \cup {"lockFail", "fail"} =>
                   file'[v] \notin counted' \cup dropped'
             /\ pc'[v] \in Counting => file'[v] \in counted'
             /\ pc'[v] = "endBatch" => file'[v] \in counted' \/ failed'
             /\ pc'[v] = "writeCount" => num'[v] = decompiled'
      BY <3>1, <3>2 DEF AnswerInv, Counting, Working
    <3>6. failed' => \E f \in Files : f \notin counted' \cup dropped' \cup todo'
                        /\ \A v \in Workers : file'[v] = f => pc'[v] = "endBatch"
      BY <3>1, <3>2 DEF AnswerInv
    <3> QED BY <3>1, <3>3, <3>4, <3>5, <3>6 DEF AnswerInv
  <2>6. ASSUME NEW w \in Workers, ReadCount(w) PROVE FileInv' /\ AnswerInv'
    <3>1. UNCHANGED <<decompiled, failed, mainPc, todo, file, counted, dropped>>
          /\ pc[w] = "count" /\ pc'[w] = "writeCount" /\ num'[w] = decompiled
          /\ \A v \in Workers : v # w => pc'[v] = pc[v] /\ num'[v] = num[v]
      BY <2>6 DEF ReadCount, Goto, batchVars, mainVars, argVars, histVars, BatchTypes, LockInv,
         LockTypes
    <3>2. FileInv'
      BY <3>1 DEF FileInv
    <3>3. Pending' = Pending
      BY <3>1 DEF Pending, Counting
    <3>4. \A v \in Workers :
             /\ pc'[v] \in Working \cup {"lockFail", "fail"} =>
                   file'[v] \notin counted' \cup dropped'
             /\ pc'[v] \in Counting => file'[v] \in counted'
             /\ pc'[v] = "endBatch" => file'[v] \in counted' \/ failed'
             /\ pc'[v] = "writeCount" => num'[v] = decompiled'
      BY <3>1 DEF AnswerInv, Counting, Working
    <3>5. failed' => \E f \in Files : f \notin counted' \cup dropped' \cup todo'
                        /\ \A v \in Workers : file'[v] = f => pc'[v] = "endBatch"
      BY <3>1 DEF AnswerInv
    <3> QED BY <3>1, <3>2, <3>3, <3>4, <3>5 DEF AnswerInv
  <2>7. ASSUME NEW w \in Workers, WriteCount(w) PROVE FileInv' /\ AnswerInv'
    <3>1. UNCHANGED <<failed, mainPc, todo, file, num, counted, dropped>>
          /\ pc[w] = "writeCount" /\ pc'[w] = "endBatch" /\ decompiled' = num[w] + 1
          /\ \A v \in Workers : v # w => pc'[v] = pc[v]
      BY <2>7 DEF WriteCount, Goto, mainVars, argVars, localVars, histVars, LockInv, LockTypes
    <3>2. num[w] = decompiled /\ file[w] \in counted /\ file[w] \in Files
      BY <3>1 DEF AnswerInv, Counting, BatchTypes
    <3>3. \A v \in Workers : v # w => file[v] # file[w] /\ pc[v] # "writeCount"
      <4>1. \A v \in Workers : v # w => file[v] # file[w]
        BY <3>1, <3>2 DEF FileInv
      <4>2. \A v \in Workers : pc[v] = "writeCount" => v = w
        BY <3>1 DEF HolderInv
      <4> QED BY <4>1, <4>2
    <3>4. FileInv'
      BY <3>1 DEF FileInv
    <3>5. Pending' = Pending \ {file[w]} /\ file[w] \in Pending
      BY <3>1, <3>2, <3>3 DEF Pending, Counting
    <3>6. counted' \ Pending' = (counted \ Pending) \cup {file[w]}
      BY <3>1, <3>2, <3>5
    <3>7. IsFiniteSet(counted \ Pending)
      BY FS_Subset DEF BatchTypes
    <3>8. Cardinality(counted' \ Pending') = Cardinality(counted \ Pending) + 1
      BY <3>5, <3>6, <3>7, FS_AddElement
    <3>9. decompiled' = Cardinality(counted' \ Pending')
      BY <3>1, <3>2, <3>8 DEF AnswerInv
    <3>10. \A v \in Workers :
              /\ pc'[v] \in Working \cup {"lockFail", "fail"} =>
                    file'[v] \notin counted' \cup dropped'
              /\ pc'[v] \in Counting => file'[v] \in counted'
              /\ pc'[v] = "endBatch" => file'[v] \in counted' \/ failed'
              /\ pc'[v] = "writeCount" => num'[v] = decompiled'
      BY <3>1, <3>2, <3>3 DEF AnswerInv, Counting, Working
    <3>11. failed' => \E f \in Files : f \notin counted' \cup dropped' \cup todo'
                         /\ \A v \in Workers : file'[v] = f => pc'[v] = "endBatch"
      BY <3>1 DEF AnswerInv
    <3> QED BY <3>1, <3>4, <3>9, <3>10, <3>11 DEF AnswerInv
  <2>8. ASSUME NEW w \in Workers, Fail(w) PROVE FileInv' /\ AnswerInv'
    <3>1. UNCHANGED <<decompiled, mainPc, todo, file, num, counted, dropped>>
          /\ pc[w] = "fail" /\ pc'[w] = "endBatch" /\ failed'
          /\ \A v \in Workers : v # w => pc'[v] = pc[v]
      BY <2>8 DEF Fail, Goto, mainVars, argVars, localVars, histVars, LockInv, LockTypes
    <3>2. file[w] \notin counted \cup dropped \cup todo /\ file[w] \in Files
      BY <3>1 DEF AnswerInv, FileInv, BatchTypes
    <3>3. \A v \in Workers : v # w => file[v] # file[w]
      BY <3>2 DEF FileInv
    <3>4. FileInv'
      BY <3>1 DEF FileInv
    <3>5. Pending' = Pending
      BY <3>1 DEF Pending, Counting
    <3>6. \A v \in Workers :
             /\ pc'[v] \in Working \cup {"lockFail", "fail"} =>
                   file'[v] \notin counted' \cup dropped'
             /\ pc'[v] \in Counting => file'[v] \in counted'
             /\ pc'[v] = "endBatch" => file'[v] \in counted' \/ failed'
             /\ pc'[v] = "writeCount" => num'[v] = decompiled'
      BY <3>1 DEF AnswerInv, Counting, Working
    <3>7. \E f \in Files : f \notin counted' \cup dropped' \cup todo'
             /\ \A v \in Workers : file'[v] = f => pc'[v] = "endBatch"
      BY <3>1, <3>2, <3>3
    <3> QED BY <3>1, <3>4, <3>5, <3>6, <3>7 DEF AnswerInv
  <2>9. ASSUME NEW w \in Workers, UnlockBatch(w), pc[w] = "endBatch" PROVE FileInv' /\ AnswerInv'
    <3>1. /\ UNCHANGED <<decompiled, failed, mainPc, todo, counted, dropped>>
          /\ pc'[w] = "idle" /\ file'[w] = None
          /\ \A v \in Workers : v # w => pc'[v] = pc[v] /\ num'[v] = num[v] /\ file'[v] = file[v]
      BY <2>9 DEF UnlockBatch, Goto, EndTask, batchVars, mainVars, histVars, LockInv,
         LockTypes, BatchTypes
    <3>2. None \notin todo
      BY DEF BatchTypes
    <3>3. FileInv'
      BY <3>1, <3>2 DEF FileInv
    <3>4. Pending' = Pending
      <4>1. \A v \in Workers : (pc'[v] \in Counting) = (pc[v] \in Counting)
        BY <2>9, <3>1 DEF Counting
      <4>2. \A v \in Workers : pc[v] \in Counting => file'[v] = file[v]
        BY <2>9, <3>1 DEF Counting
      <4> QED BY <4>1, <4>2 DEF Pending
    <3>5. \A v \in Workers :
             /\ pc'[v] \in Working \cup {"lockFail", "fail"} =>
                   file'[v] \notin counted' \cup dropped'
             /\ pc'[v] \in Counting => file'[v] \in counted'
             /\ pc'[v] = "endBatch" => file'[v] \in counted' \/ failed'
             /\ pc'[v] = "writeCount" => num'[v] = decompiled'
      BY <3>1 DEF AnswerInv, Counting, Working
    <3>6. \A f \in Files :
           f \notin counted' \cup dropped' \cup todo' /\ (\A v \in Workers : file'[v] # f) =>
             failed'
      <4> SUFFICES ASSUME NEW f \in Files, f \notin counted \cup dropped \cup todo,
                          \A v \in Workers : file'[v] # f
                   PROVE  failed
        BY <3>1
      <4>1. CASE f = file[w]
        BY <2>9, <4>1 DEF AnswerInv
      <4>2. CASE f # file[w]
        BY <3>1, <4>2 DEF AnswerInv
      <4> QED BY <4>1, <4>2
    <3>7. failed' => \E f \in Files : f \notin counted' \cup dropped' \cup todo'
                        /\ \A v \in Workers : file'[v] = f => pc'[v] = "endBatch"
      <4> SUFFICES ASSUME failed
                   PROVE  \E f \in Files : f \notin counted \cup dropped \cup todo
                            /\ \A v \in Workers : file'[v] = f => pc'[v] = "endBatch"
        BY <3>1
      <4>1. PICK f \in Files : f \notin counted \cup dropped \cup todo
               /\ \A v \in Workers : file[v] = f => pc[v] = "endBatch"
        BY DEF AnswerInv
      <4>2. file'[w] # f
        BY <3>1
      <4> QED BY <3>1, <4>1, <4>2
    <3> QED BY <3>1, <3>3, <3>4, <3>5, <3>6, <3>7 DEF AnswerInv
  <2>10. ASSUME NEW w \in Workers, Skip(w) \/ Throw(w) PROVE FileInv' /\ AnswerInv'
    <3>1. CASE mainPc' = "terminated" /\ UNCHANGED <<pc, file, dropped>>
      <4>1. UNCHANGED <<pc, decompiled, failed, todo, file, num, counted, dropped>>
        BY <2>10, <3>1 DEF Skip, Throw, batchVars, mainVars, localVars
      <4> QED BY <2>1, <3>1, <4>1
    <3>2. CASE EndTask(w) /\ dropped' = dropped \cup {file[w]} /\ UNCHANGED mainPc
      <4>1. /\ UNCHANGED <<decompiled, failed, mainPc, todo, num, counted>>
            /\ pc[w] = "work" /\ pc'[w] = "idle" /\ file'[w] = None
            /\ dropped' = dropped \cup {file[w]}
            /\ \A v \in Workers : v # w => pc'[v] = pc[v] /\ file'[v] = file[v]
        BY <2>10, <3>2 DEF Skip, Throw, EndTask, Goto, batchVars, mainVars, localVars,
           LockInv, LockTypes, BatchTypes
      <4>2. /\ file[w] \in Files /\ file[w] \notin counted \cup dropped \cup todo
            /\ None \notin todo
        BY <4>1 DEF Working, Places, BatchTypes, AnswerInv, FileInv
      <4>3. \A v \in Workers : v # w => file[v] # file[w]
        BY <4>2 DEF FileInv
      <4>4. FileInv'
        BY <4>1, <4>2 DEF FileInv
      <4>5. Pending' = Pending
        <5>1. \A v \in Workers : (pc'[v] \in Counting) = (pc[v] \in Counting)
          BY <4>1 DEF Counting
        <5>2. \A v \in Workers : pc[v] \in Counting => file'[v] = file[v]
          BY <4>1 DEF Counting
        <5> QED BY <5>1, <5>2 DEF Pending
      <4>6. \A v \in Workers :
               /\ pc'[v] \in Working \cup {"lockFail", "fail"} =>
                     file'[v] \notin counted' \cup dropped'
               /\ pc'[v] \in Counting => file'[v] \in counted'
               /\ pc'[v] = "endBatch" => file'[v] \in counted' \/ failed'
               /\ pc'[v] = "writeCount" => num'[v] = decompiled'
        BY <4>1, <4>3, SMTT(30) DEF AnswerInv, Counting, Working
      <4>7. \A f \in Files :
               f \notin counted' \cup dropped' \cup todo' /\ (\A v \in Workers : file'[v] # f)
                  => failed'
        <5> SUFFICES ASSUME NEW f \in Files, f \notin counted' \cup dropped' \cup todo',
                            \A v \in Workers : file'[v] # f
                     PROVE  failed
          BY <4>1
        <5>1. f \notin counted \cup dropped \cup todo /\ f # file[w]
          BY <4>1
        <5>2. \A v \in Workers : file[v] # f
          BY <4>1, <5>1
        <5> QED BY <5>1, <5>2 DEF AnswerInv
      <4>8. failed' => \E f \in Files : f \notin counted' \cup dropped' \cup todo'
                          /\ \A v \in Workers : file'[v] = f => pc'[v] = "endBatch"
        <5> SUFFICES ASSUME failed
                     PROVE  \E f \in Files : f \notin counted' \cup dropped' \cup todo'
                              /\ \A v \in Workers : file'[v] = f => pc'[v] = "endBatch"
          BY <4>1
        <5>1. PICK f \in Files : f \notin counted \cup dropped \cup todo
                 /\ \A v \in Workers : file[v] = f => pc[v] = "endBatch"
          BY DEF AnswerInv
        <5>2. f # file[w] /\ f # None
          BY <4>1, <5>1, HashStoreAssumption
        <5>3. f \notin counted' \cup dropped' \cup todo'
          BY <4>1, <5>1, <5>2
        <5>4. \A v \in Workers : file'[v] = f => pc'[v] = "endBatch"
          BY <4>1, <5>1, <5>2
        <5> QED BY <5>3, <5>4
      <4>9. counted' \cap todo' = {} /\ dropped' \cap todo' = {}
        BY <4>1, <4>2 DEF AnswerInv
      <4> QED BY <4>1, <4>4, <4>5, <4>6, <4>7, <4>8, <4>9 DEF AnswerInv
    <3>3. \/ mainPc' = "terminated" /\ UNCHANGED <<pc, file, dropped>>
          \/ EndTask(w) /\ dropped' = dropped \cup {file[w]} /\ UNCHANGED mainPc
      BY <2>10 DEF Skip, Throw, mainVars
    <3> QED BY <3>1, <3>2, <3>3
  <2>11. ASSUME NEW w \in Workers, DecompileGsc(w) PROVE FileInv' /\ AnswerInv'
    BY <2>3, <2>4, <2>5, <2>6, <2>7, <2>8, <2>9, <2>10, <2>11, QuietSteps, QuietKeeps
  <2> QED BY <2>1, <2>2, <2>11 DEF Next
<1>3. Spec => []LockInv /\ [](BatchTypes /\ HolderInv)
  BY LockInvHolds, HolderInvHolds
<1>4. ASSUME LockInv, BatchTypes, HolderInv, FileInv /\ AnswerInv, BatchTypes', [Next]_vars
      PROVE  FileInv' /\ AnswerInv'
  BY <1>2, <1>4 DEF BatchInv
<1>5. LockInv /\ BatchTypes /\ HolderInv /\ FileInv /\ AnswerInv => LockInv /\ BatchInv
  BY DEF BatchInv
<1> QED BY <1>1, <1>3, <1>4, <1>5, PTL DEF Spec

\* The type invariant of the batch for every pool and every set of scripts: the count
\* stays within their number although its increments are read, then written.
THEOREM TypeCorrect == Spec => []TypeOK
<1> USE HashStoreAssumption
<1>1. ASSUME LockInv, TableInv, BatchInv PROVE TypeOK
  <2> USE <1>1 DEF LockInv, TableInv, BatchInv
  <2>1. counted \ Pending \in SUBSET Files
    BY DEF BatchTypes
  <2>2. Cardinality(counted \ Pending) \in 0..Cardinality(Files)
    <3>1. IsFiniteSet(counted \ Pending)
          /\ Cardinality(counted \ Pending) <= Cardinality(Files)
      BY <2>1, FS_Subset
    <3> QED BY <3>1, FS_CardinalityType
  <2>3. decompiled \in 0..Cardinality(Files)
    BY <2>2 DEF AnswerInv
  <2>4. mode \subseteq Types
    BY DEF ModeInv, LockTypes
  <2>5. loads \in Nat
    BY DEF DefaultInv
  <2> QED BY <2>3, <2>4, <2>5 DEF TypeOK, LockTypes, TableTypes, BatchTypes
<1> QED BY <1>1, TableInvHolds, BatchInvHolds, PTL

\* CountsExact for every pool and every set of scripts: the tool counts each script it
\* decompiled once, and fails if and only if one was neither counted nor dropped.
THEOREM AnswerExact == Spec => []CountsExact
<1>1. ASSUME LockInv, BatchInv PROVE CountsExact
  <2> SUFFICES ASSUME mainPc = "done"
               PROVE  decompiled = Cardinality(counted) /\ failed = (counted \cup dropped # Files)
    BY DEF CountsExact
  <2> USE <1>1 DEF LockInv, BatchInv
  <2>1. todo = {} /\ \A w \in Workers : pc[w] = "idle" /\ file[w] = None
    BY DEF FileInv, ModeInv, BatchTypes
  <2>2. Pending = {}
    BY <2>1 DEF Pending, Counting
  <2>3. counted \ Pending = counted
    BY <2>2
  <2>4. decompiled = Cardinality(counted)
    BY <2>3 DEF AnswerInv
  <2>5. failed => counted \cup dropped # Files
    BY DEF AnswerInv
  <2>6. counted \cup dropped # Files => failed
    <3> SUFFICES ASSUME counted \cup dropped # Files PROVE failed
      OBVIOUS
    <3>1. PICK f \in Files : f \notin counted \cup dropped
      BY DEF BatchTypes
    <3>2. \A w \in Workers : file[w] # f
      BY <2>1, HashStoreAssumption
    <3> QED BY <2>1, <3>1, <3>2 DEF AnswerInv
  <2>7. failed \in BOOLEAN
    BY DEF BatchTypes
  <2>8. failed = (counted \cup dropped # Files)
    BY <2>5, <2>6, <2>7, Zenon
  <2> QED BY <2>4, <2>8
<1> QED BY <1>1, BatchInvHolds, PTL
=============================================================================
