----------------------------- MODULE TextExpand -----------------------------
(***************************************************************************)
(* tool::hash::text_expand (core/acts/tools/hashes/text_expand.cpp): every *)
(* word over a dictionary is handed to a callback, by as many tasks as the *)
(* pool has threads, until the index reaches max or an AsyncStop is        *)
(* triggered.  Task t handles the indices 1 + t, 1 + t + Tasks, ...  The   *)
(* AsyncStop is an argument that defaults to nullptr (text_expand.hpp:46,  *)
(* 51 and 59): the loop is ready for that, the end of the task is not.     *)
(*                                                                         *)
(* The pool (BS::thread_pool) is external: a detached task runs at some    *)
(* time, wait returns when every task has ended.                           *)
(***************************************************************************)
EXTENDS Naturals, Sequences, FiniteSets

CONSTANTS
    Tasks,   \* pool->get_thread_count(), the number of tasks
    Max,     \* the first index that is not handled
    Dict,    \* the dictionary, a sequence
    Period,  \* a task tests the stop at the multiples of Period (0x1000000)
    MaxLength \* bound on the words AllWords looks for

ASSUME TextExpandAssumption ==
    /\ Tasks \in Nat \ {0}
    /\ Max \in Nat
    /\ Period \in Nat \ {0} /\ MaxLength \in Nat
    /\ Dict \in Seq(STRING) /\ Len(Dict) >= 2

VARIABLES
    \* the caller: where it is and the task it creates next
    callerPc, launched,
    \* whether there is an AsyncStop, and the AsyncStop
    hasStop, stopTrigger, running,
    \* the tasks: program counter, loop index
    pc, index,
    \* history: <<task, index>> pairs handled, and how many since the stop
    handled, late

stopVars == <<hasStop, stopTrigger, running>>
vars == <<callerPc, launched, stopVars, pc, index, handled, late>>

Task == 0..(Tasks - 1)

Init ==
    /\ callerPc = "inc" /\ launched = 0
    /\ hasStop \in BOOLEAN /\ stopTrigger = FALSE /\ running = 0
    /\ pc = [t \in Task |-> "none"]
    /\ index = [t \in Task |-> 1 + t]
    /\ handled = {}
    /\ late = [t \in Task |-> 0]

Goto(t, l) == pc' = [pc EXCEPT ![t] = l]

\* Takes the digits as they are.
Word_ZeroBased(i) ==
    LET n == Len(Dict)
        Digits[v \in 0..i] ==
            IF v = 0 THEN <<>> ELSE <<Dict[(v % n) + 1]>> \o Digits[(v - 1) \div n]
    IN  Digits[i]

\* The word of an index: its digits in base n, the least significant first; the
\* digit d stands for entry d and 0 for the last one.
Word(i) ==
    LET n == Len(Dict)
        Digits[v \in 0..i] ==
            IF v = 0 THEN <<>> ELSE <<Dict[((v + n - 1) % n) + 1]>> \o Digits[v \div n]
    IN  Digits[i]

-----------------------------------------------------------------------------
(* GetDynamicAsyncDictPtr: the caller counts a task, then detaches it.     *)

\* Counts every task each time.
IncRun_CountsAll ==
    /\ callerPc = "inc" /\ launched < Tasks
    /\ running' = IF hasStop THEN running + Tasks ELSE running
    /\ callerPc' = "detach"
    /\ UNCHANGED <<launched, hasStop, stopTrigger, pc, index, handled, late>>

\* Sets the count instead of adding to it, which is right as long as no task
\* ends before the last one is made.
IncRun_Sets ==
    /\ callerPc = "inc" /\ launched < Tasks
    /\ running' = IF hasStop THEN launched + 1 ELSE running
    /\ callerPc' = "detach"
    /\ UNCHANGED <<launched, hasStop, stopTrigger, pc, index, handled, late>>

IncRun ==
    /\ callerPc = "inc" /\ launched < Tasks
    /\ running' = IF hasStop THEN running + 1 ELSE running
    /\ callerPc' = "detach"
    /\ UNCHANGED <<launched, hasStop, stopTrigger, pc, index, handled, late>>

Detach ==
    /\ callerPc = "detach"
    /\ Goto(launched, "loop")
    /\ launched' = launched + 1
    /\ callerPc' = "inc"
    /\ UNCHANGED <<stopVars, index, handled, late>>

\* pool.wait(), after which the caller clears the count, if there is one.
Wait ==
    /\ callerPc = "inc" /\ launched = Tasks
    /\ \A t \in Task : pc[t] = "end"
    /\ running' = 0
    /\ callerPc' = "done"
    /\ UNCHANGED <<launched, hasStop, stopTrigger, pc, index, handled, late>>

-----------------------------------------------------------------------------
(* A task.                                                                 *)

Handle(t) ==
    /\ pc[t] = "loop" /\ index[t] < Max
    /\ handled' = handled \cup {<<t, index[t]>>}
    /\ late' = IF stopTrigger THEN [late EXCEPT ![t] = @ + 1] ELSE late
    /\ IF index[t] % Period = 0
       THEN Goto(t, "check") /\ UNCHANGED index
       ELSE index' = [index EXCEPT ![t] = @ + Tasks] /\ UNCHANGED pc
    /\ UNCHANGED <<callerPc, launched, stopVars>>

\* Does not leave the loop.
Check_KeepsOn(t) ==
    /\ pc[t] = "check"
    /\ index' = [index EXCEPT ![t] = @ + Tasks]
    /\ Goto(t, "loop")
    /\ UNCHANGED <<callerPc, launched, stopVars, handled, late>>

\* Skips the increment of the loop when there is no stop.
Check_NoIncrement(t) ==
    /\ pc[t] = "check"
    /\ Goto(t, IF stopTrigger THEN "dec" ELSE "loop")
    /\ UNCHANGED <<callerPc, launched, stopVars, index, handled, late>>

Check(t) ==
    /\ pc[t] = "check"
    /\ IF stopTrigger
       THEN Goto(t, "dec") /\ UNCHANGED index
       ELSE Goto(t, "loop") /\ index' = [index EXCEPT ![t] = @ + Tasks]
    /\ UNCHANGED <<callerPc, launched, stopVars, handled, late>>

EndLoop(t) ==
    /\ pc[t] = "loop" /\ index[t] >= Max
    /\ Goto(t, "dec")
    /\ UNCHANGED <<callerPc, launched, stopVars, index, handled, late>>

\* With nothing running it throws "Overflow DecRun", which leaves the task.
DecRun(t) ==
    /\ pc[t] = "dec" /\ hasStop
    /\ IF running = 0
       THEN Goto(t, "overflow") /\ UNCHANGED running
       ELSE Goto(t, "end") /\ running' = running - 1
    /\ UNCHANGED <<callerPc, launched, hasStop, stopTrigger, index, handled, late>>

\* stop->DecRun() with no stop: the mutex of a null object, which ends the process.
NullDecRun(t) ==
    /\ pc[t] = "dec" /\ ~hasStop
    /\ callerPc' = "crashed"
    /\ UNCHANGED <<launched, stopVars, pc, index, handled, late>>

-----------------------------------------------------------------------------

\* AsyncStop::Stop, by any thread at any time.
Stop ==
    /\ hasStop /\ ~stopTrigger
    /\ stopTrigger' = TRUE
    /\ UNCHANGED <<callerPc, launched, hasStop, running, pc, index, handled, late>>

Terminated == callerPc \in {"done", "crashed"} /\ UNCHANGED vars

Caller  == IncRun \/ Detach \/ Wait
Work(t) ==
    /\ callerPc # "crashed"
    /\ Handle(t) \/ Check(t) \/ EndLoop(t) \/ DecRun(t) \/ NullDecRun(t)

Next ==
    \/ Caller \/ Stop \/ Terminated
    \/ \E t \in Task : Work(t)

\* The threads of the pool and the caller are scheduled; nobody has to stop.
Spec ==
    /\ Init /\ [][Next]_vars
    /\ WF_vars(Caller)
    /\ \A t \in Task : WF_vars(Work(t))

-----------------------------------------------------------------------------
(* Properties.                                                             *)

\* Every variable keeps its type, and an index stays in its residue class.
TypeOK ==
    /\ callerPc \in {"inc", "detach", "done", "crashed"} /\ launched \in 0..Tasks
    /\ hasStop \in BOOLEAN /\ stopTrigger \in BOOLEAN /\ running \in 0..Tasks
    /\ pc \in [Task -> {"none", "loop", "check", "dec", "end", "overflow"}]
    /\ index \in [Task -> Nat]
    /\ handled \subseteq Task \X Nat
    /\ late \in [Task -> Nat]

Counted == {t \in Task : pc[t] \notin {"none", "end"}}

\* "Overflow DecRun" (l.28-29) is never thrown: running counts the tasks that
\* were announced and have not ended, at every interleaving of the caller with
\* tasks that are already running, or already over, when the next one is made; and
\* a call that was given a stop never takes the process down.
RunningCounts ==
    /\ \A t \in Task : pc[t] # "overflow"
    /\ hasStop => callerPc # "crashed"
    /\ hasStop /\ callerPc # "done" =>
          running = Cardinality(Counted) + IF callerPc = "detach" THEN 1 ELSE 0

\* The lengths whose indices are all below max.
Lengths ==
    LET Words[l \in 0..MaxLength] == IF l = 0 THEN 1 ELSE Len(Dict) * Words[l - 1]
    IN  {l \in 1..MaxLength : Words[l] <= Max}

\* The tasks share the indices, and no index is handled twice.  The tests of the
\* file expect each combination of entries to be tried: what a finished call has
\* tried holds every word that does not end in the last entry (the terminator, in
\* those tests), of each length that fits below max, once.
AllWords ==
    /\ \A p, q \in handled : p[2] = q[2] => p = q
    /\ callerPc = "done" /\ ~stopTrigger =>
        /\ \A l \in Lengths : \A w \in [1..l -> {Dict[k] : k \in DOMAIN Dict}] :
              w[l] # Dict[Len(Dict)] =>
                  \E p \in handled : Word(p[2]) = w
        /\ \A p, q \in handled : Word(p[2]) = Word(q[2]) => p = q

\* After Stop a task handles at most Period more indices before it ends, the
\* "end task" of l.126.
StopEndsTasks == \A t \in Task : late[t] <= Period

\* A call that is given a stop returns, stopped or not, whatever the tasks do between
\* the announcements of the caller and its wait (without one it ends in NullDecRun).
Returns == hasStop => <>(callerPc = "done")
=============================================================================
