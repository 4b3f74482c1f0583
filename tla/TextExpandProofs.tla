-------------------------- MODULE TextExpandProofs --------------------------
(***************************************************************************)
(* What holds of TextExpand for every number of tasks, every bound of the  *)
(* indices and every period of the test of the stop.                       *)
(***************************************************************************)
EXTENDS TextExpand, FiniteSetTheorems, SequenceTheorems, WellFoundedInduction, TLAPS

-----------------------------------------------------------------------------
(* Arithmetic of the strides.                                              *)

\* A positive multiple of a number is not below it.
LEMMA MultipleNotBelow ==
    ASSUME NEW a \in Nat, NEW k \in Nat, k >= 1
    PROVE  k * a >= a
<1>1. k * a = (k - 1) * a + a
  BY SMT
<1>2. (k - 1) * a \in Nat
  BY SMT
<1> QED BY <1>1, <1>2

\* The index of a task in one of its rounds: 1 + t + n * Tasks.
Stride(t, n) == 1 + t + n * Tasks

\* An index belongs to one task only.
LEMMA StridesDisjoint ==
    ASSUME NEW t \in Task, NEW u \in Task, NEW m \in Nat, NEW n \in Nat,
           Stride(t, m) = Stride(u, n)
    PROVE  t = u
<1> USE TextExpandAssumption DEF Task, Stride
<1>1. m * Tasks \in Nat /\ n * Tasks \in Nat
  BY SMT
<1>2. ASSUME m > n PROVE FALSE
  <2>1. (m - n) * Tasks >= Tasks
    BY <1>2, MultipleNotBelow
  <2>2. (m - n) * Tasks = m * Tasks - n * Tasks
    BY SMT
  <2> QED BY <1>1, <2>1, <2>2
<1>3. ASSUME n > m PROVE FALSE
  <2>1. (n - m) * Tasks >= Tasks
    BY <1>3, MultipleNotBelow
  <2>2. (n - m) * Tasks = n * Tasks - m * Tasks
    BY SMT
  <2> QED BY <1>1, <2>1, <2>2
<1>4. m = n
  BY <1>2, <1>3
<1> QED BY <1>1, <1>4

\* Every positive index belongs to a task.
LEMMA StridesCover ==
    ASSUME NEW i \in Nat, i >= 1
    PROVE  \E t \in Task, n \in Nat : i = Stride(t, n)
<1> USE TextExpandAssumption DEF Task, Stride
<1> DEFINE t == (i - 1) % Tasks
           n == (i - 1) \div Tasks
<1>1. t \in 0..(Tasks - 1) /\ n \in Nat
  BY SMT
<1>2. i - 1 = Tasks * n + t
  BY SMT
<1>3. Tasks * n = n * Tasks
  BY <1>1, SMT
<1>4. i = 1 + t + n * Tasks
  BY <1>1, <1>2, <1>3
<1> QED BY <1>1, <1>4

-----------------------------------------------------------------------------
(* The count of the running tasks.                                         *)

\* The types, and where the caller is in the making of the tasks: the ones it has
\* not made yet have not begun.
LaunchInv ==
    /\ TypeOK
    /\ callerPc = "detach" => launched < Tasks
    /\ callerPc = "done" => launched = Tasks
    /\ \A t \in Task : pc[t] = "none" <=> t >= launched
    /\ callerPc = "done" => \A t \in Task : pc[t] = "end"

CountInv == LaunchInv /\ RunningCounts

\* The tasks are finitely many, and so are the ones that are counted.
LEMMA CountedFinite ==
    ASSUME LaunchInv
    PROVE  /\ IsFiniteSet(Counted) /\ Cardinality(Counted) \in 0..Tasks
           /\ callerPc = "detach" => Cardinality(Counted) < Tasks
<1> USE TextExpandAssumption DEF LaunchInv, TypeOK
<1>1. IsFiniteSet(Task) /\ Cardinality(Task) = Tasks
  BY FS_Interval DEF Task
<1>2. Counted \in SUBSET Task
  BY DEF Counted
<1>3. IsFiniteSet(Counted) /\ Cardinality(Counted) <= Tasks
  BY <1>1, <1>2, FS_Subset
<1>4. Cardinality(Counted) \in Nat
  BY <1>3, FS_CardinalityType
<1>5. ASSUME callerPc = "detach" PROVE Cardinality(Counted) # Tasks
  <2>1. launched \in Task /\ launched \notin Counted
    BY <1>5 DEF Task, Counted
  <2> QED BY <1>1, <1>2, <2>1, FS_Subset
<1> QED BY <1>3, <1>4, <1>5

LEMMA CountInvHolds == Spec => []CountInv
<1> USE TextExpandAssumption
<1>1. Init => CountInv
  <2> SUFFICES ASSUME Init PROVE CountInv
    OBVIOUS
  <2>1. TypeOK
    <3>1. \A t \in Task : 1 + t \in Nat
      BY DEF Task
    <3>2. index \in [Task -> Nat]
      BY <3>1 DEF Init
    <3>3. late \in [Task -> Nat]
      BY DEF Init
    <3>4. pc \in [Task -> {"none", "loop", "check", "dec", "end", "overflow"}]
      BY DEF Init
    <3>5. callerPc = "inc" /\ launched = 0 /\ running = 0 /\ handled = {}
      BY DEF Init
    <3>6. stopTrigger \in BOOLEAN /\ hasStop \in BOOLEAN
      BY Zenon DEF Init
    <3> QED BY <3>2, <3>3, <3>4, <3>5, <3>6 DEF TypeOK
  <2>4. LaunchInv
    BY <2>1 DEF Init, LaunchInv, Task
  <2>2. Counted = {}
    BY DEF Init, Counted
  <2>3. RunningCounts
    BY <2>2, FS_EmptySet DEF Init, RunningCounts
  <2> QED BY <2>3, <2>4 DEF CountInv
<1>2. ASSUME CountInv, [Next]_vars PROVE CountInv'
  <2> USE <1>2 DEF CountInv
  <2>1. IsFiniteSet(Counted) /\ Cardinality(Counted) \in 0..Tasks
        /\ (callerPc = "detach" => Cardinality(Counted) < Tasks)
    BY CountedFinite
  <2>2. CASE IncRun
    <3>1. Counted' = Counted
      BY <2>2 DEF IncRun, Counted
    <3>2. Cardinality(Counted) # Tasks
      <4>1. launched \in Task /\ launched \notin Counted
        BY <2>2 DEF IncRun, Task, Counted, LaunchInv, TypeOK
      <4>2. IsFiniteSet(Task) /\ Cardinality(Task) = Tasks /\ Counted \in SUBSET Task
        BY FS_Interval DEF Task, Counted
      <4> QED BY <4>1, <4>2, FS_Subset
    <3>3. RunningCounts'
      BY <2>1, <2>2, <3>1 DEF IncRun, RunningCounts
    <3>4. LaunchInv'
      BY <2>1, <2>2, <3>2 DEF IncRun, LaunchInv, TypeOK, RunningCounts
    <3> QED BY <3>3, <3>4
  <2>3. CASE Detach
    <3> USE <2>3 DEF Detach, Goto, stopVars, LaunchInv, TypeOK
    <3>1. launched \in Task /\ launched \notin Counted
      BY DEF Task, Counted
    <3>2. Counted' = Counted \cup {launched}
      BY <3>1 DEF Counted, Task
    <3>3. Cardinality(Counted') = Cardinality(Counted) + 1
      BY <2>1, <3>1, <3>2, FS_AddElement
    <3>4. LaunchInv'
      BY <3>1, SMTT(30) DEF Task
    <3>5. RunningCounts'
      BY <2>1, <3>1, <3>3 DEF RunningCounts
    <3> QED BY <3>4, <3>5
  <2>4. CASE Wait
    <3>1. LaunchInv'
      BY <2>4 DEF Wait, LaunchInv, TypeOK
    <3>2. RunningCounts'
      BY <2>4 DEF Wait, RunningCounts
    <3> QED BY <3>1, <3>2
  <2>5. CASE Stop
    <3>1. Counted' = Counted
      BY <2>5 DEF Stop, Counted
    <3> QED BY <2>5, <3>1 DEF Stop, LaunchInv, TypeOK, RunningCounts
  <2>6. CASE UNCHANGED vars
    <3>1. Counted' = Counted
      BY <2>6 DEF vars, Counted
    <3> QED BY <2>6, <3>1 DEF vars, stopVars, LaunchInv, TypeOK, RunningCounts
  <2>7. ASSUME NEW t \in Task, Handle(t) \/ Check(t) \/ EndLoop(t) PROVE CountInv'
    <3> USE <2>7 DEF Handle, Check, EndLoop, Goto, stopVars, LaunchInv, TypeOK
    <3>1. pc'[t] \in {"loop", "check", "dec"} /\ pc[t] \in {"loop", "check"}
          /\ \A u \in Task \ {t} : pc'[u] = pc[u]
      OBVIOUS
    <3>2. Counted' = Counted
      BY <3>1 DEF Counted
    <3>3. t \in Nat /\ t < launched
      BY <3>1 DEF Task
    <3>4. index' \in [Task -> Nat]
      <4>1. index[t] + Tasks \in Nat
        OBVIOUS
      <4>2. index' = index \/ index' = [index EXCEPT ![t] = index[t] + Tasks]
        OBVIOUS
      <4> QED BY <4>1, <4>2
    <3>5. handled' \subseteq Task \X Nat
      OBVIOUS
    <3>6. late' \in [Task -> Nat]
      OBVIOUS
    <3>7. pc' \in [Task -> {"none", "loop", "check", "dec", "end", "overflow"}]
      OBVIOUS
    <3>8. callerPc # "done"
      BY <3>1
    <3>9. UNCHANGED <<callerPc, launched, hasStop, stopTrigger, running>>
      OBVIOUS
    <3> HIDE DEF Handle, Check, EndLoop
    <3>10. LaunchInv'
      BY <3>1, <3>3, <3>4, <3>5, <3>6, <3>7, <3>8, <3>9
    <3>11. RunningCounts'
      BY <3>1, <3>2, <3>9 DEF RunningCounts
    <3> QED BY <3>10, <3>11
  <2>8. ASSUME NEW t \in Task, DecRun(t) PROVE CountInv'
    <3> USE <2>8 DEF DecRun, Goto, LaunchInv, TypeOK
    <3>1. t \in Counted
      BY DEF Counted
    <3>2. Cardinality(Counted) >= 1
      BY <2>1, <3>1, FS_EmptySet
    <3>3. running # 0 /\ callerPc # "done" /\ hasStop
      BY <2>1, <3>1, <3>2 DEF RunningCounts, Counted
    <3>4. pc' = [pc EXCEPT ![t] = "end"] /\ running' = running - 1
      BY <3>3
    <3>5. Counted' = Counted \ {t}
      BY <3>4 DEF Counted
    <3>6. Cardinality(Counted') = Cardinality(Counted) - 1
      BY <2>1, <3>1, <3>5, FS_RemoveElement
    <3>7. t < launched
      BY DEF Task
    <3>8. LaunchInv'
      BY <3>3, <3>4, <3>7 DEF Task
    <3>9. RunningCounts'
      <4>1. \A u \in Task : pc'[u] # "overflow"
        <5>1. \A u \in Task : pc[u] # "overflow"
          BY DEF CountInv, RunningCounts
        <5> QED BY <3>4, <5>1
      <4>2. running = Cardinality(Counted) + IF callerPc = "detach" THEN 1 ELSE 0
        BY <3>3 DEF CountInv, RunningCounts
      <4>3. callerPc' = callerPc /\ hasStop' = hasStop
        OBVIOUS
      <4>4. running' = Cardinality(Counted') + IF callerPc' = "detach" THEN 1 ELSE 0
        BY ONLY <2>1, <3>4, <3>6, <4>2, <4>3
      <4>5. hasStop' => callerPc' # "crashed"
        BY <4>3 DEF CountInv, RunningCounts
      <4> QED BY <4>1, <4>4, <4>5 DEF RunningCounts
    <3> QED BY <3>8, <3>9
  <2>9. ASSUME NEW t \in Task, NullDecRun(t) PROVE CountInv'
    <3>1. /\ UNCHANGED <<launched, hasStop, stopTrigger, running, pc, index, handled, late>>
          /\ callerPc' = "crashed" /\ ~hasStop /\ pc[t] = "dec"
      BY <2>9 DEF NullDecRun, stopVars
    <3>2. Counted' = Counted
      BY <3>1 DEF Counted
    <3>3. LaunchInv'
      BY <3>1 DEF LaunchInv, TypeOK
    <3> QED BY <3>1, <3>2, <3>3 DEF RunningCounts
  <2> QED
    BY <2>2, <2>3, <2>4, <2>5, <2>6, <2>7, <2>8, <2>9 DEF Next, Caller, Work, Terminated
<1> QED BY <1>1, <1>2, PTL DEF Spec

\* The type invariant of text_expand for every pool: the count of the running tasks
\* is a number of tasks, and an index is a number.
THEOREM TypeCorrect == Spec => []TypeOK
<1>1. CountInv => TypeOK
  BY DEF CountInv, LaunchInv
<1> QED BY <1>1, CountInvHolds, PTL

\* RunningCounts for every pool: DecRun never finds nothing running, whatever tasks
\* are over before the caller has announced the last one.
THEOREM NoOverflow == Spec => []RunningCounts
<1>1. CountInv => RunningCounts
  BY DEF CountInv
<1> QED BY <1>1, CountInvHolds, PTL

-----------------------------------------------------------------------------
(* The indices that are handled.                                           *)

\* The next index of a task is the one of its next round.
LEMMA NextStride ==
    ASSUME NEW t \in Task, NEW n \in Nat
    PROVE  /\ Stride(t, n) \in Nat /\ Stride(t, n) >= 1
           /\ Stride(t, n) + Tasks = Stride(t, n + 1)
           /\ \A m \in Nat : Stride(t, m) < Stride(t, n + 1) => Stride(t, m) <= Stride(t, n)
<1> USE TextExpandAssumption DEF Task, Stride
<1>1. \A k \in Nat : k * Tasks \in Nat
  BY SMT
<1>2. (n + 1) * Tasks = n * Tasks + Tasks
  BY SMT
<1>3. ASSUME NEW m \in Nat, Stride(t, m) < Stride(t, n + 1), Stride(t, m) > Stride(t, n)
      PROVE  FALSE
  <2>1. m * Tasks < n * Tasks + Tasks /\ m * Tasks > n * Tasks
    BY <1>1, <1>2, <1>3
  <2>2. ASSUME m > n PROVE FALSE
    <3>1. (m - n) * Tasks >= Tasks
      BY <2>2, MultipleNotBelow
    <3>2. (m - n) * Tasks = m * Tasks - n * Tasks
      BY SMT
    <3> QED BY <1>1, <2>1, <3>1, <3>2
  <2>3. ASSUME n > m PROVE FALSE
    <3>1. (n - m) * Tasks >= Tasks
      BY <2>3, MultipleNotBelow
    <3>2. (n - m) * Tasks = n * Tasks - m * Tasks
      BY SMT
    <3> QED BY <1>1, <2>1, <3>1, <3>2
  <2> QED BY <2>1, <2>2, <2>3
<1>4. Stride(t, n) \in Nat /\ Stride(t, n) >= 1 /\ Stride(t, n) + Tasks = Stride(t, n + 1)
  BY <1>1, <1>2
<1>5. \A m \in Nat : Stride(t, m) \in Nat
  BY <1>1
<1> QED BY <1>3, <1>4, <1>5

\* A task is at an index of its own; what it has handled is its own, and everything
\* of its own up to there; it leaves the loop early only after a stop.
PathInv ==
    /\ \A t \in Task : \E n \in Nat : index[t] = Stride(t, n)
    /\ \A t \in Task, i \in Nat : <<t, i>> \in handled =>
          /\ i < Max /\ i <= index[t]
          /\ pc[t] \in {"none", "loop"} => i < index[t]
          /\ \E n \in Nat : i = Stride(t, n)
    /\ \A t \in Task, n \in Nat :
          Stride(t, n) < index[t] \/ (pc[t] = "check" /\ Stride(t, n) = index[t]) =>
             <<t, Stride(t, n)>> \in handled
    /\ \A t \in Task : pc[t] \in {"dec", "end"} /\ ~stopTrigger => index[t] >= Max

LEMMA PathInvHolds == Spec => [](CountInv /\ PathInv)
<1> USE TextExpandAssumption
<1>1. Init => PathInv
  <2> SUFFICES ASSUME Init PROVE PathInv
    OBVIOUS
  <2>1. \A t \in Task : index[t] = 1 + t /\ pc[t] = "none"
    BY DEF Init
  <2>2. \A t \in Task, n \in Nat : Stride(t, n) >= 1 + t
    <3> SUFFICES ASSUME NEW t \in Task, NEW n \in Nat PROVE Stride(t, n) >= 1 + t
      OBVIOUS
    <3>1. n * Tasks \in Nat
      BY SMT
    <3> QED BY <3>1 DEF Stride, Task
  <2>3. \A t \in Task : index[t] = Stride(t, 0)
    BY <2>1, SMT DEF Stride, Task
  <2>4. \A t \in Task, n \in Nat : ~(Stride(t, n) < index[t])
    <3> SUFFICES ASSUME NEW t \in Task, NEW n \in Nat PROVE ~(Stride(t, n) < 1 + t)
      BY <2>1
    <3>1. Stride(t, n) \in Nat /\ Stride(t, n) >= 1 + t /\ t \in Nat
      BY <2>2, NextStride DEF Task
    <3> QED BY <3>1
  <2> HIDE DEF Stride
  <2> QED BY <2>1, <2>3, <2>4 DEF PathInv, Init
<1>2. ASSUME CountInv, PathInv, [Next]_vars PROVE PathInv'
  <2> USE <1>2 DEF CountInv, LaunchInv, TypeOK, PathInv
  <2> HIDE DEF Stride
  <2>1. CASE IncRun \/ Wait \/ (\E t \in Task : NullDecRun(t)) \/ UNCHANGED vars
    BY <2>1 DEF IncRun, Wait, NullDecRun, vars, stopVars
  <2>2. CASE Stop
    BY <2>2 DEF Stop
  <2>3. CASE Detach
    <3>1. launched \in Task /\ pc[launched] = "none"
      BY <2>3 DEF Detach, Task
    <3>2. pc' = [pc EXCEPT ![launched] = "loop"] /\ UNCHANGED <<stopVars, index, handled, late>>
      BY <2>3 DEF Detach, Goto
    <3> QED BY <3>1, <3>2 DEF stopVars
  <2>4. ASSUME NEW t \in Task, EndLoop(t) \/ DecRun(t) PROVE PathInv'
    <3>1. UNCHANGED <<stopTrigger, index, handled>>
      BY <2>4 DEF EndLoop, DecRun, stopVars
    <3>2. \A u \in Task \ {t} : pc'[u] = pc[u]
      BY <2>4 DEF EndLoop, DecRun, Goto
    <3>3. pc'[t] \in {"dec", "end", "overflow"}
          /\ (pc'[t] \in {"dec", "end"} /\ ~stopTrigger => index[t] >= Max)
      BY <2>4 DEF EndLoop, DecRun, Goto
    <3> QED BY <3>1, <3>2, <3>3
  <2>5. ASSUME NEW t \in Task, Handle(t) \/ Check(t) PROVE PathInv'
    <3> PICK n \in Nat : index[t] = Stride(t, n)
      OBVIOUS
    <3>1. /\ Stride(t, n) \in Nat /\ Stride(t, n) >= 1
          /\ Stride(t, n) + Tasks = Stride(t, n + 1)
          /\ \A m \in Nat : Stride(t, m) < Stride(t, n + 1) => Stride(t, m) <= Stride(t, n)
      BY NextStride
    <3>2. stopTrigger' = stopTrigger
      BY <2>5 DEF Handle, Check, stopVars
    <3>3. \A u \in Task \ {t} : pc'[u] = pc[u] /\ index'[u] = index[u]
      BY <2>5 DEF Handle, Check, Goto
    <3>4. \A m \in Nat : Stride(t, m) \in Nat
      BY NextStride
    <3>5. Tasks \in Nat \ {0}
      OBVIOUS
    <3>6. CASE Handle(t) /\ index[t] % Period = 0
      <4>1. handled' = handled \cup {<<t, Stride(t, n)>>} /\ index' = index /\ Stride(t, n) < Max
            /\ pc[t] = "loop" /\ pc'[t] = "check"
        BY <3>6 DEF Handle, Goto
      <4>2. \A u \in Task, i \in Nat : <<u, i>> \in handled' =>
               <<u, i>> \in handled \/ (u = t /\ i = Stride(t, n))
        BY <4>1
      <4>3. \A u \in Task : \E m \in Nat : index'[u] = Stride(u, m)
        BY <4>1
      <4>4. \A u \in Task, i \in Nat : <<u, i>> \in handled' =>
               /\ i < Max /\ i <= index'[u]
               /\ pc'[u] \in {"none", "loop"} => i < index'[u]
               /\ \E m \in Nat : i = Stride(u, m)
        BY <3>1, <3>3, <4>1, <4>2
      <4>5. \A u \in Task, m \in Nat :
               Stride(u, m) < index'[u] \/ (pc'[u] = "check" /\ Stride(u, m) = index'[u]) =>
                  <<u, Stride(u, m)>> \in handled'
        BY <3>3, <4>1
      <4> QED BY <3>2, <3>3, <4>1, <4>3, <4>4, <4>5
    <3>7. CASE Handle(t) /\ index[t] % Period # 0
      <4>1. handled' = handled \cup {<<t, Stride(t, n)>>} /\ Stride(t, n) < Max
            /\ pc[t] = "loop" /\ pc' = pc
        BY <3>7 DEF Handle, Goto
      <4>2. index'[t] = Stride(t, n + 1) /\ index'[t] > index[t]
        BY <3>1, <3>5, <3>7 DEF Handle
      <4>3. \A u \in Task, i \in Nat : <<u, i>> \in handled' =>
               <<u, i>> \in handled \/ (u = t /\ i = Stride(t, n))
        BY <4>1
      <4>4. \A u \in Task : \E m \in Nat : index'[u] = Stride(u, m)
        BY <3>3, <4>2
      <4>5. \A u \in Task, i \in Nat : <<u, i>> \in handled' =>
               /\ i < Max /\ i <= index'[u]
               /\ pc'[u] \in {"none", "loop"} => i < index'[u]
               /\ \E m \in Nat : i = Stride(u, m)
        BY <3>1, <3>3, <3>5, <4>1, <4>2, <4>3, SMTT(30)
      <4>6. \A u \in Task, m \in Nat :
               Stride(u, m) < index'[u] \/ (pc'[u] = "check" /\ Stride(u, m) = index'[u]) =>
                  <<u, Stride(u, m)>> \in handled'
        <5> SUFFICES ASSUME NEW u \in Task, NEW m \in Nat,
               Stride(u, m) < index'[u] \/ (pc'[u] = "check" /\ Stride(u, m) = index'[u])
               PROVE <<u, Stride(u, m)>> \in handled'
          OBVIOUS
        <5>1. CASE u = t
          <6>1. Stride(t, m) <= Stride(t, n)
            BY <3>1, <4>1, <4>2, <5>1
          <6>2. Stride(t, m) < index[t] \/ Stride(t, m) = Stride(t, n)
            BY <3>1, <3>4, <6>1, SMTT(30)
          <6> QED BY <4>1, <5>1, <6>2
        <5>2. CASE u # t
          BY <3>3, <4>1, <5>2
        <5> QED BY <5>1, <5>2
      <4> QED BY <3>2, <3>3, <4>1, <4>4, <4>5, <4>6
    <3>8. CASE Check(t) /\ stopTrigger
      <4>1. handled' = handled /\ index' = index /\ pc[t] = "check" /\ pc'[t] = "dec"
        BY <3>8 DEF Check, Goto
      <4>2. \A u \in Task : index'[u] = index[u]
        BY <4>1
      <4>3. \A u \in Task : pc'[u] \in {"none", "loop"} => pc[u] \in {"none", "loop"}
        BY <3>3, <4>1
      <4>4. \A u \in Task : pc'[u] = "check" => pc[u] = "check"
        BY <3>3, <4>1
      <4>5. stopTrigger'
        BY <3>2, <3>8
      <4> QED BY <4>1, <4>2, <4>3, <4>4, <4>5
    <3>9. CASE Check(t) /\ ~stopTrigger
      <4>1. handled' = handled /\ pc[t] = "check" /\ pc'[t] = "loop"
        BY <3>9 DEF Check, Goto
      <4>2. index'[t] = Stride(t, n + 1) /\ index'[t] > index[t]
        BY <3>1, <3>5, <3>9 DEF Check
      <4>3. \A u \in Task : \E m \in Nat : index'[u] = Stride(u, m)
        BY <3>3, <4>2
      <4>4. \A u \in Task, i \in Nat : <<u, i>> \in handled' =>
               /\ i < Max /\ i <= index'[u]
               /\ pc'[u] \in {"none", "loop"} => i < index'[u]
               /\ \E m \in Nat : i = Stride(u, m)
        BY <3>1, <3>3, <3>5, <4>1, <4>2, SMTT(30)
      <4>5. \A u \in Task, m \in Nat :
               Stride(u, m) < index'[u] \/ (pc'[u] = "check" /\ Stride(u, m) = index'[u]) =>
                  <<u, Stride(u, m)>> \in handled'
        <5> SUFFICES ASSUME NEW u \in Task, NEW m \in Nat,
               Stride(u, m) < index'[u] \/ (pc'[u] = "check" /\ Stride(u, m) = index'[u])
               PROVE <<u, Stride(u, m)>> \in handled'
          OBVIOUS
        <5>1. CASE u = t
          <6>1. Stride(t, m) <= Stride(t, n)
            BY <3>1, <4>1, <4>2, <5>1
          <6>2. Stride(t, m) < index[t] \/ (pc[t] = "check" /\ Stride(t, m) = index[t])
            BY <3>1, <3>4, <4>1, <6>1, SMTT(30)
          <6> QED BY <4>1, <5>1, <6>2
        <5>2. CASE u # t
          BY <3>3, <4>1, <5>2
        <5> QED BY <5>1, <5>2
      <4> QED BY <3>2, <3>3, <4>1, <4>3, <4>4, <4>5
    <3> QED BY <2>5, <3>6, <3>7, <3>8, <3>9
  <2> QED BY <2>1, <2>2, <2>3, <2>4, <2>5 DEF Next, Caller, Work, Terminated
<1> QED BY <1>1, <1>2, CountInvHolds, PTL DEF Spec

\* What the tasks have tried between them: no index twice, and after a call that was
\* not stopped every index below max.
EachIndexOnce ==
    /\ \A p, q \in handled : p[2] = q[2] => p = q
    /\ callerPc = "done" /\ ~stopTrigger => {p[2] : p \in handled} = 1..(Max - 1)

LEMMA PathIndices ==
    ASSUME CountInv, PathInv
    PROVE  EachIndexOnce
<1> USE TextExpandAssumption DEF CountInv, LaunchInv, TypeOK
<1>1. ASSUME NEW p \in handled, NEW q \in handled, p[2] = q[2] PROVE p = q
  <2>1. p \in Task \X Nat /\ q \in Task \X Nat
    OBVIOUS
  <2>2. p = <<p[1], p[2]>> /\ q = <<q[1], q[2]>> /\ p[1] \in Task /\ q[1] \in Task
        /\ p[2] \in Nat /\ q[2] \in Nat
    BY <2>1
  <2>3. (\E m \in Nat : p[2] = Stride(p[1], m)) /\ (\E n \in Nat : q[2] = Stride(q[1], n))
    BY <2>2 DEF PathInv
  <2>4. p[1] = q[1]
    BY <1>1, <2>2, <2>3, StridesDisjoint
  <2> QED BY <1>1, <2>2, <2>4
<1>2. ASSUME callerPc = "done", ~stopTrigger PROVE {p[2] : p \in handled} = 1..(Max - 1)
  <2>1. ASSUME NEW p \in handled PROVE p[2] \in 1..(Max - 1)
    <3>1. p \in Task \X Nat
      OBVIOUS
    <3>2. p = <<p[1], p[2]>> /\ p[1] \in Task /\ p[2] \in Nat
      BY <3>1
    <3>3. p[2] < Max /\ \E m \in Nat : p[2] = Stride(p[1], m)
      BY <3>2 DEF PathInv
    <3>4. p[2] >= 1
      BY <3>2, <3>3, NextStride
    <3> QED BY <3>2, <3>3, <3>4
  <2>2. ASSUME NEW i \in 1..(Max - 1) PROVE \E p \in handled : i = p[2]
    <3>1. i \in Nat /\ i >= 1 /\ i < Max
      OBVIOUS
    <3>2. PICK t \in Task, n \in Nat : i = Stride(t, n)
      BY <3>1, StridesCover
    <3>3. pc[t] = "end"
      BY <1>2
    <3>4. index[t] >= Max /\ index[t] \in Nat
      BY <1>2, <3>3 DEF PathInv
    <3>5. Stride(t, n) < index[t]
      BY <3>1, <3>2, <3>4
    <3>6. <<t, i>> \in handled
      BY <3>2, <3>5 DEF PathInv
    <3>7. <<t, i>>[2] = i
      OBVIOUS
    <3> QED BY <3>6, <3>7
  <2> HIDE DEF CountInv, LaunchInv, TypeOK
  <2> QED BY <2>1, <2>2, SMTT(30)
<1> QED BY <1>1, <1>2 DEF EachIndexOnce

\* The loops of text_expand share the indices: for any number of tasks and any max
\* each index is tried by one task, and a call that is not stopped tries every one.
THEOREM IndicesShared == Spec => []EachIndexOnce
<1> QED BY PathInvHolds, PathIndices, PTL

\* No task hands an index to the callback a second time, the one at which it found no
\* stop included.
NeverTwice == [][\A t \in Task : Handle(t) => <<t, index[t]>> \notin handled]_vars

\* NeverTwice for every number of tasks: the loop of a task goes up only.
THEOREM TriedOnce == Spec => NeverTwice
<1> DEFINE New == \A t \in Task : Handle(t) => <<t, index[t]>> \notin handled
<1>1. ASSUME CountInv, PathInv PROVE New
  <2> SUFFICES ASSUME NEW t \in Task, Handle(t) PROVE <<t, index[t]>> \notin handled
    OBVIOUS
  <2>1. index[t] \in Nat /\ pc[t] = "loop"
    BY <1>1 DEF CountInv, LaunchInv, TypeOK, Handle
  <2> QED BY <1>1, <2>1 DEF PathInv
<1>2. Spec => [][New]_vars
  BY <1>1, PathInvHolds, PTL
<1> QED BY <1>2 DEF NeverTwice

-----------------------------------------------------------------------------
(* The words.                                                              *)

\* A set of numbers that has each number whose predecessors it has, has them all.
LEMMA SetInduction ==
    ASSUME NEW T \in SUBSET Nat, \A m \in Nat : (\A k \in 0..(m - 1) : k \in T) => m \in T
    PROVE  T = Nat
<1> SUFFICES ASSUME Nat \ T # {} PROVE FALSE
  OBVIOUS
<1> DEFINE R == OpToRel(<, Nat)
           Bad == Nat \ T
<1>1. IsWellFoundedOn(R, Nat)
  BY NatLessThanWellFounded
<1>2. \E x \in Bad : \A y \in Bad : ~(<<y, x>> \in R)
  <2>1. Bad \subseteq Nat /\ Bad # {}
    OBVIOUS
  <2> HIDE DEF R, Bad
  <2> QED BY <1>1, <2>1, WFMin
<1>3. PICK x \in Bad : \A y \in Bad : ~(<<y, x>> \in R)
  BY <1>2
<1>4. \A k \in 0..(x - 1) : k \in Nat /\ <<k, x>> \in R
  BY DEF OpToRel
<1>5. \A k \in 0..(x - 1) : k \in T
  <2> HIDE DEF R
  <2> QED BY <1>3, <1>4
<1> QED BY <1>5

\* The entry an index begins with, and the index of what comes after it.
Base == Len(Dict)
Digit(i) == ((i + Base - 1) % Base) + 1
Rest(i) == i \div Base
Letters == {Dict[k] : k \in DOMAIN Dict}

LEMMA Dictionary ==
    Base \in Nat /\ Base >= 2 /\ DOMAIN Dict = 1..Base /\ Letters \subseteq STRING
BY TextExpandAssumption DEF Base, Letters

\* A quotient and a remainder are found again.
LEMMA Divided ==
    ASSUME NEW b \in Nat, b >= 1, NEW q \in Nat, NEW r \in 0..(b - 1)
    PROVE  (b * q + r) % b = r /\ (b * q + r) \div b = q
<1>1. PICK n \in Nat : n = b * q + r
  <2>1. b * q \in Nat
    BY SMT
  <2> QED BY <2>1
<1> DEFINE p == n \div b
           s == n % b
<1>2. s \in 0..(b - 1) /\ p \in Int /\ n = b * p + s
  BY SMT
<1> HIDE DEF p, s
<1>3. ~(p > q)
  <2> SUFFICES ASSUME p > q PROVE FALSE
    OBVIOUS
  <2>1. p - q \in Nat /\ p - q >= 1
    BY <1>2
  <2>2. (p - q) * b >= b
    BY <2>1, MultipleNotBelow
  <2>3. b * p = b * q + (p - q) * b
    BY <1>2, SMT
  <2>4. b * p \in Int /\ b * q \in Int /\ (p - q) * b \in Int
    BY <1>2, SMT
  <2> QED BY <1>1, <1>2, <2>2, <2>3, <2>4
<1>4. ~(p < q)
  <2> SUFFICES ASSUME p < q PROVE FALSE
    OBVIOUS
  <2>1. q - p \in Nat /\ q - p >= 1
    BY <1>2
  <2>2. (q - p) * b >= b
    BY <2>1, MultipleNotBelow
  <2>3. b * q = b * p + (q - p) * b
    BY <1>2, SMT
  <2>4. b * p \in Int /\ b * q \in Int /\ (q - p) * b \in Int
    BY <1>2, SMT
  <2> QED BY <1>1, <1>2, <2>2, <2>3, <2>4
<1>5. p = q
  BY <1>2, <1>3, <1>4
<1>6. s = r
  <2>1. b * q \in Int
    BY SMT
  <2> QED BY <1>1, <1>2, <1>5, <2>1
<1> QED BY <1>1, <1>5, <1>6 DEF p, s

LEMMA DigitOf ==
    ASSUME NEW j \in Nat, NEW d \in 1..Base, NEW i \in Nat,
           i = Base * j + (IF d = Base THEN 0 ELSE d)
    PROVE  Digit(i) = d /\ Rest(i) = j
<1>0. PICK r \in 0..(Base - 1) : r = (IF d = Base THEN 0 ELSE d)
  BY Dictionary
<1>1. i = Base * j + r
  BY <1>0
<1>2. Rest(i) = j
  BY <1>1, Dictionary, Divided DEF Rest
<1>3. CASE d = Base
  <2>1. i + Base - 1 = Base * j + (Base - 1) /\ Base - 1 \in 0..(Base - 1)
    BY <1>0, <1>1, <1>3, Dictionary, SMT
  <2>2. (Base * j + (Base - 1)) % Base = Base - 1
    BY <2>1, Dictionary, Divided
  <2> QED BY <1>2, <1>3, <2>1, <2>2, Dictionary DEF Digit
<1>4. CASE d # Base
  <2>1. i + Base - 1 = Base * (j + 1) + (d - 1) /\ d - 1 \in 0..(Base - 1) /\ j + 1 \in Nat
    BY <1>0, <1>1, <1>4, Dictionary, SMT
  <2>2. PICK q \in Nat, s \in 0..(Base - 1) : q = j + 1 /\ s = d - 1
    BY <2>1
  <2>3. (Base * q + s) % Base = s
    BY Dictionary, Divided
  <2> QED BY <1>2, <1>4, <2>1, <2>2, <2>3, Dictionary DEF Digit
<1> QED BY <1>3, <1>4

LEMMA DigitIs ==
    ASSUME NEW i \in Nat
    PROVE  /\ Digit(i) \in 1..Base /\ Rest(i) \in Nat /\ (i > 0 => Rest(i) < i)
           /\ i = Base * Rest(i) + (IF Digit(i) = Base THEN 0 ELSE Digit(i))
<1> DEFINE q == i \div Base
           r == i % Base
<1>1. i = Base * q + r /\ r \in 0..(Base - 1) /\ q \in Int
  BY Dictionary, SMT
<1>2. q >= 0
  BY Dictionary, SMT
<1>3. i > 0 => q < i
  BY Dictionary, SMT
<1> HIDE DEF q, r
<1>4. PICK d \in 1..Base : r = (IF d = Base THEN 0 ELSE d)
  <2>1. CASE r = 0
    BY <2>1, Dictionary
  <2>2. CASE r # 0
    BY <1>1, <2>2, Dictionary
  <2> QED BY <2>1, <2>2
<1>5. q \in Nat
  BY <1>1, <1>2
<1>6. Digit(i) = d /\ Rest(i) = q
  BY <1>1, <1>4, <1>5, DigitOf
<1> QED BY <1>1, <1>3, <1>4, <1>5, <1>6

\* What the function of Word(m) is.
Decoding(f, m) ==
    f = [v \in 0..m |-> IF v = 0 THEN <<>> ELSE <<Dict[Digit(v)]>> \o f[Rest(v)]]

LEMMA DecodingExists == \A m \in Nat : \E f : Decoding(f, m)
<1> DEFINE T == {m \in Nat : \E f : Decoding(f, m)}
<1>1. ASSUME NEW m \in Nat, \A k \in 0..(m - 1) : k \in T PROVE m \in T
  <2>1. CASE m = 0
    <3>1. Decoding([v \in 0..0 |-> <<>>], 0)
      BY DEF Decoding
    <3> QED BY <2>1, <3>1
  <2>2. CASE m > 0
    <3>1. PICK f : Decoding(f, m - 1)
      BY <1>1, <2>2
    <3> DEFINE e == <<Dict[Digit(m)]>> \o f[Rest(m)]
               g == [v \in 0..m |-> IF v = m THEN e ELSE f[v]]
    <3>2. \A v \in 0..(m - 1) : f[v] = IF v = 0 THEN <<>> ELSE <<Dict[Digit(v)]>> \o f[Rest(v)]
      BY <3>1 DEF Decoding
    <3>3. \A v \in 0..m : v > 0 => Rest(v) \in 0..(v - 1)
      BY DigitIs
    <3>4. \A v \in 0..m : g[v] = IF v = 0 THEN <<>> ELSE <<Dict[Digit(v)]>> \o g[Rest(v)]
      <4> SUFFICES ASSUME NEW v \in 0..m
                   PROVE  g[v] = IF v = 0 THEN <<>> ELSE <<Dict[Digit(v)]>> \o g[Rest(v)]
        OBVIOUS
      <4>1. CASE v = 0
        <5>1. v \in 0..(m - 1) /\ v # m
          BY <2>2, <4>1
        <5> QED BY <3>2, <4>1, <5>1
      <4>2. CASE v > 0
        <5>1. Rest(v) \in 0..(v - 1)
          BY <3>3, <4>2
        <5>2. PICK u \in 0..(v - 1) : u = Rest(v)
          BY <5>1
        <5>3. g[u] = f[u]
          BY <5>2
        <5> HIDE DEF g
        <5>4. g[v] = <<Dict[Digit(v)]>> \o f[Rest(v)]
          <6>1. CASE v = m
            BY <6>1 DEF g
          <6>2. CASE v # m
            <7>1. v \in 0..(m - 1)
              BY <6>2
            <7>2. g[v] = f[v]
              BY <6>2 DEF g
            <7>3. v # 0
              BY <4>2
            <7>4. f[v] = <<Dict[Digit(v)]>> \o f[Rest(v)]
              BY <3>2, <7>1, <7>3, Zenon
            <7> QED BY <7>2, <7>4
          <6> QED BY <6>1, <6>2
        <5> QED BY <4>2, <5>2, <5>3, <5>4
      <4> QED BY <4>1, <4>2
    <3>5. g = [v \in 0..m |-> g[v]]
      OBVIOUS
    <3> HIDE DEF g
    <3>6. Decoding(g, m)
      BY <3>4, <3>5 DEF Decoding
    <3> QED BY <3>6
  <2> QED BY <2>1, <2>2
<1>2. T = Nat
  <2>1. T \in SUBSET Nat
    OBVIOUS
  <2> HIDE DEF T
  <2> QED BY <1>1, <2>1, SetInduction
<1> QED BY <1>2

LEMMA DecodingUnique ==
    ASSUME NEW a \in Nat, NEW b \in Nat, NEW f, NEW g, Decoding(f, a), Decoding(g, b)
    PROVE  \A v \in Nat : v <= a /\ v <= b => f[v] = g[v]
<1> DEFINE T == {v \in Nat : v <= a /\ v <= b => f[v] = g[v]}
<1>1. ASSUME NEW m \in Nat, \A k \in 0..(m - 1) : k \in T PROVE m \in T
  <2> SUFFICES ASSUME m <= a, m <= b PROVE f[m] = g[m]
    OBVIOUS
  <2>1. /\ f[m] = IF m = 0 THEN <<>> ELSE <<Dict[Digit(m)]>> \o f[Rest(m)]
        /\ g[m] = IF m = 0 THEN <<>> ELSE <<Dict[Digit(m)]>> \o g[Rest(m)]
    <3>1. m \in 0..a /\ m \in 0..b
      OBVIOUS
    <3> QED BY <3>1 DEF Decoding
  <2>2. CASE m = 0
    BY <2>1, <2>2
  <2>3. CASE m > 0
    <3>1. Rest(m) \in 0..(m - 1)
      BY <2>3, DigitIs
    <3>2. PICK u \in 0..(m - 1) : u = Rest(m)
      BY <3>1
    <3>3. f[u] = g[u]
      BY <1>1, <3>2
    <3> QED BY <2>1, <2>3, <3>2, <3>3
  <2> QED BY <2>2, <2>3
<1>2. T = Nat
  <2>1. T \in SUBSET Nat
    OBVIOUS
  <2> HIDE DEF T
  <2> QED BY <1>1, <2>1, SetInduction
<1> QED BY <1>2

\* The loop of the decoding, one letter at a time.
LEMMA WordIs ==
    ASSUME NEW i \in Nat
    PROVE  Word(i) = IF i = 0 THEN <<>> ELSE <<Dict[Digit(i)]>> \o Word(Rest(i))
<1>1. \A k \in Nat : \E f : Decoding(f, k) /\ Word(k) = f[k]
  <2> TAKE k \in Nat
  <2> DEFINE F == CHOOSE f : Decoding(f, k)
  <2>1. Decoding(F, k)
    BY DecodingExists
  <2>2. Word(k) = F[k]
    BY Zenon DEF Word, Decoding, Digit, Rest, Base
  <2> HIDE DEF F
  <2> QED BY <2>1, <2>2
<1>2. PICK f : Decoding(f, i) /\ Word(i) = f[i]
  BY <1>1
<1>3. f[i] = IF i = 0 THEN <<>> ELSE <<Dict[Digit(i)]>> \o f[Rest(i)]
  <2>1. i \in 0..i
    OBVIOUS
  <2> QED BY <1>2, <2>1 DEF Decoding
<1>4. CASE i = 0
  BY <1>2, <1>3, <1>4
<1>5. CASE i > 0
  <2>1. Rest(i) \in Nat /\ Rest(i) < i
    BY <1>5, DigitIs
  <2>2. PICK u \in Nat : u = Rest(i) /\ u < i
    BY <2>1
  <2>3. PICK g : Decoding(g, u) /\ Word(u) = g[u]
    BY <1>1
  <2>4. f[u] = g[u]
    BY <1>2, <2>2, <2>3, DecodingUnique
  <2> QED BY <1>2, <1>3, <1>5, <2>2, <2>3, <2>4
<1> QED BY <1>4, <1>5

\* A word is a sequence of entries, and only the index 0 has the empty one.
LEMMA WordLetters == \A i \in Nat : Word(i) \in Seq(Letters) /\ (i > 0 => Len(Word(i)) >= 1)
<1> DEFINE T == {i \in Nat : Word(i) \in Seq(Letters) /\ (i > 0 => Len(Word(i)) >= 1)}
<1>1. ASSUME NEW m \in Nat, \A k \in 0..(m - 1) : k \in T PROVE m \in T
  <2>1. CASE m = 0
    <3>1. Word(m) = <<>>
      BY <2>1, WordIs
    <3>2. Word(m) \in Seq(Letters)
      BY <3>1
    <3> QED BY <2>1, <3>2
  <2>2. CASE m > 0
    <3>1. Word(m) = <<Dict[Digit(m)]>> \o Word(Rest(m))
      BY <2>2, WordIs
    <3>2. PICK u \in 0..(m - 1) : u = Rest(m)
      BY <2>2, DigitIs
    <3>3. Dict[Digit(m)] \in Letters
      BY DigitIs, Dictionary DEF Letters
    <3>4. PICK d \in Letters : d = Dict[Digit(m)]
      BY <3>3
    <3>5. Word(u) \in Seq(Letters)
      BY <1>1, <3>2
    <3>6. PICK s \in Seq(Letters) : s = Word(u)
      BY <3>5
    <3>7. <<d>> \o s \in Seq(Letters) /\ Len(<<d>> \o s) = 1 + Len(s) /\ Len(s) \in Nat
      OBVIOUS
    <3>8. Word(m) = <<d>> \o s
      BY <3>1, <3>2, <3>4, <3>6
    <3> DEFINE w == Word(m)
    <3>9. w = <<d>> \o s
      BY <3>8
    <3> HIDE DEF w
    <3>10. w \in Seq(Letters) /\ Len(w) >= 1
      BY <3>7, <3>9
    <3> QED BY <3>10 DEF w
  <2> QED BY <2>1, <2>2
<1>2. T = Nat
  <2>1. T \in SUBSET Nat
    OBVIOUS
  <2> HIDE DEF T
  <2> QED BY <1>1, <2>1, SetInduction
<1> QED BY <1>2

\* Two sequences with a first element are equal only if the first elements and the rests are.
LEMMA FirstAndRest ==
    ASSUME NEW S, NEW a \in S, NEW b \in S, NEW s \in Seq(S), NEW t \in Seq(S),
           <<a>> \o s = <<b>> \o t
    PROVE  a = b /\ s = t
<1> DEFINE x == <<a>> \o s
           y == <<b>> \o t
<1>1. /\ Len(x) = 1 + Len(s) /\ x[1] = a /\ \A k \in 1..Len(s) : x[k + 1] = s[k]
      /\ Len(y) = 1 + Len(t) /\ y[1] = b /\ \A k \in 1..Len(t) : y[k + 1] = t[k]
  OBVIOUS
<1>2. x = y
  OBVIOUS
<1> HIDE DEF x, y
<1>3. a = b /\ Len(s) = Len(t) /\ \A k \in 1..Len(s) : s[k] = t[k]
  BY <1>1, <1>2
<1> QED BY <1>3, SeqEqual

\* The entries of the dictionary are different ones.
Distinct == \A k, l \in DOMAIN Dict : Dict[k] = Dict[l] => k = l

\* Two indices have two words.
LEMMA WordsDiffer ==
    ASSUME Distinct
    PROVE  \A i, j \in Nat : Word(i) = Word(j) => i = j
<1> DEFINE T == {i \in Nat : \A j \in Nat : Word(i) = Word(j) => i = j}
<1>1. ASSUME NEW m \in Nat, \A k \in 0..(m - 1) : k \in T PROVE m \in T
  <2> SUFFICES ASSUME NEW j \in Nat, Word(m) = Word(j) PROVE m = j
    OBVIOUS
  <2>1. CASE m = 0 \/ j = 0
    <3>1. Word(0) = <<>>
      BY WordIs
    <3>2. \A i \in Nat : i > 0 => Word(i) # <<>>
      <4> SUFFICES ASSUME NEW i \in Nat, i > 0, Word(i) = <<>> PROVE FALSE
        OBVIOUS
      <4>1. Len(Word(i)) >= 1
        BY WordLetters
      <4> HIDE DEF Word
      <4> QED BY <4>1
    <3> HIDE DEF Word
    <3> QED BY <2>1, <3>1, <3>2
  <2>2. CASE m > 0 /\ j > 0
    <3>1. PICK u \in 0..(m - 1), v \in Nat : u = Rest(m) /\ v = Rest(j)
      BY <2>2, DigitIs
    <3>2. PICK d \in 1..Base, e \in 1..Base : d = Digit(m) /\ e = Digit(j)
      BY DigitIs
    <3>3. Word(m) = <<Dict[d]>> \o Word(u) /\ Word(j) = <<Dict[e]>> \o Word(v)
      BY <2>2, <3>1, <3>2, WordIs, SMTT(30)
    <3>4. Word(u) \in Seq(Letters) /\ Word(v) \in Seq(Letters) /\ Dict[d] \in Letters /\ Dict[e] \in Letters
      BY WordLetters, Dictionary DEF Letters
    <3>5. Dict[d] = Dict[e] /\ Word(u) = Word(v)
      <4> DEFINE a == Dict[d]
                 b == Dict[e]
                 s == Word(u)
                 t == Word(v)
      <4>1. a \in Letters /\ b \in Letters /\ s \in Seq(Letters) /\ t \in Seq(Letters)
            /\ <<a>> \o s = <<b>> \o t
        BY <3>3, <3>4
      <4> HIDE DEF a, b, s, t
      <4>2. a = b /\ s = t
        BY <4>1, FirstAndRest
      <4> QED BY <4>2 DEF a, b, s, t
    <3>6. d = e
      BY <3>5, Dictionary DEF Distinct
    <3>7. u = v
      BY <1>1, <3>1, <3>5
    <3>8. /\ m = Base * Rest(m) + (IF Digit(m) = Base THEN 0 ELSE Digit(m))
          /\ j = Base * Rest(j) + (IF Digit(j) = Base THEN 0 ELSE Digit(j))
      BY DigitIs
    <3> QED BY <3>1, <3>2, <3>6, <3>7, <3>8
  <2> QED BY <2>1, <2>2
<1>2. T = Nat
  <2>1. T \in SUBSET Nat
    OBVIOUS
  <2> HIDE DEF T
  <2> QED BY <1>1, <2>1, SetInduction
<1> QED BY <1>2

\* What the function of Lengths is.
Counting(f, m) == f = [l \in 0..m |-> IF l = 0 THEN 1 ELSE Len(Dict) * f[l - 1]]

LEMMA CountingExists == \A m \in Nat : \E f : Counting(f, m)
<1> DEFINE T == {m \in Nat : \E f : Counting(f, m)}
<1>1. ASSUME NEW m \in Nat, \A k \in 0..(m - 1) : k \in T PROVE m \in T
  <2>1. CASE m = 0
    <3>1. Counting([l \in 0..0 |-> 1], 0)
      BY DEF Counting
    <3> QED BY <2>1, <3>1
  <2>2. CASE m > 0
    <3>1. PICK f : Counting(f, m - 1)
      BY <1>1, <2>2
    <3> DEFINE e == Len(Dict) * f[m - 1]
               g == [l \in 0..m |-> IF l = m THEN e ELSE f[l]]
    <3>2. \A l \in 0..(m - 1) : f[l] = IF l = 0 THEN 1 ELSE Len(Dict) * f[l - 1]
      BY <3>1 DEF Counting
    <3>3. \A l \in 0..m : g[l] = IF l = 0 THEN 1 ELSE Len(Dict) * g[l - 1]
      <4> SUFFICES ASSUME NEW l \in 0..m
                   PROVE  g[l] = IF l = 0 THEN 1 ELSE Len(Dict) * g[l - 1]
        OBVIOUS
      <4>1. CASE l = 0
        <5>1. l \in 0..(m - 1) /\ l # m
          BY <2>2, <4>1
        <5> QED BY <3>2, <4>1, <5>1
      <4>2. CASE l > 0
        <5>1. l - 1 \in 0..m /\ l - 1 # m
          BY <4>2
        <5>2. g[l - 1] = f[l - 1]
          BY <5>1
        <5> HIDE DEF g
        <5>3. g[l] = Len(Dict) * f[l - 1]
          <6>1. CASE l = m
            BY <6>1 DEF g
          <6>2. CASE l # m
            <7>1. l \in 0..(m - 1)
              BY <6>2
            <7>2. g[l] = f[l]
              BY <6>2 DEF g
            <7>3. l # 0
              BY <4>2
            <7>4. f[l] = Len(Dict) * f[l - 1]
              BY <3>2, <7>1, <7>3, Zenon
            <7> QED BY <7>2, <7>4
          <6> QED BY <6>1, <6>2
        <5> QED BY <4>2, <5>2, <5>3
      <4> QED BY <4>1, <4>2
    <3>4. g = [l \in 0..m |-> g[l]]
      OBVIOUS
    <3> HIDE DEF g
    <3>5. Counting(g, m)
      BY <3>3, <3>4 DEF Counting
    <3> QED BY <3>5
  <2> QED BY <2>1, <2>2
<1>2. T = Nat
  <2>1. T \in SUBSET Nat
    OBVIOUS
  <2> HIDE DEF T
  <2> QED BY <1>1, <2>1, SetInduction
<1> QED BY <1>2

\* The indices below the number of words of l entries spell every word of l entries
\* at most that does not end with the last entry, which stands for 0.
LEMMA WordsReached ==
    ASSUME NEW m \in Nat, NEW f, Counting(f, m)
    PROVE  \A l \in 1..m :
              /\ f[l] \in Nat
              /\ \A w \in [1..l -> Letters] :
                    w[l] # Dict[Base] => \E i \in 1..(f[l] - 1) : Word(i) = w
<1> DEFINE Spelt(l) ==
              /\ f[l] \in Nat
              /\ \A w \in [1..l -> Letters] :
                    w[l] # Dict[Base] => \E i \in 1..(f[l] - 1) : Word(i) = w
           T == {l \in Nat : l \in 1..m => Spelt(l)}
<1>1. /\ \A l \in 1..m : f[l] = Base * f[l - 1]
      /\ f[0] = 1
  <2>1. \A l \in 0..m : f[l] = IF l = 0 THEN 1 ELSE Base * f[l - 1]
    BY DEF Counting, Base
  <2>2. 0 \in 0..m
    OBVIOUS
  <2>3. \A l \in 1..m : l \in 0..m /\ l # 0
    OBVIOUS
  <2> QED BY <2>1, <2>2, <2>3, Zenon
<1>2. ASSUME NEW l \in Nat, \A k \in 0..(l - 1) : k \in T PROVE l \in T
  <2> SUFFICES ASSUME l \in 1..m PROVE Spelt(l)
    OBVIOUS
  <2>1. CASE l = 1
    <3>1. f[l] = Base
      BY <1>1, <2>1, Dictionary
    <3>2. ASSUME NEW w \in [1..1 -> Letters], w[1] # Dict[Base]
          PROVE  \E i \in 1..(Base - 1) : Word(i) = w
      <4>1. PICK k \in 1..Base : w[1] = Dict[k]
        BY Dictionary DEF Letters
      <4>2. k \in 1..(Base - 1) /\ k \in Nat /\ k # Base
        BY <3>2, <4>1, Dictionary
      <4>3. k = Base * 0 + (IF k = Base THEN 0 ELSE k)
        BY <4>2, Dictionary
      <4>4. Digit(k) = k /\ Rest(k) = 0
        BY <4>2, <4>3, DigitOf
      <4>5. Word(k) = <<Dict[Digit(k)]>> \o Word(Rest(k)) /\ Word(0) = <<>>
        <5>1. k # 0 /\ 0 \in Nat
          BY <4>2
        <5> HIDE DEF Word, Digit, Rest
        <5> QED BY <4>2, <5>1, WordIs, Zenon
      <4> DEFINE a == w[1]
      <4>6. Word(k) = <<a>> \o <<>>
        <5> HIDE DEF Word, Digit, Rest
        <5> QED BY <4>1, <4>4, <4>5
      <4>7. Word(k) = <<a>>
        <5>1. a \in Letters
          OBVIOUS
        <5> HIDE DEF Word, a
        <5>2. <<a>> \o <<>> = <<a>>
          BY <5>1, SMT
        <5> QED BY <4>6, <5>2
      <4> HIDE DEF Word
      <4>8. w = <<a>>
        BY SMTT(30)
      <4> QED BY <4>2, <4>7, <4>8
    <3> QED BY <2>1, <3>1, <3>2, Dictionary
  <2>2. CASE l > 1
    <3>1. PICK k \in 0..(l - 1) : k = l - 1 /\ k \in 1..m /\ k >= 1
      BY <2>2
    <3>2. Spelt(k)
      BY <1>2, <3>1
    <3>3. PICK n \in Nat : n = f[k]
      BY <3>2
    <3>4. f[l] = Base * n
      BY <1>1, <3>1, <3>3
    <3>5. Base * n \in Nat
      BY Dictionary, SMT
    <3>6. ASSUME NEW w \in [1..l -> Letters], w[l] # Dict[Base]
          PROVE  \E i \in 1..(Base * n - 1) : Word(i) = w
      <4> DEFINE u == [x \in 1..k |-> w[x + 1]]
      <4>1. \A x \in 1..k : x + 1 \in 1..l
        BY <3>1
      <4>2. u \in [1..k -> Letters] /\ u[k] = w[l]
        BY <3>1, <4>1
      <4> HIDE DEF u
      <4>3. PICK j \in 1..(n - 1) : Word(j) = u
        BY <3>2, <3>3, <3>6, <4>2
      <4>4. PICK d \in 1..Base : w[1] = Dict[d]
        BY <2>2, Dictionary DEF Letters
      <4>5. PICK r \in 0..(Base - 1) : r = (IF d = Base THEN 0 ELSE d)
        BY Dictionary
      <4>6. PICK i \in Nat : i = Base * j + r
        <5>1. Base * j \in Nat
          BY Dictionary, SMT
        <5> QED BY <5>1, Dictionary
      <4>7. Digit(i) = d /\ Rest(i) = j
        BY <4>5, <4>6, DigitOf
      <4>8. i \in 1..(Base * n - 1)
        <5>1. PICK a \in Nat : n = j + 1 + a
          <6>1. n - 1 - j \in Nat /\ n = j + 1 + (n - 1 - j)
            OBVIOUS
          <6> QED BY <6>1
        <5>2. PICK c \in Nat : c = Base * a
          <6>1. Base * a \in Nat
            BY Dictionary, SMT
          <6> QED BY <6>1
        <5>3. PICK b \in Nat : b = Base * j
          <6>1. Base * j \in Nat
            BY Dictionary, SMT
          <6> QED BY <6>1
        <5>4. Base * n = b + Base + c
          BY <5>1, <5>2, <5>3, Dictionary, SMT
        <5>5. b >= Base
          <6>1. j * Base >= Base
            BY Dictionary, MultipleNotBelow
          <6>2. j * Base = Base * j
            BY Dictionary, SMT
          <6> QED BY <5>3, <6>1, <6>2
        <5> QED BY <4>6, <5>3, <5>4, <5>5, Dictionary
      <4>9. Word(i) = <<Dict[d]>> \o Word(j)
        BY <4>7, <4>8, WordIs
      <4> DEFINE a == w[1]
                 z == <<a>> \o u
      <4>10. a \in Letters /\ u \in Seq(Letters) /\ Len(u) = k /\ w \in Seq(Letters) /\ Len(w) = l
        BY <2>2, <3>1, <4>2
      <4>11. \A x \in 1..k : u[x] = w[x + 1]
        BY DEF u
      <4> HIDE DEF a
      <4>12. /\ z \in Seq(Letters) /\ Len(z) = 1 + k /\ z[1] = a
             /\ \A x \in 1..k : z[x + 1] = u[x]
        BY <4>10
      <4> HIDE DEF z
      <4>13. \A x \in 1..l : z[x] = w[x]
        <5> SUFFICES ASSUME NEW x \in 1..l PROVE z[x] = w[x]
          OBVIOUS
        <5>1. CASE x = 1
          BY <4>12, <5>1 DEF a
        <5>2. CASE x > 1
          <6>1. PICK y \in 1..k : y = x - 1 /\ y + 1 = x
            BY <3>1, <5>2
          <6> QED BY <4>11, <4>12, <6>1
        <5> QED BY <5>1, <5>2
      <4>14. z = w
        <5>1. Len(z) = Len(w) /\ \A x \in 1..Len(z) : z[x] = w[x]
          BY <3>1, <4>10, <4>12, <4>13
        <5> QED BY <4>10, <4>12, <5>1, SeqEqual
      <4> HIDE DEF Word
      <4>15. Word(i) = w
        BY <4>3, <4>4, <4>9, <4>14 DEF z, a
      <4> QED BY <4>8, <4>15
    <3> QED BY <3>4, <3>5, <3>6
  <2> QED BY <2>1, <2>2
<1>3. T = Nat
  <2>1. T \in SUBSET Nat
    OBVIOUS
  <2> HIDE DEF T
  <2> QED BY <1>2, <2>1, SetInduction
<1> QED BY <1>3

\* Every word a run must have found is the word of an index below the maximum.
LEMMA WordsCovered ==
    \A l \in Lengths : \A w \in [1..l -> Letters] :
        w[l] # Dict[Base] => \E i \in 1..(Max - 1) : Word(i) = w
<1> DEFINE F == CHOOSE f : Counting(f, MaxLength)
<1>1. Counting(F, MaxLength)
  BY CountingExists, TextExpandAssumption
<1>2. Lengths = {l \in 1..MaxLength : F[l] <= Max}
  BY Zenon DEF Lengths, Counting
<1> HIDE DEF F
<1>3. ASSUME NEW l \in Lengths, NEW w \in [1..l -> Letters], w[l] # Dict[Base]
      PROVE  \E i \in 1..(Max - 1) : Word(i) = w
  <2>1. l \in 1..MaxLength /\ F[l] <= Max
    BY <1>2
  <2>2. F[l] \in Nat /\ \E i \in 1..(F[l] - 1) : Word(i) = w
    BY <1>1, <1>3, <2>1, WordsReached, TextExpandAssumption
  <2>3. PICK n \in Nat : n = F[l]
    BY <2>2
  <2>4. \A i \in 1..(n - 1) : i \in 1..(Max - 1)
    BY <2>1, <2>3, TextExpandAssumption
  <2> QED BY <2>2, <2>3, <2>4
<1> QED BY <1>3

\* AllWords for every number of tasks, every maximum, period and dictionary without a
\* repeated entry: the tasks of text_expand neither skip nor repeat a word.
THEOREM EveryWord == ASSUME Distinct PROVE Spec => []AllWords
<1>1. ASSUME CountInv, PathInv PROVE AllWords
  <2>1. EachIndexOnce
    BY <1>1, PathIndices
  <2>2. ASSUME callerPc = "done", ~stopTrigger, NEW l \in Lengths,
               NEW w \in [1..l -> {Dict[k] : k \in DOMAIN Dict}], w[l] # Dict[Len(Dict)]
        PROVE  \E p \in handled : Word(p[2]) = w
    <3>1. PICK i \in 1..(Max - 1) : Word(i) = w
      BY <2>2, WordsCovered DEF Letters, Base
    <3>2. i \in {p[2] : p \in handled}
      BY <2>1, <2>2 DEF EachIndexOnce
    <3> QED BY <3>1, <3>2
  <2>3. ASSUME callerPc = "done", ~stopTrigger, NEW p \in handled, NEW q \in handled,
               Word(p[2]) = Word(q[2])
        PROVE  p = q
    <3>1. p[2] \in 1..(Max - 1) /\ q[2] \in 1..(Max - 1)
      BY <2>1, <2>3 DEF EachIndexOnce
    <3>2. PICK i \in Nat, j \in Nat : i = p[2] /\ j = q[2]
      BY <3>1, TextExpandAssumption
    <3>3. i = j
      BY <2>3, <3>2, WordsDiffer
    <3> QED BY <2>1, <2>3, <3>2, <3>3 DEF EachIndexOnce
  <2> HIDE DEF Word
  <2> QED BY <2>1, <2>2, <2>3 DEF AllWords, EachIndexOnce
<1> QED BY <1>1, PathInvHolds, PTL

-----------------------------------------------------------------------------
(* The end of the tasks after a stop.                                      *)

\* The number of tasks and the period have no common factor: with the period of the
\* code, a power of two, that the number of tasks is odd.
Coprime == \E a, b \in Nat : a * Tasks = b * Period + 1

\* Then each of the tasks meets a multiple of the period in as many rounds.
LEMMA PeriodMet ==
    ASSUME Coprime, NEW i \in Nat
    PROVE  \E k \in 0..(Period - 1) : (i + k * Tasks) % Period = 0
<1> USE TextExpandAssumption
<1> PICK a \in Nat, b \in Nat : a * Tasks = b * Period + 1
  BY DEF Coprime
<1> DEFINE r == i % Period
           m == Period - r
           q == (m * a) \div Period
           k == (m * a) % Period
<1>0. Period \in Nat \ {0} /\ Tasks \in Nat \ {0}
  OBVIOUS
<1>1. r \in 0..(Period - 1) /\ i \div Period \in Int /\ i = Period * (i \div Period) + r
  BY <1>0, SMT
<1>2. m \in Nat
  BY <1>0, <1>1
<1>3. m * a \in Nat
  BY <1>2, SMT
<1>4. k \in 0..(Period - 1) /\ q \in Int /\ m * a = Period * q + k
  BY <1>0, <1>3, SMT
<1> HIDE DEF k, q, m, r
<1>5. k \in Int /\ m \in Int /\ r \in Int
  BY <1>0, <1>1, <1>2, <1>4
<1>6. k * Tasks = m * a * Tasks - Period * q * Tasks
  BY <1>0, <1>4, <1>5, SMT
<1>7. m * a * Tasks = m * (a * Tasks)
  BY <1>0, <1>5, SMT
<1>8. m * (b * Period + 1) = m * b * Period + m
  BY <1>0, <1>5, SMT
<1>9. i + m = Period * (i \div Period + 1)
  BY <1>0, <1>1, <1>5, SMT DEF m
<1>10. PICK d \in Int : i + k * Tasks = d * Period
  <2>1. i + k * Tasks = Period * (i \div Period + 1) + m * b * Period - Period * q * Tasks
    BY <1>0, <1>1, <1>4, <1>5, <1>6, <1>7, <1>8, <1>9, SMT
  <2>2. i \div Period + 1 + m * b - q * Tasks \in Int
    BY <1>0, <1>1, <1>4, <1>5, SMT
  <2>3. (i \div Period + 1 + m * b - q * Tasks) * Period
          = Period * (i \div Period + 1) + m * b * Period - Period * q * Tasks
    BY <1>0, <1>1, <1>4, <1>5, SMT
  <2> QED BY <2>1, <2>2, <2>3
<1>11. (d * Period) % Period = 0
  BY <1>0, <1>10, SMT
<1> QED BY <1>4, <1>10, <1>11

\* In the loop the late indices are the last ones, and none of them was a multiple of
\* the period; out of it there are at most as many as the period.
StopInv ==
    /\ ~stopTrigger => \A t \in Task : late[t] = 0
    /\ \A t \in Task : pc[t] \in {"none", "loop"} =>
          \E s \in Nat : /\ index[t] = s + late[t] * Tasks
                         /\ \A k \in 0..(late[t] - 1) : (s + k * Tasks) % Period # 0
    /\ \A t \in Task : late[t] <= Period

\* A task in the loop can be late once more.
LEMMA RoomInLoop ==
    ASSUME Coprime, CountInv, StopInv, NEW t \in Task, pc[t] \in {"none", "loop"}
    PROVE  late[t] < Period
<1> USE TextExpandAssumption DEF CountInv, LaunchInv, TypeOK
<1>1. PICK s \in Nat : \A k \in 0..(late[t] - 1) : (s + k * Tasks) % Period # 0
  BY DEF StopInv
<1>2. PICK k \in 0..(Period - 1) : (s + k * Tasks) % Period = 0
  BY PeriodMet
<1>3. k \notin 0..(late[t] - 1) /\ late[t] \in Nat
  BY <1>1, <1>2
<1> QED BY <1>2, <1>3

LEMMA StopInvHolds == ASSUME Coprime PROVE Spec => [](CountInv /\ StopInv)
<1> USE TextExpandAssumption
<1>1. Init => StopInv
  <2> SUFFICES ASSUME Init PROVE StopInv
    OBVIOUS
  <2>1. \A t \in Task : index[t] = 1 + t /\ late[t] = 0 /\ t \in Nat
    BY DEF Init, Task
  <2>2. 0 * Tasks = 0 /\ 0..(0 - 1) = {}
    BY SMT
  <2>3. \A t \in Task : \E s \in Nat : index[t] = s + late[t] * Tasks
                         /\ \A k \in 0..(late[t] - 1) : (s + k * Tasks) % Period # 0
    <3> SUFFICES ASSUME NEW t \in Task
                 PROVE  \E s \in Nat : index[t] = s + late[t] * Tasks
                         /\ \A k \in 0..(late[t] - 1) : (s + k * Tasks) % Period # 0
      OBVIOUS
    <3>1. 1 + t \in Nat /\ index[t] = (1 + t) + late[t] * Tasks /\ 0..(late[t] - 1) = {}
      BY <2>1, <2>2
    <3> QED BY <3>1
  <2> QED BY <2>1, <2>3 DEF StopInv
<1>2. ASSUME CountInv, StopInv, [Next]_vars PROVE StopInv'
  <2> USE <1>2 DEF CountInv, LaunchInv, TypeOK
  <2>1. CASE UNCHANGED <<stopTrigger, pc, index, late>>
    BY <2>1 DEF StopInv
  <2>2. CASE Stop
    BY <2>2 DEF Stop, StopInv
  <2>3. CASE Detach
    <3>1. launched \in Task /\ pc[launched] = "none"
      BY <2>3 DEF Detach, Task
    <3>2. UNCHANGED <<stopTrigger, index, late>> /\ \A t \in Task : t # launched => pc'[t] = pc[t]
      BY <2>3 DEF Detach, Goto, stopVars
    <3> QED BY <3>1, <3>2 DEF StopInv
  <2>4. ASSUME NEW t \in Task, EndLoop(t) \/ DecRun(t) PROVE StopInv'
    <3>1. UNCHANGED <<stopTrigger, index, late>> /\ \A u \in Task : u # t => pc'[u] = pc[u]
      BY <2>4 DEF EndLoop, DecRun, Goto, stopVars
    <3>2. pc'[t] \notin {"none", "loop"}
      BY <2>4 DEF EndLoop, DecRun, Goto
    <3> QED BY <3>1, <3>2 DEF StopInv
  <2>5. ASSUME NEW t \in Task, Check(t) PROVE StopInv'
    <3>1. UNCHANGED <<stopTrigger, late>>
          /\ \A u \in Task : u # t => pc'[u] = pc[u] /\ index'[u] = index[u]
      BY <2>5 DEF Check, Goto, stopVars
    <3>2. CASE stopTrigger
      <4>1. pc'[t] = "dec"
        BY <2>5, <3>2 DEF Check, Goto
      <4> QED BY <3>1, <4>1, ZenonT(60) DEF StopInv
    <3>3. CASE ~stopTrigger
      <4>1. late'[t] = 0 /\ index'[t] \in Nat
        BY <2>5, <3>1, <3>3 DEF Check, StopInv
      <4>2. index'[t] = index'[t] + late'[t] * Tasks /\ 0..(late'[t] - 1) = {}
        BY <4>1, SMT
      <4>3. \E s \in Nat : /\ index'[t] = s + late'[t] * Tasks
                           /\ \A k \in 0..(late'[t] - 1) : (s + k * Tasks) % Period # 0
        BY <4>1, <4>2
      <4>4. \A u \in Task : pc'[u] \in {"none", "loop"} =>
               \E s \in Nat : /\ index'[u] = s + late'[u] * Tasks
                              /\ \A k \in 0..(late'[u] - 1) : (s + k * Tasks) % Period # 0
        <5>1. \A u \in Task : u # t => pc'[u] = pc[u] /\ index'[u] = index[u] /\ late'[u] = late[u]
          BY <3>1
        <5>2. \A u \in Task : pc[u] \in {"none", "loop"} =>
                 \E s \in Nat : /\ index[u] = s + late[u] * Tasks
                                /\ \A k \in 0..(late[u] - 1) : (s + k * Tasks) % Period # 0
          BY DEF StopInv
        <5> QED BY ONLY <4>3, <5>1, <5>2
      <4> QED BY <3>1, <4>4 DEF StopInv
    <3> QED BY <3>2, <3>3
  <2>6. ASSUME NEW t \in Task, Handle(t) PROVE StopInv'
    <3>1. UNCHANGED stopTrigger
          /\ \A u \in Task : u # t => pc'[u] = pc[u] /\ index'[u] = index[u] /\ late'[u] = late[u]
      BY <2>6 DEF Handle, Goto, stopVars
    <3>2. pc[t] = "loop" /\ late[t] < Period /\ late[t] \in Nat /\ Period \in Nat
      BY <2>6, RoomInLoop DEF Handle
    <3>3. late'[t] = (IF stopTrigger THEN late[t] + 1 ELSE late[t]) /\ late'[t] <= Period
      BY <2>6, <3>2 DEF Handle
    <3>4. ~stopTrigger => late[t] = 0
      BY DEF StopInv
    <3>5. (pc'[t] = "check" /\ index[t] % Period = 0)
          \/ (pc'[t] = "loop" /\ index[t] % Period # 0 /\ index'[t] = index[t] + Tasks)
      BY <2>6 DEF Handle, Goto
    <3>6. ASSUME pc'[t] = "loop"
          PROVE  \E s \in Nat : /\ index'[t] = s + late'[t] * Tasks
                                /\ \A k \in 0..(late'[t] - 1) : (s + k * Tasks) % Period # 0
      <4>1. PICK s \in Nat : /\ index[t] = s + late[t] * Tasks
                             /\ \A k \in 0..(late[t] - 1) : (s + k * Tasks) % Period # 0
        BY <3>2 DEF StopInv
      <4>2. CASE stopTrigger
        <5>1. late'[t] = late[t] + 1
          BY <3>3, <4>2
        <5>2. (late[t] + 1) * Tasks = late[t] * Tasks + Tasks /\ late[t] * Tasks \in Nat
          BY <3>2, SMT
        <5>3. index'[t] = s + late'[t] * Tasks
          BY <3>5, <3>6, <4>1, <5>1, <5>2
        <5>4. \A k \in 0..(late'[t] - 1) : k \in 0..(late[t] - 1) \/ k = late[t]
          BY <3>2, <5>1
        <5>5. (s + late[t] * Tasks) % Period # 0
          BY <3>5, <3>6, <4>1
        <5> QED BY <4>1, <5>3, <5>4, <5>5
      <4>3. CASE ~stopTrigger
        <5>1. late'[t] = 0 /\ index[t] + Tasks \in Nat
          BY <3>3, <3>4, <4>3
        <5>2. index'[t] = (index[t] + Tasks) + late'[t] * Tasks /\ 0..(late'[t] - 1) = {}
          BY <3>5, <3>6, <5>1, SMT
        <5> QED BY <5>1, <5>2
      <4> QED BY <4>2, <4>3
    <3>7. \A u \in Task : late'[u] <= Period
      BY <3>1, <3>3 DEF StopInv
    <3>8. ~stopTrigger' => \A u \in Task : late'[u] = 0
      BY <3>1, <3>3, <3>4 DEF StopInv
    <3>9. \A u \in Task : pc'[u] \in {"none", "loop"} =>
             \E s \in Nat : /\ index'[u] = s + late'[u] * Tasks
                            /\ \A k \in 0..(late'[u] - 1) : (s + k * Tasks) % Period # 0
      BY <3>1, <3>5, <3>6, SMTT(30) DEF StopInv
    <3> QED BY <3>7, <3>8, <3>9 DEF StopInv
  <2>7. ASSUME IncRun \/ Wait \/ (\E t \in Task : NullDecRun(t)) \/ UNCHANGED vars
        PROVE  UNCHANGED <<stopTrigger, pc, index, late>>
    BY <2>7 DEF IncRun, Wait, NullDecRun, vars, stopVars
  <2> QED
    BY <2>1, <2>2, <2>3, <2>4, <2>5, <2>6, <2>7 DEF Next, Caller, Work, Terminated
<1> QED BY <1>1, <1>2, CountInvHolds, PTL DEF Spec

\* StopEndsTasks for every period and every number of tasks that has no factor in
\* common with it: after a Stop a task tries at most Period more indices.  With a
\* common factor the tasks whose residue the period never meets do not see the stop.
THEOREM StopSeen == ASSUME Coprime PROVE Spec => []StopEndsTasks
<1>1. StopInv => StopEndsTasks
  BY DEF StopInv, StopEndsTasks
<1> QED BY <1>1, StopInvHolds, PTL
=============================================================================
