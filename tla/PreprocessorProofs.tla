------------------------- MODULE PreprocessorProofs -------------------------
(***************************************************************************)
(* What holds of Preprocessor for every set of files, of names and of      *)
(* texts, every depth and any number of calls with the same options.       *)
(***************************************************************************)
EXTENDS Preprocessor, SequenceTheorems, TLAPS

-----------------------------------------------------------------------------
(* The stack of calls.                                                     *)

\* The running call, and the ones that wait for it.
LEMMA TopTyped ==
    ASSUME NEW S, NEW s \in Seq(S), s # <<>>
    PROVE  /\ Len(s) \in Nat \ {0}
           /\ Last(s) \in S
           /\ Pop(s) \in Seq(S)
           /\ Len(Pop(s)) = Len(s) - 1
           /\ \A k \in 1..(Len(s) - 1) : Pop(s)[k] = s[k]
<1>1. Len(s) \in Nat \ {0}
  BY EmptySeq
<1>2. \A k \in 1..(Len(s) - 1) : s[k] \in S
  BY <1>1, ElementOfSeq
<1>3. /\ Pop(s) \in Seq(S) /\ Len(Pop(s)) = Len(s) - 1
      /\ \A k \in 1..(Len(s) - 1) : Pop(s)[k] = s[k]
  <2> DEFINE m == Len(s) - 1
  <2>1. 1 \in Int /\ m \in Nat /\ m \in Int
    BY <1>1
  <2>2. \A k \in 1..m : s[k] \in S
    BY <1>2
  <2> HIDE DEF m
  <2>3. SubSeq(s, 1, m) \in Seq(S)
    BY <2>1, <2>2, SubSeqProperties
  <2>4. Len(SubSeq(s, 1, m)) = IF 1 <= m THEN m - 1 + 1 ELSE 0
    BY <2>1, <2>2, SubSeqProperties
  <2>5. \A k \in 1..m : SubSeq(s, 1, m)[k] = s[k]
    <3>1. ASSUME NEW k \in 1..(m - 1 + 1) PROVE SubSeq(s, 1, m)[k] = s[1 + k - 1]
      BY <2>1, <2>2, SubSeqProperties
    <3> QED BY <3>1, <2>1
  <2>6. Len(SubSeq(s, 1, m)) = m
    BY <2>1, <2>4
  <2> QED BY <2>3, <2>5, <2>6 DEF Pop, m
<1>4. Last(s) \in S
  BY <1>1, ElementOfSeq DEF Last
<1> QED BY <1>1, <1>3, <1>4

\* A sequence whose last element is another one.
LEMMA Replaced ==
    ASSUME NEW S, NEW s \in Seq(S), s # <<>>, NEW e \in S
    PROVE  /\ Append(Pop(s), e) \in Seq(S)
           /\ Append(Pop(s), e) # <<>>
           /\ Len(Append(Pop(s), e)) = Len(s)
           /\ \A k \in 1..(Len(s) - 1) : Append(Pop(s), e)[k] = s[k]
           /\ Append(Pop(s), e)[Len(s)] = e
<1>1. Pop(s) \in Seq(S) /\ Len(Pop(s)) = Len(s) - 1 /\ Len(s) \in Nat \ {0}
  BY TopTyped
<1>2. \A k \in 1..(Len(s) - 1) : Pop(s)[k] = s[k]
  BY TopTyped
<1> QED BY <1>1, <1>2, AppendProperties

\* The running call is the last of the stack.
LEMMA StackTop == Top = Last(calls) /\ Below = Pop(calls)
BY DEF Top, Below, Last, Pop
-----------------------------------------------------------------------------
(* The stack of flags and the conditionals it stands for.                  *)

\* A part is erased when a conditional around it is in a branch not taken.
Agree(e, t) ==
    /\ Len(e) = Len(t)
    /\ \A j \in 1..Len(e) : e[j] <=> \E i \in 1..j : ~t[i]

\* The flag at the top tells whether the text is erased.
LEMMA AgreeTop ==
    ASSUME NEW e \in Seq(BOOLEAN), NEW t \in Seq(BOOLEAN), Agree(e, t)
    PROVE  (e # <<>> /\ Last(e)) <=> \E j \in DOMAIN t : ~t[j]
<1>1. DOMAIN t = 1..Len(t) /\ Len(t) = Len(e)
  BY LenProperties DEF Agree
<1>2. CASE e = <<>>
  BY <1>1, <1>2, EmptySeq
<1>3. CASE e # <<>>
  <2>1. Len(e) \in 1..Len(e)
    BY <1>3, EmptySeq
  <2>2. e[Len(e)] <=> \E i \in 1..Len(e) : ~t[i]
    BY <2>1 DEF Agree
  <2> QED BY <1>1, <1>3, <2>2 DEF Last
<1> QED BY <1>2, <1>3

\* A conditional is met.
LEMMA AgreePush ==
    ASSUME NEW e \in Seq(BOOLEAN), NEW t \in Seq(BOOLEAN), Agree(e, t),
           NEW h \in BOOLEAN, NEW top \in BOOLEAN,
           top <=> \E j \in DOMAIN t : ~t[j]
    PROVE  Agree(Append(e, top \/ ~h), Append(t, h))
<1> DEFINE e1 == Append(e, top \/ ~h)
           t1 == Append(t, h)
<1>1. /\ Len(e) \in Nat /\ Len(t) = Len(e) /\ DOMAIN t = 1..Len(t)
  BY LenProperties DEF Agree
<1>2. /\ Len(e1) = Len(e) + 1 /\ \A j \in 1..Len(e) : e1[j] = e[j]
      /\ e1[Len(e) + 1] = (top \/ ~h)
  <2>1. (top \/ ~h) \in BOOLEAN
    OBVIOUS
  <2> QED BY <2>1, AppendProperties
<1>3. /\ Len(t1) = Len(e) + 1 /\ \A j \in 1..Len(e) : t1[j] = t[j]
      /\ t1[Len(e) + 1] = h
  BY <1>1, AppendProperties
<1> HIDE DEF e1, t1
<1>4. ASSUME NEW j \in 1..Len(e) PROVE e1[j] <=> \E i \in 1..j : ~t1[i]
  <2>1. e[j] <=> \E i \in 1..j : ~t[i]
    BY DEF Agree
  <2>2. \A i \in 1..j : t1[i] = t[i]
    BY <1>1, <1>3
  <2>3. e1[j] = e[j]
    BY <1>2
  <2> QED BY <2>1, <2>2, <2>3, Zenon
<1>5. e1[Len(e) + 1] <=> \E i \in 1..(Len(e) + 1) : ~t1[i]
  <2>1. (\E i \in 1..Len(e) : ~t[i]) <=> top
    BY <1>1
  <2>2. (\E i \in 1..Len(e) : ~t1[i]) <=> top
    BY <2>1, <1>3, Zenon
  <2>3. 1..(Len(e) + 1) = 1..Len(e) \cup {Len(e) + 1}
    BY <1>1
  <2>4. (\E i \in 1..(Len(e) + 1) : ~t1[i]) <=> top \/ ~t1[Len(e) + 1]
    BY <2>2, <2>3, Zenon
  <2> QED BY <1>2, <1>3, <2>4, Zenon
<1>6. \A j \in 1..(Len(e) + 1) : j \in 1..Len(e) \/ j = Len(e) + 1
  BY <1>1
<1>7. \A j \in 1..(Len(e) + 1) : e1[j] <=> \E i \in 1..j : ~t1[i]
  BY <1>4, <1>5, <1>6, Zenon
<1> QED BY <1>2, <1>3, <1>7 DEF Agree, e1, t1

\* A conditional is left.
LEMMA AgreePop ==
    ASSUME NEW e \in Seq(BOOLEAN), NEW t \in Seq(BOOLEAN), Agree(e, t), e # <<>>
    PROVE  Agree(Pop(e), Pop(t))
<1>1. /\ Len(e) \in Nat \ {0} /\ Len(t) = Len(e) /\ t # <<>>
  BY EmptySeq DEF Agree
<1>2. /\ Len(Pop(e)) = Len(e) - 1
      /\ \A j \in 1..(Len(e) - 1) : Pop(e)[j] = e[j]
  BY TopTyped
<1>3. /\ Len(Pop(t)) = Len(e) - 1
      /\ \A j \in 1..(Len(e) - 1) : Pop(t)[j] = t[j]
  BY <1>1, TopTyped
<1>4. ASSUME NEW j \in 1..(Len(e) - 1)
      PROVE  Pop(e)[j] <=> \E i \in 1..j : ~Pop(t)[i]
  <2>1. e[j] <=> \E i \in 1..j : ~t[i]
    <3>1. j \in 1..Len(e)
      BY <1>1
    <3> QED BY <3>1 DEF Agree
  <2>2. \A i \in 1..j : Pop(t)[i] = t[i]
    <3>1. \A i \in 1..j : i \in 1..(Len(e) - 1)
      BY <1>1
    <3> QED BY <3>1, <1>3, Zenon
  <2>3. Pop(e)[j] = e[j]
    BY <1>2
  <2> QED BY <2>1, <2>2, <2>3, Zenon
<1> QED BY <1>2, <1>3, <1>4, Zenon DEF Agree

\* The other branch of a conditional that is alone.
LEMMA AgreeFlip ==
    ASSUME NEW e \in Seq(BOOLEAN), NEW t \in Seq(BOOLEAN), Agree(e, t), Len(e) = 1
    PROVE  Agree(Append(Pop(e), ~Last(e)), Append(Pop(t), ~Last(t)))
<1>1. e # <<>> /\ t # <<>> /\ Len(t) = 1
  <2>1. Len(t) = 1 /\ Len(<<>>) = 0 /\ 0 # 1
    BY EmptySeq DEF Agree
  <2> QED BY <2>1, Zenon
<1> DEFINE e1 == Append(Pop(e), ~Last(e))
           t1 == Append(Pop(t), ~Last(t))
<1>2. (~Last(e)) \in BOOLEAN /\ (~Last(t)) \in BOOLEAN
  OBVIOUS
<1>3. Len(e1) = Len(e) /\ e1[Len(e)] = ~Last(e)
  BY <1>1, <1>2, Replaced
<1>4. Len(t1) = Len(t) /\ t1[Len(t)] = ~Last(t)
  BY <1>1, <1>2, Replaced
<1> HIDE DEF e1, t1
<1>5. e[1] <=> \E i \in 1..1 : ~t[i]
  <2>1. 1 \in 1..Len(e)
    OBVIOUS
  <2> QED BY <2>1 DEF Agree
<1>6. Last(e) = e[1] /\ Last(t) = t[1]
  BY <1>1 DEF Last
<1>7. \A i : i \in 1..1 <=> i = 1
  OBVIOUS
<1>8. e1[1] <=> ~t1[1]
  <2>1. e[1] <=> ~t[1]
    BY <1>5, <1>7, Zenon
  <2>2. e1[1] = ~e[1] /\ t1[1] = ~t[1]
    BY <1>1, <1>3, <1>4, <1>6, Zenon
  <2> QED BY <2>1, <2>2, Zenon
<1>9. \A j \in 1..1 : e1[j] <=> \E i \in 1..j : ~t1[i]
  BY <1>7, <1>8, Zenon
<1>10. Len(e1) = 1 /\ Len(t1) = 1
  BY <1>1, <1>3, <1>4
<1>11. Len(e1) = Len(t1) /\ \A j \in 1..Len(e1) : e1[j] <=> \E i \in 1..j : ~t1[i]
  BY <1>9, <1>10, Zenon
<1> QED BY <1>11 DEF Agree, e1, t1

-----------------------------------------------------------------------------
(* Types.                                                                  *)

\* The fields of a line.
LEMMA LineFields ==
    ASSUME NEW l \in Line
    PROVE  /\ l.kind \in {"ifdef", "ifndef", "use", "define"} => l.name \in Names
           /\ l.kind = "define" => l.value \in {"short", "long"}
           /\ l.kind = "insert" => l.file \in Files \cup {"unreadable"}
<1>1. CASE l \in [kind: {"malformed", "else", "endif", "error", "code"}]
  BY <1>1
<1>2. CASE l \in [kind: {"ifdef", "ifndef", "use"}, name: Names]
  BY <1>2
<1>3. CASE l \in [kind: {"define"}, name: Names, value: {"short", "long"}]
  BY <1>3
<1>4. CASE l \in [kind: {"insert"}, file: Files \cup {"unreadable"}]
  BY <1>4
<1> QED BY <1>1, <1>2, <1>3, <1>4 DEF Line

\* The line the running call is at.
LEMMA LineTyped ==
    ASSUME TypeOK, calls # <<>>
    PROVE  /\ Top \in Call /\ Len(calls) \in Nat \ {0} /\ Top = calls[Len(calls)]
           /\ AtLine => Current \in Line
<1>1. calls \in Seq(Call) /\ text \in [Files -> Seq(Line)]
  BY DEF TypeOK
<1>2. Last(calls) \in Call /\ Len(calls) \in Nat \ {0}
  BY <1>1, TopTyped
<1>3. Top \in Call /\ Top = calls[Len(calls)]
  BY <1>2, StackTop DEF Top
<1>4. ASSUME AtLine PROVE Current \in Line
  <2>1. Top.file \in Files /\ Top.line \in Nat \ {0}
    BY <1>3 DEF Call
  <2>2. text[Top.file] \in Seq(Line)
    BY <1>1, <2>1
  <2>3. Top.line \in 1..Len(text[Top.file])
    BY <1>4, <2>1, <2>2, LenProperties DEF AtLine
  <2> QED BY <2>2, <2>3, ElementOfSeq DEF Current
<1> QED BY <1>2, <1>3, <1>4

-----------------------------------------------------------------------------
(* The invariant.                                                          *)

\* Each call has a flag for each conditional it is in.
Balanced == \A k \in 1..Len(calls) : Len(calls[k].eraseCtx) = Len(calls[k].taken)

\* While calls run, an error was reported when one of them knows of it; when
\* none does, the result tells.
ErrInv ==
    /\ calls # <<>> => (reported = TRUE <=> \E k \in 1..Len(calls) : calls[k].err = TRUE)
    /\ calls = <<>> /\ made > 0 => (result = "failed" <=> reported = TRUE)

\* Until an #else of an inner conditional, the flags of each call stand for its
\* conditionals.
BranchInv == ~nested => \A k \in 1..Len(calls) : Agree(calls[k].eraseCtx, calls[k].taken)

Inv == TypeOK /\ Balanced /\ ErrInv /\ BranchInv

\* A call at its next line.
LEMMA NextLine ==
    ASSUME NEW c \in Call
    PROVE  /\ [c EXCEPT !.line = @ + 1] \in Call
           /\ [c EXCEPT !.line = @ + 1].eraseCtx = c.eraseCtx
           /\ [c EXCEPT !.line = @ + 1].taken = c.taken
           /\ [c EXCEPT !.line = @ + 1].err = c.err
           /\ c.eraseCtx \in Seq(BOOLEAN) /\ c.taken \in Seq(BOOLEAN)
           /\ c.err \in BOOLEAN
BY DEF Call

\* The call that runs goes on as d: what its step does to the rest.
LEMMA GoesOn ==
    ASSUME Inv, calls # <<>>, NEW d \in Call,
           calls' = Append(Below, d),
           Len(d.eraseCtx) = Len(d.taken),
           UNCHANGED <<inputVars, currentDepth, result>>,
           defines' \in Defines, reported' \in BOOLEAN, nested' \in BOOLEAN,
           \/ d.err = Top.err /\ reported' = reported
           \/ d.err = TRUE /\ reported' = TRUE,
           nested => nested',
           ~nested' => Agree(d.eraseCtx, d.taken)
    PROVE  Inv'
<1>1. calls \in Seq(Call) /\ Len(calls) \in Nat \ {0} /\ Top = calls[Len(calls)]
  BY LineTyped DEF Inv, TypeOK
<1>2. /\ calls' \in Seq(Call) /\ calls' # <<>> /\ Len(calls') = Len(calls)
      /\ \A k \in 1..(Len(calls) - 1) : calls'[k] = calls[k]
      /\ calls'[Len(calls)] = d
  BY <1>1, StackTop, Replaced
<1>3. \A k \in 1..Len(calls) : k = Len(calls) \/ k \in 1..(Len(calls) - 1)
  BY <1>1
<1>4. TypeOK'
  BY <1>2 DEF Inv, TypeOK, inputVars
<1>5. Balanced'
  BY <1>2, <1>3 DEF Inv, Balanced
<1>6. ErrInv'
  <2>1. reported' = TRUE <=> \E k \in 1..Len(calls) : calls'[k].err = TRUE
    <3>1. CASE d.err = Top.err /\ reported' = reported
      <4>1. reported = TRUE <=> \E k \in 1..Len(calls) : calls[k].err = TRUE
        BY DEF Inv, ErrInv
      <4>2. \A k \in 1..Len(calls) : calls'[k].err = calls[k].err
        BY <1>1, <1>2, <1>3, <3>1
      <4> QED BY <3>1, <4>1, <4>2, Zenon
    <3>2. CASE d.err = TRUE /\ reported' = TRUE
      BY <1>1, <1>2, <3>2
    <3> QED BY <3>1, <3>2
  <2> QED BY <1>2, <2>1 DEF ErrInv
<1>7. BranchInv'
  <2> SUFFICES ASSUME ~nested', NEW k \in 1..Len(calls)
               PROVE  Agree(calls'[k].eraseCtx, calls'[k].taken)
    BY <1>2 DEF BranchInv
  <2>1. ~nested /\ Agree(calls[k].eraseCtx, calls[k].taken)
    BY DEF Inv, BranchInv
  <2>2. CASE k = Len(calls)
    BY <1>2, <2>2
  <2>3. CASE k \in 1..(Len(calls) - 1)
    BY <1>2, <2>1, <2>3
  <2> QED BY <1>3, <2>2, <2>3
<1> QED BY <1>4, <1>5, <1>6, <1>7 DEF Inv

-----------------------------------------------------------------------------
(* The steps.                                                              *)

\* The running call in a state of the invariant.
LEMMA Running ==
    ASSUME Inv, calls # <<>>
    PROVE  /\ Top \in Call /\ Top.eraseCtx \in Seq(BOOLEAN) /\ Top.taken \in Seq(BOOLEAN)
           /\ Top.err \in BOOLEAN
           /\ Len(Top.eraseCtx) = Len(Top.taken)
           /\ ~nested => Agree(Top.eraseCtx, Top.taken)
           /\ AtLine => Current \in Line
<1>1. Len(calls) \in Nat \ {0} /\ Top = calls[Len(calls)] /\ Top \in Call
      /\ (AtLine => Current \in Line)
  BY LineTyped DEF Inv
<1>2. Len(calls) \in 1..Len(calls)
  BY <1>1
<1> QED BY <1>1, <1>2, NextLine DEF Inv, Balanced, BranchInv

\* #ifdef and #ifndef.
LEMMA ConditionalStep == Inv /\ Conditional => Inv'
<1> SUFFICES ASSUME Inv, Conditional PROVE Inv'
  OBVIOUS
<1> DEFINE holds == (defines[Current.name] # Undefined) = (Current.kind = "ifdef")
           erase == Erasing(Top) \/ ~holds
           c == [Top EXCEPT !.eraseCtx = Append(@, erase), !.taken = Append(@, holds)]
           d == [c EXCEPT !.line = @ + 1]
<1>1. calls # <<>>
  BY DEF Conditional, Is, AtLine
<1>2. holds \in BOOLEAN /\ erase \in BOOLEAN
  OBVIOUS
<1>3. calls' = Append(Below, d)
  BY DEF Conditional, GoOn
<1>4. /\ Append(Top.eraseCtx, erase) \in Seq(BOOLEAN)
      /\ Append(Top.taken, holds) \in Seq(BOOLEAN)
      /\ Len(Append(Top.eraseCtx, erase)) = Len(Append(Top.taken, holds))
  BY <1>1, <1>2, Running, AppendProperties
<1>5. ~nested => Agree(Append(Top.eraseCtx, erase), Append(Top.taken, holds))
  <2> SUFFICES ASSUME ~nested PROVE Agree(Append(Top.eraseCtx, erase), Append(Top.taken, holds))
    OBVIOUS
  <2>1. Agree(Top.eraseCtx, Top.taken)
    BY <1>1, Running
  <2>2. Erasing(Top) \in BOOLEAN /\ (Erasing(Top) <=> \E j \in DOMAIN Top.taken : ~Top.taken[j])
    BY <1>1, <2>1, Running, AgreeTop DEF Erasing
  <2> QED BY <1>1, <1>2, <2>1, <2>2, Running, AgreePush
<1> HIDE DEF holds, erase
<1>6. /\ c \in Call /\ c.eraseCtx = Append(Top.eraseCtx, erase)
      /\ c.taken = Append(Top.taken, holds) /\ c.err = Top.err
  BY <1>1, <1>4, Running DEF Call
<1> HIDE DEF c
<1>7. /\ d \in Call /\ d.eraseCtx = c.eraseCtx /\ d.taken = c.taken /\ d.err = c.err
  BY <1>6, NextLine
<1> HIDE DEF d
<1>8. /\ UNCHANGED <<inputVars, currentDepth, result>> /\ reported' = reported
      /\ nested' = nested /\ defines' = defines
  BY DEF Conditional
<1> QED BY <1>1, <1>3, <1>4, <1>5, <1>6, <1>7, <1>8, GoesOn DEF Inv, TypeOK

\* #else.
LEMMA ElseStep == Inv /\ Else => Inv'
<1> SUFFICES ASSUME Inv, Else PROVE Inv'
  OBVIOUS
<1> DEFINE e == Top.eraseCtx
           t == Top.taken
           outer == Pop(e)
           erase == IF outer # <<>> /\ ~Last(outer) THEN FALSE ELSE ~Last(e)
           c == [Top EXCEPT !.eraseCtx = Append(outer, erase),
                            !.taken = Append(Pop(@), ~Last(@))]
           d == [c EXCEPT !.line = @ + 1]
<1>1. calls # <<>> /\ e # <<>>
  BY DEF Else, Is, AtLine
<1>2. e \in Seq(BOOLEAN) /\ t \in Seq(BOOLEAN) /\ Len(e) = Len(t) /\ t # <<>>
  <2>1. e \in Seq(BOOLEAN) /\ t \in Seq(BOOLEAN) /\ Len(e) = Len(t)
    BY <1>1, Running
  <2>2. Len(e) \in Nat \ {0} /\ Len(<<>>) = 0
    BY <1>1, <2>1, EmptySeq
  <2> QED BY <2>1, <2>2
<1>3. calls' = Append(Below, d)
  BY DEF Else, GoOn
<1>4. erase \in BOOLEAN /\ (~Last(t)) \in BOOLEAN
  OBVIOUS
<1>5. /\ Append(outer, erase) \in Seq(BOOLEAN)
      /\ Append(Pop(t), ~Last(t)) \in Seq(BOOLEAN)
      /\ Len(Append(outer, erase)) = Len(Append(Pop(t), ~Last(t)))
  <2> HIDE DEF erase
  <2>1. Append(outer, erase) \in Seq(BOOLEAN) /\ Len(Append(outer, erase)) = Len(e)
    BY <1>1, <1>2, <1>4, Replaced
  <2>2. /\ Append(Pop(t), ~Last(t)) \in Seq(BOOLEAN)
        /\ Len(Append(Pop(t), ~Last(t))) = Len(t)
    BY <1>2, <1>4, Replaced
  <2> QED BY <1>2, <2>1, <2>2
<1>6. ~nested' => Agree(Append(outer, erase), Append(Pop(t), ~Last(t)))
  <2> SUFFICES ASSUME ~nested' PROVE Agree(Append(outer, erase), Append(Pop(t), ~Last(t)))
    OBVIOUS
  <2>1. ~nested /\ outer = <<>>
    BY DEF Else
  <2>2. Agree(e, t) /\ Len(e) = 1
    <3>1. Len(outer) = Len(e) - 1 /\ Len(e) \in Nat /\ Len(<<>>) = 0
      BY <1>1, <1>2, TopTyped, EmptySeq
    <3> QED BY <1>1, <2>1, <3>1, Running
  <2>3. erase = (~Last(e))
    BY <2>1
  <2> QED BY <1>2, <2>2, <2>3, AgreeFlip
<1> HIDE DEF erase, outer
<1>7. /\ c \in Call /\ c.eraseCtx = Append(outer, erase)
      /\ c.taken = Append(Pop(t), ~Last(t)) /\ c.err = Top.err
  BY <1>1, <1>5, Running DEF Call
<1> HIDE DEF c
<1>8. /\ d \in Call /\ d.eraseCtx = c.eraseCtx /\ d.taken = c.taken /\ d.err = c.err
  BY <1>7, NextLine
<1> HIDE DEF d
<1>9. /\ UNCHANGED <<inputVars, currentDepth, result>> /\ reported' = reported
      /\ nested' \in BOOLEAN /\ (nested => nested') /\ defines' = defines
  BY DEF Else, Inv, TypeOK
<1> QED BY <1>1, <1>3, <1>5, <1>6, <1>7, <1>8, <1>9, GoesOn DEF Inv, TypeOK

\* #endif.
LEMMA EndifStep == Inv /\ Endif => Inv'
<1> SUFFICES ASSUME Inv, Endif PROVE Inv'
  OBVIOUS
<1> DEFINE e == Top.eraseCtx
           t == Top.taken
           c == [Top EXCEPT !.eraseCtx = Pop(@), !.taken = Pop(@)]
           d == [c EXCEPT !.line = @ + 1]
<1>1. calls # <<>> /\ e # <<>>
  BY DEF Endif, Is, AtLine
<1>2. e \in Seq(BOOLEAN) /\ t \in Seq(BOOLEAN) /\ Len(e) = Len(t) /\ t # <<>>
  <2>1. e \in Seq(BOOLEAN) /\ t \in Seq(BOOLEAN) /\ Len(e) = Len(t)
    BY <1>1, Running
  <2>2. Len(e) \in Nat \ {0} /\ Len(<<>>) = 0
    BY <1>1, <2>1, EmptySeq
  <2> QED BY <2>1, <2>2
<1>3. calls' = Append(Below, d)
  BY DEF Endif, GoOn
<1>4. Pop(e) \in Seq(BOOLEAN) /\ Pop(t) \in Seq(BOOLEAN) /\ Len(Pop(e)) = Len(Pop(t))
  BY <1>1, <1>2, TopTyped
<1>5. ~nested => Agree(Pop(e), Pop(t))
  BY <1>1, <1>2, Running, AgreePop
<1>6. c \in Call /\ c.eraseCtx = Pop(e) /\ c.taken = Pop(t) /\ c.err = Top.err
  BY <1>1, <1>4, Running DEF Call
<1> HIDE DEF c
<1>7. /\ d \in Call /\ d.eraseCtx = c.eraseCtx /\ d.taken = c.taken /\ d.err = c.err
  BY <1>6, NextLine
<1> HIDE DEF d
<1>8. /\ UNCHANGED <<inputVars, currentDepth, result>> /\ reported' = reported
      /\ nested' = nested /\ defines' = defines
  BY DEF Endif
<1> QED BY <1>1, <1>3, <1>4, <1>5, <1>6, <1>7, <1>8, GoesOn DEF Inv, TypeOK

\* The flags of the running call stay, and it may have met an error.
LEMMA QuietStep ==
    ASSUME Inv, calls # <<>>, NEW line \in Nat \ {0}, NEW err \in BOOLEAN,
           calls' = Append(Below, [Top EXCEPT !.line = line, !.err = err]),
           UNCHANGED <<inputVars, currentDepth, result, nested>>,
           defines' \in Defines,
           \/ err = Top.err /\ reported' = reported
           \/ err = TRUE /\ reported' = TRUE
    PROVE  Inv'
<1> DEFINE d == [Top EXCEPT !.line = line, !.err = err]
<1>1. /\ d \in Call /\ d.eraseCtx = Top.eraseCtx /\ d.taken = Top.taken /\ d.err = err
  <2>1. Top \in Call
    BY Running
  <2> QED BY <2>1 DEF Call
<1> HIDE DEF d
<1>2. calls' = Append(Below, d)
  BY DEF d
<1>3. /\ reported \in BOOLEAN /\ reported' \in BOOLEAN
      /\ nested \in BOOLEAN /\ nested' = nested
  BY DEF Inv, TypeOK
<1>4. Len(d.eraseCtx) = Len(d.taken) /\ (~nested' => Agree(d.eraseCtx, d.taken))
  <2>1. Len(Top.eraseCtx) = Len(Top.taken) /\ (~nested => Agree(Top.eraseCtx, Top.taken))
    BY Running
  <2> QED BY <1>1, <1>3, <2>1
<1>5. \/ d.err = Top.err /\ reported' = reported
      \/ d.err = TRUE /\ reported' = TRUE
  BY <1>1
<1>6. UNCHANGED <<inputVars, currentDepth, result>> /\ (nested => nested')
  BY <1>3
<1> QED BY <1>1, <1>2, <1>3, <1>4, <1>5, <1>6, GoesOn

\* A line that is passed without a trace.
LEMMA PassedLine ==
    ASSUME Inv, calls # <<>>, GoOn(Top), defines' \in Defines,
           UNCHANGED <<inputVars, currentDepth, result, nested, reported>>
    PROVE  Inv'
<1>1. Top \in Call /\ Top.line + 1 \in Nat \ {0} /\ Top.err \in BOOLEAN
  BY Running DEF Call
<1>2. [Top EXCEPT !.line = @ + 1] = [Top EXCEPT !.line = Top.line + 1, !.err = Top.err]
  BY <1>1 DEF Call
<1> QED BY <1>1, <1>2, QuietStep DEF GoOn

\* A line with an error.
LEMMA FailedLine ==
    ASSUME Inv, calls # <<>>, Fail,
           UNCHANGED <<inputVars, currentDepth, result, nested, defines>>
    PROVE  Inv'
<1>1. Top \in Call /\ Top.line + 1 \in Nat \ {0}
  BY Running DEF Call
<1>2. [[Top EXCEPT !.err = TRUE] EXCEPT !.line = @ + 1]
        = [Top EXCEPT !.line = Top.line + 1, !.err = TRUE]
  BY <1>1 DEF Call
<1>3. calls' = Append(Below, [Top EXCEPT !.line = Top.line + 1, !.err = TRUE])
  BY <1>2 DEF Fail, GoOn
<1>4. reported' = TRUE /\ defines' \in Defines
  BY DEF Fail, Inv, TypeOK
<1> QED BY <1>1, <1>3, <1>4, QuietStep

\* #define.
LEMMA DefineStep == Inv /\ Define => Inv'
<1> SUFFICES ASSUME Inv, Define PROVE Inv'
  OBVIOUS
<1>1. calls # <<>> /\ AtLine /\ Current.kind = "define"
  BY DEF Define, Is, AtLine
<1>2. Current.name \in Names /\ Current.value \in {"short", "long"}
  BY <1>1, Running, LineFields
<1>3. defines' \in Defines
  BY <1>2 DEF Define, Defines, Inv, TypeOK
<1> QED BY <1>1, <1>3, PassedLine DEF Define, inputVars

\* A line of code, which may end with the text.
LEMMA ReplaceDefinesStep == Inv /\ ReplaceDefines => Inv'
<1> SUFFICES ASSUME Inv, ReplaceDefines PROVE Inv'
  OBVIOUS
<1>1. calls # <<>>
  BY DEF ReplaceDefines, Code, Is, AtLine
<1>2. defines' \in Defines
  BY DEF ReplaceDefines, Inv, TypeOK
<1>3. CASE Grows
  <2>1. Top \in Call /\ Top.err \in BOOLEAN
    BY <1>1, Running
  <2>2. Len(text[Top.file]) + 1 \in Nat \ {0}
    BY <2>1, LenProperties DEF Call, Inv, TypeOK
  <2>3. [Top EXCEPT !.line = Len(text[Top.file]) + 1]
          = [Top EXCEPT !.line = Len(text[Top.file]) + 1, !.err = Top.err]
    BY <2>1 DEF Call
  <2>4. calls' = Append(Below, [Top EXCEPT !.line = Len(text[Top.file]) + 1, !.err = Top.err])
    BY <1>3, <2>3 DEF ReplaceDefines
  <2> QED BY <1>1, <1>2, <2>1, <2>2, <2>4, QuietStep DEF ReplaceDefines
<1>4. CASE ~Grows
  BY <1>1, <1>2, <1>4, PassedLine DEF ReplaceDefines
<1> QED BY <1>3, <1>4

\* A call for an inserted file, with one call more than before.
LEMMA InsertStep == Inv /\ Insert => Inv'
<1> SUFFICES ASSUME Inv, Insert PROVE Inv'
  OBVIOUS
<1> DEFINE n == Entry(Current.file)
<1>1. calls # <<>> /\ calls \in Seq(Call) /\ Len(calls) \in Nat \ {0} /\ Current.file \in Files
  BY LineTyped DEF Insert, Is, AtLine, Inv, TypeOK
<1>2. /\ n \in Call /\ n.eraseCtx = <<>> /\ n.taken = <<>> /\ n.err = FALSE
  BY <1>1, EmptySeq DEF Entry, Call
<1> HIDE DEF n
<1>3. /\ calls' \in Seq(Call) /\ calls' # <<>> /\ Len(calls') = Len(calls) + 1
      /\ \A k \in 1..Len(calls) : calls'[k] = calls[k]
      /\ calls'[Len(calls) + 1] = n
  BY <1>1, <1>2, AppendProperties DEF Insert, n
<1>4. \A k \in 1..(Len(calls) + 1) : k = Len(calls) + 1 \/ k \in 1..Len(calls)
  BY <1>1
<1>5. TypeOK'
  <2>1. currentDepth' = Len(calls') /\ currentDepth' < MaxDepth
    BY <1>1, <1>3, DepthAssumption DEF Insert, Opens, Inv, TypeOK
  <2> QED BY <1>3, <2>1 DEF Insert, inputVars, Inv, TypeOK
<1>6. Balanced'
  BY <1>2, <1>3, <1>4 DEF Inv, Balanced
<1>7. ErrInv'
  <2>1. reported = TRUE <=> \E k \in 1..Len(calls) : calls[k].err = TRUE
    BY <1>1 DEF Inv, ErrInv
  <2>2. reported' = TRUE <=> \E k \in 1..(Len(calls) + 1) : calls'[k].err = TRUE
    <3>1. reported' = reported
      BY DEF Insert
    <3>2. \A k \in 1..Len(calls) : k \in 1..(Len(calls) + 1)
      BY <1>1
    <3> QED BY <1>2, <1>3, <1>4, <2>1, <3>1, <3>2
  <2> QED BY <1>3, <2>2 DEF ErrInv
<1>8. BranchInv'
  <2>1. Agree(n.eraseCtx, n.taken)
    BY <1>2, EmptySeq DEF Agree
  <2>2. nested' = nested
    BY DEF Insert
  <2> QED BY <1>3, <1>4, <2>1, <2>2 DEF Inv, BranchInv
<1> QED BY <1>5, <1>6, <1>7, <1>8 DEF Inv

\* The end of a text: its call is left, and the one that inserted it goes on with
\* the error.
LEMMA ReturnStep == Inv /\ Return => Inv'
<1> SUFFICES ASSUME Inv, Return PROVE Inv'
  OBVIOUS
<1> DEFINE failed == Top.eraseCtx # <<>> \/ Top.err
           caller == Last(Below)
           d == [caller EXCEPT !.line = @ + 1, !.err = @ \/ failed]
<1>1. /\ calls # <<>> /\ calls \in Seq(Call) /\ Len(calls) \in Nat \ {0}
      /\ Top = calls[Len(calls)] /\ Top \in Call /\ Top.err \in BOOLEAN
  BY LineTyped, Running DEF Return, Inv, TypeOK
<1>2. /\ failed \in BOOLEAN /\ reported \in BOOLEAN
      /\ reported' = (reported \/ failed) /\ reported' \in BOOLEAN
  BY DEF Return, Inv, TypeOK
<1>3. reported = TRUE <=> \E k \in 1..Len(calls) : calls[k].err = TRUE
  BY <1>1 DEF Inv, ErrInv
<1>4. currentDepth' = Len(calls) - 1 /\ Len(calls) < MaxDepth
  BY DEF Return, Inv, TypeOK
<1>5. CASE Len(calls) = 1
  <2>1. calls' = <<>> /\ result' = IF failed THEN "failed" ELSE "ok"
    BY <1>5 DEF Return
  <2>2. reported' = TRUE <=> failed
    <3>1. reported = TRUE <=> Top.err = TRUE
      <4>1. \A k : k \in 1..Len(calls) <=> k = Len(calls)
        BY <1>5
      <4> QED BY <1>1, <1>3, <4>1
    <3> QED BY <1>1, <1>2, <3>1
  <2> HIDE DEF failed
  <2>3. calls' \in Seq(Call) /\ Len(calls') = 0
    BY <2>1, EmptySeq
  <2>4. TypeOK'
    <3>1. currentDepth' = Len(calls') /\ currentDepth' < MaxDepth
      BY <1>4, <1>5, <2>3, DepthAssumption
    <3>2. result' \in {"none", "ok", "failed"}
      BY <2>1
    <3> QED BY <1>2, <2>3, <3>1, <3>2 DEF Return, inputVars, Inv, TypeOK
  <2>5. ErrInv'
    BY <2>1, <2>2 DEF ErrInv
  <2>6. Balanced' /\ BranchInv'
    BY <2>3 DEF Balanced, BranchInv
  <2> QED BY <2>4, <2>5, <2>6 DEF Inv
<1>6. CASE Len(calls) # 1
  <2> DEFINE n == Len(calls) - 1
  <2>1. /\ Below \in Seq(Call) /\ Below # <<>> /\ Len(Below) = n /\ n \in Nat \ {0}
        /\ \A k \in 1..n : Below[k] = calls[k]
    <3>1. /\ Below \in Seq(Call) /\ Len(Below) = n
          /\ \A k \in 1..n : Below[k] = calls[k]
      BY <1>1, StackTop, TopTyped
    <3>2. Len(Below) # 0 /\ Len(<<>>) = 0
      BY <1>1, <1>6, <3>1, EmptySeq
    <3> QED BY <1>1, <1>6, <3>1, <3>2
  <2> HIDE DEF n
  <2>2. caller \in Call /\ caller = calls[n]
    BY <2>1, TopTyped DEF Last
  <2>3. calls' = Append(Pop(Below), d) /\ result' = result
    BY <1>6 DEF Return
  <2>4. (caller.err \/ failed) \in BOOLEAN
    OBVIOUS
  <2> HIDE DEF failed, caller
  <2>5. /\ d \in Call /\ d.eraseCtx = caller.eraseCtx /\ d.taken = caller.taken
        /\ d.err = (caller.err \/ failed)
    <3>1. d = [caller EXCEPT !.line = caller.line + 1, !.err = (caller.err \/ failed)]
      BY Zenon
    <3>2. caller.line + 1 \in Nat \ {0}
      BY <2>2 DEF Call
    <3> HIDE DEF d
    <3> QED BY <2>2, <2>4, <3>1, <3>2 DEF Call
  <2> HIDE DEF d
  <2>6. /\ calls' \in Seq(Call) /\ calls' # <<>> /\ Len(calls') = n
        /\ \A k \in 1..(n - 1) : calls'[k] = calls[k]
        /\ calls'[n] = d
    <3> DEFINE r == Append(Pop(Below), d)
    <3>1. /\ r \in Seq(Call) /\ r # <<>> /\ Len(r) = Len(Below)
          /\ \A k \in 1..(Len(Below) - 1) : r[k] = Below[k]
          /\ r[Len(Below)] = d
      BY <2>1, <2>5, Replaced
    <3>2. calls' = r
      BY <2>3
    <3> HIDE DEF r
    <3>3. \A k \in 1..(n - 1) : k \in 1..n
      BY <2>1
    <3> QED BY <2>1, <3>1, <3>2, <3>3
  <2>7. /\ \A k \in 1..n : k = n \/ k \in 1..(n - 1)
        /\ \A k \in 1..(n - 1) : k \in 1..n
        /\ n \in 1..n
        /\ \A k \in 1..n : k \in 1..Len(calls)
        /\ \A k \in 1..Len(calls) : k = Len(calls) \/ k \in 1..n
    BY <1>1, <2>1 DEF n
  <2>8. TypeOK'
    <3>1. currentDepth' = Len(calls') /\ currentDepth' < MaxDepth
      BY <1>1, <1>4, <2>6, DepthAssumption DEF n
    <3> QED BY <1>2, <2>3, <2>6, <3>1 DEF Return, inputVars, Inv, TypeOK
  <2>9. Balanced'
    BY <2>2, <2>5, <2>6, <2>7 DEF Inv, Balanced
  <2>10. ErrInv'
    <3>1. reported' = TRUE <=> \E k \in 1..n : calls'[k].err = TRUE
      <4>1. CASE failed
        BY <1>2, <2>5, <2>6, <2>7, <4>1
      <4>2. CASE ~failed
        <5>1. reported' = reported
          BY <1>2, <4>2
        <5>2. calls[Len(calls)].err = FALSE
          BY <1>1, <4>2 DEF failed
        <5>3. caller.err \in BOOLEAN /\ d.err = caller.err
          BY <2>2, <2>5, <4>2 DEF Call
        <5>4. \A k \in 1..n : calls'[k].err = calls[k].err
          BY <2>2, <2>6, <2>7, <5>3
        <5> QED BY <1>3, <2>7, <5>1, <5>2, <5>4
      <4> QED BY <4>1, <4>2
    <3> QED BY <2>6, <3>1 DEF ErrInv
  <2>11. BranchInv'
    <3>1. nested' = nested
      BY DEF Return
    <3> QED BY <2>2, <2>5, <2>6, <2>7, <3>1 DEF Inv, BranchInv
  <2> QED BY <2>8, <2>9, <2>10, <2>11 DEF Inv
<1> QED BY <1>5, <1>6

\* A call from outside.
LEMMA ApplyStep == ASSUME Inv, NEW f \in Files, Apply(f) PROVE Inv'
<1>1. calls = <<>> /\ made \in 0..MaxCalls /\ made < MaxCalls /\ currentDepth = 0
  BY EmptySeq DEF Apply, Inv, TypeOK
<1>2. made' \in 0..MaxCalls /\ nested' = FALSE
  BY <1>1, DepthAssumption DEF Apply
<1>3. CASE Opens(f)
  <2> DEFINE n == Entry(f)
  <2>1. /\ n \in Call /\ n.eraseCtx = <<>> /\ n.taken = <<>> /\ n.err = FALSE
    BY EmptySeq DEF Entry, Call
  <2> HIDE DEF n
  <2>2. calls' = <<n>> /\ currentDepth' = 1 /\ result' = "none" /\ reported' = FALSE
    BY <1>1, <1>3 DEF Apply, n
  <2>3. /\ calls' \in Seq(Call) /\ calls' # <<>> /\ Len(calls') = 1 /\ calls'[1] = n
    BY <2>1, <2>2
  <2>4. \A k : k \in 1..1 <=> k = 1
    OBVIOUS
  <2>5. TypeOK'
    <3>1. currentDepth' = Len(calls') /\ currentDepth' < MaxDepth
      BY <2>2, <2>3, DepthAssumption
    <3> QED BY <1>2, <2>2, <2>3, <3>1 DEF Apply, Inv, TypeOK
  <2>6. Balanced'
    BY <2>1, <2>3, <2>4 DEF Balanced
  <2>7. ErrInv'
    BY <2>1, <2>2, <2>3, <2>4 DEF ErrInv
  <2>8. BranchInv'
    <3>1. Agree(n.eraseCtx, n.taken)
      BY <2>1, EmptySeq DEF Agree
    <3> QED BY <2>3, <2>4, <3>1 DEF BranchInv
  <2> QED BY <2>5, <2>6, <2>7, <2>8 DEF Inv
<1>4. CASE ~Opens(f)
  <2>1. /\ calls' = calls /\ currentDepth' = currentDepth
        /\ result' = "failed" /\ reported' = TRUE
    BY <1>4 DEF Apply
  <2>2. Len(calls') = 0
    BY <1>1, <2>1, EmptySeq
  <2>3. TypeOK'
    BY <1>2, <2>1 DEF Apply, Inv, TypeOK
  <2>4. Balanced' /\ BranchInv'
    BY <2>2 DEF Balanced, BranchInv
  <2>5. ErrInv'
    BY <1>1, <2>1 DEF ErrInv
  <2> QED BY <2>3, <2>4, <2>5 DEF Inv
<1> QED BY <1>3, <1>4

-----------------------------------------------------------------------------
(* The theorems.                                                           *)

\* At the start no text is being processed.
LEMMA InitInv == Init => Inv
<1> SUFFICES ASSUME Init PROVE Inv
  OBVIOUS
<1>1. calls = <<>> /\ calls \in Seq(Call) /\ Len(calls) = 0 /\ made = 0
  BY EmptySeq DEF Init
<1>2. text \in [Files -> Seq(Line)]
  <2> DEFINE S == UNION {Texts[f] : f \in Files}
  <2> HIDE DEF S
  <2>1. text \in [Files -> S] /\ \A f \in Files : text[f] \in Texts[f]
    BY DEF Init, S
  <2> QED BY <2>1, TextsAssumption
<1>3. TypeOK
  <2>1. ends \in [Files -> BOOLEAN] /\ noDefineExpr \in BOOLEAN
    BY Zenon DEF Init
  <2>2. currentDepth = Len(calls) /\ currentDepth < MaxDepth /\ made \in 0..MaxCalls
    BY <1>1, DepthAssumption DEF Init
  <2> QED BY <1>1, <1>2, <2>1, <2>2, OptionsAssumption DEF Init, TypeOK
<1>4. Balanced /\ ErrInv /\ BranchInv
  BY <1>1 DEF Balanced, ErrInv, BranchInv
<1> QED BY <1>3, <1>4 DEF Inv

\* Every step of a call, every new call and the end preserve the invariant.
LEMMA NextInv == Inv /\ [Next]_vars => Inv'
<1> SUFFICES ASSUME Inv, [Next]_vars PROVE Inv'
  OBVIOUS
<1>1. CASE UNCHANGED vars
  BY <1>1 DEF vars, Inv, TypeOK, Balanced, ErrInv, BranchInv
<1>2. CASE WrongLine
  <2>1. calls # <<>>
    BY <1>2 DEF WrongLine, Is, AtLine
  <2> QED BY <1>2, <2>1, FailedLine DEF WrongLine, inputVars
<1>3. CASE Erased
  <2>1. calls # <<>> /\ defines' \in Defines
    BY <1>3 DEF Erased, AtLine, Inv, TypeOK
  <2> QED BY <1>3, <2>1, PassedLine DEF Erased, inputVars
<1>4. CASE InsertFails
  <2>1. calls # <<>>
    BY <1>4 DEF InsertFails, Is, AtLine
  <2> QED BY <1>4, <2>1, FailedLine DEF InsertFails, inputVars
<1>5. CASE \E f \in Files : Apply(f)
  BY <1>5, ApplyStep
<1>6. CASE Done
  BY <1>1, <1>6 DEF Done
<1>7. CASE Conditional \/ Else \/ Endif
  BY <1>7, ConditionalStep, ElseStep, EndifStep
<1>8. CASE Define \/ ReplaceDefines \/ Insert \/ Return
  BY <1>8, DefineStep, ReplaceDefinesStep, InsertStep, ReturnStep
<1> QED BY <1>1, <1>2, <1>3, <1>4, <1>5, <1>6, <1>7, <1>8 DEF Next, Step

\* The invariant holds in every reachable state.
LEMMA InvHolds == Spec => []Inv
BY InitInv, NextInv, PTL DEF Spec

\* The depth of the options is the number of the calls that run, below the limit,
\* and is 0 for the next text whatever happened to the one before
\* (preprocessor.cpp:301-306).
THEOREM TypeCorrect == Spec => []TypeOK
<1>1. Inv => TypeOK
  BY DEF Inv
<1> QED BY <1>1, InvHolds, PTL

\* The result of a call from outside is the failure exactly when an error was
\* reported, at whatever depth of inserted files (l.441-465 and 493-498).
THEOREM ErrorsSurface == Spec => []ErrorsReach
<1>1. Inv => ErrorsReach
  <2> SUFFICES ASSUME Inv, calls = <<>>, made > 0 PROVE result = "failed" <=> reported
    BY DEF ErrorsReach
  <2>1. reported \in BOOLEAN /\ (result = "failed" <=> reported = TRUE)
    BY DEF Inv, TypeOK, ErrInv
  <2> QED BY <2>1
<1> QED BY <1>1, InvHolds, PTL

\* What a stack of flags erases is what its conditionals say, for any nesting and
\* any inserted files, until an inner conditional has an #else (l.331-394).
THEOREM FlagsFollow == Spec => []BranchesFollowed
<1>1. Inv => BranchesFollowed
  <2> SUFFICES ASSUME Inv, ~nested, NEW k \in DOMAIN calls
               PROVE  Erasing(calls[k]) <=> \E j \in DOMAIN calls[k].taken : ~calls[k].taken[j]
    BY DEF BranchesFollowed, BranchesTaken
  <2>1. k \in 1..Len(calls) /\ calls[k] \in Call
    BY LenProperties, ElementOfSeq DEF Inv, TypeOK
  <2>2. Agree(calls[k].eraseCtx, calls[k].taken)
    BY <2>1 DEF Inv, BranchInv
  <2> QED BY <2>1, <2>2, AgreeTop DEF Call, Erasing
<1> QED BY <1>1, InvHolds, PTL
=============================================================================
