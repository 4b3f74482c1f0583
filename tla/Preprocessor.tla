---------------------------- MODULE Preprocessor ----------------------------
(***************************************************************************)
(* The preprocessor of the compilers (preprocessor.cpp): a call of         *)
(* ApplyPreProcessor walks the lines of a text with a stack of the         *)
(* conditionals it is in, and calls itself for each #insert with the same  *)
(* options, so that an inserted file leaves its definitions and nothing    *)
(* else (its text is blanked).  The zone linker and the ADL compiler keep  *)
(* one PreProcessorOption for all the files they read: what a call leaves  *)
(* in the options, the next one meets.                                     *)
(***************************************************************************)
EXTENDS Naturals, Sequences

CONSTANTS Files,    \* the files that can be read
          Names,    \* the names tested and defined
          Texts,    \* what a file may hold: a set of sequences of lines for each
          Options,  \* the definitions of the configuration
          MaxDepth, \* the depth at which a call is refused (10 in the code)
          MaxCalls  \* bound: the texts processed with the same options

\* A line by its effect.  "malformed" is an #ifdef, #ifndef, #else or #endif
\* with the wrong parameters; "error" is #error, and #define or #insert with
\* none; "use" is a line of code with a name in it and "code" one without, as
\* #warning, #region and an empty line are.  A value is long when it has more
\* characters than the name.
Line == [kind: {"malformed", "else", "endif", "error", "code"}]
        \cup [kind: {"ifdef", "ifndef", "use"}, name: Names]
        \cup [kind: {"define"}, name: Names, value: {"short", "long"}]
        \cup [kind: {"insert"}, file: Files \cup {"unreadable"}]

Undefined == "undefined"
Defines == [Names -> {Undefined, "short", "long"}]

ASSUME TextsAssumption == \A f \in Files : Texts[f] \subseteq Seq(Line)
ASSUME OptionsAssumption == Options \subseteq Defines
ASSUME DepthAssumption == MaxDepth \in Nat \ {0, 1} /\ MaxCalls \in Nat

VARIABLES text,         \* the lines of each file
          ends,         \* whether its last comment has an end
          noDefineExpr,
          defines,
          currentDepth,
          calls,        \* the calls of ApplyPreProcessor, the last one running
          result,       \* what the last call from outside returned
          made,         \* how many there were
          reported,     \* whether errorHandler was called with LVL_ERROR in it
          nested        \* whether an #else of an inner conditional was met

vars == <<text, ends, noDefineExpr, defines, currentDepth, calls, result, made,
          reported, nested>>
inputVars == <<text, ends, noDefineExpr, made>>

\* The locals of a call.  taken is not in the code: the truth of each
\* conditional that is open, in the branch the line is in.
Call == [file: Files, line: Nat \ {0}, eraseCtx: Seq(BOOLEAN), taken: Seq(BOOLEAN), err: BOOLEAN]
Entry(f) == [file |-> f, line |-> 1, eraseCtx |-> <<>>, taken |-> <<>>, err |-> FALSE]

Init ==
    /\ text \in {t \in [Files -> UNION {Texts[f] : f \in Files}] : \A f \in Files : t[f] \in Texts[f]}
    /\ ends \in [Files -> BOOLEAN]
    /\ noDefineExpr \in BOOLEAN
    /\ defines \in Options
    /\ currentDepth = 0 /\ calls = <<>> /\ result = "none" /\ made = 0
    /\ reported = FALSE /\ nested = FALSE

-----------------------------------------------------------------------------

Top == calls[Len(calls)]
Below == SubSeq(calls, 1, Len(calls) - 1)
AtLine == calls # <<>> /\ Top.line <= Len(text[Top.file])
Current == text[Top.file][Top.line]
Is(kind) == AtLine /\ Current.kind = kind

Last(s) == s[Len(s)]
Pop(s) == SubSeq(s, 1, Len(s) - 1)
Erasing(c) == c.eraseCtx # <<>> /\ Last(c.eraseCtx)
Kept == ~Erasing(Top)

\* The running call goes on to its next line, after a change of its locals.
GoOn(c) == calls' = Append(Below, [c EXCEPT !.line = @ + 1])
Fail ==
    /\ GoOn([Top EXCEPT !.err = TRUE])
    /\ reported' = TRUE

\* ApplyPreProcessor gets past the comments and the test of the depth.
Opens(f) == ends[f] /\ currentDepth + 1 # MaxDepth

\* A call from outside.
Apply(f) ==
    /\ calls = <<>> /\ made < MaxCalls
    /\ made' = made + 1
    /\ nested' = FALSE
    /\ IF Opens(f)
       THEN /\ calls' = <<Entry(f)>> /\ currentDepth' = currentDepth + 1
            /\ result' = "none" /\ reported' = FALSE
       ELSE /\ result' = "failed" /\ reported' = TRUE
            /\ UNCHANGED <<calls, currentDepth>>
    /\ UNCHANGED <<text, ends, noDefineExpr, defines>>

\* Looks at the name only.
Conditional_Flat ==
    /\ Is("ifdef") \/ Is("ifndef")
    /\ LET holds == (defines[Current.name] # Undefined) = (Current.kind = "ifdef")
       IN  GoOn([Top EXCEPT !.eraseCtx = Append(@, ~holds),
                            !.taken = Append(@, holds)])
    /\ UNCHANGED <<inputVars, defines, currentDepth, result, reported, nested>>

\* #ifdef and #ifndef, also where the text is erased.
Conditional ==
    /\ Is("ifdef") \/ Is("ifndef")
    /\ LET holds == (defines[Current.name] # Undefined) = (Current.kind = "ifdef")
       IN  GoOn([Top EXCEPT !.eraseCtx = Append(@, Erasing(Top) \/ ~holds),
                            !.taken = Append(@, holds)])
    /\ UNCHANGED <<inputVars, defines, currentDepth, result, reported, nested>>

\* #else: the outer conditional, when there is one, decides.
Else ==
    /\ Is("else") /\ Top.eraseCtx # <<>>
    /\ LET curr == Last(Top.eraseCtx)
           outer == Pop(Top.eraseCtx)
           erase == IF outer # <<>> /\ ~Last(outer) THEN FALSE ELSE ~curr
       IN  /\ GoOn([Top EXCEPT !.eraseCtx = Append(outer, erase),
                               !.taken = Append(Pop(@), ~Last(@))])
           /\ nested' = (nested \/ outer # <<>>)
    /\ UNCHANGED <<inputVars, defines, currentDepth, result, reported>>

Endif ==
    /\ Is("endif") /\ Top.eraseCtx # <<>>
    /\ GoOn([Top EXCEPT !.eraseCtx = Pop(@), !.taken = Pop(@)])
    /\ UNCHANGED <<inputVars, defines, currentDepth, result, reported, nested>>

\* What is wrong on a line: these directives anywhere, the others where the text
\* is kept.
WrongLine ==
    /\ \/ Is("malformed")
       \/ (Is("else") \/ Is("endif")) /\ Top.eraseCtx = <<>>
       \/ Is("error") /\ Kept
    /\ Fail
    /\ UNCHANGED <<inputVars, defines, currentDepth, result, nested>>

\* The directives of an erased part are not looked at, nor is its text.
Erased ==
    /\ AtLine /\ Erasing(Top)
    /\ Current.kind \in {"error", "code", "use", "define", "insert"}
    /\ GoOn(Top)
    /\ UNCHANGED <<inputVars, defines, currentDepth, result, reported, nested>>

Define ==
    /\ Is("define") /\ Kept /\ ~noDefineExpr
    /\ defines' = [defines EXCEPT ![Current.name] = Current.value]
    /\ GoOn(Top)
    /\ UNCHANGED <<inputVars, currentDepth, result, reported, nested>>

\* A line of code, which a #define is with noDefineExpr.
Code == \/ Is("code")
        \/ Is("use")
        \/ Is("define") /\ noDefineExpr

\* ReplaceDefines: once a value longer than its name was put in, the line ends
\* where the text ends.
Grows == Current.kind # "code" /\ defines[Current.name] = "long"
ReplaceDefines ==
    /\ Code /\ Kept
    /\ IF Grows
       THEN calls' = Append(Below, [Top EXCEPT !.line = Len(text[Top.file]) + 1])
       ELSE GoOn(Top)
    /\ UNCHANGED <<inputVars, defines, currentDepth, result, reported, nested>>

\* #insert: the call of ApplyPreProcessor for the file; its line is left when
\* that call returns.
Insert ==
    /\ Is("insert") /\ Kept
    /\ Current.file \in Files /\ Opens(Current.file)
    /\ calls' = Append(calls, Entry(Current.file))
    /\ currentDepth' = currentDepth + 1
    /\ UNCHANGED <<inputVars, defines, result, reported, nested>>

\* The depth of a refused call is not given back.
InsertFails_Leaks ==
    /\ Is("insert") /\ Kept
    /\ Current.file \in Files => ~Opens(Current.file)
    /\ Fail
    /\ currentDepth' = IF Current.file \in Files /\ ends[Current.file]
                       THEN currentDepth + 1 ELSE currentDepth
    /\ UNCHANGED <<inputVars, defines, result, nested>>

\* The line is not left.
InsertFails_Again ==
    /\ Is("insert") /\ Kept
    /\ Current.file \in Files => ~Opens(Current.file)
    /\ calls' = Append(Below, [Top EXCEPT !.err = TRUE])
    /\ reported' = TRUE
    /\ UNCHANGED <<inputVars, defines, currentDepth, result, nested>>

\* The file cannot be read, has a comment without an end, or is refused for the
\* depth ("cyclic #insert?").
InsertFails ==
    /\ Is("insert") /\ Kept
    /\ Current.file \in Files => ~Opens(Current.file)
    /\ Fail
    /\ UNCHANGED <<inputVars, defines, currentDepth, result, nested>>

\* The caller ignores what the call for its #insert returned.
Return_Ignored ==
    /\ calls # <<>> /\ ~AtLine
    /\ LET failed == Top.eraseCtx # <<>> \/ Top.err
       IN  /\ reported' = (reported \/ failed)
           /\ IF Len(calls) = 1
              THEN calls' = <<>> /\ result' = IF failed THEN "failed" ELSE "ok"
              ELSE /\ calls' = Append(Pop(Below), [Last(Below) EXCEPT !.line = @ + 1])
                   /\ UNCHANGED result
    /\ currentDepth' = currentDepth - 1
    /\ UNCHANGED <<inputVars, defines, nested>>

\* The end of the text: an open conditional is an error, and an error of an
\* inserted file is one of the line that inserts it.
Return ==
    /\ calls # <<>> /\ ~AtLine
    /\ LET failed == Top.eraseCtx # <<>> \/ Top.err
       IN  /\ reported' = (reported \/ failed)
           /\ IF Len(calls) = 1
              THEN calls' = <<>> /\ result' = IF failed THEN "failed" ELSE "ok"
              ELSE /\ calls' = Append(Pop(Below),
                                      [Last(Below) EXCEPT !.line = @ + 1, !.err = @ \/ failed])
                   /\ UNCHANGED result
    /\ currentDepth' = currentDepth - 1
    /\ UNCHANGED <<inputVars, defines, nested>>

Step ==
    \/ Conditional \/ Else \/ Endif \/ WrongLine \/ Erased
    \/ Define \/ ReplaceDefines \/ Insert \/ InsertFails \/ Return

Done == calls = <<>> /\ made = MaxCalls /\ UNCHANGED vars

Next == Step \/ (\E f \in Files : Apply(f)) \/ Done

\* The process that called goes on.
Spec == Init /\ [][Next]_vars /\ WF_vars(Step)

-----------------------------------------------------------------------------
(* Properties.                                                             *)

\* Every variable has its type, and the depth in the options is that of the
\* calls, also after one that was refused: it is 0 for the next file.
TypeOK ==
    /\ text \in [Files -> Seq(Line)] /\ ends \in [Files -> BOOLEAN]
    /\ noDefineExpr \in BOOLEAN /\ defines \in Defines
    /\ calls \in Seq(Call)
    /\ currentDepth = Len(calls) /\ currentDepth < MaxDepth
    /\ result \in {"none", "ok", "failed"} /\ made \in 0..MaxCalls
    /\ reported \in BOOLEAN /\ nested \in BOOLEAN

\* A part of a text is kept when every conditional around it is in a branch that
\* is taken, as test/gsc-parser/preproc.gsc has it.
BranchesTaken ==
    \A k \in DOMAIN calls :
        Erasing(calls[k]) <=> \E j \in DOMAIN calls[k].taken : ~calls[k].taken[j]

\* That is what the stack gives, through the inserted files and what they
\* define, as long as no conditional within another one has an #else.
BranchesFollowed == nested \/ BranchesTaken

\* A call fails when it reported an error, and then only, however deep in the
\* inserted files the error was.
ErrorsReach == calls = <<>> /\ made > 0 => (result = "failed" <=> reported)

\* A call returns, whatever inserts what.
Returns == calls # <<>> ~> calls = <<>>
=============================================================================
