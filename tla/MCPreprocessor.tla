--------------------------- MODULE MCPreprocessor ---------------------------
(* A file that is compiled and one it may insert. *)
EXTENDS Preprocessor

If(kind, name) == [kind |-> kind, name |-> name]
Simple(kind) == [kind |-> kind]
Inserts(f) == [kind |-> "insert", file |-> f]
Def(name, value) == [kind |-> "define", name |-> name, value |-> value]

Mains == {If("ifdef", "a"), If("ifndef", "a"), Simple("else"), Simple("endif"),
          Inserts("header"), Inserts("main"), Def("a", "long"), If("use", "a")}
Nested == <<If("ifndef", "a"), If("ifdef", "a"), Inserts("header"), Simple("endif"),
            Simple("else"), If("ifndef", "a"), Inserts("main"), Simple("endif"), Simple("endif")>>
Guarded == <<If("ifndef", "a"), Def("a", "short"), Inserts("main"), Simple("endif")>>

MCFiles == {"main", "header"}
MCTexts == [f \in MCFiles |->
              IF f = "main" THEN {Nested} \cup UNION {[1..n -> Mains] : n \in 0..3}
              ELSE {Guarded, <<Simple("error"), Def("a", "short")>>, <<If("ifdef", "a"), Simple("code")>>,
                    <<Simple("malformed")>>, <<Inserts("unreadable"), Inserts("header")>>}]
MCOptions == {[n \in Names |-> Undefined]}

\* test/gsc-parser/preproc.gsc.
TestFiles == {"preproc.gsc"}
TestTexts == [f \in TestFiles |->
    {<<Def("AAA", "short"), Def("BBB", "short"),
       If("ifdef", "AAA"), Simple("code"), Simple("else"), Simple("code"), Simple("endif"),
       If("ifdef", "AAA"),
         If("ifdef", "AAA"), Simple("code"), Simple("else"), Simple("code"), Simple("endif"),
       Simple("else"), Simple("code"),
         If("ifndef", "BBB"),
           If("ifdef", "AAA"), Simple("code"), Simple("endif"),
         Simple("endif"),
       Simple("endif")>>}]
=============================================================================
