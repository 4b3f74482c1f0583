---------------------------- MODULE MCTextExpand ----------------------------
(* Small instances of TextExpand for TLC. *)
EXTENDS TextExpand

\* Two entries and the terminator the tests put last.
Words2 == <<"a", "b", "end">>
=============================================================================
