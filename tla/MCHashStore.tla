---------------------------- MODULE MCHashStore ----------------------------
(* A small instance of HashStore for TLC. *)
EXTENDS HashStore, TLC

CONSTANTS w1, w2, f1, f2, f3, k1, k2, sd, s1

TwoWorkers == {w1, w2}
ThreeFiles == {f1, f2, f3}

\* Every script has the same name: all but one take both mutexes.
SameName == [f \in ThreeFiles |-> "script"]

\* k1 is in the default files, k2 is not.
TwoKeys    == {k1, k2}
FewStrings == {sd, s1}
FileHashes == k1 :> sd

LogTypes == {"LOGS"}
=============================================================================
