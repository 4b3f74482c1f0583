----------------------------- MODULE MCKMerger -----------------------------
(* Small instances of KMerger for TLC. *)
EXTENDS KMerger, TLC

CONSTANTS w1, w2, w3

TwoWorkers   == {w1, w2}
ThreeWorkers == {w1, w2, w3}

\* The workers are interchangeable.
Symmetry == Permutations(Workers)
=============================================================================
