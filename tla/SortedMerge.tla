----------------------------- MODULE SortedMerge -----------------------------
(***************************************************************************)
(* What MergeChunks (lib/actslib/rdf/raio.hpp) promises KMerger of the     *)
(* nodes of one kind: the file it writes has the nodes of all the chunks,  *)
(* each once and in order, or the call throws because a chunk is cut.      *)
(***************************************************************************)
EXTENDS Naturals, Sequences

CONSTANTS Nodes,      \* the nodes a chunk may hold
          Less(_, _)  \* their order

VARIABLES rest,    \* the nodes that were not written
          merged,  \* those that were
          broken,  \* whether a chunk is cut
          status

vars == <<rest, merged, broken, status>>

Init ==
    /\ rest \in SUBSET Nodes
    /\ merged = <<>>
    /\ broken \in BOOLEAN
    /\ status = "running"

\* A node that none of the others must precede.
Take ==
    /\ status = "running" /\ ~broken
    /\ \E n \in rest :
          /\ \A m \in rest : ~Less(m, n)
          /\ merged' = Append(merged, n)
          /\ rest' = rest \ {n}
    /\ UNCHANGED <<broken, status>>

Finish ==
    /\ status = "running"
    /\ IF broken THEN status' = "throw" ELSE rest = {} /\ status' = "ok"
    /\ UNCHANGED <<rest, merged, broken>>

Next == Take \/ Finish

Spec == Init /\ [][Next]_vars /\ WF_vars(Next)
=============================================================================
