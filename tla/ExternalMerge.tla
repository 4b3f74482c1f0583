--------------------------- MODULE ExternalMerge ---------------------------
(***************************************************************************)
(* What KMerger::PushAndJoin promises its caller, with no thread, queue or *)
(* lock in sight: batches read from the input become sorted runs, runs are *)
(* combined a few at a time, and the call returns either one run that      *)
(* holds every batch or an error.                                          *)
(***************************************************************************)
EXTENDS Naturals, FiniteSets

CONSTANTS
    Units,      \* the most runs one merge combines
    MaxBatches  \* bound on the length of the input

VARIABLES
    input,      \* number of batches the input holds
    read,       \* number of batches read so far
    runs,       \* the sorted runs, each the set of the batches it holds
    failed,     \* an operation has failed
    outcome     \* what the call returned

absVars == <<input, read, runs, failed, outcome>>

Pending == [status |-> "none", data |-> {}]
Error   == [status |-> "error", data |-> {}]

Init ==
    /\ input \in 0..MaxBatches
    /\ read = 0
    /\ runs = {}
    /\ failed = FALSE
    /\ outcome = Pending

ReadBatch ==
    /\ outcome = Pending
    /\ read < input
    /\ read' = read + 1
    /\ runs' = runs \cup {{read'}}
    /\ UNCHANGED <<input, failed, outcome>>

Combine ==
    /\ outcome = Pending
    /\ \E some \in SUBSET runs :
          /\ Cardinality(some) \in 2..Units
          /\ runs' = (runs \ some) \cup {UNION some}
    /\ UNCHANGED <<input, read, failed, outcome>>

\* A failing operation loses the runs it was working on.
Fail ==
    /\ outcome = Pending
    /\ failed' = TRUE
    /\ \E some \in SUBSET runs : runs' = runs \ some
    /\ UNCHANGED <<input, read, outcome>>

Return ==
    /\ outcome = Pending
    /\ IF failed
       THEN outcome' = Error
       ELSE /\ read = input
            /\ Cardinality(runs) <= 1
            /\ outcome' = [status |-> "ok", data |-> UNION runs]
    /\ UNCHANGED <<input, read, runs, failed>>

Next == ReadBatch \/ Combine \/ Fail \/ Return

Spec == Init /\ [][Next]_absVars /\ WF_absVars(Next)
=============================================================================
