-------------------------- MODULE MCMergeIterators --------------------------
(* Small instances of MergeIterators for TLC. *)
EXTENDS MergeIterators

\* Strings that continue each other, and one that differs at once.
Strings == {<<1>>, <<1, 2>>, <<2>>}
Continued == {<<1>>, <<1, 2>>}

Sorted(strings, length) ==
    {s \in UNION {[1..l -> strings] : l \in 0..length} :
        \A i, j \in DOMAIN s : i < j => ~Less(s[j], s[i])}

\* Chunk k as CreateChunk writes it; the identifiers are those of the triples.
File(k, s) ==
    [entries |-> [i \in DOMAIN s |->
        WriteNode(IF i = 1 THEN <<>> ELSE s[i - 1], [id |-> 10 * k + i, comp |-> s[i]])],
     whole |-> TRUE]

\* The same, cut after some of its entries or inside the text of one.
CutAfter(f, n) == [entries |-> SubSeq(f.entries, 1, n), whole |-> FALSE]
CutInside(f, n) ==
    {[entries |-> [i \in 1..n |->
        IF i < n THEN f.entries[i]
        ELSE [f.entries[i] EXCEPT !.text = SubSeq(@, 1, l), !.ended = FALSE]],
      whole |-> FALSE] : l \in 0..Len(f.entries[n].text)}
Cuts(f) ==
    {CutAfter(f, n) : n \in 0..Len(f.entries)}
    \cup UNION {CutInside(f, n) : n \in DOMAIN f.entries}

Whole(n, strings, length) ==
    {[k \in 1..n |-> File(k, c[k])] : c \in [1..n -> Sorted(strings, length)]}
OneCut(inputs) ==
    UNION {UNION {{[w EXCEPT ![k] = f] : f \in Cuts(w[k])} : k \in DOMAIN w} : w \in inputs}

\* One chunk and two, three and five, where a level has a last one alone.
SmallInputs ==
    Whole(1, Strings, 2) \cup Whole(2, Strings, 3)
    \cup Whole(3, Continued, 2) \cup Whole(5, Continued, 1)
    \cup OneCut(Whole(2, Strings, 2)) \cup OneCut(Whole(3, Continued, 1))
=============================================================================
