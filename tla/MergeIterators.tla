--------------------------- MODULE MergeIterators ---------------------------
(***************************************************************************)
(* The merge of sorted chunks that KMerger calls (MergeChunks of           *)
(* lib/actslib/rdf/raio.hpp), for the nodes of one kind: a binary tree of  *)
(* MergeIterators (lib/actslib/data/iterator.hpp) over one                 *)
(* CompressComponentReader for each chunk, pulled by the loop that writes  *)
(* the merged file.                                                        *)
(*                                                                         *)
(* Nothing is copied on the way: an iterator keeps a pointer to a node in  *)
(* a reader and has already told that reader to go on.  The reader obeys   *)
(* when it is asked again, and then decodes over what the pointer sees.    *)
(*                                                                         *)
(* A string in a chunk shares a prefix with the one before it, and a chunk *)
(* that was not written to its end has no end mark.                        *)
(***************************************************************************)
EXTENDS Naturals, Sequences

CONSTANTS Inputs    \* the chunks that may be merged, each input a sequence of chunks

\* A node in memory, and in a file: what it shares with the string before it
\* and what follows.  text tells whether the string has its final 0.
Node  == [id: Nat \ {0}, comp: Seq(Nat)]
Entry == [id: Nat \ {0}, delta: Nat, text: Seq(Nat), ended: BOOLEAN]

\* A chunk is whole when it has the end mark.
Chunk == [entries: Seq(Entry), whole: BOOLEAN]

VARIABLES chunks,
          readers,  \* the CompressComponentReaders: position in the file, node
                    \* decoded last, and two flags
          next,     \* of each MergeIterator: the reader it points into, 0 is nullptr
          calls,    \* the calls of operator bool, the last one running
          phase,    \* of the loop of MergeChunks
          out,      \* the merged file
          last      \* the string the writer wrote last

vars == <<chunks, readers, next, calls, phase, out, last>>

-----------------------------------------------------------------------------
(* The tree.                                                               *)

\* A reader is <<k>>, a MergeIterator is <<left, right>>.
IsReader(x) == Len(x) = 1

\* Leaves the last of an odd level out.
Paired_Even(level) ==
    [i \in 1..(IF Len(level) = 1 THEN 1 ELSE Len(level) \div 2) |->
        IF 2 * i <= Len(level) THEN <<level[2 * i - 1], level[2 * i]>> ELSE level[Len(level)]]

\* The iterators of a level are merged two by two; the last one of an odd
\* level goes up as it is.
Paired(level) ==
    [i \in 1..((Len(level) + 1) \div 2) |->
        IF 2 * i <= Len(level) THEN <<level[2 * i - 1], level[2 * i]>> ELSE level[Len(level)]]

\* The constructor of AllocatedMergeAIterator: a level of one iterator is the
\* last, and pairing it again gives it back.
Levels(n) ==
    LET Level[k \in 0..n] ==
            IF k = 0 THEN [i \in 1..n |-> <<i>>] ELSE Paired(Level[k - 1])
    IN  Level

Tree(n) == UNION {{Levels(n)[k][i] : i \in DOMAIN Levels(n)[k]} : k \in 0..n}
Merges(n) == {x \in Tree(n) : ~IsReader(x)}
Top(n) == Levels(n)[n][1]

main == Top(Len(chunks))

-----------------------------------------------------------------------------
(* Strings.                                                                *)

\* Component::GetDeltaLen: the length of what two strings begin with.
GetDeltaLen(a, b) ==
    CHOOSE d \in 0..Len(a) :
        /\ d <= Len(b) /\ \A i \in 1..d : a[i] = b[i]
        /\ d < Len(a) /\ d < Len(b) => a[d + 1] # b[d + 1]

\* Component::operator<.
Less(a, b) ==
    LET d == GetDeltaLen(a, b)
    IN  d < Len(b) /\ (d = Len(a) \/ a[d + 1] < b[d + 1])

\* CompressComponentWriter::WriteNode after the string prev.
WriteNode(prev, n) ==
    LET d == GetDeltaLen(prev, n.comp)
    IN  [id |-> n.id, delta |-> d, text |-> SubSeq(n.comp, d + 1, Len(n.comp)), ended |-> TRUE]

\* StreamAppendStringComponent::Append to the string prev: a file that ends
\* before the text leaves a string that was to be continued as it was.
Appended(prev, e) ==
    IF ~e.ended /\ e.text = <<>> /\ e.delta > 0 THEN prev
    ELSE SubSeq(prev, 1, e.delta) \o e.text

\* What a file holds, decoded from its start.
Decoded(entries) ==
    LET Comp[k \in 0..Len(entries)] ==
            IF k = 0 THEN <<>> ELSE Appended(Comp[k - 1], entries[k])
    IN  [k \in DOMAIN entries |-> [id |-> entries[k].id, comp |-> Comp[k]]]

\* No entry of a file shares more with the string before it than it has.
Readable(entries) ==
    \A i \in DOMAIN entries :
        entries[i].delta <= IF i = 1 THEN 0 ELSE Len(Decoded(entries)[i - 1].comp)

\* What CreateChunk and MergeChunks write is readable, and a node is in one place.
ASSUME InputsAssumption ==
    /\ Inputs \subseteq Seq(Chunk) \ {<<>>}
    /\ \A c \in Inputs : \A k \in DOMAIN c : Readable(c[k].entries)
    /\ \A c \in Inputs : \A k, l \in DOMAIN c :
          \A i \in DOMAIN c[k].entries, j \in DOMAIN c[l].entries :
              c[k].entries[i].id = c[l].entries[j].id => k = l /\ i = j

-----------------------------------------------------------------------------

NoNode == [id |-> 0, comp |-> <<>>]
Reader == [pos: Nat \ {0}, next: Node \cup {NoNode}, nextWait: BOOLEAN, remaining: BOOLEAN]

Call == [of: Tree(Len(chunks)), has: Seq(BOOLEAN)]
CallOn(x) == [of |-> x, has |-> <<>>]

Init ==
    /\ chunks \in Inputs
    /\ readers = [k \in DOMAIN chunks |->
                    [pos |-> 1, next |-> NoNode, nextWait |-> FALSE, remaining |-> TRUE]]
    /\ next = [m \in Merges(Len(chunks)) |-> 0]
    /\ calls = <<>> /\ phase = "test" /\ out = <<>> /\ last = <<>>

-----------------------------------------------------------------------------
(* operator bool.  has holds what the calls for left and right returned.   *)

Asked == calls[Len(calls)].of
Has == calls[Len(calls)].has
Below == SubSeq(calls, 1, Len(calls) - 1)
AskedReader == calls # <<>> /\ IsReader(Asked)
AskedMerge == calls # <<>> /\ ~IsReader(Asked)
Self == readers[Asked[1]]

\* while (merger).
Test ==
    /\ phase = "test"
    /\ phase' = "ask"
    /\ calls' = <<CallOn(main)>>
    /\ UNCHANGED <<chunks, readers, next, out, last>>

\* The call returns, to the loop or to the iterator above.
Return(answer) ==
    IF Below = <<>>
    THEN /\ calls' = <<>>
         /\ phase' = IF answer THEN "write" ELSE "end"
    ELSE /\ calls' = [Below EXCEPT ![Len(Below)].has = Append(@, answer)]
         /\ UNCHANGED phase

\* What is known is not asked again.
Known ==
    /\ \/ AskedReader /\ (Self.nextWait \/ ~Self.remaining)
       \/ AskedMerge /\ next[Asked] # 0
    /\ Return(AskedReader => Self.nextWait)
    /\ UNCHANGED <<chunks, readers, next, out, last>>

Unread == AskedReader /\ ~Self.nextWait /\ Self.remaining
Entries == chunks[Asked[1]].entries

\* Decodes the next node over the one before it.
ReadNode ==
    /\ Unread /\ Self.pos <= Len(Entries)
    /\ LET e == Entries[Self.pos]
       IN  readers' = [readers EXCEPT ![Asked[1]] =
                         [Self EXCEPT !.next = [id |-> e.id, comp |-> Appended(@.comp, e)],
                                   !.pos = @ + 1, !.nextWait = TRUE]]
    /\ Return(TRUE)
    /\ UNCHANGED <<chunks, next, out, last>>

\* The end mark, and the flag that would keep it from being read again.
ReadEnd_Again ==
    /\ Unread /\ Self.pos > Len(Entries) /\ chunks[Asked[1]].whole
    /\ readers' = [readers EXCEPT ![Asked[1]].pos = @ + 1]
    /\ Return(FALSE)
    /\ UNCHANGED <<chunks, next, out, last>>

ReadEnd ==
    /\ Unread /\ Self.pos > Len(Entries) /\ chunks[Asked[1]].whole
    /\ readers' = [readers EXCEPT ![Asked[1]].remaining = FALSE]
    /\ Return(FALSE)
    /\ UNCHANGED <<chunks, next, out, last>>

\* The file ends where a number or the end mark should be: DecodeVByte or the
\* test of the end throws, and so does MergeChunks.
ReadFails ==
    /\ Unread /\ Self.pos > Len(Entries) /\ ~chunks[Asked[1]].whole
    /\ phase' = "throw" /\ calls' = <<>>
    /\ UNCHANGED <<chunks, readers, next, out, last>>

\* A MergeIterator that has no node asks left, then right.
AskChild ==
    /\ AskedMerge /\ next[Asked] = 0 /\ Len(Has) < 2
    /\ calls' = Append(calls, CallOn(Asked[Len(Has) + 1]))
    /\ UNCHANGED <<chunks, readers, next, phase, out, last>>

\* &*x, and ++x, which asks nothing.
Pointed(x) == IF IsReader(x) THEN x[1] ELSE next[x]
Value(x) == readers[Pointed(x)].next.comp
Advanced(x) ==
    [k \in DOMAIN readers |->
        IF x = <<k>> THEN [readers[k] EXCEPT !.nextWait = FALSE] ELSE readers[k]]

\* Takes the one that is not smaller from both.
Choose_Both ==
    /\ AskedMerge /\ next[Asked] = 0 /\ Len(Has) = 2
    /\ IF Has[1] \/ Has[2]
       THEN LET left == Asked[1]
                right == Asked[2]
                x == IF Has[1] /\ (Has[2] => Less(Value(left), Value(right))) THEN left ELSE right
            IN  /\ next' = [next EXCEPT ![Asked] = Pointed(x), ![left] = 0, ![right] = 0]
                /\ readers' = Advanced(x)
                /\ Return(TRUE)
       ELSE Return(FALSE) /\ UNCHANGED <<readers, next>>
    /\ UNCHANGED <<chunks, out, last>>

\* The smaller of the two, or the one there is; equal strings come from right
\* first.
Choose ==
    /\ AskedMerge /\ next[Asked] = 0 /\ Len(Has) = 2
    /\ IF Has[1] \/ Has[2]
       THEN LET left == Asked[1]
                right == Asked[2]
                x == IF Has[1] /\ (Has[2] => Less(Value(left), Value(right))) THEN left ELSE right
            IN  /\ next' = [next EXCEPT ![Asked] = Pointed(x), ![x] = 0]
                /\ readers' = Advanced(x)
                /\ Return(TRUE)
       ELSE Return(FALSE) /\ UNCHANGED <<readers, next>>
    /\ UNCHANGED <<chunks, out, last>>

-----------------------------------------------------------------------------
(* The loop of MergeChunks.                                                *)

\* WriteNode of *merger, then ++merger.
Write ==
    /\ phase = "write"
    /\ LET n == readers[Pointed(main)].next
       IN  /\ out' = Append(out, WriteNode(last, n))
           /\ last' = n.comp
    /\ readers' = Advanced(main)
    /\ next' = [next EXCEPT ![main] = 0]
    /\ phase' = "test"
    /\ UNCHANGED <<chunks, calls>>

\* WriteEnd.
WriteEnd ==
    /\ phase = "end"
    /\ phase' = "ok"
    /\ UNCHANGED <<chunks, readers, next, calls, out, last>>

Done == phase \in {"ok", "throw"} /\ UNCHANGED vars

Step ==
    \/ Test \/ Known \/ ReadNode \/ ReadEnd \/ ReadFails \/ AskChild \/ Choose
    \/ Write \/ WriteEnd

Next == Step \/ Done

\* The worker that merges goes on.
Spec == Init /\ [][Next]_vars /\ WF_vars(Step)

-----------------------------------------------------------------------------
(* Properties.                                                             *)

Written == {out[i].id : i \in DOMAIN out}

\* Every variable has its type, no reader passes the end of its file, and the
\* calls are a path down from the root of the tree.
TypeOK ==
    /\ chunks \in Seq(Chunk)
    /\ readers \in [DOMAIN chunks -> Reader]
    /\ \A k \in DOMAIN readers : readers[k].pos <= Len(chunks[k].entries) + 1
    /\ next \in [Merges(Len(chunks)) -> 0..Len(chunks)]
    /\ calls \in Seq(Call)
    /\ \A i \in DOMAIN calls :
          calls[i].of = IF i = 1 THEN main
                        ELSE calls[i - 1].of[Len(calls[i - 1].has) + 1]
    /\ phase \in {"test", "ask", "write", "end", "ok", "throw"}
    /\ out \in Seq(Entry) /\ last \in Seq(Nat)

\* The iterators that wait for a node of reader k to be taken from them.
Holders(k) == {m \in DOMAIN next : next[m] = k}

\* A reader decodes over a node only when the node was written: up to then one
\* pointer leads to it, or the reader still waits.  No pointer of an iterator
\* sees another node than the one that was compared.
NothingOverwritten ==
    \A k \in DOMAIN readers : \A j \in 1..(readers[k].pos - 1) :
        LET id == chunks[k].entries[j].id
            current == j = readers[k].pos - 1
            held == current /\ Holders(k) # {}
            waits == current /\ readers[k].nextWait
        IN  /\ id \in Written \/ held \/ waits
            /\ ~(id \in Written /\ (held \/ waits)) /\ ~(held /\ waits)
            /\ \A m, n \in Holders(k) : m = n

\* The promise.  A node is written when its file has it; of a cut chunk only
\* the exception is promised.
Cut == \E k \in DOMAIN chunks : ~chunks[k].whole
Content(k) == LET d == Decoded(chunks[k].entries) IN {d[i] : i \in DOMAIN d}
NodeLess(a, b) == Less(a.comp, b.comp)

Abs == INSTANCE SortedMerge WITH
    Nodes  <- Node,
    Less   <- NodeLess,
    rest   <- IF Cut THEN {}
              ELSE {n \in UNION {Content(k) : k \in DOMAIN chunks} : n.id \notin Written},
    merged <- IF Cut THEN <<>> ELSE Decoded(out),
    broken <- Cut,
    status <- IF phase \in {"ok", "throw"} THEN phase ELSE "running"

\* Every merge is a SortedMerge: read back, the file has the nodes of the
\* chunks, each once and sorted, a cut chunk is never taken for a shorter one,
\* and the loop ends.
ImplementsSortedMerge == Abs!Spec
=============================================================================
