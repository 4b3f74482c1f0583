-------------------------- MODULE StaticAllocator --------------------------
(***************************************************************************)
(* MemoryAllocatorStatic (core/shared/core/memory_allocator_static.hpp):   *)
(* first fit in one array, whose blocks each have a header in the array.   *)
(*                                                                         *)
(* Offsets and lengths are in units; the DataRefType does not overflow     *)
(* (the static_assert of l.15).  A header is not cleared when its block is *)
(* merged, and the bytes of a block belong to the caller: the field that   *)
(* AllocRef does not write has the value the memory had.                   *)
(*                                                                         *)
(* Blocks are freed in any order.  The prev of a header goes stale when    *)
(* the block before is split (l.53) or merged (l.86), and FreeRef trusts   *)
(* it.  A free that merges into something else than the block before is    *)
(* modelled, and remembered in misled: the links then go through the bytes *)
(* of the caller or past a live block, and the model stops there.          *)
(***************************************************************************)
EXTENDS Naturals, Sequences

CONSTANTS
    Size,       \* Len, the bytes that can be allocated at first
    HeaderSize, \* sizeof(MemoryAllocatorStaticHeader)
    Lengths     \* the lengths that are asked

ASSUME StaticAllocatorAssumption ==
    /\ Size \in Nat \ {0} /\ HeaderSize \in Nat \ {0}
    /\ Lengths \subseteq 1..Size

VARIABLES
    hdr,   \* the header at each offset, where there is one or was one
    used,  \* the blocks the caller has, in the order they were allocated
    dirty, \* the offsets whose bytes the caller may have written
    misled \* whether a free followed a stale prev (a history variable)

vars == <<hdr, used, dirty, misled>>

Offsets == 0..(Size + HeaderSize - 1)

Init ==
    /\ hdr = [o \in Offsets |-> [prev |-> 0, next |-> 0, len |-> IF o = 0 THEN Size ELSE 0,
                                 allocated |-> FALSE]]
    /\ used = <<>> /\ dirty = {} /\ misled = FALSE

\* The blocks, from the first, in the order of the links.
Chain ==
    LET From[o \in Offsets] ==
            IF hdr[o].next = 0 THEN <<o>> ELSE <<o>> \o From[hdr[o].next]
    IN  From[0]

Blocks == {Chain[i] : i \in DOMAIN Chain}

\* Where the loop of AllocRef stops: the first free block that is long enough.
Fits(o, len) == ~hdr[o].allocated /\ hdr[o].len >= len
FirstFit(o, len) ==
    \E i \in DOMAIN Chain :
       /\ Chain[i] = o /\ Fits(o, len)
       /\ \A j \in 1..(i - 1) : ~Fits(Chain[j], len)

\* What is read in the allocated field of a header that nobody wrote at an offset.
Stale(o) == IF o \in dirty THEN BOOLEAN ELSE {hdr[o].allocated}

\* Splits whenever the block is long enough, for the next header as well or not.
AllocRef_SplitsAll(len) ==
    \E o \in Offsets : FirstFit(o, len) /\
       LET n == o + HeaderSize + len IN
          /\ \E a \in BOOLEAN :
                hdr' = [hdr EXCEPT
                   ![o] = [hdr[o] EXCEPT !.allocated = TRUE, !.next = n, !.len = len],
                   ![n] = [prev |-> o, next |-> hdr[o].next,
                           len |-> hdr[o].len - len - HeaderSize, allocated |-> a]]
          /\ used' = Append(used, [ref |-> o + HeaderSize, len |-> len])
          /\ dirty' = (dirty \cup ((o + HeaderSize)..(n - 1))) \ {n}
          /\ UNCHANGED misled

\* When nothing fits it throws, and nothing changes.
AllocRef(len) ==
    \E o \in Offsets : FirstFit(o, len) /\
       LET n == o + HeaderSize + len IN
          /\ IF len + HeaderSize < hdr[o].len
             THEN \E a \in Stale(n) :
                     hdr' = [hdr EXCEPT
                        ![o] = [hdr[o] EXCEPT !.allocated = TRUE, !.next = n, !.len = len],
                        ![n] = [prev |-> o, next |-> hdr[o].next,
                                len |-> hdr[o].len - len - HeaderSize, allocated |-> a]]
             ELSE hdr' = [hdr EXCEPT ![o].allocated = TRUE]
          /\ used' = Append(used, [ref |-> o + HeaderSize, len |-> len])
          /\ dirty' = (dirty \cup ((o + HeaderSize)..(n - 1))) \ {n}
          /\ UNCHANGED misled

\* The block takes the next one in, when it is free.
MergeNext(h, o) ==
    LET n == h[o].next
        linked == IF h[n].next # 0 THEN [h EXCEPT ![h[n].next].prev = o] ELSE h
    IN  IF n # 0 /\ ~h[n].allocated
        THEN [linked EXCEPT ![o].len = @ + h[n].len, ![o].next = h[n].next]
        ELSE h

\* Looks at the block itself, which is free by now, instead of the previous one.
MergePrev_Self(h, o, taken) ==
    LET p == h[o].prev
    IN  IF p # 0 /\ ~h[o].allocated
        THEN [h EXCEPT ![p].next = h[o].next, ![p].len = @ + h[o].len, ![p].allocated = FALSE]
        ELSE h

\* The previous block takes it in, when it is not taken and not the first.
MergePrev(h, o, taken) ==
    LET p == h[o].prev
    IN  IF p # 0 /\ ~taken
        THEN [h EXCEPT ![p].next = h[o].next, ![p].len = @ + h[o].len]
        ELSE h

RemoveAt(s, i) == SubSeq(s, 1, i - 1) \o SubSeq(s, i + 1, Len(s))

\* Whether p is where the block before o is.
Precedes(p, o) == p \in Blocks /\ hdr[p].next = o

\* The allocated read through prev is that of a header, or what the caller wrote there.
FreeRef(i) ==
    /\ i \in DOMAIN used
    /\ LET o == used[i].ref - HeaderSize
           p == hdr[o].prev
           joined == MergeNext([hdr EXCEPT ![o].allocated = FALSE], o)
       IN  \E taken \in Stale(p) :
              /\ hdr' = MergePrev(joined, o, taken)
              /\ misled' = (p # 0 /\ ~taken /\ ~Precedes(p, o))
    /\ used' = RemoveAt(used, i)
    /\ UNCHANGED dirty

\* What follows depends on the bytes of the caller.
Astray == misled /\ UNCHANGED vars

Next ==
    \/ \E len \in Lengths : ~misled /\ AllocRef(len)
    \/ \E i \in DOMAIN used : ~misled /\ FreeRef(i)
    \/ Astray

Spec == Init /\ [][Next]_vars

-----------------------------------------------------------------------------
(* Properties.                                                             *)

\* Every variable keeps its type: a link or a length is never negative.
TypeOK ==
    /\ hdr \in [Offsets -> [prev : Offsets, next : Offsets, len : Nat, allocated : BOOLEAN]]
    /\ used \in Seq([ref : Offsets, len : Lengths]) /\ dirty \subseteq Offsets
    /\ misled \in BOOLEAN

\* The bytes of a block and of its header.
Extent(b) == (b.ref - HeaderSize)..(b.ref + b.len - 1)

\* "we can create a block after this block" (l.49), "we can remove this block" (l.86):
\* whatever is split or merged, the blocks given to the caller, and their headers, do
\* not overlap and are inside the array.
Disjoint ==
    ~misled =>
        /\ \A i \in DOMAIN used : Extent(used[i]) \subseteq Offsets
        /\ \A i, j \in DOMAIN used : i # j => Extent(used[i]) \cap Extent(used[j]) = {}

\* A block the caller has is found from the first header, marked, with its length: it
\* is never given again, and never merged into another (l.36-41 and 75).
LiveInChain ==
    ~misled => \A i \in DOMAIN used :
       LET o == used[i].ref - HeaderSize
       IN  o \in Blocks /\ hdr[o].allocated /\ hdr[o].len >= used[i].len
=============================================================================
