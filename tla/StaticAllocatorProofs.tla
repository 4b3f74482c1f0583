------------------------ MODULE StaticAllocatorProofs ------------------------
(***************************************************************************)
(* The blocks of MemoryAllocatorStatic, freed in any order, for every size *)
(* of the array and of the header and all lengths: until a free follows a  *)
(* stale prev they are apart, and found from the first header.             *)
(***************************************************************************)
EXTENDS StaticAllocator, Integers, SequenceTheorems, WellFoundedInduction, TLAPS

-----------------------------------------------------------------------------
(* The invariant.                                                          *)

Hdr   == [prev : Offsets, next : Offsets, len : Nat, allocated : BOOLEAN]
Block == [ref : Offsets, len : Lengths]

\* The header of a block the caller has.
Header(u, i) == u[i].ref - HeaderSize

\* N is the set of the headers in the list: each block ends before the next header,
\* the last one inside the array, and no header of N lies between two neighbours.
Linked(N, h) ==
    /\ 0 \in N
    /\ \A o \in N : /\ h[o].next \in N
                    /\ h[o].next # 0 => o + HeaderSize + h[o].len <= h[o].next
                    /\ o + h[o].len <= Size
    /\ \A o, p \in N : o < p => h[o].next # 0 /\ h[o].next <= p

\* The blocks the caller has are marked blocks of the list, each with its header.
Held(N, h, u) ==
    /\ \A i \in 1..Len(u) :
          LET o == Header(u, i) IN o \in N /\ h[o].allocated /\ h[o].len >= u[i].len
    /\ \A i, j \in 1..Len(u) : i # j => Header(u, i) # Header(u, j)

\* No link goes back, those of the headers that are not in the list included.
Rising(h) == \A o \in Offsets : h[o].next = 0 \/ h[o].next > o

\* The caller writes into no header of the list.
Clean(N, d) == \A o \in N : o \notin d

Good(N, h, u, d) ==
    Linked(N, h) /\ Held(N, h, u) /\ Rising(h) /\ Clean(N, d) /\ h[0].prev = 0

ListInv == TypeOK /\ (~misled => \E N \in SUBSET Offsets : Good(N, hdr, used, dirty))

LEMMA Sizes ==
    /\ Size \in Nat \ {0} /\ HeaderSize \in Nat \ {0}
    /\ Lengths \subseteq 1..Size
    /\ \A o : o \in Offsets <=> o \in Nat /\ o <= Size + HeaderSize - 1
    /\ 0 \in Offsets
BY StaticAllocatorAssumption DEF Offsets

-----------------------------------------------------------------------------
(* The list.                                                               *)

\* A set of numbers that has each number whose predecessors it has, has them all.
LEMMA SetInduction ==
    ASSUME NEW T \in SUBSET Nat, \A m \in Nat : (\A k \in 0..(m - 1) : k \in T) => m \in T
    PROVE  T = Nat
<1> SUFFICES ASSUME Nat \ T # {} PROVE FALSE
  OBVIOUS
<1> DEFINE R == OpToRel(<, Nat)
           Bad == Nat \ T
<1>1. IsWellFoundedOn(R, Nat)
  BY NatLessThanWellFounded
<1>2. \E x \in Bad : \A y \in Bad : ~(<<y, x>> \in R)
  <2>1. Bad \subseteq Nat /\ Bad # {}
    OBVIOUS
  <2> HIDE DEF R, Bad
  <2> QED BY <1>1, <2>1, WFMin
<1>3. PICK x \in Bad : \A y \in Bad : ~(<<y, x>> \in R)
  BY <1>2
<1>4. \A k \in 0..(x - 1) : k \in Nat /\ <<k, x>> \in R
  BY DEF OpToRel
<1>5. \A k \in 0..(x - 1) : k \in T
  <2> HIDE DEF R
  <2> QED BY <1>3, <1>4
<1> QED BY <1>5

\* The offsets from the end of the array, which the links approach.
Last == Size + HeaderSize - 1
Upper(m) == {o \in Offsets : o + m >= Last}

\* What the function of Chain is on the last offsets, and on all of them.
Walk(f, h, m) ==
    f = [o \in Upper(m) |-> IF h[o].next = 0 THEN <<o>> ELSE <<o>> \o f[h[o].next]]

LEMMA UpperIs ==
    /\ Last \in Nat /\ Upper(Last) = Offsets
    /\ \A m \in Nat : \A o \in Upper(m + 1) : o \in Upper(m) \/ o + m + 1 = Last
    /\ \A m \in Nat : \A o \in Upper(m) : o \in Upper(m + 1)
    /\ \A o \in Upper(0) : o = Last
BY Sizes DEF Last, Upper

LEMMA WalkExists ==
    ASSUME NEW h \in [Offsets -> Hdr], Rising(h)
    PROVE  \A m \in Nat : \E f : Walk(f, h, m)
<1> DEFINE T == {m \in Nat : \E f : Walk(f, h, m)}
<1>1. ASSUME NEW m \in Nat, \A k \in 0..(m - 1) : k \in T PROVE m \in T
  <2>1. CASE m = 0
    <3>1. ASSUME NEW o \in Upper(0) PROVE h[o].next = 0
      <4>1. o = Last /\ o \in Offsets
        BY UpperIs DEF Upper
      <4>2. h[o].next \in Offsets
        BY <4>1 DEF Hdr
      <4> QED BY <4>1, <4>2, Sizes DEF Rising, Last
    <3> DEFINE f == [o \in Upper(0) |-> <<o>>]
    <3>2. f = [o \in Upper(0) |-> IF h[o].next = 0 THEN <<o>> ELSE <<o>> \o f[h[o].next]]
      BY <3>1
    <3> HIDE DEF f
    <3>3. Walk(f, h, 0)
      BY <3>2 DEF Walk
    <3> QED BY <2>1, <3>3
  <2>2. CASE m > 0
    <3>1. PICK n \in Nat : n = m - 1 /\ n + 1 = m /\ n \in T
      BY <1>1, <2>2
    <3>2. PICK f : Walk(f, h, n)
      BY <3>1
    <3> DEFINE g == [o \in Upper(m) |->
                        IF o \in Upper(n) THEN f[o]
                        ELSE IF h[o].next = 0 THEN <<o>> ELSE <<o>> \o f[h[o].next]]
    <3>3. ASSUME NEW o \in Upper(m), h[o].next # 0
          PROVE  h[o].next \in Upper(n)
      <4>1. o \in Offsets /\ o + m >= Last
        BY DEF Upper
      <4>2. h[o].next \in Offsets /\ h[o].next > o
        BY <3>3, <4>1 DEF Rising, Hdr
      <4> QED BY <3>1, <4>1, <4>2, Sizes DEF Upper, Last
    <3>4. \A o \in Upper(n) : o \in Upper(m) /\ g[o] = f[o]
      BY <3>1, UpperIs
    <3>5. \A o \in Upper(n) : f[o] = IF h[o].next = 0 THEN <<o>> ELSE <<o>> \o f[h[o].next]
      BY <3>2 DEF Walk
    <3>6. \A o \in Upper(m) : g[o] = IF h[o].next = 0 THEN <<o>> ELSE <<o>> \o f[h[o].next]
      BY <3>5
    <3>7. g = [o \in Upper(m) |-> g[o]]
      OBVIOUS
    <3> HIDE DEF g
    <3>8. \A o \in Upper(m) : g[o] = IF h[o].next = 0 THEN <<o>> ELSE <<o>> \o g[h[o].next]
      BY <3>3, <3>4, <3>6
    <3>9. Walk(g, h, m)
      BY <3>7, <3>8 DEF Walk
    <3> QED BY <3>9
  <2> QED BY <2>1, <2>2
<1>2. T = Nat
  <2>1. T \in SUBSET Nat
    OBVIOUS
  <2> HIDE DEF T
  <2> QED BY <1>1, <2>1, SetInduction
<1> QED BY <1>2

Elements(s) == {s[i] : i \in DOMAIN s}

LEMMA FirstElement ==
    ASSUME NEW o \in Offsets, NEW s \in Seq(Offsets)
    PROVE  <<o>> \o s \in Seq(Offsets) /\ Elements(<<o>> \o s) = {o} \cup Elements(s)
<1> DEFINE t == <<o>> \o s
<1>1. t \in Seq(Offsets) /\ Len(t) = 1 + Len(s) /\ Len(s) \in Nat /\ t[1] = o
      /\ DOMAIN t = 1..Len(t) /\ DOMAIN s = 1..Len(s)
      /\ \A i \in 1..Len(s) : t[i + 1] = s[i]
  OBVIOUS
<1> HIDE DEF t
<1>2. \A x : x \in Elements(t) => x \in {o} \cup Elements(s)
  <2> SUFFICES ASSUME NEW i \in 1..Len(t) PROVE t[i] = o \/ \E j \in 1..Len(s) : t[i] = s[j]
    BY <1>1 DEF Elements
  <2>1. CASE i = 1
    BY <1>1, <2>1
  <2>2. CASE i > 1
    <3>1. i - 1 \in 1..Len(s) /\ (i - 1) + 1 = i
      BY <1>1, <2>2
    <3> QED BY <1>1, <3>1
  <2> QED BY <1>1, <2>1, <2>2
<1>3. o \in Elements(t)
  <2>1. 1 \in DOMAIN t
    BY <1>1
  <2> QED BY <1>1, <2>1 DEF Elements
<1>4. \A x \in Elements(s) : x \in Elements(t)
  <2> SUFFICES ASSUME NEW i \in 1..Len(s) PROVE s[i] \in Elements(t)
    BY <1>1 DEF Elements
  <2>1. i + 1 \in DOMAIN t
    BY <1>1
  <2> QED BY <1>1, <2>1 DEF Elements
<1> QED BY <1>1, <1>2, <1>3, <1>4 DEF t

\* The offsets a walk passes: where it starts, and from each one the next.
LEMMA WalkPasses ==
    ASSUME NEW h \in [Offsets -> Hdr], Rising(h), NEW f, Walk(f, h, Last)
    PROVE  \A o \in Offsets :
              /\ f[o] \in Seq(Offsets) /\ o \in Elements(f[o])
              /\ \A p \in Elements(f[o]) : p \in Offsets /\ (h[p].next # 0 => h[p].next \in Elements(f[o]))
              /\ \A N \in SUBSET Offsets :
                    o \in N /\ (\A p \in N : h[p].next # 0 => h[p].next \in N) => Elements(f[o]) \subseteq N
<1> DEFINE Passes(o) ==
              /\ f[o] \in Seq(Offsets) /\ o \in Elements(f[o])
              /\ \A p \in Elements(f[o]) : p \in Offsets /\ (h[p].next # 0 => h[p].next \in Elements(f[o]))
              /\ \A N \in SUBSET Offsets :
                    o \in N /\ (\A p \in N : h[p].next # 0 => h[p].next \in N) => Elements(f[o]) \subseteq N
           T == {m \in Nat : \A o \in Offsets : o + m = Last => Passes(o)}
<1>0. \A o \in Offsets : f[o] = IF h[o].next = 0 THEN <<o>> ELSE <<o>> \o f[h[o].next]
  BY UpperIs DEF Walk
<1>1. ASSUME NEW m \in Nat, \A k \in 0..(m - 1) : k \in T PROVE m \in T
  <2> SUFFICES ASSUME NEW o \in Offsets, o + m = Last PROVE Passes(o)
    OBVIOUS
  <2>1. CASE h[o].next = 0
    <3>1. f[o] = <<o>>
      BY <1>0, <2>1
    <3>2. f[o] \in Seq(Offsets)
      BY <3>1
    <3>3. Elements(f[o]) = {o}
      BY <3>1 DEF Elements
    <3> QED BY <2>1, <3>2, <3>3
  <2>2. CASE h[o].next # 0
    <3>1. PICK n \in Offsets : n = h[o].next /\ n > o
      BY <2>2 DEF Rising, Hdr
    <3>2. PICK k \in 0..(m - 1) : n + k = Last
      <4>1. n \in Nat /\ n <= Last /\ o \in Nat
        BY Sizes DEF Last
      <4>2. Last - n \in 0..(m - 1) /\ n + (Last - n) = Last
        BY <3>1, <4>1, UpperIs
      <4> QED BY <4>2
    <3>3. Passes(n)
      BY <1>1, <3>2
    <3>4. PICK s \in Seq(Offsets) : s = f[n]
      BY <3>3
    <3>5. f[o] = <<o>> \o s
      <4>1. f[o] = <<o>> \o f[h[o].next]
        BY <1>0, <2>2, Zenon
      <4> QED BY <3>1, <3>4, <4>1
    <3>6. f[o] \in Seq(Offsets) /\ Elements(f[o]) = {o} \cup Elements(s)
      BY <3>5, FirstElement
    <3>7. n \in Elements(s) /\ (\A p \in Elements(s) : p \in Offsets /\ (h[p].next # 0 => h[p].next \in Elements(s)))
      BY <3>3, <3>4
    <3>8. \A N \in SUBSET Offsets :
             o \in N /\ (\A p \in N : h[p].next # 0 => h[p].next \in N) => Elements(f[o]) \subseteq N
      <4> SUFFICES ASSUME NEW N \in SUBSET Offsets, o \in N, \A p \in N : h[p].next # 0 => h[p].next \in N
                   PROVE  Elements(f[o]) \subseteq N
        OBVIOUS
      <4>1. n \in N
        BY <2>2, <3>1
      <4>2. Elements(s) \subseteq N
        BY <3>3, <3>4, <4>1
      <4> QED BY <3>6, <4>2
    <3> QED BY <3>1, <3>6, <3>7, <3>8
  <2> QED BY <2>1, <2>2
<1>2. T = Nat
  <2>1. T \in SUBSET Nat
    OBVIOUS
  <2> HIDE DEF T
  <2> QED BY <1>1, <2>1, SetInduction
<1>3. \A o \in Offsets : \E m \in Nat : o + m = Last
  <2> SUFFICES ASSUME NEW o \in Offsets PROVE \E m \in Nat : o + m = Last
    OBVIOUS
  <2>1. Last - o \in Nat /\ o + (Last - o) = Last
    BY Sizes DEF Last
  <2> QED BY <2>1
<1>4. ASSUME NEW o \in Offsets PROVE Passes(o)
  <2>1. PICK m \in Nat : o + m = Last
    BY <1>3
  <2>2. m \in T
    BY <1>2
  <2> HIDE DEF Passes
  <2> QED BY <2>1, <2>2
<1> QED BY <1>4

\* The blocks of the list are the smallest set with the first offset and, with an
\* offset, the next one.
LEMMA BlocksAre ==
    ASSUME hdr \in [Offsets -> Hdr], Rising(hdr)
    PROVE  /\ 0 \in Blocks /\ Blocks \subseteq Offsets
           /\ \A p \in Blocks : hdr[p].next # 0 => hdr[p].next \in Blocks
           /\ \A N \in SUBSET Offsets :
                 0 \in N /\ (\A p \in N : hdr[p].next # 0 => hdr[p].next \in N) => Blocks \subseteq N
<1>1. PICK h \in [Offsets -> Hdr] : h = hdr /\ Rising(h)
  OBVIOUS
<1> DEFINE F == CHOOSE f : Walk(f, h, Last)
<1>2. Walk(F, h, Last)
  BY <1>1, WalkExists, UpperIs
<1>3. Chain = F[0]
  <2>1. Upper(Last) = Offsets
    BY UpperIs
  <2> QED BY <1>1, <2>1, Zenon DEF Chain, Walk
<1> HIDE DEF F
<1>4. 0 \in Offsets
  BY Sizes
<1>5. Blocks = Elements(F[0])
  BY <1>3 DEF Blocks, Elements
<1> HIDE DEF Chain, Blocks
<1> QED BY <1>1, <1>2, <1>4, <1>5, WalkPasses

-----------------------------------------------------------------------------
(* AllocRef.                                                               *)

\* A block more for the caller.
More(u, o, len) == Append(u, [ref |-> o + HeaderSize, len |-> len])

Longer(u, v, o, len) ==
    /\ v \in Seq(Block) /\ Len(v) = Len(u) + 1 /\ Len(u) \in Nat
    /\ \A i \in 1..Len(u) : Header(v, i) = Header(u, i) /\ v[i].len = u[i].len
    /\ Header(v, Len(v)) = o /\ v[Len(v)].len = len

LEMMA Given ==
    ASSUME NEW u \in Seq(Block), NEW o \in Offsets, o + HeaderSize \in Offsets,
           NEW len \in Lengths
    PROVE  Longer(u, More(u, o, len), o, len)
<1> DEFINE b == [ref |-> o + HeaderSize, len |-> len]
           v == Append(u, b)
<1>1. b \in Block /\ b.ref = o + HeaderSize /\ b.len = len
  BY DEF Block
<1>2. (o + HeaderSize) - HeaderSize = o
  BY Sizes
<1>3. v = More(u, o, len)
  BY DEF More
<1> HIDE DEF b
<1>4. /\ v \in Seq(Block) /\ Len(v) = Len(u) + 1 /\ Len(u) \in Nat
      /\ \A i \in 1..Len(u) : v[i] = u[i]
      /\ v[Len(v)] = b
  BY <1>1, AppendProperties, LenProperties
<1> HIDE DEF v
<1>5. Longer(u, v, o, len)
  BY <1>1, <1>2, <1>4 DEF Longer, Header
<1> QED BY <1>3, <1>5


\* The other headers are as they were, and that of o is marked, with room for len.
Keeps(N, h, M, g, o, len) ==
    /\ N \subseteq M
    /\ \A p \in N : p # o => g[p] = h[p]
    /\ g[o].allocated /\ g[o].len >= len

\* One more block is held, when the headers in use keep what they say.
LEMMA HeldMore ==
    ASSUME NEW N \in SUBSET Offsets, NEW h \in [Offsets -> Hdr], NEW u \in Seq(Block),
           Held(N, h, u), NEW o \in N, ~h[o].allocated,
           o + HeaderSize \in Offsets, NEW len \in Lengths,
           NEW v, v = More(u, o, len),
           NEW M \in SUBSET Offsets, NEW g \in [Offsets -> Hdr], Keeps(N, h, M, g, o, len)
    PROVE  v \in Seq(Block) /\ Held(M, g, v)
<1> USE DEF Keeps
<1>1. /\ v \in Seq(Block) /\ Len(v) = Len(u) + 1 /\ Len(u) \in Nat
      /\ \A i \in 1..Len(u) : Header(v, i) = Header(u, i) /\ v[i].len = u[i].len
      /\ Header(v, Len(v)) = o /\ v[Len(v)].len = len
  <2>1. o \in Offsets
    OBVIOUS
  <2>2. Longer(u, v, o, len)
    BY <2>1, Given
  <2> QED BY <2>2 DEF Longer
<1>2. \A i \in 1..Len(v) : i = Len(v) \/ i \in 1..Len(u)
  BY <1>1
<1>3. \A i \in 1..Len(u) : /\ Header(u, i) \in N /\ Header(u, i) # o
                           /\ g[Header(u, i)].allocated /\ g[Header(u, i)].len >= u[i].len
  BY DEF Held
<1>4. ASSUME NEW i \in 1..Len(v)
      PROVE  LET q == Header(v, i) IN q \in M /\ g[q].allocated /\ g[q].len >= v[i].len
  <2>1. CASE i = Len(v)
    BY <1>1, <2>1
  <2>2. CASE i \in 1..Len(u)
    BY <1>1, <1>3, <2>2
  <2> QED BY <1>2, <2>1, <2>2
<1>5. ASSUME NEW i \in 1..Len(v), NEW j \in 1..Len(v), i # j
      PROVE  Header(v, i) # Header(v, j)
  <2>1. CASE i = Len(v)
    BY <1>1, <1>2, <1>3, <1>5, <2>1
  <2>2. CASE j = Len(v)
    BY <1>1, <1>2, <1>3, <1>5, <2>2
  <2>3. CASE i \in 1..Len(u) /\ j \in 1..Len(u)
    BY <1>1, <1>5, <2>3 DEF Held
  <2> QED BY <1>2, <2>1, <2>2, <2>3
<1> QED BY <1>1, <1>4, <1>5 DEF Held

\* What AllocRef writes in the header it found: the block is taken, with its links and
\* its length or with new ones.
LEMMA TakenHeader ==
    ASSUME NEW r \in Hdr, NEW n \in Offsets, NEW len \in Nat
    PROVE  /\ [r EXCEPT !.allocated = TRUE] \in Hdr
           /\ [r EXCEPT !.allocated = TRUE].allocated
           /\ [r EXCEPT !.allocated = TRUE].next = r.next
           /\ [r EXCEPT !.allocated = TRUE].prev = r.prev
           /\ [r EXCEPT !.allocated = TRUE].len = r.len
           /\ [r EXCEPT !.allocated = TRUE, !.next = n, !.len = len] \in Hdr
           /\ [r EXCEPT !.allocated = TRUE, !.next = n, !.len = len].allocated
           /\ [r EXCEPT !.allocated = TRUE, !.next = n, !.len = len].next = n
           /\ [r EXCEPT !.allocated = TRUE, !.next = n, !.len = len].prev = r.prev
           /\ [r EXCEPT !.allocated = TRUE, !.next = n, !.len = len].len = len
BY DEF Hdr


\* The lengths and the room of a block.
LEMMA Room ==
    ASSUME NEW N \in SUBSET Offsets, NEW h \in [Offsets -> Hdr],
           Linked(N, h), NEW o \in N, NEW len \in Lengths, len <= h[o].len
    PROVE  /\ o \in Nat /\ h[o].len \in Nat /\ o + h[o].len <= Size /\ len \in Nat /\ len >= 1
           /\ h[o].next \in Offsets /\ h[o].next \in N /\ h[o].next \in Nat
           /\ h[o].next # 0 => o + HeaderSize + h[o].len <= h[o].next
           /\ o + HeaderSize \in Offsets
           /\ o + HeaderSize \in Offsets
<1>1. /\ o \in Nat /\ h[o].len \in Nat /\ o + h[o].len <= Size
      /\ h[o].next \in Offsets /\ h[o].next \in N /\ h[o].next \in Nat
      /\ h[o].next # 0 => o + HeaderSize + h[o].len <= h[o].next
  BY Sizes DEF Linked, Hdr
<1>2. len \in Nat /\ len >= 1
  BY Sizes
<1>3. PICK a \in Nat, b \in Nat : a = o /\ b = h[o].len
  BY <1>1
<1>4. a + HeaderSize \in Nat /\ a + HeaderSize <= Size + HeaderSize - 1
  <2>1. a + b <= Size /\ len <= b
    BY <1>1, <1>3
  <2> QED BY <1>2, <1>3, <2>1, Sizes
<1>5. a + HeaderSize \in Offsets
  BY <1>4, Sizes
<1> QED BY <1>1, <1>2, <1>3, <1>5

\* No header of the list lies in the bytes that are given.
LEMMA NoHeader ==
    ASSUME NEW N \in SUBSET Offsets, NEW h \in [Offsets -> Hdr],
           Linked(N, h), NEW o \in N, NEW len \in Lengths, len <= h[o].len
    PROVE  \A q \in N : q <= o \/ q >= o + HeaderSize + len
<1> SUFFICES ASSUME NEW q \in N, ~(q <= o) PROVE q >= o + HeaderSize + len
  OBVIOUS
<1>1. o \in Nat /\ q \in Nat /\ o < q /\ HeaderSize \in Nat /\ len \in Nat
  BY Sizes, Room
<1>2. h[o].next # 0 /\ h[o].next <= q
  BY <1>1 DEF Linked
<1>3. PICK x \in Nat, y \in Nat : x = h[o].next /\ y = h[o].len
  BY Room
<1>4. o + HeaderSize + y <= x /\ x <= q /\ len <= y
  BY <1>2, <1>3, Room
<1> QED BY ONLY <1>1, <1>4, x \in Nat, y \in Nat

\* The whole block is taken.
Taken(h, g, o) ==
    /\ g[o].allocated
    /\ \A p \in Offsets : g[p].next = h[p].next /\ g[p].len = h[p].len /\ g[p].prev = h[p].prev
    /\ \A p \in Offsets : p # o => g[p] = h[p]

LEMMA TakeWhole ==
    ASSUME NEW N \in SUBSET Offsets, NEW h \in [Offsets -> Hdr], NEW u \in Seq(Block),
           NEW d, Good(N, h, u, d), NEW o \in N, ~h[o].allocated, NEW len \in Lengths,
           len <= h[o].len, NEW v, v = More(u, o, len), NEW g \in [Offsets -> Hdr],
           Taken(h, g, o), NEW e, Clean(N, e)
    PROVE  v \in Seq(Block) /\ Good(N, g, v, e)
<1> USE DEF Taken
<1>0. Linked(N, h) /\ Rising(h) /\ h[0].prev = 0
  BY DEF Good
<1>1. o + HeaderSize \in Offsets
  BY <1>0, Room
<1>2. Linked(N, g) /\ Rising(g) /\ g[0].prev = 0
  <2>1. Linked(N, g)
    BY <1>0 DEF Linked
  <2>2. Rising(g)
    BY <1>0 DEF Rising
  <2> QED BY <1>0, <2>1, <2>2, Sizes
<1>3. v \in Seq(Block) /\ Held(N, g, v)
  <2>1. \A p \in N : p # o => g[p] = h[p]
    OBVIOUS
  <2>2. g[o].len >= len
    <3>1. g[o].len = h[o].len /\ h[o].len \in Nat /\ len \in Nat
      BY <1>0, Room
    <3> QED BY <3>1
  <2>3. N \subseteq N
    OBVIOUS
  <2>4. Held(N, h, u)
    BY DEF Good
  <2> HIDE DEF Taken
  <2>5. g[o].allocated
    BY DEF Taken
  <2>6. Keeps(N, h, N, g, o, len)
    BY <2>1, <2>2, <2>3, <2>5 DEF Keeps
  <2> QED BY <1>1, <2>4, <2>6, HeldMore
<1> QED BY <1>2, <1>3 DEF Good

\* The block is split, and the header of the rest made after it.
Plus(N, n) == N \cup {n}

Halved(h, g, o, n, len) ==
    /\ len + HeaderSize < h[o].len /\ n = o + HeaderSize + len
    /\ g[o].allocated /\ g[o].next = n /\ g[o].len = len /\ g[o].prev = h[o].prev
    /\ g[n].next = h[o].next /\ g[n].prev = o /\ g[n].len = h[o].len - len - HeaderSize
    /\ \A p \in Offsets : p # o /\ p # n => g[p] = h[p]

SplitGood(N, g, v, e) ==
    v \in Seq(Block) /\ \E M \in SUBSET Offsets : Good(M, g, v, e)

LEMMA Split ==
    ASSUME NEW N \in SUBSET Offsets, NEW h \in [Offsets -> Hdr], NEW u \in Seq(Block),
           NEW d, Good(N, h, u, d), NEW o \in N, ~h[o].allocated, NEW len \in Lengths,
           NEW v, v = More(u, o, len), NEW n,
           NEW g \in [Offsets -> Hdr], Halved(h, g, o, n, len),
           NEW e, Clean(Plus(N, n), e)
    PROVE  SplitGood(N, g, v, e)
<1> USE DEF Halved
<1> PICK M : M = N \cup {n} /\ M = Plus(N, n)
  BY DEF Plus
<1>0. len <= h[o].len
  <2>1. h[o].len \in Nat /\ len \in Nat
    BY Sizes DEF Hdr
  <2> QED BY <2>1, Sizes
<1>1. /\ o \in Nat /\ h[o].len \in Nat /\ o + h[o].len <= Size /\ len \in Nat /\ len >= 1
      /\ h[o].next \in Offsets /\ h[o].next \in N /\ h[o].next \in Nat
      /\ h[o].next # 0 => o + HeaderSize + h[o].len <= h[o].next
      /\ o + HeaderSize \in Offsets
  <2>1. Linked(N, h)
    BY DEF Good
  <2> HIDE DEF Halved
  <2> QED BY <1>0, <2>1, Room
<1>2. PICK x \in Nat, y \in Nat : x = h[o].next /\ y = h[o].len
  BY <1>1
<1>3. /\ n \in Nat /\ o < n /\ n <= Size + HeaderSize - 1 /\ y - len - HeaderSize \in Nat
      /\ x # 0 => n + HeaderSize + (y - len - HeaderSize) <= x
      /\ x # 0 => n < x
      /\ o + HeaderSize + len <= n /\ o + len <= Size /\ n + (y - len - HeaderSize) <= Size
  <2>1. len + HeaderSize < y /\ o + y <= Size /\ (x # 0 => o + HeaderSize + y <= x)
    BY <1>1, <1>2
  <2> QED BY <1>1, <2>1, Sizes
<1>4. n \in Offsets
  BY <1>3, Sizes
<1>5. \A p \in N : p <= o \/ p > n
  <2> SUFFICES ASSUME NEW p \in N, o < p PROVE p > n
    BY <1>1, Sizes
  <2>1. x # 0 /\ x <= p /\ p \in Nat
    BY <1>2, Sizes DEF Good, Linked
  <2> QED BY <1>3, <2>1
<1>6. n \notin N
  <2>1. ~(n <= o) /\ ~(n > n)
    BY <1>1, <1>3
  <2> QED BY <1>5, <2>1
<1>7. g[o].len = len /\ g[n].next = x /\ g[n].len = y - len - HeaderSize
  BY <1>2
<1>8. Linked(M, g)
  <2>1. ASSUME NEW p \in M
        PROVE  /\ g[p].next \in M
               /\ g[p].next # 0 => p + HeaderSize + g[p].len <= g[p].next
               /\ p + g[p].len <= Size
    <3>1. CASE p = o
      BY <1>3, <1>7, <3>1
    <3>2. CASE p = n
      <4>1. g[p].next \in M
        BY <1>1, <1>2, <1>7, <3>2
      <4> QED BY <1>3, <1>7, <3>2, <4>1
    <3>3. CASE p # o /\ p # n
      <4>1. p \in N /\ g[p] = h[p]
        BY <3>3
      <4> QED BY <4>1 DEF Good, Linked
    <3> QED BY <3>1, <3>2, <3>3
  <2>2. ASSUME NEW p \in M, NEW q \in M, p < q
        PROVE  g[p].next # 0 /\ g[p].next <= q
    <3>0. p \in Nat /\ q \in Nat
      BY <1>3, Sizes
    <3>1. CASE p = o
      <4>1. q > n \/ q = n
        BY <1>5, <2>2, <3>1, <1>1, <3>0
      <4> QED BY <1>1, <1>3, <3>0, <3>1, <4>1
    <3>2. CASE p = n
      <4>1. q \in N /\ o < q
        BY <1>1, <1>3, <2>2, <3>0, <3>2
      <4>2. h[o].next # 0 /\ h[o].next <= q
        BY <4>1 DEF Good, Linked
      <4> QED BY <1>2, <1>7, <3>2, <4>2
    <3>3. CASE p # o /\ p # n /\ q # n
      <4>1. p \in N /\ q \in N /\ g[p] = h[p]
        BY <3>3
      <4>2. h[p].next # 0 /\ h[p].next <= q
        BY <2>2, <4>1 DEF Good, Linked
      <4> QED BY <4>1, <4>2
    <3>4. CASE p # o /\ p # n /\ q = n
      <4>1. p \in N /\ p < o /\ g[p] = h[p]
        BY <1>1, <1>3, <1>5, <2>2, <3>0, <3>4
      <4>2. PICK w \in Nat : w = h[p].next
        <5>1. h[p].next \in Offsets
          BY <4>1 DEF Hdr
        <5> QED BY <5>1, Sizes
      <4>3. w # 0 /\ w <= o
        BY <4>1, <4>2 DEF Good, Linked
      <4> QED BY <1>1, <1>3, <3>4, <4>1, <4>2, <4>3
    <3> QED BY <3>1, <3>2, <3>3, <3>4
  <2>3. 0 \in M
    BY DEF Good, Linked
  <2> QED BY <2>1, <2>2, <2>3 DEF Linked
<1>9. Rising(g)
  <2> SUFFICES ASSUME NEW p \in Offsets PROVE g[p].next = 0 \/ g[p].next > p
    BY DEF Rising
  <2>1. CASE p = o
    BY <1>1, <1>3, <2>1
  <2>2. CASE p = n
    BY <1>3, <1>7, <2>2
  <2>3. CASE p # o /\ p # n
    BY <2>3 DEF Good, Rising
  <2> QED BY <2>1, <2>2, <2>3
<1>10. M \in SUBSET Offsets /\ N \subseteq M
  BY <1>4
<1>11. v \in Seq(Block) /\ Held(M, g, v)
  <2>1. \A p \in N : p # o => g[p] = h[p]
    BY <1>6
  <2>2. g[o].len >= len
    BY <1>1, <1>7
  <2>3. Held(N, h, u) /\ g[o].allocated
    BY DEF Good
  <2> HIDE DEF Halved
  <2>4. Keeps(N, h, M, g, o, len)
    BY <1>10, <2>1, <2>2, <2>3 DEF Keeps
  <2>5. o + HeaderSize \in Offsets /\ M \in SUBSET Offsets
    BY <1>1, <1>10
  <2> QED BY <2>3, <2>4, <2>5, HeldMore
<1>12. g[0].prev = 0
  <2>1. 0 # n /\ 0 \in Offsets
    BY <1>1, <1>3, Sizes
  <2> QED BY <2>1 DEF Good
<1>13. Good(M, g, v, e)
  BY <1>8, <1>9, <1>11, <1>12 DEF Good
<1> QED BY <1>10, <1>11, <1>13 DEF SplitGood

-----------------------------------------------------------------------------
(* FreeRef.                                                                *)

\* A block less for the caller: the i-th.
Shorter(u, i, w) ==
    /\ w \in Seq(Block) /\ Len(w) + 1 = Len(u) /\ Len(w) \in Nat
    /\ \A j \in 1..Len(w) : IF j < i THEN w[j] = u[j] ELSE w[j] = u[j + 1]

LEMMA GivenBack ==
    ASSUME NEW u \in Seq(Block), NEW i \in 1..Len(u)
    PROVE  Shorter(u, i, RemoveAt(u, i))
<1>1. PICK m \in Nat : m = Len(u)
  BY LenProperties
<1>2. i \in Nat /\ i >= 1 /\ i <= m
  BY <1>1
<1>3. PICK k \in Nat, l \in Nat : k = i - 1 /\ l = m - i /\ k + 1 = i /\ i + l = m
  <2>1. i - 1 \in Nat /\ m - i \in Nat /\ (i - 1) + 1 = i /\ i + (m - i) = m
    BY ONLY <1>2, m \in Nat
  <2> QED BY ONLY <2>1
<1>4. PICK a, b : a = SubSeq(u, 1, i - 1) /\ b = SubSeq(u, i + 1, Len(u)) /\ RemoveAt(u, i) = a \o b
  BY DEF RemoveAt
<1>5. \A j \in 1..m : u[j] \in Block
  BY <1>1
<1>6. a \in Seq(Block) /\ Len(a) = k /\ \A j \in 1..k : a[j] = u[j]
  <2>1. a = SubSeq(u, 1, k) /\ \A j \in 1..k : u[j] \in Block
    BY <1>2, <1>3, <1>4, <1>5
  <2>2. /\ SubSeq(u, 1, k) \in Seq(Block)
        /\ Len(SubSeq(u, 1, k)) = IF 1 <= k THEN k - 1 + 1 ELSE 0
        /\ \A j \in 1..(k - 1 + 1) : SubSeq(u, 1, k)[j] = u[1 + j - 1]
    BY <2>1, SubSeqProperties
  <2> QED BY <2>1, <2>2
<1>7. b \in Seq(Block) /\ Len(b) = l /\ \A j \in 1..l : b[j] = u[i + j]
  <2>1. b = SubSeq(u, i + 1, m) /\ \A j \in (i + 1)..m : u[j] \in Block
    BY <1>1, <1>2, <1>4, <1>5
  <2>2. /\ SubSeq(u, i + 1, m) \in Seq(Block)
        /\ Len(SubSeq(u, i + 1, m)) = IF i + 1 <= m THEN m - (i + 1) + 1 ELSE 0
        /\ \A j \in 1..(m - (i + 1) + 1) : SubSeq(u, i + 1, m)[j] = u[i + 1 + j - 1]
    BY <1>2, <2>1, SubSeqProperties
  <2>3. \A j \in 1..l : SubSeq(u, i + 1, m)[j] = u[i + j]
    <3> TAKE j \in 1..l
    <3>1. j \in 1..(m - (i + 1) + 1) /\ i + 1 + j - 1 = i + j
      BY <1>2, <1>3
    <3> QED BY <2>2, <3>1
  <2>4. Len(SubSeq(u, i + 1, m)) = l
    BY <1>2, <1>3, <2>2
  <2> QED BY <2>1, <2>2, <2>3, <2>4
<1>8. PICK w : w = a \o b
  OBVIOUS
<1>9. /\ w \in Seq(Block) /\ Len(w) = k + l
      /\ \A j \in 1..(k + l) : w[j] = IF j <= k THEN a[j] ELSE b[j - k]
  <2>1. /\ a \o b \in Seq(Block) /\ Len(a \o b) = Len(a) + Len(b)
        /\ \A j \in 1..(Len(a) + Len(b)) :
              (a \o b)[j] = IF j <= Len(a) THEN a[j] ELSE b[j - Len(a)]
    <3>1. a \in Seq(Block) /\ b \in Seq(Block)
      BY <1>6, <1>7
    <3> QED BY ONLY <3>1, ConcatProperties
  <2>2. Len(a) = k /\ Len(b) = l
    BY <1>6, <1>7
  <2> QED BY ONLY <1>8, <2>1, <2>2
<1>10. ASSUME NEW j \in 1..Len(w)
       PROVE  IF j < i THEN w[j] = u[j] ELSE w[j] = u[j + 1]
  <2>1. CASE j < i
    <3>1. j \in 1..k /\ j \in 1..(k + l) /\ j <= k
      BY <1>3, <1>9, <2>1
    <3> QED BY <1>6, <1>9, <2>1, <3>1
  <2>2. CASE ~(j < i)
    <3>1. j - k \in 1..l /\ j \in 1..(k + l) /\ ~(j <= k) /\ i + (j - k) = j + 1
      BY <1>3, <1>9, <2>2
    <3> QED BY <1>7, <1>9, <2>2, <3>1
  <2> QED BY <2>1, <2>2
<1>11. Len(w) + 1 = Len(u) /\ Len(w) \in Nat
  <2>1. (k + l) + 1 = m /\ k + l \in Nat
    BY ONLY <1>3, k \in Nat, l \in Nat, m \in Nat
  <2> QED BY <1>1, <1>9, <2>1
<1> QED BY <1>4, <1>8, <1>9, <1>10, <1>11 DEF Shorter

\* The marked headers other than o stay in the list.
Stays(N, h, M, g, o) ==
    \A p \in N : p # o /\ h[p].allocated => p \in M /\ g[p].allocated /\ g[p].len = h[p].len

LEMMA HeldLess ==
    ASSUME NEW N, NEW h, NEW u \in Seq(Block), Held(N, h, u), NEW i \in 1..Len(u),
           NEW o, o = Header(u, i), NEW w, Shorter(u, i, w),
           NEW M, NEW g, Stays(N, h, M, g, o)
    PROVE  Held(M, g, w)
<1> DEFINE K(j) == IF j < i THEN j ELSE j + 1
<1>1. Len(w) + 1 = Len(u) /\ Len(w) \in Nat /\ i \in Nat
  BY DEF Shorter
<1>2. \A j \in 1..Len(w) : K(j) \in 1..Len(u) /\ K(j) # i
  BY <1>1
<1>3. \A j, k \in 1..Len(w) : j # k => K(j) # K(k)
  BY <1>1
<1>4. \A j \in 1..Len(w) : w[j] = u[K(j)]
  BY DEF Shorter
<1> HIDE DEF K
<1>5. \A j \in 1..Len(w) : Header(w, j) = Header(u, K(j)) /\ Header(w, j) # o
  BY <1>2, <1>4 DEF Held, Header
<1>6. ASSUME NEW j \in 1..Len(w)
      PROVE  Header(w, j) \in M /\ g[Header(w, j)].allocated /\ g[Header(w, j)].len >= w[j].len
  <2>1. PICK q : q = Header(w, j) /\ q = Header(u, K(j)) /\ q # o /\ w[j].len = u[K(j)].len
    BY <1>4, <1>5
  <2>2. q \in N /\ h[q].allocated /\ h[q].len >= u[K(j)].len
    BY <1>2, <2>1 DEF Held
  <2>3. q \in M /\ g[q].allocated /\ g[q].len = h[q].len
    BY <2>1, <2>2 DEF Stays
  <2> QED BY <2>1, <2>2, <2>3
<1>7. ASSUME NEW j \in 1..Len(w), NEW k \in 1..Len(w), j # k PROVE Header(w, j) # Header(w, k)
  <2>1. K(j) # K(k) /\ K(j) \in 1..Len(u) /\ K(k) \in 1..Len(u)
    BY <1>2, <1>3, <1>7
  <2> QED BY <1>5, <2>1 DEF Held
<1> QED BY <1>6, <1>7 DEF Held

\* The block of o takes in the next one, whose header is at n.
Joined(h, g, o, n) ==
    /\ g[o].next = h[n].next /\ g[o].len = h[o].len + h[n].len
    /\ \A p \in Offsets : p # o => g[p].next = h[p].next /\ g[p].len = h[p].len

LEMMA LinkedLess ==
    ASSUME NEW N \in SUBSET Offsets, NEW h \in [Offsets -> Hdr], Linked(N, h), Rising(h),
           NEW o \in N, NEW n, n = h[o].next, n # 0,
           NEW g \in [Offsets -> Hdr], Joined(h, g, o, n), NEW M, M = N \ {n}
    PROVE  Linked(M, g) /\ Rising(g) /\ n \in N /\ n > o
<1> USE DEF Joined
<1>1. /\ o \in N /\ o \in Nat /\ o \in Offsets /\ n \in N /\ n \in Nat /\ n \in Offsets
      /\ \A p \in Offsets : p \in Nat /\ h[p].next \in Offsets /\ h[p].len \in Nat
  BY Sizes DEF Linked, Hdr
<1>2. PICK m \in Nat, y \in Nat, z \in Nat : m = h[n].next /\ y = h[o].len /\ z = h[n].len
  BY <1>1
<1>3. /\ o < n /\ (m = 0 \/ n < m) /\ m \in N
      /\ o + HeaderSize + y <= n /\ n + z <= Size
      /\ m # 0 => n + HeaderSize + z <= m
  BY <1>1, <1>2 DEF Linked, Rising
<1>4. /\ y + z \in Nat /\ o + (y + z) <= Size /\ (m # 0 => o + HeaderSize + (y + z) <= m)
      /\ m # n
  <2>1. HeaderSize \in Nat /\ Size \in Nat
    BY Sizes
  <2>2. m # n
    BY <1>1, <1>3
  <2>3. o + (y + z) <= Size
    <3>1. o + HeaderSize + y <= n /\ n + z <= Size /\ o \in Nat /\ n \in Nat
      BY <1>1, <1>3
    <3> QED BY ONLY <2>1, <3>1, y \in Nat, z \in Nat
  <2>4. ASSUME m # 0 PROVE o + HeaderSize + (y + z) <= m
    <3>1. n + HeaderSize + z <= m
      BY <1>3, <2>4
    <3>2. o + HeaderSize + y <= n /\ o \in Nat /\ n \in Nat
      BY <1>1, <1>3
    <3> QED BY ONLY <2>1, <3>1, <3>2, m \in Nat, y \in Nat, z \in Nat
  <2> QED BY <2>2, <2>3, <2>4
<1>5. /\ g[o].next = m /\ g[o].len = y + z
      /\ \A p \in Offsets : p # o => g[p].next = h[p].next /\ g[p].len = h[p].len
  BY <1>2
<1>6. ASSUME NEW p \in N, p # o, h[p].next = n PROVE FALSE
  <2>1. CASE p < o
    <3>1. h[p].next <= o
      BY <1>1, <2>1 DEF Linked
    <3> QED BY <1>1, <1>3, <1>6, <3>1
  <2>2. CASE p > o
    <3>1. n <= p
      BY <1>1, <2>2 DEF Linked
    <3>2. h[p].next = 0 \/ h[p].next > p
      BY DEF Rising
    <3> QED BY <1>1, <1>6, <3>1, <3>2
  <2> QED BY <1>1, <1>6, <2>1, <2>2
<1>7. Linked(M, g)
  <2>1. ASSUME NEW p \in M
        PROVE  /\ g[p].next \in M
               /\ g[p].next # 0 => p + HeaderSize + g[p].len <= g[p].next
               /\ p + g[p].len <= Size
    <3>1. CASE p = o
      BY <1>3, <1>4, <1>5, <3>1
    <3>2. CASE p # o
      <4>1. p \in N /\ p \in Offsets /\ g[p].next = h[p].next /\ g[p].len = h[p].len
        BY <1>5, <3>2
      <4>2. h[p].next \in N /\ h[p].next # n
        BY <1>6, <3>2, <4>1 DEF Linked
      <4> QED BY <4>1, <4>2 DEF Linked
    <3> QED BY <3>1, <3>2
  <2>2. ASSUME NEW p \in M, NEW q \in M, p < q
        PROVE  g[p].next # 0 /\ g[p].next <= q
    <3>0. p \in N /\ q \in N /\ q # n /\ p \in Offsets /\ h[p].next # 0 /\ h[p].next <= q
      BY <2>2 DEF Linked
    <3>1. CASE p = o
      <4>1. n < q
        BY <1>1, <3>0, <3>1
      <4>2. m # 0 /\ m <= q
        BY <1>1, <1>2, <3>0, <4>1 DEF Linked
      <4> QED BY <1>5, <3>1, <4>2
    <3>2. CASE p # o
      BY <1>5, <3>0, <3>2
    <3> QED BY <3>1, <3>2
  <2>3. 0 \in M
    BY DEF Linked
  <2> QED BY <2>1, <2>2, <2>3 DEF Linked
<1>8. Rising(g)
  <2> SUFFICES ASSUME NEW p \in Offsets PROVE g[p].next = 0 \/ g[p].next > p
    BY DEF Rising
  <2>1. CASE p = o
    BY <1>1, <1>3, <1>5, <2>1
  <2>2. CASE p # o
    BY <1>5, <2>2 DEF Rising
  <2> QED BY <2>1, <2>2
<1> QED BY <1>1, <1>3, <1>7, <1>8

\* What merging the next block does to each header.
LEMMA NextMerged ==
    ASSUME NEW h \in [Offsets -> Hdr], NEW o \in Offsets, NEW n \in Offsets, n = h[o].next,
           n # 0, ~h[n].allocated, n # o, NEW m \in Offsets, m = h[n].next, m # n, (m = 0 \/ m # o)
    PROVE  LET g == MergeNext(h, o)
           IN  /\ g \in [Offsets -> Hdr]
               /\ g[o].next = m /\ g[o].len = h[o].len + h[n].len
               /\ g[o].prev = h[o].prev /\ g[o].allocated = h[o].allocated
               /\ \A p \in Offsets : p # o => /\ g[p].next = h[p].next /\ g[p].len = h[p].len
                                              /\ g[p].allocated = h[p].allocated
               /\ \A p \in Offsets : p # o /\ (p # m \/ m = 0) => g[p] = h[p]
<1>1. PICK k : k = IF m # 0 THEN [h EXCEPT ![m].prev = o] ELSE h
  OBVIOUS
<1>2. /\ k \in [Offsets -> Hdr] /\ k[o] = h[o]
      /\ \A p \in Offsets : /\ k[p].next = h[p].next /\ k[p].len = h[p].len
                            /\ k[p].allocated = h[p].allocated
      /\ \A p \in Offsets : (p # m \/ m = 0) => k[p] = h[p]
  <2>1. CASE m = 0
    <3>1. k = h
      BY <1>1, <2>1
    <3> QED BY <3>1
  <2>2. CASE m # 0
    <3>1. PICK r \in Hdr : r = h[m]
      OBVIOUS
    <3>2. PICK x : x = [r EXCEPT !.prev = o]
      OBVIOUS
    <3>3. x \in Hdr /\ x.next = r.next /\ x.len = r.len /\ x.allocated = r.allocated
      BY <3>2 DEF Hdr
    <3>4. k = [h EXCEPT ![m] = x]
      BY <1>1, <2>2, <3>1, <3>2
    <3>5. k \in [Offsets -> Hdr] /\ k[m] = x /\ \A p \in Offsets : p # m => k[p] = h[p]
      BY <3>3, <3>4
    <3> QED BY <2>2, <3>1, <3>3, <3>5
  <2> QED BY <2>1, <2>2
<1>3. PICK r \in Hdr, len \in Nat : r = h[o] /\ len = h[o].len + h[n].len /\ h[o].len = r.len
  BY DEF Hdr
<1>4. PICK x : x = [r EXCEPT !.len = len, !.next = m]
  OBVIOUS
<1>5. x \in Hdr /\ x.next = m /\ x.len = len /\ x.prev = r.prev /\ x.allocated = r.allocated
  BY <1>4 DEF Hdr
<1>6. MergeNext(h, o) = [k EXCEPT ![o] = x]
  <2>1. MergeNext(h, o) = [k EXCEPT ![o].len = @ + h[n].len, ![o].next = m]
    BY <1>1 DEF MergeNext
  <2>2. [k EXCEPT ![o].len = @ + h[n].len, ![o].next = m] = [k EXCEPT ![o] = x]
    <3>1. k[o] = r /\ r.len + h[n].len = len
      BY <1>2, <1>3
    <3> QED BY <1>2, <1>4, <3>1
  <2> QED BY <2>1, <2>2
<1>7. PICK g : g = MergeNext(h, o) /\ g \in [Offsets -> Hdr] /\ g[o] = x
               /\ \A p \in Offsets : p # o => g[p] = k[p]
  BY <1>2, <1>5, <1>6
<1> QED BY <1>2, <1>3, <1>5, <1>7

\* What merging into the block before does to each header.
LEMMA PrevMerged ==
    ASSUME NEW h \in [Offsets -> Hdr], NEW o \in Offsets, NEW p \in Offsets, p = h[o].prev,
           p # 0, NEW taken, ~taken
    PROVE  LET g == MergePrev(h, o, taken)
           IN  /\ g \in [Offsets -> Hdr]
               /\ g[p].next = h[o].next /\ g[p].len = h[p].len + h[o].len
               /\ g[p].prev = h[p].prev
               /\ \A q \in Offsets : q # p => g[q] = h[q]
<1>1. PICK r \in Hdr, s \in Hdr : r = h[p] /\ s = h[o]
  OBVIOUS
<1>2. r.len + s.len \in Nat /\ s.next \in Offsets
  BY DEF Hdr
<1>3. PICK x : x = [r EXCEPT !.next = s.next, !.len = r.len + s.len]
  OBVIOUS
<1>4. x \in Hdr /\ x.next = s.next /\ x.len = r.len + s.len /\ x.prev = r.prev
  BY <1>2, <1>3 DEF Hdr
<1>5. MergePrev(h, o, taken) = [h EXCEPT ![p].next = h[o].next, ![p].len = @ + h[o].len]
  BY DEF MergePrev
<1>6. [h EXCEPT ![p].next = h[o].next, ![p].len = @ + h[o].len] = [h EXCEPT ![p] = x]
  BY <1>1, <1>3
<1>7. PICK g : g = MergePrev(h, o, taken) /\ g \in [Offsets -> Hdr] /\ g[p] = x
               /\ \A q \in Offsets : q # p => g[q] = h[q]
  BY <1>4, <1>5, <1>6
<1> QED BY <1>1, <1>4, <1>7

\* What the headers are when o is marked free and the next block, when it is free too,
\* is taken in: the list has lost at most that one, which comes after o.
Freed(N, h, o, M, g) ==
    /\ M \subseteq N /\ o \in M /\ g[o].prev = h[o].prev
    /\ Linked(M, g) /\ Rising(g) /\ g[0].prev = 0
    /\ \A p \in N : p # o => /\ g[p].next = h[p].next /\ g[p].len = h[p].len
                             /\ g[p].allocated = h[p].allocated
    /\ \A p \in N : p # o /\ (h[p].allocated \/ p < o) => p \in M

LEMMA NextTaken ==
    ASSUME NEW N \in SUBSET Offsets, NEW h \in [Offsets -> Hdr],
           Linked(N, h), Rising(h), h[0].prev = 0, NEW o \in N
    PROVE  \E g \in [Offsets -> Hdr] :
              /\ g = MergeNext([h EXCEPT ![o].allocated = FALSE], o)
              /\ \E M \in SUBSET Offsets : Freed(N, h, o, M, g)
<1>1. PICK r \in Hdr : r = h[o]
  OBVIOUS
<1>2. PICK x : x = [r EXCEPT !.allocated = FALSE]
  OBVIOUS
<1>3. x \in Hdr /\ ~x.allocated /\ x.next = r.next /\ x.len = r.len /\ x.prev = r.prev
  BY <1>2 DEF Hdr
<1>4. PICK f : f = [h EXCEPT ![o].allocated = FALSE] /\ f = [h EXCEPT ![o] = x]
  BY <1>1, <1>2
<1>5. /\ f \in [Offsets -> Hdr]
      /\ \A p \in Offsets : p # o => f[p] = h[p]
      /\ \A p \in Offsets : f[p].next = h[p].next /\ f[p].len = h[p].len /\ f[p].prev = h[p].prev
  BY <1>1, <1>3, <1>4
<1>6. PICK n \in Offsets : n = h[o].next /\ n = f[o].next
  BY <1>5 DEF Hdr
<1>7. n = 0 \/ n > o
  BY <1>6 DEF Rising
<1>8. \A p \in Offsets : p \in Nat
  BY Sizes
<1>9. o \in Nat /\ n \in Nat /\ o \in Offsets /\ 0 \in Offsets
  BY <1>8, Sizes
<1>10. Linked(N, f) /\ Rising(f) /\ f[0].prev = 0
  BY <1>5, <1>9 DEF Linked, Rising
<1>11. CASE n = 0 \/ f[n].allocated
  <2>1. f = MergeNext(f, o)
    BY <1>6, <1>11 DEF MergeNext
  <2>2. Freed(N, h, o, N, f)
    BY <1>5, <1>9, <1>10 DEF Freed
  <2> QED BY <1>4, <1>5, <2>1, <2>2
<1>12. CASE n # 0 /\ ~f[n].allocated
  <2>1. n # o /\ h[n] = f[n]
    BY <1>5, <1>7, <1>9, <1>12
  <2>2. PICK m \in Offsets : m = f[n].next
    BY <1>5 DEF Hdr
  <2>3. m # n /\ (m = 0 \/ m # o)
    <3>1. m = 0 \/ m > n
      BY <1>10, <2>2 DEF Rising
    <3>2. m \in Nat
      BY <1>8
    <3> QED BY <1>7, <1>9, <1>12, <3>1, <3>2
  <2>4. PICK g : g = MergeNext(f, o)
    OBVIOUS
  <2>5. /\ g \in [Offsets -> Hdr]
        /\ g[o].next = m /\ g[o].len = f[o].len + f[n].len /\ g[o].prev = f[o].prev
        /\ \A p \in Offsets : p # o => /\ g[p].next = f[p].next /\ g[p].len = f[p].len
                                       /\ g[p].allocated = f[p].allocated
        /\ \A p \in Offsets : p # o /\ (p # m \/ m = 0) => g[p] = f[p]
    BY <1>5, <1>6, <1>9, <1>12, <2>1, <2>2, <2>3, <2>4, NextMerged
  <2>6. Joined(f, g, o, n)
    BY <2>2, <2>5 DEF Joined
  <2>7. PICK M : M = N \ {n}
    OBVIOUS
  <2>8. Linked(M, g) /\ Rising(g) /\ n > o
    BY <1>5, <1>6, <1>10, <1>12, <2>5, <2>6, <2>7, LinkedLess
  <2>9. g[0].prev = 0
    BY <1>5, <1>9, <1>10, <2>5
  <2>10. M \subseteq N /\ M \in SUBSET Offsets /\ o \in M /\ g[o].prev = h[o].prev
    BY <1>5, <1>9, <2>1, <2>5, <2>7
  <2>11. \A p \in N : p # o => /\ g[p].next = h[p].next /\ g[p].len = h[p].len
                               /\ g[p].allocated = h[p].allocated
    BY <1>5, <2>5
  <2>12. ASSUME NEW p \in N, p # o, h[p].allocated \/ p < o PROVE p \in M
    <3>1. p # n
      <4>1. CASE p < o
        BY <1>8, <1>9, <2>8, <4>1
      <4>2. CASE h[p].allocated
        BY <1>12, <2>1, <4>2
      <4> QED BY <2>12, <4>1, <4>2
    <3> QED BY <2>7, <3>1
  <2>13. Freed(N, h, o, M, g)
    BY <2>8, <2>9, <2>10, <2>11, <2>12 DEF Freed
  <2> QED BY <1>4, <2>4, <2>5, <2>10, <2>13
<1> QED BY <1>11, <1>12

-----------------------------------------------------------------------------
(* The steps.                                                              *)

\* The blocks of the walk are in every set that the links do not leave.
LEMMA BlocksInList ==
    ASSUME hdr \in [Offsets -> Hdr], NEW N \in SUBSET Offsets, Linked(N, hdr), Rising(hdr)
    PROVE  Blocks \subseteq N
<1>1. 0 \in N /\ \A p \in N : hdr[p].next # 0 => hdr[p].next \in N
  BY DEF Linked
<1> QED BY <1>1, BlocksAre

\* The block found by AllocRef is one of them, free and long enough.
LEMMA FoundInList ==
    ASSUME hdr \in [Offsets -> Hdr], NEW N \in SUBSET Offsets, Linked(N, hdr), Rising(hdr),
           NEW o \in Offsets, NEW len, FirstFit(o, len)
    PROVE  o \in N /\ ~hdr[o].allocated /\ hdr[o].len >= len
<1>1. o \in Blocks /\ Fits(o, len)
  BY Zenon DEF FirstFit, Blocks
<1> QED BY <1>1, BlocksInList DEF Fits

LEMMA AllocStep ==
    ASSUME ListInv, ~misled, NEW len \in Lengths, AllocRef(len)
    PROVE  ListInv'
<1>1. PICK h \in [Offsets -> Hdr], u \in Seq(Block), d \in SUBSET Offsets :
         h = hdr /\ u = used /\ d = dirty
  BY DEF ListInv, TypeOK, Hdr, Block
<1>2. PICK N \in SUBSET Offsets : Good(N, h, u, d)
  BY <1>1 DEF ListInv
<1>21. Linked(N, h) /\ Rising(h) /\ Clean(N, d)
  BY <1>2 DEF Good
<1>3. PICK o \in Offsets :
         LET n == o + HeaderSize + len IN
         /\ FirstFit(o, len)
         /\ IF len + HeaderSize < h[o].len
            THEN \E a \in Stale(n) :
                    hdr' = [h EXCEPT
                       ![o] = [h[o] EXCEPT !.allocated = TRUE, !.next = n, !.len = len],
                       ![n] = [prev |-> o, next |-> h[o].next,
                               len |-> h[o].len - len - HeaderSize, allocated |-> a]]
            ELSE hdr' = [h EXCEPT ![o].allocated = TRUE]
         /\ used' = Append(u, [ref |-> o + HeaderSize, len |-> len])
         /\ dirty' = (d \cup ((o + HeaderSize)..(n - 1))) \ {n}
         /\ misled' = misled
  BY <1>1, Zenon DEF AllocRef
<1>4. o \in N /\ ~h[o].allocated /\ h[o].len >= len
  BY <1>1, <1>21, <1>3, FoundInList
<1>5. len <= h[o].len
  <2>1. h[o].len \in Nat /\ len \in Nat
    BY Sizes DEF Hdr
  <2> QED BY <1>4, <2>1
<1>6. /\ o \in Nat /\ h[o].len \in Nat /\ o + h[o].len <= Size /\ len \in Nat /\ len >= 1
      /\ h[o].next \in Offsets /\ o + HeaderSize \in Offsets
  BY <1>21, <1>4, <1>5, Room
<1>7. PICK n \in Nat : n = o + HeaderSize + len
  BY <1>6, Sizes
<1>8. dirty' \subseteq Offsets
  <2>1. dirty' = (d \cup ((o + HeaderSize)..(n - 1))) \ {n}
    BY <1>3, <1>7
  <2>2. ASSUME NEW x \in (o + HeaderSize)..(n - 1) PROVE x \in Offsets
    <3>1. HeaderSize \in Nat /\ Size \in Nat
      BY Sizes
    <3>2. x \in Nat /\ x <= Size + HeaderSize - 1
      <4>1. o + len <= Size
        BY <1>5, <1>6, <3>1
      <4> QED BY <1>6, <1>7, <3>1, <4>1
    <3> QED BY <3>2, Sizes
  <2> QED BY <2>1, <2>2
<1>81. PICK e : e = dirty' /\ e = (d \cup ((o + HeaderSize)..(n - 1))) \ {n}
  BY <1>3, <1>7
<1>82. Clean(N, e) /\ Clean(Plus(N, n), e)
  <2>1. \A q \in N : q <= o \/ q >= o + HeaderSize + len
    BY <1>21, <1>4, <1>5, NoHeader
  <2>2. ASSUME NEW q \in N PROVE q \notin (o + HeaderSize)..(n - 1)
    <3>1. q \in Nat /\ (q <= o \/ q >= n) /\ HeaderSize \in Nat /\ HeaderSize > 0
      BY <1>7, <2>1, Sizes
    <3> QED BY ONLY <1>6, <3>1, n \in Nat
  <2>3. \A q \in N : q \notin d
    BY <1>21 DEF Clean
  <2>4. \A q \in N : q \notin e
    BY <1>81, <2>2, <2>3
  <2>5. n \notin e
    BY <1>81
  <2> QED BY <2>4, <2>5 DEF Clean, Plus
<1>83. misled' = misled
  BY <1>3
<1>9. PICK v : v = used' /\ v = More(u, o, len)
  BY <1>3 DEF More
<1>10. CASE len + HeaderSize < h[o].len
  <2>1. PICK a \in Stale(n) :
           hdr' = [h EXCEPT
              ![o] = [h[o] EXCEPT !.allocated = TRUE, !.next = n, !.len = len],
              ![n] = [prev |-> o, next |-> h[o].next,
                      len |-> h[o].len - len - HeaderSize, allocated |-> a]]
    BY <1>3, <1>7, <1>10
  <2>2. n \in Offsets /\ n # o /\ h[o].len - len - HeaderSize \in Nat
    <3>1. HeaderSize \in Nat /\ Size \in Nat
      BY Sizes
    <3>2. n <= Size + HeaderSize - 1 /\ n # o /\ h[o].len - len - HeaderSize \in Nat
      BY <1>6, <1>7, <1>10, <3>1
    <3> QED BY <3>2, Sizes
  <2>3. a \in BOOLEAN
    <3>1. hdr[n].allocated \in BOOLEAN
      BY <1>1, <2>2 DEF Hdr
    <3> QED BY <3>1 DEF Stale
  <2>4. PICK r \in Hdr : r = h[o]
    BY <1>4
  <2>5. PICK x : x = [r EXCEPT !.allocated = TRUE, !.next = n, !.len = len]
    OBVIOUS
  <2>51. x \in Hdr /\ x.allocated /\ x.next = n /\ x.prev = r.prev /\ x.len = len
    <3>1. n \in Offsets /\ len \in Nat
      BY <1>6, <2>2
    <3> QED BY <2>5, <3>1 DEF Hdr
  <2>6. PICK y : y = [prev |-> o, next |-> h[o].next,
                      len |-> h[o].len - len - HeaderSize, allocated |-> a]
    OBVIOUS
  <2>7. y \in Hdr /\ y.next = h[o].next /\ y.prev = o /\ y.len = h[o].len - len - HeaderSize
    BY <1>6, <2>2, <2>3, <2>6 DEF Hdr
  <2>8. hdr' = [h EXCEPT ![o] = x, ![n] = y]
    BY <2>1, <2>4, <2>5, <2>6
  <2>9. PICK g \in [Offsets -> Hdr] :
           /\ g = hdr' /\ g[o] = x /\ g[n] = y /\ \A p \in Offsets : p # o /\ p # n => g[p] = h[p]
    BY <2>2, <2>51, <2>7, <2>8
  <2>10. Halved(h, g, o, n, len)
    BY <1>7, <1>10, <2>4, <2>51, <2>7, <2>9 DEF Halved
  <2>11. SplitGood(N, g, v, e)
    <3>1. o \in N /\ ~h[o].allocated /\ v = More(u, o, len)
      BY <1>4, <1>9
    <3> QED BY <1>2, <1>82, <2>10, <3>1, Split
  <2>12. v \in Seq(Block) /\ \E M \in SUBSET Offsets : Good(M, g, v, e)
    BY <2>11 DEF SplitGood
  <2> QED BY <1>8, <1>81, <1>83, <1>9, <2>9, <2>12 DEF ListInv, TypeOK, Hdr, Block
<1>11. CASE ~(len + HeaderSize < h[o].len)
  <2>1. hdr' = [h EXCEPT ![o].allocated = TRUE]
    BY <1>3, <1>11
  <2>2. PICK r \in Hdr : r = h[o]
    BY <1>4
  <2>3. PICK x \in Hdr : /\ x = [r EXCEPT !.allocated = TRUE]
                         /\ x.allocated /\ x.next = r.next /\ x.prev = r.prev /\ x.len = r.len
    BY <1>6, TakenHeader
  <2>4. hdr' = [h EXCEPT ![o] = x]
    BY <2>1, <2>2, <2>3
  <2>5. PICK g \in [Offsets -> Hdr] :
           g = hdr' /\ g[o] = x /\ \A p \in Offsets : p # o => g[p] = h[p]
    BY <2>4
  <2>6. Taken(h, g, o)
    BY <2>2, <2>3, <2>5 DEF Taken
  <2>7. v \in Seq(Block) /\ Good(N, g, v, e)
    BY <1>2, <1>82, <1>4, <1>5, <1>9, <2>3, <2>5, <2>6, TakeWhole
  <2> QED BY <1>8, <1>81, <1>83, <1>9, <2>5, <2>7 DEF ListInv, TypeOK, Hdr, Block
<1> QED BY <1>10, <1>11

LEMMA FreeStep ==
    ASSUME ListInv, ~misled, NEW i \in DOMAIN used, FreeRef(i)
    PROVE  ListInv'
<1>1. PICK h \in [Offsets -> Hdr], u \in Seq(Block), d \in SUBSET Offsets :
         h = hdr /\ u = used /\ d = dirty
  BY DEF ListInv, TypeOK, Hdr, Block
<1>2. PICK N \in SUBSET Offsets : Good(N, h, u, d)
  BY <1>1 DEF ListInv
<1>3. Linked(N, h) /\ Held(N, h, u) /\ Rising(h) /\ Clean(N, d) /\ h[0].prev = 0
  BY <1>2 DEF Good
<1>4. i \in 1..Len(u)
  BY <1>1
<1>5. PICK o \in N : o = Header(u, i)
  BY <1>3, <1>4 DEF Held
<1>6. PICK w : w = used' /\ Shorter(u, i, w)
  BY <1>1, <1>4, GivenBack DEF FreeRef
<1>7. w \in Seq(Block)
  BY <1>6 DEF Shorter
<1>8. PICK g \in [Offsets -> Hdr] :
         /\ g = MergeNext([h EXCEPT ![o].allocated = FALSE], o)
         /\ \E M \in SUBSET Offsets : Freed(N, h, o, M, g)
  BY <1>3, <1>5, NextTaken
<1>9. PICK M \in SUBSET Offsets : Freed(N, h, o, M, g)
  BY <1>8
<1>10. PICK p \in Offsets : p = h[o].prev /\ p = g[o].prev
  BY <1>5, <1>9 DEF Freed, Hdr
<1>11. PICK taken \in Stale(p) :
          /\ hdr' = MergePrev(g, o, taken)
          /\ misled' = (p # 0 /\ ~taken /\ ~Precedes(p, o))
  <2>1. o = used[i].ref - HeaderSize
    BY <1>1, <1>5 DEF Header
  <2>2. /\ hdr[o].prev = p
        /\ g = MergeNext([hdr EXCEPT ![o].allocated = FALSE], o)
    BY <1>1, <1>8, <1>10
  <2> QED BY <2>1, <2>2, Zenon DEF FreeRef
<1>12. dirty' = d
  BY <1>1 DEF FreeRef
<1>13. misled' \in BOOLEAN
  BY <1>11, Zenon
<1>14. o \in Offsets /\ o \in Nat /\ p \in Nat
  BY Sizes
<1>15. ASSUME NEW f \in [Offsets -> Hdr], f = hdr',
              ~misled' => \E K \in SUBSET Offsets : Good(K, f, w, d)
       PROVE  ListInv'
  BY <1>6, <1>7, <1>12, <1>13, <1>15 DEF ListInv, TypeOK, Hdr, Block
<1>16. ASSUME NEW f \in [Offsets -> Hdr], NEW K \in SUBSET Offsets, K \subseteq M,
              Linked(K, f), Rising(f), f[0].prev = 0, Stays(N, h, K, f, o)
       PROVE  Good(K, f, w, d)
  <2>1. Held(K, f, w)
    BY <1>3, <1>4, <1>5, <1>6, <1>16, HeldLess
  <2>2. Clean(K, d)
    BY <1>3, <1>9, <1>16 DEF Clean, Freed
  <2> QED BY <1>16, <2>1, <2>2 DEF Good
<1>17. CASE p = 0 \/ taken
  <2>1. hdr' = g
    BY <1>10, <1>11, <1>17 DEF MergePrev
  <2>2. Stays(N, h, M, g, o)
    BY <1>9 DEF Freed, Stays
  <2>3. Linked(M, g) /\ Rising(g) /\ g[0].prev = 0
    BY <1>9 DEF Freed
  <2>4. Good(M, g, w, d)
    BY <1>16, <2>2, <2>3
  <2> QED BY <1>15, <2>1, <2>4
<1>18. CASE p # 0 /\ ~taken
  <2>1. PICK f : f = MergePrev(g, o, taken)
    OBVIOUS
  <2>2. /\ f \in [Offsets -> Hdr] /\ f = hdr'
        /\ f[p].next = g[o].next /\ f[p].len = g[p].len + g[o].len
        /\ f[p].prev = g[p].prev
        /\ \A q \in Offsets : q # p => f[q] = g[q]
    BY <1>10, <1>11, <1>14, <1>18, <2>1, PrevMerged
  <2>3. ASSUME ~misled' PROVE \E K \in SUBSET Offsets : Good(K, f, w, d)
    <3>1. p \in Blocks /\ h[p].next = o
      BY <1>1, <1>11, <1>18, <2>3 DEF Precedes
    <3>2. p \in N
      BY <1>1, <1>3, <3>1, BlocksInList
    <3>3. ~h[p].allocated
      <4>1. p \notin dirty
        BY <1>1, <1>3, <3>2 DEF Clean
      <4> QED BY <1>1, <1>11, <1>18, <4>1 DEF Stale
    <3>4. o # 0
      BY <1>3, <1>10, <1>18
    <3>5. p < o
      BY <1>3, <3>1, <3>4 DEF Rising
    <3>6. p # o /\ p \in M /\ g[p].next = o
      BY <1>9, <1>14, <3>1, <3>2, <3>5 DEF Freed
    <3>7. Linked(M, g) /\ Rising(g) /\ g[0].prev = 0
      BY <1>9 DEF Freed
    <3>8. Joined(g, f, p, o)
      BY <2>2 DEF Joined
    <3>9. PICK K \in SUBSET Offsets : K = M \ {o}
      OBVIOUS
    <3>10. Linked(K, f) /\ Rising(f)
      BY <2>2, <3>4, <3>6, <3>7, <3>8, <3>9, LinkedLess
    <3>11. f[0].prev = 0
      BY <1>18, <2>2, <3>7, Sizes
    <3>12. Stays(N, h, K, f, o)
      <4> SUFFICES ASSUME NEW q \in N, q # o, h[q].allocated
                   PROVE  q \in K /\ f[q].allocated /\ f[q].len = h[q].len
        BY DEF Stays
      <4>1. q # p /\ f[q] = g[q]
        BY <2>2, <3>3
      <4>2. q \in M /\ g[q].allocated /\ g[q].len = h[q].len
        BY <1>9 DEF Freed
      <4> QED BY <3>9, <4>1, <4>2
    <3>13. K \subseteq M
      BY <3>9
    <3> QED BY <1>16, <2>2, <3>10, <3>11, <3>12, <3>13
  <2> QED BY <1>15, <2>2, <2>3
<1> QED BY <1>17, <1>18

-----------------------------------------------------------------------------
(* The theorems.                                                           *)

LEMMA InitList == Init => ListInv
<1> SUFFICES ASSUME Init PROVE ListInv
  OBVIOUS
<1>1. PICK h : /\ h = hdr
               /\ h = [o \in Offsets |-> [prev |-> 0, next |-> 0, len |-> IF o = 0 THEN Size ELSE 0,
                                          allocated |-> FALSE]]
  BY DEF Init
<1>2. /\ 0 \in Nat /\ \A o \in Offsets : (IF o = 0 THEN Size ELSE 0) \in Nat
  BY Sizes
<1>3. h \in [Offsets -> Hdr]
  BY <1>1, <1>2, Sizes DEF Hdr
<1>4. \A o \in Offsets : h[o].prev = 0 /\ h[o].next = 0 /\ (o = 0 => h[o].len = Size)
  BY <1>1
<1>5. PICK u : u = used /\ u = <<>> /\ u \in Seq(Block) /\ Len(u) = 0
  <2>1. used = <<>>
    BY DEF Init
  <2>2. <<>> \in Seq(Block) /\ Len(<<>>) = 0
    OBVIOUS
  <2> QED BY <2>1, <2>2
<1>6. PICK N \in SUBSET Offsets : N = {0}
  BY Sizes
<1>7. Linked(N, h)
  BY <1>4, <1>6, Sizes DEF Linked
<1>8. Held(N, h, u)
  BY <1>5 DEF Held
<1>9. PICK d : d = dirty /\ d = {} /\ misled = FALSE
  BY DEF Init
<1>10. Rising(h) /\ h[0].prev = 0 /\ Clean(N, d)
  BY <1>4, <1>9, Sizes DEF Rising, Clean
<1>11. Good(N, h, u, d)
  BY <1>7, <1>8, <1>10 DEF Good
<1> QED BY <1>1, <1>3, <1>5, <1>9, <1>11 DEF ListInv, TypeOK, Hdr, Block

LEMMA ListStep == ASSUME ListInv, [Next]_vars PROVE ListInv'
<1>1. CASE UNCHANGED vars
  BY <1>1 DEF vars, ListInv, TypeOK
<1>2. CASE Next
  <2>1. CASE Astray
    BY <2>1 DEF Astray, vars, ListInv, TypeOK
  <2> QED BY <1>2, <2>1, AllocStep, FreeStep DEF Next
<1> QED BY <1>1, <1>2

LEMMA BlockTypes ==
    ASSUME NEW u \in Seq(Block), NEW i \in 1..Len(u)
    PROVE  u[i].ref \in Nat /\ u[i].len \in Nat
<1>1. PICK b \in Block : b = u[i]
  BY ElementOfSeq
<1>2. b.ref \in Offsets /\ b.len \in Lengths
  BY DEF Block
<1>3. b.ref \in Nat
  BY <1>2, Sizes
<1>4. PICK l \in Lengths : l = b.len
  BY <1>2
<1>5. l \in Nat
  BY Sizes
<1> QED BY <1>1, <1>3, <1>4, <1>5

\* Where the bytes of a block the caller has are: after its header, before the next.
LEMMA Places ==
    ASSUME NEW N \in SUBSET Offsets, NEW h \in [Offsets -> Hdr], NEW u \in Seq(Block),
           Linked(N, h), Held(N, h, u), NEW i \in 1..Len(u)
    PROVE  LET o == Header(u, i)
           IN  /\ o \in N /\ o \in Nat /\ u[i].ref = o + HeaderSize /\ u[i].len \in Nat
               /\ u[i].ref + u[i].len - 1 <= Size + HeaderSize - 1
               /\ \A j \in 1..Len(u) : o < Header(u, j) => u[i].ref + u[i].len - 1 < Header(u, j)
<1>1. u[i].ref \in Nat /\ u[i].len \in Nat /\ HeaderSize \in Nat /\ Size \in Nat
  BY BlockTypes, Sizes
<1>2. PICK o : o = Header(u, i)
  OBVIOUS
<1>3. o \in N /\ o \in Offsets /\ h[o].len >= u[i].len
  BY <1>2 DEF Held
<1>4. o \in Nat /\ u[i].ref = o + HeaderSize
  <2>1. o = u[i].ref - HeaderSize
    BY <1>2 DEF Header
  <2> QED BY <1>1, <1>3, <2>1, Sizes
<1>5. PICK y \in Nat, n \in Nat : y = h[o].len /\ n = h[o].next
  BY <1>3, Sizes DEF Hdr
<1>6. o + y <= Size /\ u[i].len <= y /\ (n # 0 => o + HeaderSize + y <= n)
  BY <1>1, <1>3, <1>5 DEF Linked
<1>7. u[i].ref + u[i].len - 1 <= Size + HeaderSize - 1
  BY <1>1, <1>4, <1>6
<1>8. ASSUME NEW j \in 1..Len(u), o < Header(u, j) PROVE u[i].ref + u[i].len - 1 < Header(u, j)
  <2>1. PICK q : q = Header(u, j)
    OBVIOUS
  <2>2. q \in N /\ o < q
    BY <1>2, <1>8, <2>1 DEF Held
  <2>3. n # 0 /\ n <= q /\ q \in Nat
    BY <1>3, <1>5, <2>2, Sizes DEF Linked
  <2>4. u[i].ref + u[i].len - 1 < q
    BY <1>1, <1>4, <1>6, <2>3
  <2> QED BY <2>1, <2>4
<1> QED BY <1>1, <1>2, <1>3, <1>4, <1>7, <1>8

LEMMA ListDisjoint == ListInv => Disjoint
<1> SUFFICES ASSUME ListInv, ~misled PROVE Disjoint
  BY DEF Disjoint
<1>1. PICK h \in [Offsets -> Hdr], u \in Seq(Block) : h = hdr /\ u = used
  BY DEF ListInv, TypeOK, Hdr, Block
<1>2. PICK N \in SUBSET Offsets : Linked(N, h) /\ Held(N, h, u)
  BY <1>1 DEF ListInv, Good
<1>3. DOMAIN u = 1..Len(u) /\ Len(u) \in Nat
  BY LenProperties
<1>4. ASSUME NEW i \in 1..Len(u) PROVE Extent(u[i]) \subseteq Offsets
  <2>1. PICK o \in Nat : o = Header(u, i) /\ u[i].ref = o + HeaderSize /\ u[i].len \in Nat
                         /\ u[i].ref + u[i].len - 1 <= Size + HeaderSize - 1
    BY <1>2, Places
  <2>2. HeaderSize \in Nat /\ Size \in Nat
    BY Sizes
  <2> SUFFICES ASSUME NEW x \in Extent(u[i]) PROVE x \in Offsets
    OBVIOUS
  <2>3. x \in Nat /\ x <= Size + HeaderSize - 1
    <3>1. PICK l \in Nat : l = u[i].len /\ o + HeaderSize + l - 1 <= Size + HeaderSize - 1
      BY <2>1
    <3>2. x \in ((o + HeaderSize) - HeaderSize)..(o + HeaderSize + l - 1)
      BY <2>1, <3>1 DEF Extent
    <3> QED BY ONLY <2>2, <3>1, <3>2, o \in Nat
  <2> QED BY <2>3, Sizes
<1>5. ASSUME NEW i \in 1..Len(u), NEW j \in 1..Len(u), Header(u, i) < Header(u, j)
      PROVE  Extent(u[i]) \cap Extent(u[j]) = {}
  <2>1. /\ u[i].ref \in Nat /\ u[i].len \in Nat /\ u[j].ref \in Nat
        /\ u[i].ref + u[i].len - 1 < u[j].ref - HeaderSize
    <3>1. Header(u, j) = u[j].ref - HeaderSize
      BY DEF Header
    <3>2. u[i].ref \in Nat /\ u[i].len \in Nat /\ u[j].ref \in Nat
      BY BlockTypes
    <3> QED BY <1>2, <1>5, <3>1, <3>2, Places
  <2>2. HeaderSize \in Nat
    BY Sizes
  <2>3. PICK a \in Nat, b \in Nat, c \in Nat, d \in Nat :
           a = u[i].ref /\ b = u[i].len /\ c = u[j].ref /\ d = u[j].len
    BY BlockTypes
  <2>4. a + b - 1 < c - HeaderSize
    BY <2>1, <2>3
  <2>5. Extent(u[i]) = (a - HeaderSize)..(a + b - 1) /\ Extent(u[j]) = (c - HeaderSize)..(c + d - 1)
    BY <2>3 DEF Extent
  <2>6. ((a - HeaderSize)..(a + b - 1)) \cap ((c - HeaderSize)..(c + d - 1)) = {}
    BY ONLY <2>2, <2>4, a \in Nat, b \in Nat, c \in Nat, d \in Nat
  <2> QED BY <2>5, <2>6
<1>6. \A i, j \in 1..Len(u) : i # j => Extent(u[i]) \cap Extent(u[j]) = {}
  <2> SUFFICES ASSUME NEW i \in 1..Len(u), NEW j \in 1..Len(u), i # j
               PROVE  Extent(u[i]) \cap Extent(u[j]) = {}
    OBVIOUS
  <2>1. /\ Header(u, i) \in Nat /\ Header(u, j) \in Nat
        /\ Header(u, i) # Header(u, j)
    BY <1>2, Places DEF Held
  <2>2. Header(u, i) < Header(u, j) \/ Header(u, j) < Header(u, i)
    BY <2>1
  <2> QED BY <1>5, <2>2
<1> QED BY <1>1, <1>3, <1>4, <1>6 DEF Disjoint

\* The walk leaves no header of the list out: the links from the first one approach
\* each of them, and do not pass it.
LEMMA ListFound == ListInv => LiveInChain
<1> SUFFICES ASSUME ListInv, ~misled PROVE LiveInChain
  BY DEF LiveInChain
<1>1. PICK u \in Seq(Block) : u = used
  BY DEF ListInv, TypeOK, Block
<1>2. hdr \in [Offsets -> Hdr]
  BY DEF ListInv, TypeOK, Hdr
<1>3. PICK N \in SUBSET Offsets : Linked(N, hdr) /\ Held(N, hdr, u) /\ Rising(hdr)
  BY <1>1 DEF ListInv, Good
<1>4. PICK B \in SUBSET Offsets :
         /\ B = Blocks /\ 0 \in B /\ B \subseteq N
         /\ \A p \in B : hdr[p].next # 0 => hdr[p].next \in B
  BY <1>2, <1>3, BlocksAre, BlocksInList
<1>5. \A p \in Offsets : p \in Nat
  BY Sizes
<1> DEFINE T == {m \in Nat : \A b \in B : \A x \in N : b + m = x => x \in B}
<1>6. ASSUME NEW m \in Nat, \A k \in 0..(m - 1) : k \in T PROVE m \in T
  <2> SUFFICES ASSUME NEW b \in B, NEW x \in N, b + m = x PROVE x \in B
    OBVIOUS
  <2>1. b \in Nat /\ x \in Nat /\ b \in N
    BY <1>4, <1>5
  <2>2. CASE m = 0
    BY <2>1, <2>2
  <2>3. CASE m > 0
    <3>1. PICK n \in B : n = hdr[b].next /\ n # 0 /\ n <= x /\ n > b
      <4>1. b < x
        BY <2>1, <2>3
      <4> QED BY <1>3, <1>4, <2>1, <4>1 DEF Linked, Rising
    <3>2. PICK k \in 0..(m - 1) : n + k = x
      <4>1. n \in Nat
        BY <1>5
      <4>2. x - n \in Nat /\ n + (x - n) = x
        BY ONLY <2>1, <3>1, <4>1
      <4>3. x - n <= m - 1
        BY ONLY <2>1, <3>1, <4>1, b + m = x, m \in Nat
      <4>4. x - n \in 0..(m - 1)
        BY ONLY <4>2, <4>3, m \in Nat
      <4> QED BY <4>2, <4>4
    <3>3. k \in T
      BY <1>6
    <3> QED BY <3>2, <3>3
  <2> QED BY <2>2, <2>3
<1>7. T = Nat
  <2>1. T \in SUBSET Nat
    OBVIOUS
  <2> HIDE DEF T
  <2> QED BY <1>6, <2>1, SetInduction
<1>8. ASSUME NEW x \in N PROVE x \in B
  <2>1. x \in T /\ 0 + x = x
    BY <1>5, <1>7
  <2> QED BY <1>4, <2>1
<1>9. DOMAIN u = 1..Len(u)
  BY LenProperties
<1>10. ASSUME NEW i \in 1..Len(u)
      PROVE  Header(u, i) \in B /\ hdr[Header(u, i)].allocated /\ hdr[Header(u, i)].len >= u[i].len
  BY <1>3, <1>8 DEF Held
<1> QED BY <1>1, <1>4, <1>9, <1>10 DEF LiveInChain, Header

LEMMA ListHolds == Spec => []ListInv
<1>1. Init => ListInv
  BY InitList
<1>2. ListInv /\ [Next]_vars => ListInv'
  BY ListStep
<1> QED BY <1>1, <1>2, PTL DEF Spec

\* The links and the lengths in the headers stay inside the array, whatever AllocRef
\* splits and FreeRef joins, in whatever order the blocks are freed: the step of a free
\* that follows a stale prev included.
THEOREM TypeCorrect == Spec => []TypeOK
<1>1. ListInv => TypeOK
  BY DEF ListInv
<1> QED BY <1>1, ListHolds, PTL

\* The blocks AllocRef gives, with their headers, never overlap and are inside the
\* array, in whatever order they are freed, until a free merges through a prev that is
\* stale: that is the only way FreeRef and AllocRef go wrong.
THEOREM BlocksApart == Spec => []Disjoint
BY ListHolds, ListDisjoint, PTL

\* A block the caller has is met by the walk of AllocRef from the first header, marked
\* as allocated and with its length, in whatever order the blocks are freed, until a free
\* merges through a prev that is stale.
THEOREM BlocksFound == Spec => []LiveInChain
BY ListHolds, ListFound, PTL
=============================================================================
