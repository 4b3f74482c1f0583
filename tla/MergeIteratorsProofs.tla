------------------------ MODULE MergeIteratorsProofs ------------------------
(***************************************************************************)
(* What holds of MergeIterators for every number of chunks, every content  *)
(* of theirs, and every place where a chunk may be cut.                    *)
(***************************************************************************)
EXTENDS MergeIterators, FiniteSets, SequenceTheorems, WellFoundedInduction, TLAPS

-----------------------------------------------------------------------------
(* Induction, and the functions defined by it.                             *)

\* A set of numbers with 0 and the successor of each of its members has them all.
LEMMA SetInduction ==
    ASSUME NEW T \in SUBSET Nat, 0 \in T, \A m \in T : m + 1 \in T
    PROVE  T = Nat
<1> SUFFICES ASSUME Nat \ T # {} PROVE FALSE
  OBVIOUS
<1> DEFINE R == OpToRel(<, Nat)
           Bad == Nat \ T
<1>1. IsWellFoundedOn(R, Nat)
  BY NatLessThanWellFounded
<1>2. \E x \in Bad : \A y \in Bad : ~(<<y, x>> \in R)
  <2>1. Bad \subseteq Nat /\ Bad # {}
    OBVIOUS
  <2> HIDE DEF R, Bad
  <2> QED BY <1>1, <2>1, WFMin
<1>3. PICK x \in Bad : \A y \in Bad : ~(<<y, x>> \in R)
  BY <1>2
<1>4. x \in Nat /\ x # 0 /\ x - 1 \in Nat
  OBVIOUS
<1>5. x - 1 \in Bad
  <2>1. x - 1 \in T => (x - 1) + 1 \in T
    OBVIOUS
  <2>2. (x - 1) + 1 = x
    BY <1>4
  <2> QED BY <1>4, <2>1, <2>2
<1>6. <<x - 1, x>> \in R
  BY <1>4 DEF OpToRel
<1> QED BY <1>3, <1>5, <1>6

\* Levels(n) is what its definition says of it.
LEMMA LevelsDef ==
    ASSUME NEW n \in Nat
    PROVE  Levels(n) = [k \in 0..n |-> IF k = 0 THEN [i \in 1..n |-> <<i>>]
                                       ELSE Paired(Levels(n)[k - 1])]
<1> DEFINE Base == [i \in 1..n |-> <<i>>]
           Is(f, m) == f = [k \in 0..m |-> IF k = 0 THEN Base ELSE Paired(f[k - 1])]
           T == {m \in Nat : \E f : Is(f, m)}
<1>1. 0 \in T
  <2>1. Is([k \in 0..0 |-> Base], 0)
    OBVIOUS
  <2> QED BY <2>1
<1>2. ASSUME NEW m \in T PROVE m + 1 \in T
  <2>1. PICK f : Is(f, m)
    OBVIOUS
  <2> DEFINE g == [k \in 0..(m + 1) |-> IF k = m + 1 THEN Paired(f[m]) ELSE f[k]]
  <2>2. \A k \in 0..m : f[k] = IF k = 0 THEN Base ELSE Paired(f[k - 1])
    BY <2>1
  <2>3. \A k \in 0..(m + 1) : g[k] = IF k = 0 THEN Base ELSE Paired(g[k - 1])
    BY <2>2
  <2>4. g = [k \in 0..(m + 1) |-> g[k]]
    OBVIOUS
  <2> HIDE DEF g, Base
  <2>5. g = [k \in 0..(m + 1) |-> IF k = 0 THEN Base ELSE Paired(g[k - 1])]
    BY <2>3, <2>4
  <2> QED BY <2>5
<1>3. T = Nat
  <2>1. T \in SUBSET Nat
    OBVIOUS
  <2> HIDE DEF T
  <2> QED BY <1>1, <1>2, <2>1, SetInduction
<1>4. \E f : Is(f, n)
  BY <1>3
<1> QED BY <1>4 DEF Levels

-----------------------------------------------------------------------------
(* The tree.                                                               *)

Members(level) == {level[i] : i \in 1..Len(level)}

\* What the iterators made up to a level are: readers, and pairs of different ones of
\* them that are no longer in the level; none is in two pairs.
Forest(made, level, n) ==
    /\ level \in Seq(made) /\ Len(level) >= 1
    /\ \A i, j \in 1..Len(level) : level[i] = level[j] => i = j
    /\ \A p \in made : \/ \E i \in 1..n : p = <<i>>
                       \/ \E a, b \in made \ Members(level) : a # b /\ p = <<a, b>>
    /\ \A a, b, c, d \in made :
          <<a, b>> \in made /\ <<c, d>> \in made /\ {a, b} \cap {c, d} # {} => a = c /\ b = d

\* Pairing a level adds the pairs and keeps it so.
LEMMA PairingStep ==
    ASSUME NEW made, NEW level, NEW n \in Nat, Forest(made, level, n)
    PROVE  /\ Forest(made \cup Members(Paired(level)), Paired(level), n)
           /\ Len(Paired(level)) = (Len(level) + 1) \div 2
<1> DEFINE len == Len(level)
           half == (len + 1) \div 2
           up == Paired(level)
           all == made \cup Members(up)
<1>1. level \in Seq(made) /\ len \in Nat /\ len >= 1 /\ \A i \in 1..len : level[i] \in made
  BY DEF Forest
<1>0. len \in 1..len /\ \A x, y \in 1..len : level[x] = level[y] => x = y
  BY <1>1 DEF Forest
<1>2. half \in Nat /\ half >= 1 /\ 2 * half >= len /\ 2 * half <= len + 1
  BY <1>1
<1>3. \A i \in 1..half :
         /\ 2 * i <= len => /\ 2 * i - 1 \in 1..len /\ 2 * i \in 1..len
                            /\ up[i] = <<level[2 * i - 1], level[2 * i]>>
         /\ 2 * i > len => i = half /\ up[i] = level[len]
  BY <1>1, <1>2 DEF Paired
<1>4. up = [i \in 1..half |-> up[i]]
  BY DEF Paired
<1> HIDE DEF up, half
<1>5. up \in Seq({up[i] : i \in 1..half}) /\ Len(up) = half
  BY <1>2, <1>4
<1>6. Members(up) = {up[i] : i \in 1..half}
  BY <1>5 DEF Members
<1>7. up \in Seq(all)
  <2>1. \A i \in 1..half : up[i] \in all
    BY <1>6
  <2> HIDE DEF all
  <2>2. [i \in 1..half |-> up[i]] \in Seq(all)
    BY <1>2, <2>1
  <2> QED BY <1>4, <2>2
<1>8. \A a, b \in Members(level) : <<a, b>> \notin made
  <2> SUFFICES ASSUME NEW a \in Members(level), NEW b \in Members(level), <<a, b>> \in made
               PROVE  FALSE
    OBVIOUS
  <2>1. \E c, d \in made \ Members(level) : c # d /\ <<a, b>> = <<c, d>>
    BY DEF Forest
  <2> QED BY <2>1
<1>9. ASSUME NEW q \in Members(up)
      PROVE  \/ \E i \in 1..len : 2 * i <= len /\ q = <<level[2 * i - 1], level[2 * i]>>
             \/ q = level[len] /\ q \in Members(level) /\ q \in made /\ 2 * half > len
  <2>1. PICK i \in 1..half : q = up[i]
    BY <1>6
  <2> QED BY <1>1, <1>2, <1>3, <2>1, SMTT(30) DEF Members
<1>10. \A i \in 1..len : level[i] \in Members(level)
  BY DEF Members
<1>11. ASSUME NEW q \in made, q \in Members(up) PROVE q = level[len] /\ 2 * half > len
  <2>1. ASSUME NEW i \in 1..len, 2 * i <= len, q = <<level[2 * i - 1], level[2 * i]>> PROVE FALSE
    <3>1. 2 * i - 1 \in 1..len /\ 2 * i \in 1..len
      BY <1>1, <2>1
    <3> QED BY <1>8, <1>10, <2>1, <3>1
  <2> QED BY <1>9, <1>11, <2>1
<1>12. ASSUME NEW i \in 1..half, NEW j \in 1..half, up[i] = up[j] PROVE i = j
  <2>1. CASE 2 * i <= len /\ 2 * j <= len
    <3>1. level[2 * i] = level[2 * j] /\ 2 * i \in 1..len /\ 2 * j \in 1..len
      BY <1>3, <1>12, <2>1
    <3>2. 2 * i = 2 * j
      BY <3>1 DEF Forest
    <3> QED BY <3>2
  <2>2. CASE 2 * i > len /\ 2 * j > len
    BY <1>3, <2>2
  <2>3. ASSUME NEW k \in 1..half, 2 * k <= len, up[k] = level[len] PROVE FALSE
    <3>1. level[len] \in made /\ level[len] = <<level[2 * k - 1], level[2 * k]>>
          /\ 2 * k - 1 \in 1..len /\ 2 * k \in 1..len
      BY <1>1, <1>3, <2>3
    <3> QED BY <1>8, <1>10, <3>1
  <2>4. (2 * i <= len /\ 2 * j > len) => FALSE
    BY <1>3, <1>12, <2>3
  <2>5. (2 * i > len /\ 2 * j <= len) => FALSE
    BY <1>3, <1>12, <2>3
  <2>6. i \in Nat /\ j \in Nat
    OBVIOUS
  <2> QED BY <1>1, <2>1, <2>2, <2>4, <2>5, <2>6
<1>13. ASSUME NEW p \in all
       PROVE  \/ \E i \in 1..n : p = <<i>>
              \/ \E a, b \in all \ Members(up) : a # b /\ p = <<a, b>>
  <2>1. CASE p \in made
    <3>1. CASE \E i \in 1..n : p = <<i>>
      BY <3>1
    <3>2. CASE \E a, b \in made \ Members(level) : a # b /\ p = <<a, b>>
      <4>1. PICK a \in made \ Members(level), b \in made \ Members(level) : a # b /\ p = <<a, b>>
        BY <3>2
      <4>2. a \notin Members(up) /\ b \notin Members(up)
        BY <1>1, <1>10, <1>11
      <4> QED BY <4>1, <4>2
    <3> QED BY <2>1, <3>1, <3>2 DEF Forest
  <2>2. CASE p \notin made
    <3>1. PICK i \in 1..len : 2 * i <= len /\ p = <<level[2 * i - 1], level[2 * i]>>
      BY <1>9, <2>2
    <3>2. 2 * i - 1 \in 1..len /\ 2 * i \in 1..len
      BY <1>1, <3>1
    <3> DEFINE a == level[2 * i - 1]
               b == level[2 * i]
    <3>3. a # b
      <4>1. a = b => 2 * i - 1 = 2 * i
        BY <3>2 DEF Forest
      <4> QED BY <3>2, <4>1
    <3>4. a \in made /\ b \in made
      BY <1>1, <3>2
    <3>5. a \notin Members(up)
      <4>1. a \in Members(up) => a = level[len] /\ 2 * half > len
        BY <1>11, <3>4
      <4>2. a = level[len] => 2 * i - 1 = len
        BY <1>0, <3>2
      <4>3. 2 * i - 1 # len
        BY <1>1, <3>1
      <4> QED BY <4>1, <4>2, <4>3
    <3>6. b \notin Members(up)
      <4>1. b \in Members(up) => b = level[len] /\ 2 * half > len
        BY <1>11, <3>4
      <4>2. b = level[len] => 2 * i = len
        BY <1>0, <3>2
      <4>3. 2 * half > len => 2 * half = len + 1
        BY <1>1, <1>2
      <4> QED BY <1>1, <1>2, <3>1, <4>1, <4>2, <4>3
    <3> QED BY <3>1, <3>3, <3>4, <3>5, <3>6
  <2> QED BY <2>1, <2>2
<1>14. ASSUME NEW a \in all, NEW b \in all, NEW c \in all, NEW d \in all,
              <<a, b>> \in all, <<c, d>> \in all, {a, b} \cap {c, d} # {}
       PROVE  a = c /\ b = d
  <2>1. ASSUME NEW x, NEW y, <<x, y>> \in all, <<x, y>> \notin made
        PROVE  \E i \in 1..len : /\ 2 * i <= len /\ 2 * i \in 1..len /\ 2 * i - 1 \in 1..len
                                 /\ x = level[2 * i - 1] /\ y = level[2 * i]
    <3>1. PICK i \in 1..len : 2 * i <= len /\ <<x, y>> = <<level[2 * i - 1], level[2 * i]>>
      BY <1>9, <2>1
    <3> QED BY <1>1, <3>1
  <2>2. ASSUME NEW x, NEW y, <<x, y>> \in made
        PROVE  x \in made \ Members(level) /\ y \in made \ Members(level)
    <3>1. (\E i \in 1..n : <<x, y>> = <<i>>)
          \/ \E e, f \in made \ Members(level) : e # f /\ <<x, y>> = <<e, f>>
      BY <2>2 DEF Forest
    <3> QED BY <3>1
  <2>3. CASE <<a, b>> \in made /\ <<c, d>> \in made
    BY <1>14, <2>2, <2>3 DEF Forest
  <2>4. CASE <<a, b>> \in made /\ <<c, d>> \notin made
    <3>1. c \in Members(level) /\ d \in Members(level)
      BY <1>10, <1>14, <2>1, <2>4
    <3> QED BY <1>14, <2>2, <2>4, <3>1
  <2>5. CASE <<a, b>> \notin made /\ <<c, d>> \in made
    <3>1. a \in Members(level) /\ b \in Members(level)
      BY <1>10, <1>14, <2>1, <2>5
    <3> QED BY <1>14, <2>2, <2>5, <3>1
  <2>6. CASE <<a, b>> \notin made /\ <<c, d>> \notin made
    <3>1. PICK i \in 1..len : /\ 2 * i <= len /\ 2 * i \in 1..len /\ 2 * i - 1 \in 1..len
                              /\ a = level[2 * i - 1] /\ b = level[2 * i]
      BY <1>14, <2>1, <2>6
    <3>2. PICK j \in 1..len : /\ 2 * j <= len /\ 2 * j \in 1..len /\ 2 * j - 1 \in 1..len
                              /\ c = level[2 * j - 1] /\ d = level[2 * j]
      BY <1>14, <2>1, <2>6
    <3>3. a = c \/ a = d \/ b = c \/ b = d
      BY <1>14
    <3>4. 2 * i - 1 = 2 * j - 1 \/ 2 * i - 1 = 2 * j \/ 2 * i = 2 * j - 1 \/ 2 * i = 2 * j
      BY <3>1, <3>2, <3>3 DEF Forest
    <3>5. i = j
      BY <3>4
    <3> QED BY <3>1, <3>2, <3>5
  <2> QED BY <2>3, <2>4, <2>5, <2>6
<1>15. Len(up) >= 1 /\ \A i, j \in 1..Len(up) : up[i] = up[j] => i = j
  BY <1>2, <1>5, <1>12
<1>16. Forest(all, up, n)
  BY <1>7, <1>13, <1>14, <1>15 DEF Forest
<1> QED BY <1>5, <1>16 DEF half, up

\* What the levels up to one have made.
Made(n, k) == UNION {Members(Levels(n)[j]) : j \in 0..k}

\* Every level is paired properly, and each is half of the one before, or has one
\* iterator.
LEMMA LevelsForest ==
    ASSUME NEW n \in Nat \ {0}, NEW k \in 0..n
    PROVE  /\ Forest(Made(n, k), Levels(n)[k], n)
           /\ Len(Levels(n)[k]) = 1 \/ Len(Levels(n)[k]) <= n - k
<1> DEFINE Good(i) == /\ Forest(Made(n, i), Levels(n)[i], n)
                      /\ Len(Levels(n)[i]) = 1 \/ Len(Levels(n)[i]) <= n - i
           T == {i \in Nat : i <= n => Good(i)}
<1>0. \A i \in 0..n : Levels(n)[i] = IF i = 0 THEN [j \in 1..n |-> <<j>>]
                                     ELSE Paired(Levels(n)[i - 1])
  <2>1. Levels(n) = [i \in 0..n |-> IF i = 0 THEN [j \in 1..n |-> <<j>>]
                                    ELSE Paired(Levels(n)[i - 1])]
    BY LevelsDef
  <2> DEFINE F == Levels(n)
  <2> HIDE DEF F
  <2>2. F = [i \in 0..n |-> IF i = 0 THEN [j \in 1..n |-> <<j>>] ELSE Paired(F[i - 1])]
    BY <2>1 DEF F
  <2>3. \A i \in 0..n : F[i] = IF i = 0 THEN [j \in 1..n |-> <<j>>] ELSE Paired(F[i - 1])
    BY <2>2
  <2> QED BY <2>3 DEF F
<1>00. Levels(n)[0] = [j \in 1..n |-> <<j>>]
  <2>1. 0 \in 0..n
    OBVIOUS
  <2> QED BY <1>0, <2>1
<1>01. ASSUME NEW i \in Nat, i + 1 <= n PROVE Levels(n)[i + 1] = Paired(Levels(n)[i])
  <2>1. i + 1 \in 0..n /\ i + 1 # 0 /\ (i + 1) - 1 = i
    BY <1>01
  <2> QED BY <1>0, <2>1
<1>1. Good(0)
  <2> DEFINE L == [j \in 1..n |-> <<j>>]
  <2>1. Levels(n)[0] = L
    BY <1>00
  <2>2. L \in Seq({<<j>> : j \in 1..n}) /\ Len(L) = n
    OBVIOUS
  <2>3. Members(L) = {<<j>> : j \in 1..n}
    BY <2>2 DEF Members
  <2>4. Made(n, 0) = Members(L)
    <3>1. 0..0 = {0}
      OBVIOUS
    <3> QED BY <2>1, <3>1 DEF Made
  <2>5. \A i, j \in 1..Len(L) : L[i] = L[j] => i = j
    <3>1. \A i, j \in 1..n : <<i>> = <<j>> => i = j
      OBVIOUS
    <3> QED BY <2>2, <3>1
  <2>6. \A p \in Made(n, 0) : \E i \in 1..n : p = <<i>>
    BY <2>3, <2>4
  <2>7. \A a, b : <<a, b>> \notin Made(n, 0)
    <3>1. \A a, b, i : <<a, b>> # <<i>>
      OBVIOUS
    <3> QED BY <2>6, <3>1
  <2>8. L \in Seq(Made(n, 0)) /\ Len(L) >= 1
    BY <2>2, <2>3, <2>4
  <2>9. Forest(Made(n, 0), L, n)
    BY <2>5, <2>6, <2>7, <2>8 DEF Forest
  <2> QED BY <2>1, <2>2, <2>9
<1>2. ASSUME NEW i \in T PROVE i + 1 \in T
  <2> SUFFICES ASSUME i + 1 <= n PROVE Good(i + 1)
    OBVIOUS
  <2>1. i \in Nat /\ i <= n /\ i + 1 \in 0..n /\ Good(i)
    OBVIOUS
  <2>2. Levels(n)[i + 1] = Paired(Levels(n)[i])
    BY <1>01, <2>1
  <2>3. Made(n, i + 1) = Made(n, i) \cup Members(Levels(n)[i + 1])
    <3>1. 0..(i + 1) = (0..i) \cup {i + 1}
      BY <2>1
    <3> QED BY <3>1 DEF Made
  <2>4. Forest(Made(n, i + 1), Levels(n)[i + 1], n)
        /\ Len(Levels(n)[i + 1]) = (Len(Levels(n)[i]) + 1) \div 2
    <3> DEFINE made == Made(n, i)
               level == Levels(n)[i]
    <3>1. Forest(made, level, n) /\ n \in Nat
      BY <2>1
    <3> HIDE DEF made, level
    <3>2. /\ Forest(made \cup Members(Paired(level)), Paired(level), n)
          /\ Len(Paired(level)) = (Len(level) + 1) \div 2
      BY <3>1, PairingStep
    <3> QED BY <2>2, <2>3, <3>2 DEF made, level
  <2>5. Len(Levels(n)[i]) \in Nat /\ Len(Levels(n)[i]) >= 1
    BY <2>1 DEF Forest
  <2>6. Len(Levels(n)[i + 1]) = 1 \/ Len(Levels(n)[i + 1]) <= n - (i + 1)
    <3> DEFINE a == Len(Levels(n)[i])
               b == Len(Levels(n)[i + 1])
    <3>1. a \in Nat /\ a >= 1 /\ (a = 1 \/ a <= n - i) /\ b = (a + 1) \div 2
      BY <2>1, <2>4, <2>5
    <3> HIDE DEF a, b
    <3>2. b = 1 \/ b <= n - (i + 1)
      BY <2>1, <3>1
    <3> QED BY <3>2 DEF a, b
  <2> QED BY <2>4, <2>6
<1>3. T = Nat
  <2>1. T \in SUBSET Nat /\ 0 \in T
    BY <1>1
  <2> HIDE DEF T
  <2> QED BY <1>2, <2>1, SetInduction
<1> QED BY <1>3

\* The tree is one: its pairs are of two different iterators, an iterator has one place
\* in one pair, and the top of it has none.
LEMMA TreeFacts ==
    ASSUME NEW n \in Nat \ {0}
    PROVE  /\ Top(n) \in Tree(n)
           /\ \A x \in Tree(n) : IsReader(x) => \E i \in 1..n : x = <<i>>
           /\ \A m \in Merges(n) : /\ m = <<m[1], m[2]>> /\ m[1] # m[2]
                                   /\ m[1] \in Tree(n) /\ m[2] \in Tree(n)
                                   /\ m[1] # Top(n) /\ m[2] # Top(n)
           /\ \A p, q \in Merges(n), i, j \in {1, 2} : p[i] = q[j] => p = q /\ i = j
<1> DEFINE made == Made(n, n)
           level == Levels(n)[n]
<1>1. Forest(made, level, n) /\ Len(level) = 1
  <2>1. Forest(made, level, n) /\ (Len(level) = 1 \/ Len(level) <= n - n)
    BY LevelsForest
  <2>2. Len(level) \in Nat /\ Len(level) >= 1
    BY <2>1 DEF Forest
  <2> QED BY <2>1, <2>2
<1>2. Tree(n) = made
  <2>1. \A k \in 0..n : DOMAIN Levels(n)[k] = 1..Len(Levels(n)[k])
    BY LevelsForest DEF Forest
  <2> QED BY <2>1 DEF Tree, Made, Members
<1>3. Members(level) = {Top(n)} /\ Top(n) \in made
  <2>1. Members(level) = {level[1]}
    BY <1>1 DEF Members
  <2>2. level[1] \in made
    BY <1>1 DEF Forest
  <2> QED BY <2>1, <2>2 DEF Top
<1> HIDE DEF made, level
<1>4. ASSUME NEW m \in Merges(n)
      PROVE  /\ m = <<m[1], m[2]>> /\ m[1] # m[2]
             /\ m[1] \in made /\ m[2] \in made /\ m[1] # Top(n) /\ m[2] # Top(n)
  <2>1. m \in made /\ Len(m) # 1
    BY <1>2 DEF Merges, IsReader
  <2>2. \A i : m # <<i>>
    BY <2>1
  <2>3. \E a, b \in made \ Members(level) : a # b /\ m = <<a, b>>
    BY <1>1, <2>1, <2>2 DEF Forest
  <2>4. PICK a \in made \ Members(level), b \in made \ Members(level) : a # b /\ m = <<a, b>>
    BY <2>3
  <2> QED BY <1>3, <2>4
<1>5. ASSUME NEW x \in Tree(n), IsReader(x) PROVE \E i \in 1..n : x = <<i>>
  <2>1. \A a, b : x # <<a, b>>
    BY <1>5 DEF IsReader
  <2> QED BY <1>1, <1>2, <1>5, <2>1 DEF Forest
<1>6. ASSUME NEW p \in Merges(n), NEW q \in Merges(n), NEW i \in {1, 2}, NEW j \in {1, 2},
             p[i] = q[j]
      PROVE  p = q /\ i = j
  <2>1. p \in made /\ q \in made
    BY <1>2 DEF Merges
  <2>2. p[1] = q[1] /\ p[2] = q[2]
    <3>1. /\ p = <<p[1], p[2]>> /\ q = <<q[1], q[2]>>
          /\ p[1] \in made /\ p[2] \in made /\ q[1] \in made /\ q[2] \in made
      BY <1>4
    <3>2. {p[1], p[2]} \cap {q[1], q[2]} # {}
      BY <1>6
    <3>3. <<p[1], p[2]>> \in made /\ <<q[1], q[2]>> \in made
      BY <2>1, <3>1
    <3> DEFINE a == p[1]  b == p[2]  c == q[1]  d == q[2]
    <3> HIDE DEF a, b, c, d
    <3>4. a \in made /\ b \in made /\ c \in made /\ d \in made
          /\ <<a, b>> \in made /\ <<c, d>> \in made /\ {a, b} \cap {c, d} # {}
      BY <3>1, <3>2, <3>3 DEF a, b, c, d
    <3>5. a = c /\ b = d
      BY <1>1, <3>4 DEF Forest
    <3> QED BY <3>5 DEF a, b, c, d
  <2>3. p[1] # p[2] /\ p = <<p[1], p[2]>> /\ q = <<q[1], q[2]>>
    BY <1>4
  <2> QED BY <1>6, <2>2, <2>3
<1> QED BY <1>2, <1>3, <1>4, <1>5, <1>6

-----------------------------------------------------------------------------
(* The strings.                                                            *)

\* Two strings have a longest common start.
LEMMA DeltaType ==
    ASSUME NEW a \in Seq(Nat), NEW b \in Seq(Nat)
    PROVE  GetDeltaLen(a, b) \in 0..Len(a) /\ GetDeltaLen(a, b) <= Len(b)
<1> DEFINE Common(d) == d <= Len(b) /\ \A i \in 1..d : a[i] = b[i]
           Ends(d) == d < Len(a) /\ d < Len(b) => a[d + 1] # b[d + 1]
           T == {d \in Nat : d <= Len(a) => Common(d)}
<1> SUFFICES \E d \in 0..Len(a) : Common(d) /\ Ends(d)
  BY DEF GetDeltaLen
<1> SUFFICES ASSUME \A d \in 0..Len(a) : Common(d) => ~Ends(d) PROVE FALSE
  OBVIOUS
<1>1. Len(a) \in Nat /\ Len(b) \in Nat
  OBVIOUS
<1>2. 0 \in T
  BY <1>1
<1>3. ASSUME NEW d \in T PROVE d + 1 \in T
  <2> SUFFICES ASSUME d + 1 <= Len(a) PROVE Common(d + 1)
    OBVIOUS
  <2>1. d \in 0..Len(a) /\ Common(d)
    BY <1>1
  <2>2. d < Len(b) /\ a[d + 1] = b[d + 1]
    BY <2>1
  <2>3. 1..(d + 1) = (1..d) \cup {d + 1}
    BY <2>1
  <2> QED BY <1>1, <2>1, <2>2, <2>3
<1>4. T = Nat
  <2>1. T \in SUBSET Nat
    OBVIOUS
  <2> HIDE DEF T
  <2> QED BY <1>2, <1>3, <2>1, SetInduction
<1>5. Common(Len(a)) /\ Len(a) \in 0..Len(a)
  <2>1. Len(a) \in T
    <3> HIDE DEF T
    <3> QED BY <1>1, <1>4
  <2> QED BY <1>1, <2>1
<1>6. Ends(Len(a))
  BY <1>1
<1> QED BY <1>5, <1>6

\* The writer writes an entry, with the identifier of the node.
LEMMA WriteNodeType ==
    ASSUME NEW prev \in Seq(Nat), NEW node \in Node
    PROVE  WriteNode(prev, node) \in Entry /\ WriteNode(prev, node).id = node.id
<1>1. node.comp \in Seq(Nat) /\ node.id \in Nat \ {0}
  BY DEF Node
<1> DEFINE d == GetDeltaLen(prev, node.comp)
<1>2. d \in 0..Len(prev) /\ d <= Len(node.comp)
  BY <1>1, DeltaType
<1>3. Len(prev) \in Nat /\ Len(node.comp) \in Nat
  BY <1>1
<1> HIDE DEF d
<1>4. d + 1 \in Nat
  BY <1>2, <1>3
<1>5. SubSeq(node.comp, d + 1, Len(node.comp)) \in Seq(Nat)
  <2> DEFINE c == node.comp
  <2> HIDE DEF c
  <2>1. c \in Seq(Nat) /\ Len(c) \in Nat
    BY <1>1 DEF c
  <2>2. \A i \in 1..Len(c) : c[i] \in Nat
    BY <2>1
  <2>3. SubSeq(c, d + 1, Len(c)) \in Seq(Nat)
    BY <1>2, <2>1, <2>2, SubSeqProperties DEF c
  <2> QED BY <2>3 DEF c
<1> QED BY <1>1, <1>2, <1>3, <1>5 DEF WriteNode, Entry, d

\* A readable file has a node for each of its entries, with its identifier.
LEMMA DecodedType ==
    ASSUME NEW entries \in Seq(Entry), Readable(entries), NEW i \in DOMAIN entries
    PROVE  /\ Decoded(entries)[i] \in Node /\ Decoded(entries)[i].id = entries[i].id
           /\ Decoded(entries)[i].comp =
                 Appended(IF i = 1 THEN <<>> ELSE Decoded(entries)[i - 1].comp, entries[i])
<1> DEFINE n == Len(entries)
           Is(f, m) == f = [k \in 0..m |-> IF k = 0 THEN <<>>
                                           ELSE Appended(f[k - 1], entries[k])]
           T == {m \in Nat : \E f : Is(f, m)}
<1>1. 0 \in T
  <2>1. Is([k \in 0..0 |-> <<>>], 0)
    OBVIOUS
  <2> QED BY <2>1
<1>2. ASSUME NEW m \in T PROVE m + 1 \in T
  <2>1. PICK f : Is(f, m)
    OBVIOUS
  <2> DEFINE g == [k \in 0..(m + 1) |-> IF k = m + 1 THEN Appended(f[m], entries[m + 1])
                                        ELSE f[k]]
  <2>2. \A k \in 0..m : f[k] = IF k = 0 THEN <<>> ELSE Appended(f[k - 1], entries[k])
    BY <2>1
  <2>3. \A k \in 0..(m + 1) : g[k] = IF k = 0 THEN <<>> ELSE Appended(g[k - 1], entries[k])
    BY <2>2
  <2>4. g = [k \in 0..(m + 1) |-> g[k]]
    OBVIOUS
  <2> HIDE DEF g
  <2>5. g = [k \in 0..(m + 1) |-> IF k = 0 THEN <<>> ELSE Appended(g[k - 1], entries[k])]
    BY <2>3, <2>4
  <2> QED BY <2>5
<1>3. T = Nat
  <2>1. T \in SUBSET Nat
    OBVIOUS
  <2> HIDE DEF T
  <2> QED BY <1>1, <1>2, <2>1, SetInduction
<1>4. n \in Nat /\ DOMAIN entries = 1..n /\ \A k \in 1..n : entries[k] \in Entry
  OBVIOUS
<1>5. \E f : Is(f, n)
  BY <1>3, <1>4
<1> DEFINE F == CHOOSE f : Is(f, n)
<1>6. Is(F, n)
  BY <1>5
<1>7. Decoded(entries) = [k \in 1..n |-> [id |-> entries[k].id, comp |-> F[k]]]
  BY <1>4 DEF Decoded
<1> HIDE DEF F
<1>8. \A k \in 0..n : F[k] = IF k = 0 THEN <<>> ELSE Appended(F[k - 1], entries[k])
  BY <1>6
<1>9. F[0] = <<>> /\ \A k \in 1..n : F[k] = Appended(F[k - 1], entries[k])
  BY <1>4, <1>8
<1>10. \A k \in 1..n : entries[k].delta <= Len(F[k - 1])
  <2> SUFFICES ASSUME NEW k \in 1..n PROVE entries[k].delta <= Len(F[k - 1])
    OBVIOUS
  <2>1. CASE k = 1
    <3>1. entries[1].delta <= 0 /\ k - 1 = 0
      BY <1>4, <2>1 DEF Readable
    <3> QED BY <1>9, <2>1, <3>1
  <2>2. CASE k # 1
    <3>1. entries[k].delta <= Len(Decoded(entries)[k - 1].comp) /\ k - 1 \in 1..n
      BY <1>4, <2>2 DEF Readable
    <3> QED BY <1>7, <3>1
  <2> QED BY <2>1, <2>2
<1> DEFINE U == {k \in Nat : k <= n => F[k] \in Seq(Nat)}
<1>11. 0 \in U
  <2>1. <<>> \in Seq(Nat)
    OBVIOUS
  <2> QED BY <1>9, <2>1
<1>12. ASSUME NEW k \in U PROVE k + 1 \in U
  <2> SUFFICES ASSUME k + 1 <= n PROVE F[k + 1] \in Seq(Nat)
    OBVIOUS
  <2> DEFINE e == entries[k + 1]
             s == F[k]
  <2>1. k + 1 \in 1..n /\ (k + 1) - 1 = k /\ F[k] \in Seq(Nat)
    BY <1>4
  <2>2. F[k + 1] = Appended(s, e) /\ e \in Entry /\ e.delta <= Len(s) /\ s \in Seq(Nat)
    BY <1>4, <1>9, <1>10, <2>1
  <2> HIDE DEF e, s
  <2>3. e.delta \in Nat /\ e.text \in Seq(Nat) /\ Len(s) \in Nat
    BY <2>2 DEF Entry
  <2>4. SubSeq(s, 1, e.delta) \in Seq(Nat)
    BY <2>2, <2>3
  <2>5. SubSeq(s, 1, e.delta) \o e.text \in Seq(Nat)
    BY <2>3, <2>4
  <2> QED BY <2>2, <2>5 DEF Appended
<1>13. U = Nat
  <2>1. U \in SUBSET Nat
    OBVIOUS
  <2> HIDE DEF U
  <2> QED BY <1>11, <1>12, <2>1, SetInduction
<1>14. F[i] \in Seq(Nat) /\ entries[i].id \in Nat \ {0} /\ i \in 1..n
  BY <1>4, <1>13 DEF Entry
<1>15. Decoded(entries)[i] = [id |-> entries[i].id, comp |-> F[i]]
  BY <1>7, <1>14
<1>16. F[i - 1] = IF i = 1 THEN <<>> ELSE Decoded(entries)[i - 1].comp
  <2>1. CASE i = 1
    BY <1>9, <2>1
  <2>2. CASE i # 1
    <3>1. i - 1 \in 1..n
      BY <1>4, <1>14, <2>2
    <3> QED BY <1>7, <2>2, <3>1
  <2> QED BY <2>1, <2>2
<1>17. F[i] = Appended(F[i - 1], entries[i])
  BY <1>9, <1>14
<1> QED BY <1>14, <1>15, <1>16, <1>17 DEF Node

-----------------------------------------------------------------------------
(* The calls.                                                              *)

\* A reader or an iterator has a node to give.
Holds(rs, nx, x) == IF IsReader(x) THEN rs[x[1]].nextWait ELSE nx[x] # 0

\* The types, what a reader has decoded, and where its position may be.
TypeInv ==
    /\ chunks \in Inputs
    /\ readers \in [DOMAIN chunks -> Reader]
    /\ next \in [Merges(Len(chunks)) -> 0..Len(chunks)]
    /\ \A k \in DOMAIN chunks :
          /\ readers[k].pos <= Len(chunks[k].entries) + 1
          /\ readers[k].next = IF readers[k].pos = 1 THEN NoNode
                               ELSE Decoded(chunks[k].entries)[readers[k].pos - 1]
          /\ readers[k].nextWait => readers[k].pos > 1
    /\ \A m \in Merges(Len(chunks)) : next[m] # 0 => readers[next[m]].pos > 1
    /\ out \in Seq(Entry) /\ last \in Seq(Nat)

\* The calls are a path down from the top without a loop, through iterators that have
\* no node; what the first child answered is still true when the second has answered.
PathInv ==
    /\ phase \in {"test", "ask", "write", "end", "ok", "throw"}
    /\ phase = "ask" <=> calls # <<>>
    /\ calls \in Seq(Call)
    /\ \A i \in 1..Len(calls) :
          /\ calls[i].of = IF i = 1 THEN main ELSE calls[i - 1].of[Len(calls[i - 1].has) + 1]
          /\ i < Len(calls) => /\ calls[i].of \in Merges(Len(chunks)) /\ next[calls[i].of] = 0
                               /\ Len(calls[i].has) < 2
          /\ Len(calls[i].has) <= 2 /\ (IsReader(calls[i].of) => calls[i].has = <<>>)
          /\ \A j \in 1..Len(calls) : calls[i].of = calls[j].of => i = j
          /\ \A j \in 1..Len(calls[i].has) :
                calls[i].has[j] => Holds(readers, next, calls[i].of[j])
    /\ phase = "write" => Holds(readers, next, main)

\* What the inputs are.
LEMMA ChunkFacts ==
    ASSUME chunks \in Inputs
    PROVE  /\ chunks \in Seq(Chunk) /\ Len(chunks) \in Nat \ {0} /\ DOMAIN chunks = 1..Len(chunks)
           /\ \A k \in DOMAIN chunks :
                 /\ chunks[k].entries \in Seq(Entry) /\ chunks[k].whole \in BOOLEAN
                 /\ Len(chunks[k].entries) \in Nat
                 /\ DOMAIN chunks[k].entries = 1..Len(chunks[k].entries)
                 /\ Readable(chunks[k].entries)
           /\ \A k, l \in DOMAIN chunks :
                 \A i \in DOMAIN chunks[k].entries, j \in DOMAIN chunks[l].entries :
                     chunks[k].entries[i].id = chunks[l].entries[j].id => k = l /\ i = j
<1>1. chunks \in Seq(Chunk) /\ chunks # <<>>
  BY InputsAssumption
<1>2. Len(chunks) \in Nat \ {0} /\ DOMAIN chunks = 1..Len(chunks)
  BY <1>1
<1>3. ASSUME NEW k \in DOMAIN chunks
      PROVE  /\ chunks[k].entries \in Seq(Entry) /\ chunks[k].whole \in BOOLEAN
             /\ Len(chunks[k].entries) \in Nat
             /\ DOMAIN chunks[k].entries = 1..Len(chunks[k].entries)
  <2>1. chunks[k] \in Chunk
    BY <1>1, <1>2
  <2>2. chunks[k].entries \in Seq(Entry) /\ chunks[k].whole \in BOOLEAN
    BY <2>1 DEF Chunk
  <2> QED BY <2>2
<1> QED BY <1>1, <1>2, <1>3, InputsAssumption

\* The end of a call, whose answer is true of the one that was asked.
LEMMA ReturnKeeps ==
    ASSUME TypeInv, PathInv, calls # <<>>, NEW answer \in BOOLEAN, Return(answer),
           UNCHANGED chunks,
           answer => Holds(readers', next', Asked),
           \A i \in 1..(Len(calls) - 1) :
              /\ next'[calls[i].of] = 0
              /\ \A j \in 1..Len(calls[i].has) :
                    calls[i].has[j] => Holds(readers', next', calls[i].of[j])
    PROVE  PathInv'
<1> DEFINE L == Len(calls)
<1>1. L \in Nat /\ L >= 1 /\ \A i \in 1..L : calls[i] \in Call
  BY DEF PathInv
<1>2. main' = main
  BY DEF main
<1>3. CASE L = 1
  <2>1. Below = <<>>
    BY <1>3 DEF Below
  <2>2. calls' = <<>> /\ phase' = IF answer THEN "write" ELSE "end"
    BY <2>1 DEF Return
  <2>3. Asked = main
    BY <1>3 DEF Asked, PathInv
  <2> QED BY <1>2, <2>2, <2>3 DEF PathInv
<1>4. CASE L > 1
  <2> DEFINE b == Below
  <2>1. b \in Seq(Call) /\ Len(b) = L - 1 /\ \A i \in 1..(L - 1) : b[i] = calls[i]
    <3>1. \A i \in 1..(L - 1) : calls[i] \in Call
      BY <1>1
    <3>2. b = SubSeq(calls, 1, L - 1) /\ 1 \in Int /\ L - 1 \in Int
      BY <1>1 DEF Below
    <3> HIDE DEF L, b
    <3>3. b \in Seq(Call) /\ Len(b) = (IF 1 <= L - 1 THEN (L - 1) - 1 + 1 ELSE 0)
          /\ \A i \in 1..((L - 1) - 1 + 1) : b[i] = calls[1 + i - 1]
      BY <3>1, <3>2, SubSeqProperties
    <3>4. (L - 1) - 1 + 1 = L - 1 /\ \A i \in 1..(L - 1) : 1 + i - 1 = i
      BY <1>1, <1>4
    <3> QED BY <1>1, <1>4, <3>3, <3>4
  <2>2. Below # <<>>
    BY <1>1, <1>4, <2>1
  <2>3. calls' = [b EXCEPT ![L - 1].has = Append(@, answer)] /\ phase' = phase
    BY <2>1, <2>2 DEF Return
  <2> HIDE DEF b, L
  <2> DEFINE old == calls[L - 1]
             new == [old EXCEPT !.has = Append(old.has, answer)]
  <2>4. L - 1 \in 1..(L - 1) /\ old \in Call /\ b[L - 1] = old
    BY <1>1, <1>4, <2>1
  <2>5. old.has \in Seq(BOOLEAN) /\ old.of \in Tree(Len(chunks))
    BY <2>4 DEF Call
  <2>6. new \in Call /\ new.of = old.of /\ new.has = Append(old.has, answer)
    <3>1. Append(old.has, answer) \in Seq(BOOLEAN)
      BY <2>5
    <3> QED BY <2>4, <2>5, <3>1 DEF Call
  <2>7. /\ calls' \in Seq(Call) /\ Len(calls') = L - 1 /\ calls'[L - 1] = new
        /\ \A i \in 1..(L - 1) : i # L - 1 => calls'[i] = calls[i]
    <3>1. calls' = [b EXCEPT ![L - 1] = new]
      BY <2>3, <2>4
    <3> HIDE DEF new, old
    <3> QED BY <1>1, <2>1, <2>4, <2>6, <3>1
  <2>8. Len(new.has) = Len(old.has) + 1 /\ new.has[Len(old.has) + 1] = answer
        /\ \A j \in 1..Len(old.has) : new.has[j] = old.has[j]
    BY <2>5, <2>6
  <2>9. old.of \in Merges(Len(chunks)) /\ next'[old.of] = 0 /\ Len(old.has) < 2
        /\ Asked = old.of[Len(old.has) + 1]
    BY <1>1, <1>4, <2>4 DEF PathInv, Asked, L
  <2>0. old = calls[L - 1]
    OBVIOUS
  <2> HIDE DEF old, new
  <2>10. \A i \in 1..(L - 1) : calls'[i].of = calls[i].of
    BY <2>0, <2>6, <2>7
  <2>11. ASSUME NEW i \in 1..(L - 1)
         PROVE  calls'[i].of = IF i = 1 THEN main
                               ELSE calls'[i - 1].of[Len(calls'[i - 1].has) + 1]
    <3>1. i \in 1..L
      BY <1>1
    <3>2. i # 1 => i - 1 \in 1..(L - 1) /\ i - 1 # L - 1
      BY <1>1
    <3> QED BY <2>7, <2>10, <3>1, <3>2 DEF PathInv, L
  <2>12. ASSUME NEW i \in 1..(L - 1), i < L - 1
         PROVE  /\ calls'[i].of \in Merges(Len(chunks)) /\ next'[calls'[i].of] = 0
                /\ Len(calls'[i].has) < 2
    <3>1. calls'[i] = calls[i] /\ i \in 1..L /\ i < L
      BY <1>1, <2>7, <2>12
    <3> QED BY <3>1 DEF PathInv, L
  <2>13. ASSUME NEW i \in 1..(L - 1)
         PROVE  Len(calls'[i].has) <= 2 /\ (IsReader(calls'[i].of) => calls'[i].has = <<>>)
    <3>1. CASE i = L - 1
      <4>1. ~IsReader(old.of)
        BY <2>9 DEF Merges
      <4>2. Len(old.has) \in Nat
        BY <2>5
      <4> QED BY <2>6, <2>7, <2>8, <2>9, <3>1, <4>1, <4>2
    <3>2. CASE i # L - 1
      BY <1>1, <2>7, <3>2 DEF PathInv, L
    <3> QED BY <3>1, <3>2
  <2>14. \A i, j \in 1..(L - 1) : calls'[i].of = calls'[j].of => i = j
    <3>1. \A i \in 1..(L - 1) : i \in 1..L
      BY <1>1
    <3> QED BY <2>10, <3>1 DEF PathInv, L
  <2>15. ASSUME NEW i \in 1..(L - 1), NEW j \in 1..Len(calls'[i].has), calls'[i].has[j]
         PROVE  Holds(readers', next', calls'[i].of[j])
    <3>1. CASE i = L - 1
      <4>1. Len(old.has) \in Nat
        BY <2>5
      <4>2. j \in 1..Len(old.has) \/ j = Len(old.has) + 1
        BY <2>7, <2>8, <2>15, <3>1, <4>1
      <4>3. CASE j \in 1..Len(old.has)
        BY <2>0, <2>4, <2>6, <2>7, <2>8, <2>15, <3>1, <4>3 DEF L
      <4>4. CASE j = Len(old.has) + 1
        BY <2>6, <2>7, <2>8, <2>9, <2>15, <3>1, <4>4
      <4> QED BY <4>2, <4>3, <4>4
    <3>2. CASE i # L - 1
      BY <2>7, <2>15, <3>2 DEF L
    <3> QED BY <3>1, <3>2
  <2>16. phase' = "ask" /\ calls' # <<>>
    BY <1>1, <1>4, <2>3, <2>7 DEF PathInv
  <2>17. Call' = Call
    BY DEF Call
  <2> HIDE DEF Call
  <2> QED
    BY <1>2, <2>7, <2>11, <2>12, <2>13, <2>14, <2>15, <2>16, <2>17 DEF PathInv
<1>5. L = 1 \/ L > 1
  <2>1. L \in Nat /\ L >= 1
    BY <1>1
  <2> HIDE DEF L
  <2> QED BY ONLY <2>1
<1> QED BY <1>3, <1>4, <1>5

\* What is asked is in the tree, a reader of a chunk or a pair.
LEMMA AskedFacts ==
    ASSUME TypeInv, PathInv, calls # <<>>
    PROVE  /\ Len(calls) \in Nat \ {0} /\ calls[Len(calls)] \in Call
           /\ Asked \in Tree(Len(chunks)) /\ Has \in Seq(BOOLEAN) /\ Len(Has) <= 2
           /\ AskedReader => \E k \in DOMAIN chunks : Asked = <<k>>
           /\ AskedMerge => Asked \in Merges(Len(chunks))
<1>1. Len(calls) \in Nat \ {0} /\ calls[Len(calls)] \in Call
  BY DEF PathInv
<1>2. Asked \in Tree(Len(chunks)) /\ Has \in Seq(BOOLEAN)
  BY <1>1 DEF Asked, Has, Call
<1>3. Len(Has) <= 2
  BY <1>1 DEF PathInv, Has
<1>4. Len(chunks) \in Nat \ {0} /\ DOMAIN chunks = 1..Len(chunks)
  BY ChunkFacts DEF TypeInv
<1>5. AskedReader => \E k \in DOMAIN chunks : Asked = <<k>>
  BY <1>2, <1>4, TreeFacts DEF AskedReader
<1>6. AskedMerge => Asked \in Merges(Len(chunks))
  BY <1>2 DEF AskedMerge, Merges
<1> QED BY <1>1, <1>2, <1>3, <1>5, <1>6

\* A child of an iterator on the path is on the path only below it.
LEMMA ChildFacts ==
    ASSUME TypeInv, NEW m \in Merges(Len(chunks)), NEW x \in {m[1], m[2]}
    PROVE  /\ x \in Tree(Len(chunks)) /\ x # main
           /\ IsReader(x) => \E k \in DOMAIN chunks : x = <<k>>
           /\ ~IsReader(x) => x \in Merges(Len(chunks))
           /\ \A p \in Merges(Len(chunks)), i \in {1, 2} : x = p[i] => p = m
<1>1. Len(chunks) \in Nat \ {0} /\ DOMAIN chunks = 1..Len(chunks)
  BY ChunkFacts DEF TypeInv
<1>2. x \in Tree(Len(chunks)) /\ x # main
  BY <1>1, TreeFacts DEF main
<1>3. IsReader(x) => \E k \in DOMAIN chunks : x = <<k>>
  BY <1>1, <1>2, TreeFacts
<1>4. ~IsReader(x) => x \in Merges(Len(chunks))
  BY <1>2 DEF Merges
<1>5. \A p \in Merges(Len(chunks)), i \in {1, 2} : x = p[i] => p = m
  <2> SUFFICES ASSUME NEW p \in Merges(Len(chunks)), NEW i \in {1, 2}, x = p[i] PROVE p = m
    OBVIOUS
  <2>1. \E j \in {1, 2} : m[j] = p[i]
    OBVIOUS
  <2> QED BY <1>1, <2>1, TreeFacts
<1> QED BY <1>2, <1>3, <1>4, <1>5

\* A child of the iterator that is asked is neither on the path nor beside it.
LEMMA ChildOffPath ==
    ASSUME TypeInv, PathInv, calls # <<>>, Asked \in Merges(Len(chunks)),
           NEW x \in {Asked[1], Asked[2]}
    PROVE  \A i \in 1..Len(calls) :
              /\ calls[i].of # x
              /\ i < Len(calls) => \A j \in 1..Len(calls[i].has) : calls[i].of[j] # x
<1> DEFINE L == Len(calls)
<1>1. L \in Nat \ {0} /\ Asked = calls[L].of /\ \A i \in 1..L : calls[i] \in Call
  BY AskedFacts DEF Asked, PathInv
<1>2. x # main /\ \A p \in Merges(Len(chunks)), j \in {1, 2} : x = p[j] => p = Asked
  BY ChildFacts
<1> HIDE DEF L
<1>3. ASSUME NEW i \in 1..L, i < L, NEW j \in {1, 2} PROVE calls[i].of[j] # x
  <2>1. calls[i].of \in Merges(Len(chunks)) /\ L \in 1..L
    BY <1>1, <1>3 DEF PathInv, L
  <2>2. calls[i].of # calls[L].of
    BY <1>1, <1>3, <2>1 DEF PathInv, L
  <2> QED BY <1>1, <1>2, <2>1, <2>2
<1>4. ASSUME NEW i \in 1..L PROVE calls[i].of # x
  <2>1. CASE i = 1
    BY <1>2, <2>1 DEF PathInv, L
  <2>2. CASE i # 1
    <3>1. i - 1 \in 1..L /\ i - 1 < L
      BY <1>1, <2>2
    <3>2. calls[i].of = calls[i - 1].of[Len(calls[i - 1].has) + 1]
      BY <2>2 DEF PathInv, L
    <3>3. Len(calls[i - 1].has) < 2 /\ calls[i - 1].has \in Seq(BOOLEAN)
      BY <1>1, <3>1 DEF PathInv, L, Call
    <3>4. Len(calls[i - 1].has) + 1 \in {1, 2}
      BY <3>3
    <3> QED BY <1>3, <3>1, <3>2, <3>4
  <2> QED BY <2>1, <2>2
<1>5. ASSUME NEW i \in 1..L, i < L, NEW j \in 1..Len(calls[i].has) PROVE calls[i].of[j] # x
  <2>1. Len(calls[i].has) < 2 /\ calls[i].has \in Seq(BOOLEAN)
    BY <1>1, <1>5 DEF PathInv, L, Call
  <2>2. j \in {1, 2}
    BY <1>5, <2>1
  <2> QED BY <1>3, <1>5, <2>2
<1> QED BY <1>4, <1>5 DEF L

\* What the steps that change an iterator or a reader do to each of them.
ReadEffect(k) ==
    LET p == readers[k].pos IN
    /\ Asked = <<k>> /\ ~readers[k].nextWait /\ p \in DOMAIN chunks[k].entries
    /\ Return(TRUE) /\ UNCHANGED <<chunks, next, out, last>>
    /\ readers' \in [DOMAIN chunks -> Reader]
    /\ \A l \in DOMAIN chunks : l # k => readers'[l] = readers[l]
    /\ readers'[k].pos = p + 1 /\ readers'[k].nextWait = TRUE
    /\ readers'[k].next = Decoded(chunks[k].entries)[p]

TakeEffect(x) ==
    /\ readers' \in [DOMAIN chunks -> Reader]
    /\ \A k \in DOMAIN chunks :
          /\ readers'[k].pos = readers[k].pos /\ readers'[k].next = readers[k].next
          /\ readers'[k].nextWait <=> readers[k].nextWait /\ x # <<k>>

ChooseEffect(x) ==
    /\ Holds(readers, next, x) /\ Return(TRUE) /\ x # Asked
    /\ TakeEffect(x)
    /\ next' \in [Merges(Len(chunks)) -> 0..Len(chunks)]
    /\ \A m \in Merges(Len(chunks)) :
          next'[m] = IF m = x THEN 0 ELSE IF m = Asked THEN Pointed(x) ELSE next[m]

WriteEffect ==
    /\ Holds(readers, next, main) /\ UNCHANGED <<chunks, calls>>
    /\ LET node == readers[Pointed(main)].next
       IN  out' = Append(out, WriteNode(last, node)) /\ last' = node.comp
    /\ TakeEffect(main)
    /\ next' \in [Merges(Len(chunks)) -> 0..Len(chunks)]
    /\ \A m \in Merges(Len(chunks)) : next'[m] = IF m = main THEN 0 ELSE next[m]

\* A reader in the tree is that of a chunk.
LEMMA LeafFacts ==
    ASSUME TypeInv, NEW x \in Tree(Len(chunks)), IsReader(x)
    PROVE  \E k \in DOMAIN chunks : x = <<k>>
<1>1. Len(chunks) \in Nat \ {0} /\ DOMAIN chunks = 1..Len(chunks)
  BY ChunkFacts DEF TypeInv
<1> QED BY <1>1, TreeFacts

\* What an iterator or a reader points into is a reader that has decoded a node.
LEMMA PointedFacts ==
    ASSUME TypeInv, NEW x \in Tree(Len(chunks)), Holds(readers, next, x)
    PROVE  Pointed(x) \in DOMAIN chunks /\ readers[Pointed(x)].pos > 1
<1>1. Len(chunks) \in Nat \ {0} /\ DOMAIN chunks = 1..Len(chunks)
  BY ChunkFacts DEF TypeInv
<1>2. CASE IsReader(x)
  <2>1. PICK k \in DOMAIN chunks : x = <<k>>
    BY <1>2, LeafFacts
  <2> QED BY <1>2, <2>1 DEF Holds, Pointed, TypeInv
<1>3. CASE ~IsReader(x)
  <2>1. x \in Merges(Len(chunks))
    BY <1>3 DEF Merges
  <2> QED BY <1>1, <1>3, <2>1 DEF Holds, Pointed, TypeInv
<1> QED BY <1>2, <1>3

LEMMA TakeFacts ==
    ASSUME TypeInv, NEW x, readers' = Advanced(x)
    PROVE  TakeEffect(x)
<1>1. readers' = [k \in DOMAIN chunks |->
                    IF x = <<k>> THEN [readers[k] EXCEPT !.nextWait = FALSE] ELSE readers[k]]
  <2>1. DOMAIN readers = DOMAIN chunks
    BY DEF TypeInv
  <2> QED BY <2>1, Zenon DEF Advanced
<1>2. \A k \in DOMAIN chunks : readers[k] \in Reader
  BY DEF TypeInv
<1>3. ASSUME NEW k \in DOMAIN chunks
      PROVE  /\ readers'[k] \in Reader
             /\ readers'[k].pos = readers[k].pos /\ readers'[k].next = readers[k].next
             /\ readers'[k].nextWait <=> readers[k].nextWait /\ x # <<k>>
  <2>1. CASE x = <<k>>
    BY <1>1, <1>2, <2>1 DEF Reader
  <2>2. CASE x # <<k>>
    BY <1>1, <1>2, <2>2
  <2> QED BY <2>1, <2>2
<1>4. readers' \in [DOMAIN chunks -> Reader]
  <2> DEFINE rs == readers'
  <2>1. rs = [k \in DOMAIN chunks |-> rs[k]]
    BY <1>1
  <2>2. \A k \in DOMAIN chunks : rs[k] \in Reader
    BY <1>3
  <2> HIDE DEF rs
  <2>3. rs \in [DOMAIN chunks -> Reader]
    BY <2>1, <2>2
  <2> QED BY <2>3 DEF rs
<1> QED BY <1>3, <1>4 DEF TakeEffect

LEMMA ReadFacts ==
    ASSUME TypeInv, PathInv, ReadNode
    PROVE  calls # <<>> /\ \E k \in DOMAIN chunks : ReadEffect(k)
<1>1. calls # <<>> /\ AskedReader
  BY DEF ReadNode, Unread, AskedReader
<1>2. PICK k \in DOMAIN chunks : Asked = <<k>>
  BY <1>1, AskedFacts
<1> DEFINE p == readers[k].pos
           e == chunks[k].entries[p]
           D == Decoded(chunks[k].entries)
<1>3. /\ ~readers[k].nextWait /\ p <= Len(chunks[k].entries) /\ Return(TRUE)
      /\ readers' = [readers EXCEPT ![k] =
                       [readers[k] EXCEPT
                          !.next = [id |-> e.id, comp |-> Appended(@.comp, e)],
                          !.pos = @ + 1, !.nextWait = TRUE]]
      /\ UNCHANGED <<chunks, next, out, last>>
  BY <1>2 DEF ReadNode, Unread, Self, Entries
<1>4. /\ readers[k] \in Reader /\ p \in Nat \ {0} /\ p + 1 \in Nat \ {0}
      /\ p \in DOMAIN chunks[k].entries
  <2>1. readers[k] \in Reader
    BY DEF TypeInv
  <2>2. DOMAIN chunks[k].entries = 1..Len(chunks[k].entries)
    BY ChunkFacts DEF TypeInv
  <2> QED BY <1>3, <2>1, <2>2 DEF Reader
<1>5. D[p] \in Node /\ D[p].id = e.id
      /\ D[p].comp = Appended(IF p = 1 THEN <<>> ELSE D[p - 1].comp, e)
  <2>1. chunks[k].entries \in Seq(Entry) /\ Readable(chunks[k].entries)
    BY ChunkFacts DEF TypeInv
  <2> QED BY <1>4, <2>1, DecodedType
<1>6. readers[k].next.comp = IF p = 1 THEN <<>> ELSE D[p - 1].comp
  BY DEF NoNode, TypeInv
<1>7. D[p] = [id |-> e.id, comp |-> Appended(readers[k].next.comp, e)]
  <2>1. D[p] = [id |-> D[p].id, comp |-> D[p].comp]
    BY <1>5 DEF Node
  <2> QED BY <1>5, <1>6, <2>1
<1> DEFINE new == [readers[k] EXCEPT
                      !.next = [id |-> e.id, comp |-> Appended(@.comp, e)],
                      !.pos = @ + 1, !.nextWait = TRUE]
<1>8. readers' = [readers EXCEPT ![k] = new]
  BY <1>3
<1>9. new.pos = p + 1 /\ new.nextWait = TRUE /\ new.next = D[p] /\ new \in Reader
  <2> DEFINE old == readers[k]
             d == [id |-> e.id, comp |-> Appended(old.next.comp, e)]
  <2>1. d = D[p] /\ d \in Node /\ old \in Reader /\ old.pos = p /\ p + 1 \in Nat \ {0}
    BY <1>4, <1>5, <1>7
  <2>2. new = [old EXCEPT !.next = d, !.pos = @ + 1, !.nextWait = TRUE]
    OBVIOUS
  <2> HIDE DEF new, d, old, p, D
  <2>3. new.pos = p + 1 /\ new.nextWait = TRUE /\ new.next = d /\ new \in Reader
    BY <2>1, <2>2 DEF Reader
  <2> QED BY <2>1, <2>3
<1> HIDE DEF new, p, D
<1>10. /\ readers' \in [DOMAIN chunks -> Reader] /\ readers'[k] = new
       /\ \A l \in DOMAIN chunks : l # k => readers'[l] = readers[l]
  BY <1>8, <1>9 DEF TypeInv
<1>11. ReadEffect(k)
  BY <1>2, <1>3, <1>4, <1>9, <1>10 DEF ReadEffect, p, D
<1> QED BY <1>1, <1>11

LEMMA ChooseFacts ==
    ASSUME TypeInv, PathInv, Choose
    PROVE  /\ calls # <<>> /\ Asked \in Merges(Len(chunks)) /\ next[Asked] = 0
           /\ UNCHANGED <<chunks, out, last>>
           /\ \/ UNCHANGED <<readers, next>> /\ Return(FALSE)
              \/ \E x \in {Asked[1], Asked[2]} : ChooseEffect(x)
<1>1. calls # <<>> /\ Asked \in Merges(Len(chunks)) /\ next[Asked] = 0 /\ Len(Has) = 2
      /\ UNCHANGED <<chunks, out, last>>
  BY AskedFacts DEF Choose, AskedMerge
<1>2. CASE ~(Has[1] \/ Has[2])
  BY <1>1, <1>2 DEF Choose
<1>3. CASE Has[1] \/ Has[2]
  <2> DEFINE x == IF Has[1] /\ (Has[2] => Less(Value(Asked[1]), Value(Asked[2])))
                  THEN Asked[1] ELSE Asked[2]
  <2>1. /\ next' = [next EXCEPT ![Asked] = Pointed(x), ![x] = 0]
        /\ readers' = Advanced(x) /\ Return(TRUE)
    BY <1>3 DEF Choose
  <2>2. (x = Asked[1] /\ Has[1]) \/ (x = Asked[2] /\ Has[2])
    BY <1>3
  <2>3. \A j \in 1..Len(Has) : Has[j] => Holds(readers, next, Asked[j])
    BY <1>1, AskedFacts DEF PathInv, Asked, Has
  <2> HIDE DEF x
  <2>4. Holds(readers, next, x) /\ x \in {Asked[1], Asked[2]}
    BY <1>1, <2>2, <2>3
  <2>5. PICK y \in {Asked[1], Asked[2]} : y = x
    BY <2>4
  <2>6. y # Asked /\ y \in Tree(Len(chunks))
    <3>1. Len(calls) \in 1..Len(calls)
      BY <1>1, AskedFacts
    <3>2. calls[Len(calls)].of # y
      BY <1>1, <3>1, ChildOffPath
    <3> QED BY <1>1, <3>2, ChildFacts DEF Asked
  <2>7. TakeEffect(y)
    BY <2>1, <2>5, TakeFacts
  <2>8. Pointed(y) \in DOMAIN chunks /\ DOMAIN chunks = 1..Len(chunks) /\ Len(chunks) \in Nat
    BY <2>4, <2>5, <2>6, PointedFacts, ChunkFacts DEF TypeInv
  <2> DEFINE M == Merges(Len(chunks))
             a == Asked
             v == Pointed(y)
             R == 0..Len(chunks)
  <2>9. next' = [next EXCEPT ![a] = v, ![y] = 0] /\ next \in [M -> R] /\ v \in R /\ 0 \in R /\ a \in M
    BY <1>1, <2>1, <2>5, <2>8 DEF TypeInv
  <2> HIDE DEF M, R, a, v
  <2>10. next' \in [M -> R] /\ \A m \in M : next'[m] = IF m = y THEN 0 ELSE IF m = a THEN v ELSE next[m]
    BY <2>9
  <2>11. ChooseEffect(y)
    BY <2>1, <2>4, <2>5, <2>6, <2>7, <2>10 DEF ChooseEffect, M, R, a, v
  <2> QED BY <1>1, <2>11
<1> QED BY <1>2, <1>3

LEMMA WriteFacts ==
    ASSUME TypeInv, PathInv, Write
    PROVE  /\ WriteEffect /\ phase' = "test" /\ calls = <<>> /\ main \in Tree(Len(chunks))
           /\ readers[Pointed(main)].next \in Node
<1>1. Len(chunks) \in Nat \ {0} /\ DOMAIN chunks = 1..Len(chunks)
  BY ChunkFacts DEF TypeInv
<1>2. main \in Tree(Len(chunks))
  BY <1>1, TreeFacts DEF main
<1>3. phase = "write" /\ calls = <<>> /\ Holds(readers, next, main) /\ phase' = "test"
      /\ UNCHANGED <<chunks, calls>>
  BY DEF Write, PathInv
<1>4. TakeEffect(main)
  BY TakeFacts DEF Write
<1> DEFINE M == Merges(Len(chunks))
           R == 0..Len(chunks)
           a == main
<1>5. next' = [next EXCEPT ![a] = 0] /\ next \in [M -> R] /\ 0 \in R
  BY <1>1 DEF Write, TypeInv
<1> HIDE DEF M, R, a
<1>6. next' \in [M -> R] /\ \A m \in M : next'[m] = IF m = a THEN 0 ELSE next[m]
  BY <1>5
<1>7. WriteEffect
  BY <1>3, <1>4, <1>6 DEF WriteEffect, Write, M, R, a
<1> DEFINE k == Pointed(main)
           D == Decoded(chunks[k].entries)
<1>8. k \in DOMAIN chunks /\ readers[k].pos > 1
  BY <1>2, <1>3, PointedFacts
<1>9. readers[k].next \in Node
  <2>1. chunks[k].entries \in Seq(Entry) /\ Readable(chunks[k].entries)
        /\ DOMAIN chunks[k].entries = 1..Len(chunks[k].entries)
        /\ Len(chunks[k].entries) \in Nat
    BY <1>8, ChunkFacts DEF TypeInv
  <2>2. readers[k].pos \in Nat /\ readers[k].pos <= Len(chunks[k].entries) + 1
    BY <1>8 DEF TypeInv, Reader
  <2>3. readers[k].next = D[readers[k].pos - 1] /\ readers[k].pos - 1 \in DOMAIN chunks[k].entries
    BY <1>8, <2>1, <2>2 DEF TypeInv
  <2> QED BY <2>1, <2>3, DecodedType
<1> QED BY <1>2, <1>3, <1>7, <1>9

\* The types are kept by every step.
LEMMA TypeStep ==
    ASSUME TypeInv, PathInv, [Next]_vars
    PROVE  TypeInv'
<1>0. /\ Len(chunks) \in Nat \ {0} /\ DOMAIN chunks = 1..Len(chunks)
      /\ \A k \in DOMAIN chunks : Len(chunks[k].entries) \in Nat
                                  /\ DOMAIN chunks[k].entries = 1..Len(chunks[k].entries)
  BY ChunkFacts DEF TypeInv
<1>1. CASE UNCHANGED <<chunks, readers, next, out, last>>
  BY <1>1 DEF TypeInv
<1>2. \A m \in Merges(Len(chunks)) : next[m] # 0 => next[m] \in DOMAIN chunks
  BY <1>0 DEF TypeInv
<1>3. CASE ReadNode
  <2>1. PICK k \in DOMAIN chunks : ReadEffect(k)
    BY <1>3, ReadFacts
  <2> DEFINE p == readers[k].pos
  <2>2. p \in Nat \ {0} /\ p <= Len(chunks[k].entries)
    BY <1>0, <2>1 DEF ReadEffect, Reader
  <2>3. ASSUME NEW l \in DOMAIN chunks
        PROVE  /\ readers'[l].pos <= Len(chunks[l].entries) + 1
               /\ readers'[l].next = IF readers'[l].pos = 1 THEN NoNode
                                     ELSE Decoded(chunks[l].entries)[readers'[l].pos - 1]
               /\ readers'[l].nextWait => readers'[l].pos > 1
    <3>1. CASE l = k
      <4>1. p + 1 # 1 /\ p + 1 - 1 = p /\ p + 1 > 1 /\ p + 1 <= Len(chunks[k].entries) + 1
        BY <1>0, <2>2
      <4>2. readers'[k].pos = p + 1 /\ readers'[k].next = Decoded(chunks[k].entries)[p]
        BY <2>1 DEF ReadEffect
      <4> DEFINE D == Decoded(chunks[k].entries)
                 r == readers'[k]
      <4>3. r.pos = p + 1 /\ r.next = D[p]
        BY <4>2
      <4> HIDE DEF p, D, r
      <4>4. r.pos - 1 = p /\ r.pos # 1 /\ r.pos > 1 /\ r.pos <= Len(chunks[k].entries) + 1
        BY <1>0, <2>2, <4>1, <4>3
      <4>5. r.next = IF r.pos = 1 THEN NoNode ELSE D[r.pos - 1]
        BY <4>3, <4>4
      <4> QED BY <3>1, <4>4, <4>5 DEF r, D
    <3>2. CASE l # k
      BY <2>1, <3>2 DEF ReadEffect, TypeInv
    <3> QED BY <3>1, <3>2
  <2>4. \A l \in DOMAIN chunks : readers'[l].pos > 1 \/ readers'[l] = readers[l]
    BY <2>1, <2>2 DEF ReadEffect
  <2>5. \A m \in Merges(Len(chunks)) : next'[m] # 0 => readers'[next'[m]].pos > 1
    BY <1>2, <2>1, <2>4 DEF ReadEffect, TypeInv
  <2>6. readers' \in [DOMAIN chunks -> Reader] /\ UNCHANGED <<chunks, next, out, last>>
    BY <2>1 DEF ReadEffect
  <2> QED BY <2>3, <2>5, <2>6 DEF TypeInv
<1>4. CASE ReadEnd
  <2>1. calls # <<>> /\ AskedReader
    BY <1>4 DEF ReadEnd, Unread, AskedReader
  <2>2. PICK k \in DOMAIN chunks : Asked = <<k>>
    BY <2>1, AskedFacts
  <2>3. /\ readers' = [readers EXCEPT ![k].remaining = FALSE]
        /\ UNCHANGED <<chunks, next, out, last>>
    BY <1>4, <2>2 DEF ReadEnd
  <2>4. readers' \in [DOMAIN chunks -> Reader]
    BY <2>3 DEF Reader, TypeInv
  <2>5. \A l \in DOMAIN chunks : readers'[l].pos = readers[l].pos
           /\ readers'[l].next = readers[l].next /\ readers'[l].nextWait = readers[l].nextWait
    BY <2>3 DEF Reader, TypeInv
  <2> QED BY <1>2, <2>3, <2>4, <2>5 DEF TypeInv
<1>5. ASSUME UNCHANGED chunks, TakeEffect(main) \/ \E x \in {Asked[1], Asked[2]} : TakeEffect(x)
      PROVE  \A l \in DOMAIN chunks :
                /\ readers'[l].pos = readers[l].pos
                /\ readers'[l].pos <= Len(chunks[l].entries) + 1
                /\ readers'[l].next = IF readers'[l].pos = 1 THEN NoNode
                                      ELSE Decoded(chunks[l].entries)[readers'[l].pos - 1]
                /\ readers'[l].nextWait => readers'[l].pos > 1
  BY <1>5 DEF TakeEffect, TypeInv
<1>6. CASE Choose /\ ~UNCHANGED <<readers, next>>
  <2>1. Asked \in Merges(Len(chunks)) /\ UNCHANGED <<chunks, out, last>>
    BY <1>6, ChooseFacts
  <2>2. PICK x \in {Asked[1], Asked[2]} : ChooseEffect(x)
    BY <1>6, ChooseFacts
  <2>3. Pointed(x) \in DOMAIN chunks /\ readers[Pointed(x)].pos > 1
    BY <2>1, <2>2, ChildFacts, PointedFacts DEF ChooseEffect
  <2>4. \A l \in DOMAIN chunks :
           /\ readers'[l].pos = readers[l].pos
           /\ readers'[l].pos <= Len(chunks[l].entries) + 1
           /\ readers'[l].next = IF readers'[l].pos = 1 THEN NoNode
                                 ELSE Decoded(chunks[l].entries)[readers'[l].pos - 1]
           /\ readers'[l].nextWait => readers'[l].pos > 1
    BY <1>5, <2>1, <2>2 DEF ChooseEffect
  <2>5. ASSUME NEW m \in Merges(Len(chunks)), next'[m] # 0 PROVE readers'[next'[m]].pos > 1
    <3>1. next'[m] = Pointed(x) \/ next'[m] = next[m]
      BY <2>2, <2>5 DEF ChooseEffect
    <3>2. next[m] # 0 => readers[next[m]].pos > 1 /\ next[m] \in DOMAIN chunks
      BY <1>2 DEF TypeInv
    <3> QED BY <2>3, <2>4, <2>5, <3>1, <3>2
  <2>6. readers' \in [DOMAIN chunks -> Reader] /\ next' \in [Merges(Len(chunks)) -> 0..Len(chunks)]
    BY <2>2 DEF ChooseEffect, TakeEffect
  <2> QED BY <2>1, <2>4, <2>5, <2>6 DEF TypeInv
<1>7. CASE Write
  <2>1. WriteEffect /\ readers[Pointed(main)].next \in Node
    BY <1>7, WriteFacts
  <2>2. \A l \in DOMAIN chunks :
           /\ readers'[l].pos = readers[l].pos
           /\ readers'[l].pos <= Len(chunks[l].entries) + 1
           /\ readers'[l].next = IF readers'[l].pos = 1 THEN NoNode
                                 ELSE Decoded(chunks[l].entries)[readers'[l].pos - 1]
           /\ readers'[l].nextWait => readers'[l].pos > 1
    BY <1>5, <2>1 DEF WriteEffect
  <2>3. ASSUME NEW m \in Merges(Len(chunks)), next'[m] # 0 PROVE readers'[next'[m]].pos > 1
    <3>1. next'[m] = next[m]
      BY <2>1, <2>3 DEF WriteEffect
    <3>2. next[m] # 0 => readers[next[m]].pos > 1 /\ next[m] \in DOMAIN chunks
      BY <1>2 DEF TypeInv
    <3> QED BY <2>2, <2>3, <3>1, <3>2
  <2>4. /\ readers' \in [DOMAIN chunks -> Reader] /\ UNCHANGED chunks
        /\ next' \in [Merges(Len(chunks)) -> 0..Len(chunks)]
    BY <2>1 DEF WriteEffect, TakeEffect
  <2>5. out' \in Seq(Entry) /\ last' \in Seq(Nat)
    <3> DEFINE node == readers[Pointed(main)].next
    <3>1. out' = Append(out, WriteNode(last, node)) /\ last' = node.comp /\ node \in Node
      BY <2>1 DEF WriteEffect
    <3> HIDE DEF node
    <3>2. WriteNode(last, node) \in Entry /\ node.comp \in Seq(Nat)
      BY <3>1, WriteNodeType DEF Node, TypeInv
    <3>3. out \in Seq(Entry)
      BY DEF TypeInv
    <3> QED BY <3>1, <3>2, <3>3
  <2> QED BY <2>2, <2>3, <2>4, <2>5 DEF TypeInv
<1>8. ASSUME Test \/ Known \/ ReadFails \/ AskChild \/ WriteEnd \/ Done \/ UNCHANGED vars
             \/ (Choose /\ UNCHANGED <<readers, next>>)
      PROVE  UNCHANGED <<chunks, readers, next, out, last>>
  BY <1>8 DEF Test, Known, ReadFails, AskChild, WriteEnd, Done, vars, Choose
<1> QED BY <1>1, <1>3, <1>4, <1>6, <1>7, <1>8 DEF Next, Step

\* Nothing is asked before the call, and main may be asked.
LEMMA MainFacts ==
    ASSUME TypeInv
    PROVE  main \in Tree(Len(chunks)) /\ CallOn(main) \in Call
<1>1. Len(chunks) \in Nat \ {0}
  BY ChunkFacts DEF TypeInv
<1>2. main \in Tree(Len(chunks))
  BY <1>1, TreeFacts DEF main
<1>3. <<>> \in Seq(BOOLEAN)
  OBVIOUS
<1> QED BY <1>2, <1>3 DEF CallOn, Call

\* The calls stay a path, and their answers true.
LEMMA PathStep ==
    ASSUME TypeInv, PathInv, [Next]_vars
    PROVE  PathInv'
<1>0. ASSUME calls # <<>>
      PROVE  /\ Len(calls) \in Nat \ {0} /\ Asked = calls[Len(calls)].of /\ Has = calls[Len(calls)].has
             /\ \A i \in 1..(Len(calls) - 1) : i \in 1..Len(calls) /\ i < Len(calls)
  <2>1. Len(calls) \in Nat \ {0}
    BY <1>0 DEF PathInv
  <2> QED BY <2>1 DEF Asked, Has
<1>00. main' = main \/ ~UNCHANGED chunks
  BY DEF main
<1>1. CASE Test
  <2>1. phase' = "ask" /\ calls' = <<CallOn(main)>> /\ UNCHANGED <<chunks, readers, next, out, last>>
    BY <1>1 DEF Test
  <2>2. calls' \in Seq(Call) /\ Len(calls') = 1 /\ calls'[1] = CallOn(main) /\ calls' # <<>>
    BY <2>1, MainFacts
  <2>3. Call' = Call /\ main' = main /\ CallOn(main).of = main /\ CallOn(main).has = <<>>
    BY <2>1 DEF Call, main, CallOn
  <2>4. \A i \in 1..1 : i = 1
    OBVIOUS
  <2> HIDE DEF Call
  <2> QED BY <2>1, <2>2, <2>3, <2>4 DEF PathInv
<1>2. ASSUME calls # <<>>, UNCHANGED chunks, UNCHANGED next,
             \A x : Holds(readers, next, x) => Holds(readers', next', x)
      PROVE  \A i \in 1..(Len(calls) - 1) :
                /\ next'[calls[i].of] = 0
                /\ \A j \in 1..Len(calls[i].has) :
                      calls[i].has[j] => Holds(readers', next', calls[i].of[j])
  <2> SUFFICES ASSUME NEW i \in 1..(Len(calls) - 1)
               PROVE  /\ next'[calls[i].of] = 0
                      /\ \A j \in 1..Len(calls[i].has) :
                            calls[i].has[j] => Holds(readers', next', calls[i].of[j])
    OBVIOUS
  <2>1. i \in 1..Len(calls) /\ i < Len(calls)
    BY <1>0, <1>2
  <2>2. next[calls[i].of] = 0 /\ \A j \in 1..Len(calls[i].has) :
           calls[i].has[j] => Holds(readers, next, calls[i].of[j])
    BY <2>1 DEF PathInv
  <2> QED BY <1>2, <2>2
<1>3. CASE Known
  <2>1. /\ calls # <<>> /\ UNCHANGED <<chunks, readers, next, out, last>>
        /\ Return(AskedReader => Self.nextWait)
    BY <1>3 DEF Known, AskedReader, AskedMerge
  <2>2. \A x : Holds(readers, next, x) => Holds(readers', next', x)
    BY <2>1
  <2> DEFINE answer == AskedReader => Self.nextWait
  <2>3. answer => Holds(readers', next', Asked)
    <3>1. CASE AskedReader
      BY <2>1, <3>1 DEF AskedReader, Self, Holds
    <3>2. CASE ~AskedReader
      BY <1>3, <2>1, <3>2 DEF Known, AskedReader, AskedMerge, Holds
    <3> QED BY <3>1, <3>2
  <2>4. answer \in BOOLEAN
    OBVIOUS
  <2>5. \A i \in 1..(Len(calls) - 1) :
           /\ next'[calls[i].of] = 0
           /\ \A j \in 1..Len(calls[i].has) :
                 calls[i].has[j] => Holds(readers', next', calls[i].of[j])
    BY <1>2, <2>1, <2>2
  <2>6. PICK b \in BOOLEAN : b = answer
    BY <2>4
  <2> HIDE DEF answer
  <2>7. Return(b)
    BY <2>1, <2>6 DEF answer
  <2> QED BY <2>1, <2>3, <2>5, <2>6, <2>7, ReturnKeeps
<1>4. CASE ReadNode
  <2>1. PICK k \in DOMAIN chunks : ReadEffect(k)
    BY <1>4, ReadFacts
  <2>2. calls # <<>> /\ Return(TRUE) /\ UNCHANGED <<chunks, next>> /\ Asked = <<k>>
    BY <1>4, <2>1, ReadFacts DEF ReadEffect
  <2>3. \A l \in DOMAIN chunks : readers[l].nextWait => readers'[l].nextWait
    BY <2>1 DEF ReadEffect
  <2>4. ASSUME NEW x \in Tree(Len(chunks)), Holds(readers, next, x) PROVE Holds(readers', next', x)
    <3>1. CASE IsReader(x)
      <4>1. PICK l \in DOMAIN chunks : x = <<l>>
        BY <3>1, LeafFacts
      <4> QED BY <2>3, <2>4, <3>1, <4>1 DEF Holds
    <3>2. CASE ~IsReader(x)
      BY <2>2, <2>4, <3>2 DEF Holds
    <3> QED BY <3>1, <3>2
  <2>5. \A i \in 1..(Len(calls) - 1) :
           /\ next'[calls[i].of] = 0
           /\ \A j \in 1..Len(calls[i].has) :
                 calls[i].has[j] => Holds(readers', next', calls[i].of[j])
    <3> SUFFICES ASSUME NEW i \in 1..(Len(calls) - 1)
                 PROVE  /\ next'[calls[i].of] = 0
                        /\ \A j \in 1..Len(calls[i].has) :
                              calls[i].has[j] => Holds(readers', next', calls[i].of[j])
      OBVIOUS
    <3>1. i \in 1..Len(calls) /\ i < Len(calls)
      BY <1>0, <2>2
    <3>2. /\ next[calls[i].of] = 0 /\ calls[i].of \in Merges(Len(chunks))
          /\ Len(calls[i].has) < 2 /\ calls[i] \in Call
          /\ \A j \in 1..Len(calls[i].has) :
                calls[i].has[j] => Holds(readers, next, calls[i].of[j])
      BY <3>1 DEF PathInv
    <3>3. \A j \in 1..Len(calls[i].has) : j \in {1, 2}
      BY <3>2 DEF Call
    <3>4. \A j \in {1, 2} : calls[i].of[j] \in Tree(Len(chunks))
      BY <3>2, ChildFacts
    <3> QED BY <2>2, <2>4, <3>2, <3>3, <3>4
  <2>6. Holds(readers', next', Asked)
    BY <2>1, <2>2 DEF Holds, IsReader, ReadEffect
  <2> QED BY <2>2, <2>5, <2>6, ReturnKeeps
<1>5. CASE ReadEnd
  <2>1. calls # <<>> /\ AskedReader /\ Return(FALSE) /\ UNCHANGED <<chunks, next, out, last>>
    BY <1>5 DEF ReadEnd, Unread, AskedReader
  <2>2. PICK k \in DOMAIN chunks : Asked = <<k>>
    BY <2>1, AskedFacts
  <2>3. readers' = [readers EXCEPT ![k].remaining = FALSE]
    BY <1>5, <2>2 DEF ReadEnd
  <2>4. \A l \in DOMAIN chunks : readers'[l].nextWait = readers[l].nextWait
    BY <2>3 DEF Reader, TypeInv
  <2>5. ASSUME NEW x \in Tree(Len(chunks)), Holds(readers, next, x) PROVE Holds(readers', next', x)
    <3>1. CASE IsReader(x)
      <4>1. PICK l \in DOMAIN chunks : x = <<l>>
        BY <3>1, LeafFacts
      <4> QED BY <2>4, <2>5, <3>1, <4>1 DEF Holds
    <3>2. CASE ~IsReader(x)
      BY <2>1, <2>5, <3>2 DEF Holds
    <3> QED BY <3>1, <3>2
  <2>6. \A i \in 1..(Len(calls) - 1) :
           /\ next'[calls[i].of] = 0
           /\ \A j \in 1..Len(calls[i].has) :
                 calls[i].has[j] => Holds(readers', next', calls[i].of[j])
    <3> SUFFICES ASSUME NEW i \in 1..(Len(calls) - 1)
                 PROVE  /\ next'[calls[i].of] = 0
                        /\ \A j \in 1..Len(calls[i].has) :
                              calls[i].has[j] => Holds(readers', next', calls[i].of[j])
      OBVIOUS
    <3>1. i \in 1..Len(calls) /\ i < Len(calls)
      BY <1>0, <2>1
    <3>2. /\ next[calls[i].of] = 0 /\ calls[i].of \in Merges(Len(chunks))
          /\ Len(calls[i].has) < 2 /\ calls[i] \in Call
          /\ \A j \in 1..Len(calls[i].has) :
                calls[i].has[j] => Holds(readers, next, calls[i].of[j])
      BY <3>1 DEF PathInv
    <3>3. \A j \in 1..Len(calls[i].has) : j \in {1, 2}
      BY <3>2 DEF Call
    <3>4. \A j \in {1, 2} : calls[i].of[j] \in Tree(Len(chunks))
      BY <3>2, ChildFacts
    <3> QED BY <2>1, <2>5, <3>2, <3>3, <3>4
  <2> QED BY <2>1, <2>6, ReturnKeeps
<1>6. CASE ReadFails
  <2>1. phase' = "throw" /\ calls' = <<>> /\ UNCHANGED chunks
    BY <1>6 DEF ReadFails
  <2> QED BY <2>1 DEF PathInv
<1>7. CASE Choose /\ UNCHANGED <<readers, next>> /\ Return(FALSE)
  <2>1. calls # <<>> /\ UNCHANGED chunks
    BY <1>7, ChooseFacts
  <2>2. \A i \in 1..(Len(calls) - 1) :
           /\ next'[calls[i].of] = 0
           /\ \A j \in 1..Len(calls[i].has) :
                 calls[i].has[j] => Holds(readers', next', calls[i].of[j])
    BY <1>2, <1>7, <2>1
  <2> QED BY <1>7, <2>1, <2>2, ReturnKeeps
<1>8. CASE Choose /\ \E x \in {Asked[1], Asked[2]} : ChooseEffect(x)
  <2>1. calls # <<>> /\ UNCHANGED chunks /\ Asked \in Merges(Len(chunks)) /\ next[Asked] = 0
    BY <1>8, ChooseFacts
  <2>2. PICK x \in {Asked[1], Asked[2]} : ChooseEffect(x)
    BY <1>8
  <2>3. Pointed(x) \in DOMAIN chunks /\ Pointed(x) # 0
    <3>1. Pointed(x) \in DOMAIN chunks
      BY <2>1, <2>2, ChildFacts, PointedFacts DEF ChooseEffect
    <3>2. DOMAIN chunks = 1..Len(chunks) /\ Len(chunks) \in Nat
      BY ChunkFacts DEF TypeInv
    <3> QED BY <3>1, <3>2
  <2>4. Holds(readers', next', Asked)
    BY <2>1, <2>2, <2>3 DEF ChooseEffect, Holds, Merges
  <2>5. ASSUME NEW y \in Tree(Len(chunks)), Holds(readers, next, y), y # x
        PROVE  Holds(readers', next', y)
    <3>1. CASE IsReader(y)
      <4>1. PICK l \in DOMAIN chunks : y = <<l>>
        BY <3>1, LeafFacts
      <4> QED BY <2>2, <2>5, <3>1, <4>1 DEF Holds, ChooseEffect, TakeEffect
    <3>2. CASE ~IsReader(y)
      <4>1. y \in Merges(Len(chunks))
        BY <3>2 DEF Merges
      <4> QED BY <2>2, <2>3, <2>5, <3>2, <4>1 DEF Holds, ChooseEffect
    <3> QED BY <3>1, <3>2
  <2>6. \A i \in 1..(Len(calls) - 1) :
           /\ next'[calls[i].of] = 0
           /\ \A j \in 1..Len(calls[i].has) :
                 calls[i].has[j] => Holds(readers', next', calls[i].of[j])
    <3> SUFFICES ASSUME NEW i \in 1..(Len(calls) - 1)
                 PROVE  /\ next'[calls[i].of] = 0
                        /\ \A j \in 1..Len(calls[i].has) :
                              calls[i].has[j] => Holds(readers', next', calls[i].of[j])
      OBVIOUS
    <3>1. i \in 1..Len(calls) /\ i < Len(calls) /\ Len(calls) \in 1..Len(calls) /\ i # Len(calls)
      BY <1>0, <2>1
    <3>2. /\ next[calls[i].of] = 0 /\ calls[i].of \in Merges(Len(chunks))
          /\ Len(calls[i].has) < 2 /\ calls[i] \in Call
          /\ \A j \in 1..Len(calls[i].has) :
                calls[i].has[j] => Holds(readers, next, calls[i].of[j])
      BY <3>1 DEF PathInv
    <3>3. \A j \in 1..Len(calls[i].has) : j \in {1, 2}
      BY <3>2 DEF Call
    <3>4. \A j \in {1, 2} : calls[i].of[j] \in Tree(Len(chunks))
      BY <3>2, ChildFacts
    <3>5. calls[i].of # Asked
      BY <1>0, <2>1, <3>1 DEF PathInv
    <3>6. \A j \in 1..Len(calls[i].has) : calls[i].of[j] # x
      BY <2>1, <3>1, ChildOffPath
    <3>7. next'[calls[i].of] = 0
      BY <2>2, <3>2, <3>5 DEF ChooseEffect
    <3> QED BY <2>5, <3>2, <3>3, <3>4, <3>6, <3>7
  <2> QED BY <2>1, <2>2, <2>4, <2>6, ReturnKeeps DEF ChooseEffect
<1>9. CASE AskChild
  <2> DEFINE L == Len(calls)
             x == Asked[Len(Has) + 1]
  <2>1. /\ calls # <<>> /\ Asked \in Merges(Len(chunks)) /\ next[Asked] = 0 /\ Len(Has) < 2
        /\ calls' = Append(calls, CallOn(x)) /\ UNCHANGED <<chunks, readers, next, phase, out, last>>
    BY <1>9, AskedFacts DEF AskChild, AskedMerge
  <2>2. Len(Has) + 1 \in {1, 2}
    BY <2>1, AskedFacts
  <2>3. x \in {Asked[1], Asked[2]} /\ x \in Tree(Len(chunks))
    <3>1. x \in {Asked[1], Asked[2]}
      BY <2>2
    <3>2. PICK y \in {Asked[1], Asked[2]} : y = x
      BY <3>1
    <3> QED BY <2>1, <3>2, ChildFacts
  <2>4. \A i \in 1..L : calls[i].of # x
    <3>1. PICK y \in {Asked[1], Asked[2]} : y = x
      BY <2>3
    <3> QED BY <2>1, <3>1, ChildOffPath
  <2>5. CallOn(x) \in Call /\ CallOn(x).of = x /\ CallOn(x).has = <<>>
    <3>1. <<>> \in Seq(BOOLEAN)
      OBVIOUS
    <3> QED BY <2>3, <3>1 DEF CallOn, Call
  <2>6. L \in Nat \ {0} /\ Asked = calls[L].of /\ Has = calls[L].has /\ calls \in Seq(Call)
    BY <1>0, <2>1 DEF PathInv
  <2> DEFINE c == CallOn(x)
  <2>7. x = calls[L].of[Len(calls[L].has) + 1] /\ c \in Call /\ c.of = x /\ c.has = <<>>
        /\ calls' = Append(calls, c)
    BY <2>1, <2>5, <2>6
  <2> HIDE DEF c, x
  <2>8. /\ calls' \in Seq(Call) /\ Len(calls') = L + 1 /\ calls'[L + 1] = c
        /\ \A i \in 1..L : calls'[i] = calls[i]
    BY <2>6, <2>7
  <2> HIDE DEF L
  <2>9. Call' = Call /\ main' = main
    BY <2>1 DEF Call, main
  <2>10. \A i \in 1..(L + 1) : i \in 1..L \/ i = L + 1
    BY <2>6
  <2>11. ASSUME NEW i \in 1..(L + 1)
         PROVE  /\ calls'[i].of = IF i = 1 THEN main
                                  ELSE calls'[i - 1].of[Len(calls'[i - 1].has) + 1]
                /\ i < L + 1 => /\ calls'[i].of \in Merges(Len(chunks)) /\ next[calls'[i].of] = 0
                                /\ Len(calls'[i].has) < 2
                /\ Len(calls'[i].has) <= 2 /\ (IsReader(calls'[i].of) => calls'[i].has = <<>>)
                /\ \A j \in 1..(L + 1) : calls'[i].of = calls'[j].of => i = j
                /\ \A j \in 1..Len(calls'[i].has) :
                      calls'[i].has[j] => Holds(readers, next, calls'[i].of[j])
    <3>1. CASE i \in 1..L
      <4>1. calls'[i] = calls[i] /\ (i # 1 => i - 1 \in 1..L /\ calls'[i - 1] = calls[i - 1])
        BY <2>6, <2>8, <3>1
      <4>2. calls'[i].of = IF i = 1 THEN main
                           ELSE calls'[i - 1].of[Len(calls'[i - 1].has) + 1]
        BY <3>1, <4>1 DEF PathInv, L
      <4>3. /\ calls'[i].of \in Merges(Len(chunks)) /\ next[calls'[i].of] = 0
            /\ Len(calls'[i].has) < 2
        <5>1. CASE i = L
          BY <2>1, <2>6, <4>1, <5>1
        <5>2. CASE i # L
          <6>1. i < L
            BY <2>6, <3>1, <5>2
          <6> QED BY <3>1, <4>1, <6>1 DEF PathInv, L
        <5> QED BY <5>1, <5>2
      <4>4. Len(calls'[i].has) <= 2 /\ (IsReader(calls'[i].of) => calls'[i].has = <<>>)
        BY <3>1, <4>1 DEF PathInv, L
      <4>5. ASSUME NEW j \in 1..(L + 1), calls'[i].of = calls'[j].of PROVE i = j
        <5>1. j # L + 1
          BY <2>4, <2>7, <2>8, <3>1, <4>1, <4>5 DEF L
        <5>2. j \in 1..L
          BY <2>10, <5>1
        <5> QED BY <2>8, <3>1, <4>1, <4>5, <5>2 DEF PathInv, L
      <4>6. \A j \in 1..Len(calls'[i].has) :
               calls'[i].has[j] => Holds(readers, next, calls'[i].of[j])
        BY <3>1, <4>1 DEF PathInv, L
      <4> QED BY <4>2, <4>3, <4>4, <4>5, <4>6
    <3>2. CASE i = L + 1
      <4>1. calls'[i] = c /\ i # 1 /\ i - 1 = L /\ L \in 1..L /\ calls'[L] = calls[L]
        BY <2>6, <2>8, <3>2
      <4>2. calls'[i].of = calls'[i - 1].of[Len(calls'[i - 1].has) + 1]
        BY <2>7, <4>1
      <4>3. Len(calls'[i].has) = 0 /\ calls'[i].has = <<>>
        BY <2>7, <4>1
      <4>4. ASSUME NEW j \in 1..(L + 1), calls'[i].of = calls'[j].of PROVE i = j
        <5>1. j \notin 1..L
          BY <2>4, <2>7, <2>8, <4>1, <4>4 DEF L
        <5> QED BY <2>10, <3>2, <5>1
      <4>5. ~(i < L + 1)
        BY <2>6, <3>2
      <4>6. 1..Len(calls'[i].has) = {}
        BY <4>3
      <4> QED BY <4>1, <4>2, <4>3, <4>4, <4>5, <4>6
    <3> QED BY <2>10, <3>1, <3>2
  <2>12. phase' = "ask" /\ calls' # <<>>
    <3>1. Len(calls') # 0
      BY <2>6, <2>8
    <3>2. calls' # <<>>
      BY <3>1
    <3> QED BY <2>1, <3>2 DEF PathInv
  <2>13. phase' \in {"test", "ask", "write", "end", "ok", "throw"}
    BY <2>12
  <2>14. \A i \in 1..Len(calls') :
           ( /\ calls[i].of = IF i = 1 THEN main
                              ELSE calls[i - 1].of[Len(calls[i - 1].has) + 1]
             /\ i < Len(calls) => /\ calls[i].of \in Merges(Len(chunks)) /\ next[calls[i].of] = 0
                                  /\ Len(calls[i].has) < 2
             /\ Len(calls[i].has) <= 2 /\ (IsReader(calls[i].of) => calls[i].has = <<>>)
             /\ \A j \in 1..Len(calls) : calls[i].of = calls[j].of => i = j
             /\ \A j \in 1..Len(calls[i].has) :
                   calls[i].has[j] => Holds(readers, next, calls[i].of[j]) )'
    <3>1. Len(calls') = L + 1 /\ main' = main /\ UNCHANGED <<chunks, readers, next>>
      BY <2>1, <2>8, <2>9
    <3> QED BY ONLY <2>11, <3>1
  <2>15. calls' \in Seq(Call')
    BY <2>8, <2>9
  <2>16. phase' # "write"
    BY <2>12
  <2> HIDE DEF Call
  <2> QED BY ONLY <2>12, <2>13, <2>14, <2>15, <2>16 DEF PathInv
<1>10. CASE Write
  <2>1. phase' = "test" /\ calls' = <<>> /\ UNCHANGED chunks
    BY <1>10, WriteFacts DEF WriteEffect
  <2> QED BY <2>1 DEF PathInv
<1>11. CASE WriteEnd
  <2>1. calls = <<>> /\ phase' = "ok" /\ UNCHANGED <<chunks, calls>>
    BY <1>11 DEF WriteEnd, PathInv
  <2> QED BY <2>1 DEF PathInv
<1>12. CASE UNCHANGED vars
  BY <1>12 DEF vars, PathInv, main, Call, Holds
<1> QED
  BY <1>1, <1>3, <1>4, <1>5, <1>6, <1>7, <1>8, <1>9, <1>10, <1>11, <1>12, ChooseFacts
  DEF Next, Step, Done

-----------------------------------------------------------------------------
(* The nodes that were compared.                                           *)

\* The iterators over the reader k: every set with the reader and the parents of its
\* members has them.
Closed(S, n) == \A p \in Merges(n) : p[1] \in S \/ p[2] \in S => p \in S
Above(k, n) == {m \in Merges(n) : \A S \in SUBSET Tree(n) : <<k>> \in S /\ Closed(S, n) => m \in S}

\* One pointer at most leads to a node, from an iterator over its reader, which does not
\* wait.
HolderInv ==
    /\ \A m \in Merges(Len(chunks)) :
          next[m] # 0 => m \in Above(next[m], Len(chunks)) /\ ~readers[next[m]].nextWait
    /\ \A m, p \in Merges(Len(chunks)) : next[m] # 0 /\ next[m] = next[p] => m = p

\* The node of a reader is wanted.
Pending(rs, nx, k) == rs[k].nextWait \/ \E m \in Merges(Len(chunks)) : nx[m] = k

\* What was decoded was written, but for a node that is wanted.
WrittenInv ==
    \A k \in DOMAIN chunks : \A j \in DOMAIN chunks[k].entries :
        chunks[k].entries[j].id \in Written <=>
            j < readers[k].pos /\ ~(j = readers[k].pos - 1 /\ Pending(readers, next, k))

\* The parent of the reader, and of one that is above it, is above it.
LEMMA AboveParent ==
    ASSUME NEW n \in Nat, NEW k, NEW m \in Merges(n), NEW x \in {m[1], m[2]},
           x = <<k>> \/ x \in Above(k, n)
    PROVE  m \in Above(k, n)
<1> SUFFICES ASSUME NEW S \in SUBSET Tree(n), <<k>> \in S, Closed(S, n) PROVE m \in S
  BY DEF Above
<1>1. x \in S
  BY DEF Above
<1> QED BY <1>1 DEF Closed

\* When a reader is asked, no iterator points into it: those over it are asked too.
LEMMA NoHolderWhenAsked ==
    ASSUME TypeInv, PathInv, HolderInv, calls # <<>>, NEW k \in DOMAIN chunks, Asked = <<k>>
    PROVE  \A m \in Merges(Len(chunks)) : next[m] # k
<1> DEFINE n == Len(chunks)
           L == Len(calls)
           S == {calls[i].of : i \in 1..L}
<1>1. n \in Nat \ {0} /\ DOMAIN chunks = 1..n /\ k # 0
  BY ChunkFacts DEF TypeInv
<1>2. L \in Nat \ {0} /\ Asked = calls[L].of /\ \A i \in 1..L : calls[i] \in Call
  BY AskedFacts DEF PathInv, Asked
<1>3. S \in SUBSET Tree(n) /\ <<k>> \in S
  <2>1. L \in 1..L
    BY <1>2
  <2> QED BY <1>2, <2>1 DEF Call
<1>4. Closed(S, n)
  <2> SUFFICES ASSUME NEW p \in Merges(n), NEW c \in {1, 2}, NEW i \in 1..L, p[c] = calls[i].of
               PROVE  p \in S
    BY DEF Closed
  <2>1. i # 1
    <3>1. p[c] # main
      BY <1>1, TreeFacts DEF main
    <3> QED BY <3>1 DEF PathInv
  <2>2. i - 1 \in 1..L /\ i - 1 < L
    BY <1>2, <2>1
  <2>3. calls[i - 1].of \in Merges(n) /\ Len(calls[i - 1].has) < 2
        /\ calls[i].of = calls[i - 1].of[Len(calls[i - 1].has) + 1]
    BY <2>1, <2>2 DEF PathInv
  <2>4. Len(calls[i - 1].has) + 1 \in {1, 2}
    BY <1>2, <2>2, <2>3 DEF Call
  <2>5. PICK q \in Merges(n), d \in {1, 2} : q = calls[i - 1].of /\ q[d] = p[c]
    BY <2>3, <2>4
  <2>6. p = q
    BY <1>1, <2>5, TreeFacts
  <2> QED BY <2>2, <2>5, <2>6
<1>5. ASSUME NEW m \in Merges(n), next[m] = k PROVE FALSE
  <2>1. m \in Above(k, n)
    BY <1>1, <1>5 DEF HolderInv
  <2> HIDE DEF S
  <2>2. m \in S
    BY <1>3, <1>4, <2>1 DEF Above
  <2>3. PICK i \in 1..L : m = calls[i].of
    BY <2>2 DEF S
  <2>4. i # L
    BY <1>2, <2>3 DEF Merges, IsReader
  <2>5. i < L
    BY <1>2, <2>4
  <2> QED BY <1>1, <1>5, <2>3, <2>5 DEF PathInv
<1> QED BY <1>5

\* What x gives goes to m, or to the file when m is x: the node of x is the only one whose
\* pointer moves.
Given(x, m) ==
    /\ Holds(readers, next, x) /\ TakeEffect(x) /\ UNCHANGED chunks
    /\ \A p \in Merges(Len(chunks)) :
          next'[p] = IF p = x THEN 0 ELSE IF p = m THEN Pointed(x) ELSE next[p]

LEMMA GivenFacts ==
    ASSUME TypeInv, HolderInv, NEW x \in Tree(Len(chunks)), NEW m, Given(x, m)
    PROVE  /\ \A p \in Merges(Len(chunks)) :
                 next'[p] = Pointed(x) => p = m /\ p # x
           /\ ~readers'[Pointed(x)].nextWait
           /\ \A p \in Merges(Len(chunks)) :
                 next'[p] # 0 /\ next'[p] # Pointed(x) => next'[p] = next[p] /\ p # x
<1> DEFINE q == Pointed(x)
<1>1. q \in DOMAIN chunks /\ q # 0
  <2>1. DOMAIN chunks = 1..Len(chunks) /\ Len(chunks) \in Nat
    BY ChunkFacts DEF TypeInv
  <2>2. q \in DOMAIN chunks
    BY PointedFacts DEF Given
  <2> QED BY <2>1, <2>2
<1>2. CASE IsReader(x)
  <2>1. x = <<q>> /\ readers[q].nextWait
    <3>1. PICK k \in DOMAIN chunks : x = <<k>>
      BY <1>2, LeafFacts
    <3> QED BY <1>2, <3>1 DEF Given, Holds, Pointed
  <2>2. ~readers'[q].nextWait
    BY <1>1, <2>1 DEF Given, TakeEffect
  <2>3. \A p \in Merges(Len(chunks)) : next[p] # q /\ p # x
    BY <1>1, <1>2, <2>1 DEF HolderInv, Merges
  <2> QED BY <1>1, <2>2, <2>3 DEF Given
<1>3. CASE ~IsReader(x)
  <2>1. x \in Merges(Len(chunks)) /\ q = next[x]
    BY <1>3 DEF Merges, Pointed
  <2>2. \A p \in Merges(Len(chunks)) : next[p] = q => p = x
    BY <1>1, <2>1 DEF HolderInv
  <2>3. ~readers'[q].nextWait
    BY <1>1, <2>1 DEF HolderInv, Given, TakeEffect
  <2> QED BY <1>1, <2>1, <2>2, <2>3 DEF Given
<1> QED BY <1>2, <1>3

\* The steps that give a node.
LEMMA ChooseGives ==
    ASSUME TypeInv, PathInv, Choose, ~UNCHANGED <<readers, next>>
    PROVE  \E m \in Merges(Len(chunks)), x \in Tree(Len(chunks)) :
              x \in {m[1], m[2]} /\ x # m /\ next[m] = 0 /\ Given(x, m)
              /\ UNCHANGED <<chunks, out, last>>
<1>1. Asked \in Merges(Len(chunks)) /\ next[Asked] = 0 /\ UNCHANGED <<chunks, out, last>>
      /\ \E x \in {Asked[1], Asked[2]} : ChooseEffect(x)
  BY ChooseFacts
<1>2. PICK m \in Merges(Len(chunks)) : m = Asked
  BY <1>1
<1>3. PICK x \in {m[1], m[2]} : ChooseEffect(x)
  BY <1>1, <1>2
<1>4. x \in Tree(Len(chunks))
  BY <1>3, ChildFacts
<1> QED BY <1>1, <1>2, <1>3, <1>4 DEF ChooseEffect, Given

LEMMA WriteGives ==
    ASSUME TypeInv, PathInv, Write
    PROVE  \E x \in Tree(Len(chunks)) :
              /\ x = main /\ Given(x, x)
              /\ out' = Append(out, WriteNode(last, readers[Pointed(x)].next))
              /\ readers[Pointed(x)].next \in Node
<1>1. main \in Tree(Len(chunks)) /\ WriteEffect /\ readers[Pointed(main)].next \in Node
  BY WriteFacts
<1>2. PICK x \in Tree(Len(chunks)) : x = main
  BY <1>1
<1> QED BY <1>1, <1>2 DEF WriteEffect, Given

\* One pointer at most leads to a node after every step.
LEMMA HolderStep ==
    ASSUME TypeInv, PathInv, HolderInv, [Next]_vars
    PROVE  HolderInv'
<1> DEFINE M == Merges(Len(chunks))
<1>0. \A m \in M : next[m] # 0 => next[m] \in DOMAIN chunks
  <2>1. DOMAIN chunks = 1..Len(chunks) /\ Len(chunks) \in Nat
    BY ChunkFacts DEF TypeInv
  <2> QED BY <2>1 DEF TypeInv
<1>1. ASSUME UNCHANGED <<chunks, next>>, \A k \in DOMAIN chunks :
                readers'[k].nextWait => readers[k].nextWait \/ \A m \in M : next[m] # k
      PROVE  HolderInv'
  BY <1>0, <1>1 DEF HolderInv
<1>2. CASE ReadNode
  <2>1. PICK k \in DOMAIN chunks : ReadEffect(k)
    BY <1>2, ReadFacts
  <2>2. \A m \in M : next[m] # k
    BY <1>2, <2>1, ReadFacts, NoHolderWhenAsked DEF ReadEffect
  <2> QED BY <1>1, <2>1, <2>2 DEF ReadEffect
<1>3. CASE ReadEnd
  <2>1. calls # <<>> /\ AskedReader /\ UNCHANGED <<chunks, next>>
    BY <1>3 DEF ReadEnd, Unread, AskedReader
  <2>2. PICK k \in DOMAIN chunks : Asked = <<k>>
    BY <2>1, AskedFacts
  <2>3. readers' = [readers EXCEPT ![k].remaining = FALSE]
    BY <1>3, <2>2 DEF ReadEnd
  <2>4. \A l \in DOMAIN chunks : readers'[l].nextWait = readers[l].nextWait
    BY <2>3 DEF Reader, TypeInv
  <2> QED BY <1>1, <2>1, <2>4
<1>4. ASSUME NEW x \in Tree(Len(chunks)), NEW m, Given(x, m),
             m = x \/ (m \in M /\ x \in {m[1], m[2]})
      PROVE  HolderInv'
  <2> DEFINE q == Pointed(x)
  <2>1. /\ \A p \in M : next'[p] = q => p = m /\ p # x
        /\ ~readers'[q].nextWait
        /\ \A p \in M : next'[p] # 0 /\ next'[p] # q => next'[p] = next[p] /\ p # x
    BY <1>4, GivenFacts
  <2>2. q \in DOMAIN chunks /\ UNCHANGED chunks
    BY <1>4, PointedFacts DEF Given
  <2>3. ASSUME m \in M, m # x PROVE m \in Above(q, Len(chunks))
    <3>1. Len(chunks) \in Nat /\ x \in {m[1], m[2]}
      BY <1>4, <2>3, ChunkFacts DEF TypeInv
    <3>2. CASE IsReader(x)
      <4>1. PICK k \in DOMAIN chunks : x = <<k>>
        BY <3>2, LeafFacts
      <4>2. q = k
        BY <3>2, <4>1 DEF Pointed
      <4>3. m \in Above(k, Len(chunks))
        BY <2>3, <3>1, <4>1, AboveParent
      <4> QED BY <4>2, <4>3
    <3>3. CASE ~IsReader(x)
      <4>1. x \in M /\ q = next[x] /\ next[x] # 0
        BY <1>4, <3>3 DEF Merges, Pointed, Given, Holds
      <4>2. x \in Above(q, Len(chunks))
        BY <4>1 DEF HolderInv
      <4>3. PICK k \in DOMAIN chunks : k = q
        BY <2>2
      <4>4. m \in Above(k, Len(chunks))
        BY <2>3, <3>1, <4>2, <4>3, AboveParent
      <4> QED BY <4>3, <4>4
    <3> QED BY <3>2, <3>3
  <2>4. ASSUME NEW p \in M, next'[p] # 0
        PROVE  p \in Above(next'[p], Len(chunks)) /\ ~readers'[next'[p]].nextWait
    <3>1. CASE next'[p] = q
      BY <2>1, <2>3, <3>1
    <3>2. CASE next'[p] # q
      <4>1. next'[p] = next[p] /\ next[p] # 0
        BY <2>1, <2>4, <3>2
      <4>2. p \in Above(next[p], Len(chunks)) /\ ~readers[next[p]].nextWait
        BY <4>1 DEF HolderInv
      <4>3. ~readers'[next[p]].nextWait
        BY <1>0, <1>4, <4>1, <4>2 DEF Given, TakeEffect
      <4> QED BY <4>1, <4>2, <4>3
    <3> QED BY <3>1, <3>2
  <2>5. ASSUME NEW p \in M, NEW r \in M, next'[p] # 0, next'[p] = next'[r] PROVE p = r
    <3>1. CASE next'[p] = q
      BY <2>1, <2>5, <3>1
    <3>2. CASE next'[p] # q
      <4>1. next'[p] = next[p] /\ next'[r] = next[r]
        BY <2>1, <2>5, <3>2
      <4> QED BY <2>5, <4>1 DEF HolderInv
    <3> QED BY <3>1, <3>2
  <2> QED BY <2>2, <2>4, <2>5 DEF HolderInv
<1>5. CASE Choose /\ ~UNCHANGED <<readers, next>>
  BY <1>4, <1>5, ChooseGives
<1>6. CASE Write
  BY <1>4, <1>6, WriteGives
<1>7. ASSUME Test \/ Known \/ ReadFails \/ AskChild \/ WriteEnd \/ Done \/ UNCHANGED vars
             \/ (Choose /\ UNCHANGED <<readers, next>>)
      PROVE  HolderInv'
  <2>1. UNCHANGED <<chunks, readers, next>>
    BY <1>7 DEF Test, Known, ReadFails, AskChild, WriteEnd, Done, vars, Choose
  <2> QED BY <1>1, <2>1
<1> QED BY <1>2, <1>3, <1>5, <1>6, <1>7 DEF Next, Step

\* What was decoded stays written, or wanted.
LEMMA WrittenStep ==
    ASSUME TypeInv, PathInv, HolderInv, WrittenInv, [Next]_vars
    PROVE  WrittenInv'
<1> DEFINE M == Merges(Len(chunks))
           id(k, j) == chunks[k].entries[j].id
<1>0. DOMAIN chunks = 1..Len(chunks) /\ Len(chunks) \in Nat
      /\ \A k \in DOMAIN chunks : readers[k].pos \in Nat \ {0} /\ k # 0
                                  /\ DOMAIN chunks[k].entries = 1..Len(chunks[k].entries)
                                  /\ Len(chunks[k].entries) \in Nat
  BY ChunkFacts DEF TypeInv, Reader
<1>1. ASSUME UNCHANGED <<chunks, out>>, \A k \in DOMAIN chunks :
                /\ readers'[k].pos = readers[k].pos
                /\ Pending(readers', next', k) <=> Pending(readers, next, k)
      PROVE  WrittenInv'
  <2>1. Written' = Written /\ \A k : Pending(readers, next, k)' <=> Pending(readers', next', k)
    BY <1>1 DEF Written, Pending
  <2> QED BY <1>1, <2>1 DEF WrittenInv
<1>2. CASE ReadNode
  <2>1. PICK k \in DOMAIN chunks : ReadEffect(k)
    BY <1>2, ReadFacts
  <2>2. \A m \in M : next[m] # k
    BY <1>2, <2>1, ReadFacts, NoHolderWhenAsked DEF ReadEffect
  <2>3. ~Pending(readers, next, k) /\ Pending(readers, next, k)'
    BY <2>1, <2>2 DEF ReadEffect, Pending
  <2>4. UNCHANGED <<chunks, next>> /\ Written' = Written /\ readers'[k].pos = readers[k].pos + 1
        /\ \A l \in DOMAIN chunks : l # k => readers'[l] = readers[l]
    BY <2>1 DEF ReadEffect, Written
  <2>5. ASSUME NEW l \in DOMAIN chunks, NEW j \in DOMAIN chunks[l].entries
        PROVE  id(l, j) \in Written <=>
                  j < readers'[l].pos
                  /\ ~(j = readers'[l].pos - 1 /\ Pending(readers, next, l)')
    <3>1. id(l, j) \in Written <=>
             j < readers[l].pos /\ ~(j = readers[l].pos - 1 /\ Pending(readers, next, l))
      BY DEF WrittenInv
    <3>2. CASE l = k
      <4>1. readers[k].pos \in Nat /\ j \in Nat
        BY <1>0
      <4> HIDE DEF id
      <4> QED BY <2>3, <2>4, <3>1, <3>2, <4>1
    <3>3. CASE l # k
      <4>1. Pending(readers, next, l)' <=> Pending(readers, next, l)
        BY <2>4, <3>3 DEF Pending
      <4> QED BY <2>4, <3>1, <3>3, <4>1
    <3> QED BY <3>2, <3>3
  <2> QED BY <2>4, <2>5 DEF WrittenInv
<1>3. CASE ReadEnd
  <2>1. calls # <<>> /\ AskedReader /\ UNCHANGED <<chunks, next, out>>
    BY <1>3 DEF ReadEnd, Unread, AskedReader
  <2>2. PICK k \in DOMAIN chunks : Asked = <<k>>
    BY <2>1, AskedFacts
  <2>3. readers' = [readers EXCEPT ![k].remaining = FALSE]
    BY <1>3, <2>2 DEF ReadEnd
  <2>4. \A l \in DOMAIN chunks : readers'[l].nextWait = readers[l].nextWait
                                 /\ readers'[l].pos = readers[l].pos
    BY <2>3 DEF Reader, TypeInv
  <2>5. \A l \in DOMAIN chunks : Pending(readers', next', l) <=> Pending(readers, next, l)
    BY <2>1, <2>4 DEF Pending
  <2> QED BY <1>1, <2>1, <2>4, <2>5
<1>4. ASSUME NEW x \in Tree(Len(chunks)), NEW m, Given(x, m),
             m = x \/ (m \in M /\ next[m] = 0)
      PROVE  /\ Pointed(x) \in DOMAIN chunks /\ readers[Pointed(x)].pos > 1
             /\ Pending(readers, next, Pointed(x))
             /\ Pending(readers', next', Pointed(x)) <=> m # x
             /\ \A l \in DOMAIN chunks :
                   /\ readers'[l].pos = readers[l].pos
                   /\ l # Pointed(x) =>
                         (Pending(readers', next', l) <=> Pending(readers, next, l))
  <2> DEFINE q == Pointed(x)
  <2>1. /\ \A p \in M : next'[p] = q => p = m /\ p # x
        /\ ~readers'[q].nextWait
        /\ \A p \in M : next'[p] # 0 /\ next'[p] # q => next'[p] = next[p] /\ p # x
    BY <1>4, GivenFacts
  <2>2. q \in DOMAIN chunks /\ readers[q].pos > 1
    BY <1>4, PointedFacts DEF Given
  <2>3. /\ \A p \in M : next'[p] = IF p = x THEN 0 ELSE IF p = m THEN q ELSE next[p]
        /\ \A l \in DOMAIN chunks : /\ readers'[l].pos = readers[l].pos
                                    /\ readers'[l].nextWait <=> readers[l].nextWait /\ x # <<l>>
    BY <1>4 DEF Given, TakeEffect
  <2>4. (x = <<q>> /\ readers[q].nextWait /\ x \notin M) \/ (x \in M /\ next[x] = q)
    <3>1. CASE IsReader(x)
      <4>1. PICK k \in DOMAIN chunks : x = <<k>>
        BY <3>1, LeafFacts
      <4> QED BY <1>4, <3>1, <4>1 DEF Pointed, Given, Holds, Merges
    <3>2. CASE ~IsReader(x)
      BY <3>2 DEF Pointed, Merges
    <3> QED BY <3>1, <3>2
  <2>5. Pending(readers, next, q)
    BY <2>4 DEF Pending
  <2>6. Pending(readers', next', q) <=> m # x
    BY <1>4, <2>1, <2>3 DEF Pending
  <2>7. ASSUME NEW l \in DOMAIN chunks, l # q
        PROVE  Pending(readers', next', l) <=> Pending(readers, next, l)
    <3>1. readers'[l].nextWait <=> readers[l].nextWait
      <4>1. x = <<l>> => l = q
        BY <2>4, LeafFacts DEF Merges, IsReader
      <4> QED BY <2>3, <2>7, <4>1
    <3>2. \A p \in M : next'[p] = l <=> next[p] = l
      <4>1. l # 0
        BY <1>0
      <4> QED BY <1>4, <2>3, <2>4, <2>7, <4>1
    <3> QED BY <3>1, <3>2 DEF Pending
  <2> QED BY <2>2, <2>3, <2>5, <2>6, <2>7
<1>5. CASE Choose /\ ~UNCHANGED <<readers, next>>
  <2>1. PICK m \in M, x \in Tree(Len(chunks)) :
           x \in {m[1], m[2]} /\ x # m /\ next[m] = 0 /\ Given(x, m) /\ UNCHANGED <<chunks, out, last>>
    BY <1>5, ChooseGives
  <2>2. \A l \in DOMAIN chunks : /\ readers'[l].pos = readers[l].pos
                                 /\ Pending(readers', next', l) <=> Pending(readers, next, l)
    BY <1>4, <2>1
  <2> QED BY <1>1, <2>1, <2>2
<1>6. CASE Write
  <2>1. PICK x \in Tree(Len(chunks)) :
           /\ x = main /\ Given(x, x)
           /\ out' = Append(out, WriteNode(last, readers[Pointed(x)].next))
           /\ readers[Pointed(x)].next \in Node
    BY <1>6, WriteGives
  <2> DEFINE q == Pointed(x)
             i == readers[q].pos - 1
             node == readers[q].next
  <2>2. /\ q \in DOMAIN chunks /\ readers[q].pos > 1 /\ Pending(readers, next, q)
        /\ ~Pending(readers', next', q) /\ UNCHANGED chunks
        /\ \A l \in DOMAIN chunks :
              /\ readers'[l].pos = readers[l].pos
              /\ l # q => (Pending(readers', next', l) <=> Pending(readers, next, l))
    <3>1. UNCHANGED chunks
      BY <2>1 DEF Given
    <3> QED BY <1>4, <2>1, <3>1
  <2>3. i \in DOMAIN chunks[q].entries /\ i \in Nat /\ node.id = id(q, i)
    <3> DEFINE E == chunks[q].entries
    <3>1. E \in Seq(Entry) /\ Readable(E)
      BY <2>2, ChunkFacts DEF TypeInv
    <3>2. i \in DOMAIN E /\ node = Decoded(E)[i] /\ i \in Nat
      BY <1>0, <2>2 DEF TypeInv
    <3> HIDE DEF E, i
    <3>3. Decoded(E)[i].id = E[i].id
      BY <3>1, <3>2, DecodedType
    <3> QED BY <3>2, <3>3 DEF E
  <2>4. Written' = Written \cup {id(q, i)}
    <3> DEFINE w == WriteNode(last, node)
    <3>1. w.id = node.id /\ w \in Entry
      BY <2>1, WriteNodeType DEF TypeInv
    <3>2. out' = Append(out, w) /\ out \in Seq(Entry)
      BY <2>1 DEF TypeInv
    <3> HIDE DEF w
    <3>3. /\ DOMAIN out' = 1..(Len(out) + 1) /\ DOMAIN out = 1..Len(out) /\ Len(out) \in Nat
          /\ out'[Len(out) + 1] = w /\ \A n \in 1..Len(out) : out'[n] = out[n]
      BY <3>1, <3>2
    <3>4. 1..(Len(out) + 1) = (1..Len(out)) \cup {Len(out) + 1}
      BY <3>3
    <3>5. Written' = {out[n].id : n \in 1..Len(out)} \cup {w.id}
      BY <3>3, <3>4 DEF Written
    <3> QED BY <2>3, <3>1, <3>3, <3>5 DEF Written
  <2>5. ASSUME NEW l \in DOMAIN chunks, NEW j \in DOMAIN chunks[l].entries
        PROVE  id(l, j) \in Written' <=>
                  j < readers'[l].pos
                  /\ ~(j = readers'[l].pos - 1 /\ Pending(readers', next', l))
    <3>1. id(l, j) \in Written <=>
             j < readers[l].pos /\ ~(j = readers[l].pos - 1 /\ Pending(readers, next, l))
      BY DEF WrittenInv
    <3>2. id(l, j) = id(q, i) <=> l = q /\ j = i
      BY <2>2, <2>3, ChunkFacts DEF TypeInv
    <3>3. j \in Nat /\ readers[l].pos \in Nat
      BY <1>0
    <3>4. id(l, j) \in Written' <=> id(l, j) \in Written \/ (l = q /\ j = i)
      BY <2>4, <3>2
    <3>5. readers'[l].pos = readers[l].pos
      BY <2>2
    <3> HIDE DEF id, q
    <3>6. CASE l = q
      <4>1. ~Pending(readers', next', l)
        BY <2>2, <3>6
      <4>2. i = readers[l].pos - 1
        BY <3>6
      <4> HIDE DEF i
      <4> QED BY <3>1, <3>3, <3>4, <3>5, <3>6, <4>1, <4>2
    <3>7. CASE l # q
      <4>1. Pending(readers', next', l) <=> Pending(readers, next, l)
        BY <2>2, <3>7
      <4> QED BY <3>1, <3>4, <3>5, <3>7, <4>1
    <3> QED BY <3>6, <3>7
  <2>6. \A l : Pending(readers, next, l)' <=> Pending(readers', next', l)
    BY <2>2 DEF Pending
  <2> QED BY <2>2, <2>5, <2>6 DEF WrittenInv
<1>7. ASSUME Test \/ Known \/ ReadFails \/ AskChild \/ WriteEnd \/ Done \/ UNCHANGED vars
             \/ (Choose /\ UNCHANGED <<readers, next>>)
      PROVE  WrittenInv'
  <2>1. UNCHANGED <<chunks, readers, next, out>>
    BY <1>7 DEF Test, Known, ReadFails, AskChild, WriteEnd, Done, vars, Choose
  <2> QED BY <1>1, <2>1
<1> QED BY <1>2, <1>3, <1>5, <1>6, <1>7 DEF Next, Step

-----------------------------------------------------------------------------
(* The theorems.                                                           *)

LEMMA InitFacts == Init => TypeInv /\ PathInv /\ HolderInv /\ WrittenInv
<1> SUFFICES ASSUME Init PROVE TypeInv /\ PathInv /\ HolderInv /\ WrittenInv
  OBVIOUS
<1>0. DOMAIN chunks = 1..Len(chunks) /\ Len(chunks) \in Nat \ {0}
      /\ \A k \in DOMAIN chunks : Len(chunks[k].entries) \in Nat
                                  /\ DOMAIN chunks[k].entries = 1..Len(chunks[k].entries)
  BY ChunkFacts DEF Init
<1>1. \A m \in Merges(Len(chunks)) : next[m] = 0
  BY DEF Init
<1>2. \A k \in DOMAIN chunks : /\ readers[k].pos = 1 /\ readers[k].next = NoNode
                               /\ readers[k].nextWait = FALSE /\ readers[k] \in Reader
  BY DEF Init, Reader
<1>3. /\ readers \in [DOMAIN chunks -> Reader]
      /\ next \in [Merges(Len(chunks)) -> 0..Len(chunks)]
  BY <1>0, <1>2 DEF Init, Reader
<1>4. out = <<>> /\ out \in Seq(Entry) /\ last \in Seq(Nat) /\ chunks \in Inputs
  BY DEF Init
<1>5. TypeInv
  BY <1>0, <1>1, <1>2, <1>3, <1>4 DEF TypeInv
<1>6. PathInv
  BY DEF Init, PathInv
<1>7. HolderInv
  BY <1>1 DEF HolderInv
<1>8. WrittenInv
  <2>1. Written = {}
    BY <1>4 DEF Written
  <2>2. \A k \in DOMAIN chunks : \A j \in DOMAIN chunks[k].entries : ~(j < readers[k].pos)
    BY <1>0, <1>2
  <2> QED BY <2>1, <2>2 DEF WrittenInv
<1> QED BY <1>5, <1>6, <1>7, <1>8

LEMMA Inductive == Spec => [](TypeInv /\ PathInv /\ HolderInv /\ WrittenInv)
<1>1. TypeInv /\ PathInv /\ HolderInv /\ WrittenInv /\ [Next]_vars
      => (TypeInv /\ PathInv /\ HolderInv /\ WrittenInv)'
  BY TypeStep, PathStep, HolderStep, WrittenStep
<1> QED BY <1>1, InitFacts, PTL DEF Spec

\* Every variable of a merge of any number of chunks keeps its type: no reader passes the
\* end of its file, an iterator points into a reader there is, and the calls of operator
\* bool are a path down from the root of the tree AllocatedMergeAIterator has built.
THEOREM TypeCorrect == Spec => []TypeOK
<1>1. TypeInv /\ PathInv => TypeOK
  <2> SUFFICES ASSUME TypeInv, PathInv PROVE TypeOK
    OBVIOUS
  <2>1. chunks \in Seq(Chunk) /\ DOMAIN readers = DOMAIN chunks
    BY ChunkFacts DEF TypeInv
  <2>2. calls \in Seq(Call) /\ DOMAIN calls = 1..Len(calls)
    BY DEF PathInv
  <2> HIDE DEF Call
  <2> QED BY <2>1, <2>2 DEF TypeInv, PathInv, TypeOK
<1> QED BY <1>1, Inductive, PTL

\* A CompressComponentReader decodes over its node only when MergeChunks has written it:
\* up to then one MergeIterator at most points to the node, or the reader still waits.
\* Holds for any tree, any contents, and chunks cut anywhere.
THEOREM NoneOverwritten == Spec => []NothingOverwritten
<1>1. TypeInv /\ HolderInv /\ WrittenInv => NothingOverwritten
  <2> SUFFICES ASSUME TypeInv, HolderInv, WrittenInv,
                      NEW k \in DOMAIN readers, NEW j \in 1..(readers[k].pos - 1)
               PROVE  LET id == chunks[k].entries[j].id
                          current == j = readers[k].pos - 1
                          held == current /\ Holders(k) # {}
                          waits == current /\ readers[k].nextWait
                      IN  /\ id \in Written \/ held \/ waits
                          /\ ~(id \in Written /\ (held \/ waits)) /\ ~(held /\ waits)
                          /\ \A m, n \in Holders(k) : m = n
    BY DEF NothingOverwritten
  <2>1. k \in DOMAIN chunks /\ DOMAIN next = Merges(Len(chunks)) /\ k # 0
    BY ChunkFacts DEF TypeInv
  <2>2. j \in DOMAIN chunks[k].entries /\ j < readers[k].pos
    <3>1. readers[k].pos \in Nat /\ readers[k].pos <= Len(chunks[k].entries) + 1
          /\ Len(chunks[k].entries) \in Nat
          /\ DOMAIN chunks[k].entries = 1..Len(chunks[k].entries)
      BY <2>1, ChunkFacts DEF TypeInv, Reader
    <3> QED BY <3>1
  <2>3. Pending(readers, next, k) <=> readers[k].nextWait \/ Holders(k) # {}
    BY <2>1 DEF Pending, Holders
  <2>4. chunks[k].entries[j].id \in Written <=>
           ~(j = readers[k].pos - 1 /\ (readers[k].nextWait \/ Holders(k) # {}))
    BY <2>1, <2>2, <2>3 DEF WrittenInv
  <2>5. ~(Holders(k) # {} /\ readers[k].nextWait) /\ \A m, n \in Holders(k) : m = n
    BY <2>1 DEF HolderInv, Holders
  <2> QED BY <2>4, <2>5
<1> QED BY <1>1, Inductive, PTL
=============================================================================
