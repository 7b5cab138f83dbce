----------------------- MODULE TranscriptQueue_proofs -----------------------
(***************************************************************************)
(* Accounted, ChunksFit, AssembledFaithful and ImplementsContract hold in  *)
(* TranscriptQueue for any consumers, texts, sizes and bounds.             *)
(*                                                                         *)
(* The argument counts the copies of one chunk k: in a list (Copies), in a *)
(* bag (Of), and in the hands of the clients at some statements            *)
(* (HeldCopies).  A step of a consumer changes only its own hand, so the   *)
(* hands of the others drop out (HeldStep), and Balanced says, action by   *)
(* action, that what it takes from one place it puts into another.  The    *)
(* account (Counted) and the contract (ContractStepMaps) both follow from  *)
(* that one equation and from what the action does to messages and finished. *)
(*                                                                         *)
(* QueueInv is what the equation needs besides the types: as long as no two *)
(* operations crossed, at most one client that lives has copied the pending *)
(* list and the copy still fits it, or Clear would lose or double a chunk, *)
(* and what the drain read is still what it deletes.                       *)
(*                                                                         *)
(* AssembledFaithful is about words.  What was drained is a number of      *)
(* copies of Chunks (PublishedTimes), so that its words are as many copies *)
(* of those of the normalised text; FillersDropped goes from the words of  *)
(* a text to those of the text without a filler, and from there to lists   *)
(* put together.  For plain speech, Stages gives the words that are left   *)
(* after each of the four replacements.                                    *)
(***************************************************************************)
EXTENDS TranscriptQueue, TranscriptText_proofs

-----------------------------------------------------------------------------
(* How often a chunk is in a list.                                         *)

Copies(s, k) == Cardinality({i \in DOMAIN s : s[i] = k})

LEMMA CopiesType ==
  ASSUME NEW s \in Texts, NEW k
  PROVE  /\ IsFiniteSet({i \in DOMAIN s : s[i] = k})
         /\ Copies(s, k) \in Nat
         /\ Copies(s, k) = 0 <=> k \notin ToSet(s)
<1> DEFINE I == {i \in DOMAIN s : s[i] = k}
<1>1. DOMAIN s = 1 .. Len(s) /\ Len(s) \in Nat
  BY DEF Texts
<1>2. IsFiniteSet(DOMAIN s)
  BY <1>1, FS_Interval
<1>3. IsFiniteSet(I)
  BY <1>2, FS_Subset, I \in SUBSET DOMAIN s
<1>4. Cardinality(I) \in Nat /\ (Cardinality(I) = 0 <=> I = {})
  BY <1>3, FS_CardinalityType, FS_EmptySet
<1>5. I = {} <=> k \notin ToSet(s)
  BY DEF ToSet
<1> QED BY <1>3, <1>4, <1>5 DEF Copies

LEMMA CopiesOfNone ==
  ASSUME NEW k
  PROVE  <<>> \in Texts /\ Copies(<<>>, k) = 0
<1>1. <<>> \in Texts
  BY EmptySeq DEF Texts
<1>2. k \notin ToSet(<<>>)
  BY DEF ToSet
<1> QED BY <1>1, <1>2, CopiesType

LEMMA CopiesOfOne ==
  ASSUME NEW x \in Text, NEW k
  PROVE  <<x>> \in Texts /\ Copies(<<x>>, k) = IF x = k THEN 1 ELSE 0
<1>1. <<x>> \in Texts
  BY DEF Texts
<1>2. {i \in DOMAIN <<x>> : <<x>>[i] = k} = IF x = k THEN {1} ELSE {}
  OBVIOUS
<1> QED BY <1>1, <1>2, FS_Singleton, FS_EmptySet DEF Copies

LEMMA CopiesConcat ==
  ASSUME NEW s \in Texts, NEW t \in Texts, NEW k
  PROVE  s \o t \in Texts /\ Copies(s \o t, k) = Copies(s, k) + Copies(t, k)
<1> DEFINE A == {i \in DOMAIN s : s[i] = k}
           B == {i \in DOMAIN t : t[i] = k}
           m == Len(s)
           C == {i + m : i \in B}
           u == s \o t
<1>1. /\ m \in Nat /\ DOMAIN s = 1 .. m /\ Len(t) \in Nat /\ DOMAIN t = 1 .. Len(t)
      /\ u \in Texts /\ DOMAIN u = 1 .. m + Len(t)
      /\ \A i \in 1 .. m : u[i] = s[i]
      /\ \A i \in 1 .. Len(t) : u[i + m] = t[i]
  BY ConcatProperties, LenProperties DEF Texts
<1>2. IsFiniteSet(A) /\ IsFiniteSet(B)
  BY CopiesType
<1> HIDE DEF u, m
<1>3. {i \in DOMAIN u : u[i] = k} = A \cup C
  <2>1. ASSUME NEW i \in DOMAIN u, u[i] = k PROVE i \in A \cup C
    <3>1. CASE i <= m
      BY <3>1, <2>1, <1>1
    <3>2. CASE i > m
      <4>1. i - m \in 1 .. Len(t) /\ (i - m) + m = i
        BY <3>2, <1>1
      <4>2. i - m \in B
        BY <4>1, <2>1, <1>1
      <4> QED BY <4>1, <4>2
    <3> QED BY <3>1, <3>2, <1>1
  <2>2. ASSUME NEW i \in A PROVE i \in DOMAIN u /\ u[i] = k
    BY <1>1
  <2>3. ASSUME NEW i \in C PROVE i \in DOMAIN u /\ u[i] = k
    BY <1>1
  <2> QED BY <2>1, <2>2, <2>3
<1>4. A \cap C = {}
  BY <1>1
<1>5. IsFiniteSet(C) /\ Cardinality(C) = Cardinality(B)
  <2> DEFINE f == [i \in B |-> i + m]
  <2>1. f \in [B -> C] /\ \A c \in C : \E i \in B : f[i] = c
    OBVIOUS
  <2>2. \A i, j \in B : f[i] = f[j] => i = j
    BY <1>1
  <2>3. f \in Bijection(B, C)
    BY <2>1, <2>2 DEF Bijection, Injection, IsInjective, Surjection
  <2> HIDE DEF B, C
  <2> QED BY <2>3, <1>2, FS_Bijection DEF ExistsBijection
<1> HIDE DEF A, B, C
<1>6. Cardinality(A \cup C) = Cardinality(A) + Cardinality(B)
  <2>1. Cardinality(A \cup C) = Cardinality(A) + Cardinality(C) - Cardinality(A \cap C)
    BY <1>2, <1>5, FS_Union
  <2>2. Cardinality(A \cap C) = 0 /\ Cardinality(A) \in Nat /\ Cardinality(C) \in Nat
    BY <1>2, <1>4, <1>5, FS_EmptySet, FS_CardinalityType
  <2> QED BY <2>1, <2>2, <1>5
<1> QED BY <1>1, <1>3, <1>6 DEF Copies, A, B, u

LEMMA CopiesAppend ==
  ASSUME NEW s \in Texts, NEW x \in Text, NEW k
  PROVE  Append(s, x) \in Texts /\ Copies(Append(s, x), k) = Copies(s, k) + IF x = k THEN 1 ELSE 0
<1>1. Append(s, x) = s \o <<x>>
  BY AppendIsConcat DEF Texts
<1> QED BY <1>1, CopiesOfOne, CopiesConcat

LEMMA CopiesSplit ==
  ASSUME NEW s \in Texts, NEW m \in 0 .. Len(s), NEW k
  PROVE  /\ SubSeq(s, 1, m) \in Texts /\ SubSeq(s, m + 1, Len(s)) \in Texts
         /\ s = SubSeq(s, 1, m) \o SubSeq(s, m + 1, Len(s))
         /\ Copies(s, k) = Copies(SubSeq(s, 1, m), k) + Copies(SubSeq(s, m + 1, Len(s)), k)
<1>1. Len(s) \in Nat /\ \A i \in 1 .. Len(s) : s[i] \in Text
  BY DEF Texts
<1>2. SubSeq(s, 1, m) \in Texts /\ SubSeq(s, m + 1, Len(s)) \in Texts
  BY <1>1, SubSeqProperties DEF Texts
<1>3. SubSeq(s, 1, m) \o SubSeq(s, m + 1, Len(s)) = SubSeq(s, 1, Len(s))
  <2>1. 1 \in 1 .. Len(s) + 1 /\ m \in 1 - 1 .. Len(s) /\ Len(s) \in m .. Len(s)
    BY <1>1
  <2> QED BY <2>1, ConcatAdjacentSubSeq DEF Texts
<1>4. SubSeq(s, 1, Len(s)) = s
  BY SubSeqFull DEF Texts
<1> DEFINE a == SubSeq(s, 1, m)  b == SubSeq(s, m + 1, Len(s))
<1>5. s = a \o b /\ a \in Texts /\ b \in Texts
  BY <1>2, <1>3, <1>4
<1> HIDE DEF a, b
<1>6. Copies(a \o b, k) = Copies(a, k) + Copies(b, k)
  BY <1>5, CopiesConcat
<1>7. Copies(s, k) = Copies(a, k) + Copies(b, k)
  BY <1>5, <1>6, Zenon
<1> QED BY <1>5, <1>7 DEF a, b

LEMMA CopiesTail ==
  ASSUME NEW s \in Texts, s # <<>>, NEW k
  PROVE  /\ Head(s) \in Text /\ Tail(s) \in Texts
         /\ Copies(s, k) = (IF Head(s) = k THEN 1 ELSE 0) + Copies(Tail(s), k)
<1>1. Head(s) \in Text /\ Tail(s) \in Texts
  BY HeadTailProperties DEF Texts
<1>2. s = <<Head(s)>> \o Tail(s)
  BY DEF Texts
<1>3. <<Head(s)>> \in Texts /\ Copies(<<Head(s)>>, k) = IF Head(s) = k THEN 1 ELSE 0
  BY <1>1, CopiesOfOne
<1>4. Copies(<<Head(s)>> \o Tail(s), k) = Copies(<<Head(s)>>, k) + Copies(Tail(s), k)
  BY <1>1, <1>3, CopiesConcat
<1>5. Copies(<<Head(s)>> \o Tail(s), k) = Copies(s, k)
  BY <1>2
<1> QED BY <1>1, <1>3, <1>4, <1>5

\* lrem 1.
LEMMA CopiesRemoveFirst ==
  ASSUME NEW s \in Texts, NEW x \in ToSet(s), NEW k
  PROVE  /\ x \in Text /\ RemoveFirst(s, x) \in Texts
         /\ Copies(s, k) = (IF x = k THEN 1 ELSE 0) + Copies(RemoveFirst(s, x), k)
<1> DEFINE I == {i \in 1 .. Len(s) : s[i] = x}
           i == Min(I)
<1>1. Len(s) \in Nat /\ DOMAIN s = 1 .. Len(s) /\ \A j \in 1 .. Len(s) : s[j] \in Text
  BY DEF Texts
<1>2. I # {} /\ x \in Text
  BY <1>1 DEF ToSet
<1>3. i \in I
  <2>1. I \in SUBSET Nat
    OBVIOUS
  <2>2. \E a \in I : \A b \in I : a <= b
    <3> HIDE DEF I
    <3> QED BY <1>2, <2>1, Least
  <2> HIDE DEF I
  <2> QED BY <2>2 DEF Min
<1>4. RemoveFirst(s, x) = SubSeq(s, 1, i - 1) \o SubSeq(s, i + 1, Len(s))
  BY <1>2 DEF RemoveFirst, RemoveAt, SelectInSeq
<1>5. i \in 1 .. Len(s) /\ s[i] = x
  BY <1>3
<1> HIDE DEF i
<1> DEFINE rest == SubSeq(s, i, Len(s))
<1>6. /\ SubSeq(s, 1, i - 1) \in Texts /\ rest \in Texts
      /\ Copies(s, k) = Copies(SubSeq(s, 1, i - 1), k) + Copies(rest, k)
  <2>1. i - 1 \in 0 .. Len(s) /\ (i - 1) + 1 = i
    BY <1>1, <1>5
  <2> QED BY <2>1, CopiesSplit
<1>7. rest = <<x>> \o SubSeq(s, i + 1, Len(s))
  <2>1. Len(s) \in i .. Len(s)
    BY <1>1, <1>5
  <2> QED BY <2>1, <1>5, SubSeqRecursiveFirst DEF Texts
<1>8. SubSeq(s, i + 1, Len(s)) \in Texts
  <2>1. i \in 0 .. Len(s)
    BY <1>1, <1>5
  <2> QED BY <2>1, CopiesSplit
<1> HIDE DEF rest
<1>9. Copies(rest, k) = (IF x = k THEN 1 ELSE 0) + Copies(SubSeq(s, i + 1, Len(s)), k)
  BY <1>2, <1>7, <1>8, CopiesOfOne, CopiesConcat
<1>10. /\ Copies(SubSeq(s, 1, i - 1), k) \in Nat /\ Copies(rest, k) \in Nat
       /\ Copies(SubSeq(s, i + 1, Len(s)), k) \in Nat
  BY <1>6, <1>8, CopiesType
<1>11. /\ RemoveFirst(s, x) \in Texts
       /\ Copies(RemoveFirst(s, x), k)
            = Copies(SubSeq(s, 1, i - 1), k) + Copies(SubSeq(s, i + 1, Len(s)), k)
  BY <1>4, <1>6, <1>8, CopiesConcat
<1> QED BY <1>2, <1>6, <1>9, <1>10, <1>11

\* The values of the fold that Only is.
OnlyOf(F, s, ids) ==
  /\ F \in [0 .. Len(s) -> Texts]
  /\ F[0] = <<>>
  /\ \A i \in 1 .. Len(s) : F[i] = IF s[i] \in ids THEN Append(F[i - 1], s[i]) ELSE F[i - 1]

LEMMA OnlyUnfold ==
  ASSUME NEW s \in Texts, NEW ids
  PROVE  \E F : OnlyOf(F, s, ids) /\ Only(s, ids) = F[Len(s)]
<1> DEFINE n == Len(s)
           Next1(g, i) == IF s[i] \in ids THEN Append(g, s[i]) ELSE g
           step == [p \in (1 .. n) \X Texts |-> Next1(p[2], p[1])]
           Solution(g) == g = [S \in SUBSET DOMAIN s |->
             IF S = {} THEN <<>> ELSE Next1(g[S \ {Max(S)}], Max(S))]
           iter == CHOOSE g : Solution(g)
<1>1. n \in Nat /\ DOMAIN s = 1 .. n /\ <<>> \in Texts /\ \A i \in 1 .. n : s[i] \in Text
  BY CopiesOfNone DEF Texts
<1>2. Only(s, ids) = iter[DOMAIN s]
  BY DEF Only, FoldLeft, MapThenFoldSet
<1>3. ASSUME NEW g \in Texts, NEW i \in 1 .. n PROVE Next1(g, i) \in Texts
  BY <1>1 DEF Texts
<1> HIDE DEF n, Next1
<1>4. step \in [(1 .. n) \X Texts -> Texts]
  BY <1>3
<1>5. PICK g : IsFold(g, n, Texts, <<>>, step)
  <2> HIDE DEF step
  <2> QED BY <1>1, <1>4, FoldExists
<1> USE DEF IsFold
<1>6. ASSUME NEW S \in SUBSET (1 .. n), S # {}
      PROVE  step[Max(S), g[S \ {Max(S)}]] = Next1(g[S \ {Max(S)}], Max(S))
  <2>1. Max(S) \in 1 .. n /\ S \ {Max(S)} \in SUBSET (1 .. n)
    BY <1>1, <1>6, Greatest
  <2>2. <<Max(S), g[S \ {Max(S)}]>> \in (1 .. n) \X Texts
    BY <2>1, <1>5
  <2> QED BY <2>1, <2>2
<1> HIDE DEF step
<1>7. Solution(g)
  <2>1. \A S \in SUBSET DOMAIN s :
          g[S] = IF S = {} THEN <<>> ELSE Next1(g[S \ {Max(S)}], Max(S))
    BY <1>1, <1>5, <1>6
  <2> QED BY <2>1, <1>1, <1>5
<1>8. Solution(iter)
  BY <1>7
<1> HIDE DEF iter
<1> DEFINE F == [i \in 0 .. n |-> iter[1 .. i]]
<1>9. F[0] = <<>>
  <2>1. 1 .. 0 = {} /\ 1 .. 0 \in SUBSET DOMAIN s
    BY <1>1
  <2> QED BY <1>1, <1>8, <2>1
<1>10. ASSUME NEW i \in 1 .. n PROVE F[i] = Next1(F[i - 1], i)
  <2> HIDE DEF F, Solution
  <2>1. /\ 1 .. i \in SUBSET (1 .. n) /\ i \in 1 .. i
        /\ i \in Nat /\ i # 0 /\ i \in 0 .. n /\ i - 1 \in 0 .. n
    BY <1>1
  <2> USE DEF F, Solution
  <2>2. Max(1 .. i) = i /\ (1 .. i) \ {Max(1 .. i)} = 1 .. (i - 1)
    BY <2>1, GreatestOfInterval
  <2>3. iter[1 .. i] = Next1(iter[1 .. (i - 1)], i)
    BY <1>1, <1>8, <2>1, <2>2
  <2> QED BY <2>1, <2>3
<1> HIDE DEF F, Solution
<1>11. \A i \in 0 .. n : F[i] \in Texts
  <2>1. ASSUME NEW i \in 1 .. n, F[i - 1] \in Texts PROVE F[i] \in Texts
    BY <1>3, <1>10, <2>1
  <2> QED BY <1>1, <1>9, <2>1, Recursion
<1>12. F \in [0 .. n -> Texts]
  BY <1>11 DEF F
<1>13. Only(s, ids) = F[n]
  BY <1>1, <1>2 DEF F
<1>14. OnlyOf(F, s, ids)
  BY <1>9, <1>10, <1>12 DEF OnlyOf, n, Next1
<1> QED BY <1>13, <1>14 DEF n

\* What is kept is kept as often as it was there.
LEMMA CopiesOnly ==
  ASSUME NEW s \in Texts, NEW ids, NEW k
  PROVE  Only(s, ids) \in Texts /\ Copies(Only(s, ids), k) = IF k \in ids THEN Copies(s, k) ELSE 0
<1> DEFINE Kept(i) == IF k \in ids THEN Copies(SubSeq(s, 1, i), k) ELSE 0
<1>1. PICK F : OnlyOf(F, s, ids) /\ Only(s, ids) = F[Len(s)]
  BY OnlyUnfold
<1>2. Len(s) \in Nat /\ \A i \in 1 .. Len(s) : s[i] \in Text
  BY DEF Texts
<1>3. \A i \in 0 .. Len(s) : SubSeq(s, 1, i) \in Texts
  BY CopiesSplit
<1> DEFINE A == {i \in Nat : i <= Len(s) => Copies(F[i], k) = Kept(i)}
<1>4. 0 \in A
  <2>1. SubSeq(s, 1, 0) = <<>> /\ F[0] = <<>>
    BY <1>1, SubSeqEmpty DEF OnlyOf
  <2> QED BY <2>1, CopiesOfNone
<1>5. ASSUME NEW i \in Nat, i \in A PROVE i + 1 \in A
  <2>1. SUFFICES ASSUME i + 1 <= Len(s) PROVE Copies(F[i + 1], k) = Kept(i + 1)
    OBVIOUS
  <2> DEFINE x == s[i + 1]  before == SubSeq(s, 1, i)
  <2>2. i + 1 \in 1 .. Len(s) /\ (i + 1) - 1 = i /\ i \in 0 .. Len(s)
    BY <1>2, <2>1
  <2>3. SubSeq(s, 1, i + 1) = Append(before, x) /\ before \in Texts /\ x \in Text
    <3>1. SubSeq(s, 1, i + 1) = SubSeq(s, 1, (i + 1) - 1) \o <<s[i + 1]>>
      <4>1. 1 \in 1 .. Len(s)
        BY <1>2, <2>2
      <4> QED BY <4>1, <2>2, SubSeqRecursiveSecond DEF Texts
    <3>2. before \in Texts /\ x \in Text
      BY <1>2, <1>3, <2>2
    <3> HIDE DEF before, x
    <3>3. Append(before, x) = before \o <<x>>
      BY <3>2, AppendIsConcat DEF Texts
    <3> QED BY <3>1, <3>2, <3>3, <2>2 DEF before, x
  <2> HIDE DEF x, before
  <2>4. Copies(SubSeq(s, 1, i + 1), k) = Copies(before, k) + IF x = k THEN 1 ELSE 0
    <3>1. Copies(Append(before, x), k) = Copies(before, k) + IF x = k THEN 1 ELSE 0
      BY <2>3, CopiesAppend
    <3>2. Copies(Append(before, x), k) = Copies(SubSeq(s, 1, i + 1), k)
      BY <2>3
    <3> QED BY <3>1, <3>2
  <2>5. F[i] \in Texts /\ F[i + 1] = IF x \in ids THEN Append(F[i], x) ELSE F[i]
    BY <1>1, <2>2 DEF OnlyOf, x
  <2>6. Copies(Append(F[i], x), k) = Copies(F[i], k) + IF x = k THEN 1 ELSE 0
    BY <2>3, <2>5, CopiesAppend
  <2>7. Copies(F[i], k) = IF k \in ids THEN Copies(before, k) ELSE 0
    BY <1>5, <2>2 DEF before
  <2>8. Copies(before, k) \in Nat
    BY <2>3, CopiesType
  <2> HIDE DEF A
  <2>9. CASE x = k
    BY <2>4, <2>5, <2>6, <2>7, <2>8, <2>9
  <2>10. CASE x # k
    BY <2>4, <2>5, <2>6, <2>7, <2>8, <2>10
  <2> QED BY <2>9, <2>10
<1>6. Len(s) \in A
  <2> HIDE DEF A
  <2> QED BY <1>2, <1>4, <1>5, Induct
<1>7. SubSeq(s, 1, Len(s)) = s
  BY SubSeqFull DEF Texts
<1>8. Copies(F[Len(s)], k) = Kept(Len(s))
  <2> HIDE DEF Kept
  <2> QED BY <1>2, <1>6
<1>9. F[Len(s)] \in Texts
  BY <1>1, <1>2 DEF OnlyOf
<1>10. Copies(F[Len(s)], k) = IF k \in ids THEN Copies(s, k) ELSE 0
  BY <1>7, <1>8
<1> QED BY <1>1, <1>9, <1>10

LEMMA CopiesWithout ==
  ASSUME NEW s \in Texts, NEW ids, NEW k
  PROVE  /\ Without(s, ids) \in Texts
         /\ Copies(Without(s, ids), k) = IF k \in ids THEN 0 ELSE Copies(s, k)
<1>1. /\ Without(s, ids) \in Texts
      /\ Copies(Without(s, ids), k) = IF k \in ToSet(s) \ ids THEN Copies(s, k) ELSE 0
  BY CopiesOnly DEF Without
<1>2. Copies(s, k) = 0 <=> k \notin ToSet(s)
  BY CopiesType
<1> QED BY <1>1, <1>2

-----------------------------------------------------------------------------
(* Bags.                                                                   *)

IsBag(b) == b \in [DOMAIN b -> Nat \ {0}]
Of(b, k) == IF k \in DOMAIN b THEN b[k] ELSE 0

LEMMA BagType ==
  ASSUME NEW b, IsBag(b), NEW k
  PROVE  Of(b, k) \in Nat /\ (Of(b, k) = 0 <=> k \notin DOMAIN b)
  BY DEF IsBag, Of

LEMMA BagEqual ==
  ASSUME NEW a, NEW b, IsBag(a), IsBag(b), \A k : Of(a, k) = Of(b, k)
  PROVE  a = b
<1>1. DOMAIN a = DOMAIN b
  <2>1. ASSUME NEW k PROVE k \in DOMAIN a <=> k \in DOMAIN b
    <3>1. Of(a, k) = Of(b, k)
      OBVIOUS
    <3> QED BY <3>1, BagType
  <2> QED BY <2>1
<1>2. ASSUME NEW k \in DOMAIN a PROVE a[k] = b[k]
  <2>1. Of(a, k) = Of(b, k)
    OBVIOUS
  <2> QED BY <2>1, <1>1 DEF Of
<1> QED BY <1>1, <1>2 DEF IsBag

LEMMA EmptyBagType == IsBag(EmptyBag) /\ \A k : Of(EmptyBag, k) = 0
  BY DEF EmptyBag, SetToBag, IsBag, Of

LEMMA BagOfType ==
  ASSUME NEW s \in Texts
  PROVE  IsBag(BagOf(s)) /\ \A k : Of(BagOf(s), k) = Copies(s, k)
<1>1. DOMAIN BagOf(s) = ToSet(s) /\ \A k \in ToSet(s) : BagOf(s)[k] = Copies(s, k)
  BY DEF BagOf, Copies
<1>2. \A k : Copies(s, k) \in Nat /\ (Copies(s, k) = 0 <=> k \notin ToSet(s))
  BY CopiesType
<1>3. IsBag(BagOf(s))
  <2>1. BagOf(s) = [k \in ToSet(s) |-> Copies(s, k)]
    BY DEF BagOf, Copies
  <2> QED BY <1>1, <1>2, <2>1 DEF IsBag
<1> QED BY <1>1, <1>2, <1>3 DEF Of

LEMMA BagPlus ==
  ASSUME NEW a, NEW b, IsBag(a), IsBag(b)
  PROVE  IsBag(a (+) b) /\ \A k : Of(a (+) b, k) = Of(a, k) + Of(b, k)
<1> DEFINE c == a (+) b
<1>1. /\ DOMAIN c = DOMAIN a \cup DOMAIN b
      /\ \A k \in DOMAIN a \cup DOMAIN b : c[k] = Of(a, k) + Of(b, k)
      /\ c = [k \in DOMAIN c |-> c[k]]
  BY DEF (+), Of
<1> HIDE DEF c
<1>2. \A k : Of(a, k) \in Nat /\ (Of(a, k) = 0 <=> k \notin DOMAIN a)
  BY BagType
<1>3. \A k : Of(b, k) \in Nat /\ (Of(b, k) = 0 <=> k \notin DOMAIN b)
  BY BagType
<1>4. \A k \in DOMAIN c : c[k] \in Nat \ {0}
  BY <1>1, <1>2, <1>3
<1>5. IsBag(c)
  BY <1>1, <1>4 DEF IsBag
<1>6. ASSUME NEW k PROVE Of(c, k) = Of(a, k) + Of(b, k)
  BY <1>1, <1>2, <1>3 DEF Of
<1> QED BY <1>5, <1>6 DEF c

LEMMA BagMinus ==
  ASSUME NEW a, NEW b, IsBag(a), IsBag(b)
  PROVE  /\ IsBag(a (-) b)
         /\ \A k : Of(a (-) b, k) = IF Of(a, k) > Of(b, k) THEN Of(a, k) - Of(b, k) ELSE 0
<1> DEFINE c == a (-) b
           D == {k \in DOMAIN a : Of(a, k) - Of(b, k) > 0}
<1>1. \A k : Of(a, k) \in Nat /\ (Of(a, k) = 0 <=> k \notin DOMAIN a)
  BY BagType
<1>2. \A k : Of(b, k) \in Nat /\ (Of(b, k) = 0 <=> k \notin DOMAIN b)
  BY BagType
<1>3. c = [k \in D |-> Of(a, k) - Of(b, k)]
  <2> DEFINE B == [k \in DOMAIN a |-> IF k \in DOMAIN b THEN a[k] - b[k] ELSE a[k]]
  <2>1. \A k \in DOMAIN a : B[k] = Of(a, k) - Of(b, k)
    <3>1. \A k \in DOMAIN a : a[k] = Of(a, k) /\ Of(a, k) \in Nat
      BY <1>1 DEF Of
    <3>2. \A k : k \in DOMAIN b => b[k] = Of(b, k)
      BY DEF Of
    <3>3. \A k : k \notin DOMAIN b => Of(b, k) = 0
      BY DEF Of
    <3> QED BY <3>1, <3>2, <3>3
  <2>2. c = [k \in {d \in DOMAIN B : B[d] > 0} |-> B[k]]
    BY DEF (-)
  <2> QED BY <2>1, <2>2
<1> HIDE DEF c
<1>4. IsBag(c)
  BY <1>1, <1>2, <1>3 DEF IsBag
<1>5. ASSUME NEW k PROVE Of(c, k) = IF Of(a, k) > Of(b, k) THEN Of(a, k) - Of(b, k) ELSE 0
  <2> DEFINE m == Of(a, k)  n == Of(b, k)
  <2>1. m \in Nat /\ n \in Nat /\ (m = 0 <=> k \notin DOMAIN a)
    BY <1>1, <1>2
  <2>2. k \in D <=> k \in DOMAIN a /\ m - n > 0
    OBVIOUS
  <2>3. Of(c, k) = IF k \in D THEN m - n ELSE 0
    BY <1>3 DEF Of
  <2> HIDE DEF m, n, D
  <2>4. Of(c, k) = IF m > n THEN m - n ELSE 0
    BY <2>1, <2>2, <2>3
  <2> QED BY <2>4 DEF m, n
<1> QED BY <1>4, <1>5 DEF c

LEMMA BagBelow ==
  ASSUME NEW a, NEW b, IsBag(a), IsBag(b), \A k : Of(a, k) <= Of(b, k)
  PROVE  a \sqsubseteq b
<1>1. \A k : Of(a, k) \in Nat /\ (Of(a, k) = 0 <=> k \notin DOMAIN a)
  BY BagType
<1>2. \A k : Of(b, k) \in Nat /\ (Of(b, k) = 0 <=> k \notin DOMAIN b)
  BY BagType
<1>3. ASSUME NEW k \in DOMAIN a PROVE k \in DOMAIN b /\ a[k] <= b[k]
  <2>1. Of(a, k) <= Of(b, k) /\ Of(a, k) # 0 /\ Of(a, k) = a[k]
    BY <1>1 DEF Of
  <2>2. k \in DOMAIN b
    BY <1>1, <1>2, <2>1
  <2> QED BY <2>1, <2>2 DEF Of
<1> QED BY <1>3 DEF \sqsubseteq

-----------------------------------------------------------------------------
(* What the clients hold.                                                  *)

\* Places and the places of one chunk, of any hands h and labels l.
PlacesOf(h, l, labels) ==
  UNION {{c} \X DOMAIN h[c] : c \in {c \in Clients : l[c] \in labels}}
PlacesOfChunk(h, l, labels, k) == {p \in PlacesOf(h, l, labels) : h[p[1]][p[2]] = k}
HeldCopies(h, l, labels, k) == Cardinality(PlacesOfChunk(h, l, labels, k))

\* The places of all clients but one.
Elsewhere(h, l, labels, k, c) == {p \in PlacesOfChunk(h, l, labels, k) : p[1] # c}

LEMMA PlacesFinite ==
  ASSUME IsFiniteSet(Clients), NEW h \in [Clients -> Texts], NEW l, NEW labels, NEW k
  PROVE  /\ IsFiniteSet(PlacesOfChunk(h, l, labels, k))
         /\ HeldCopies(h, l, labels, k) \in Nat
         /\ HeldCopies(h, l, labels, k) = 0 <=> PlacesOfChunk(h, l, labels, k) = {}
<1> DEFINE S == {c \in Clients : l[c] \in labels}
           T == {{c} \X DOMAIN h[c] : c \in S}
           f == [c \in S |-> {c} \X DOMAIN h[c]]
<1>1. IsFiniteSet(S)
  BY FS_Subset, S \in SUBSET Clients
<1>2. f \in Surjection(S, T)
  BY DEF Surjection
<1>3. IsFiniteSet(T)
  <2> HIDE DEF S, T, f
  <2> QED BY <1>1, <1>2, FS_Surjection
<1>4. ASSUME NEW R \in T PROVE IsFiniteSet(R)
  <2>1. PICK c \in Clients : R = {c} \X DOMAIN h[c]
    OBVIOUS
  <2>2. DOMAIN h[c] = 1 .. Len(h[c]) /\ Len(h[c]) \in Nat
    BY DEF Texts
  <2> HIDE DEF T, f
  <2>3. IsFiniteSet(DOMAIN h[c]) /\ IsFiniteSet({c})
    <3>1. \A n \in Nat : IsFiniteSet(1 .. n)
      BY FS_Interval
    <3> QED BY <2>2, <3>1, FS_Singleton
  <2> HIDE DEF T
  <2> QED BY <2>1, <2>3, FS_Product
<1>5. IsFiniteSet(UNION T)
  <2> HIDE DEF T
  <2> QED BY <1>3, <1>4, FS_UNION
<1>6. PlacesOfChunk(h, l, labels, k) \in SUBSET UNION T
  BY DEF PlacesOfChunk, PlacesOf
<1>7. IsFiniteSet(PlacesOfChunk(h, l, labels, k))
  <2> HIDE DEF T
  <2> QED BY <1>5, <1>6, FS_Subset
<1> QED BY <1>7, FS_CardinalityType, FS_EmptySet DEF HeldCopies

\* The copies in the hands of a client, and those elsewhere.
LEMMA HeldSplit ==
  ASSUME IsFiniteSet(Clients), NEW h \in [Clients -> Texts], NEW l, NEW labels, NEW k,
         NEW c \in Clients
  PROVE  /\ Cardinality(Elsewhere(h, l, labels, k, c)) \in Nat
         /\ HeldCopies(h, l, labels, k)
              = Cardinality(Elsewhere(h, l, labels, k, c))
                + IF l[c] \in labels THEN Copies(h[c], k) ELSE 0
<1> DEFINE I == {i \in DOMAIN h[c] : h[c][i] = k}
           M == {p \in PlacesOfChunk(h, l, labels, k) : p[1] = c}
           E == Elsewhere(h, l, labels, k, c)
           P == PlacesOfChunk(h, l, labels, k)
<1>1. IsFiniteSet(P) /\ IsFiniteSet(M) /\ IsFiniteSet(E) /\ P = M \cup E /\ M \cap E = {}
  <2>1. IsFiniteSet(P)
    BY PlacesFinite
  <2>2. M \in SUBSET P /\ E \in SUBSET P /\ P = M \cup E /\ M \cap E = {}
    BY DEF Elsewhere
  <2> HIDE DEF P, M, E
  <2> QED BY <2>1, <2>2, FS_Subset
<1>2. Cardinality(P) = Cardinality(M) + Cardinality(E) /\ Cardinality(E) \in Nat
  <2> HIDE DEF P, M, E
  <2>1. Cardinality(M \cup E) = Cardinality(M) + Cardinality(E) - Cardinality(M \cap E)
    BY <1>1, FS_Union
  <2>2. Cardinality(M) \in Nat /\ Cardinality(E) \in Nat /\ Cardinality(M \cap E) = 0
    BY <1>1, FS_CardinalityType, FS_EmptySet
  <2> QED BY <1>1, <2>1, <2>2
<1>3. CASE l[c] \in labels
  <2>1. h[c] \in Texts /\ IsFiniteSet(I) /\ Cardinality(I) = Copies(h[c], k)
    BY CopiesType DEF Copies
  <2>2. \A i \in I : <<c, i>> \in M
    BY <1>3 DEF PlacesOfChunk, PlacesOf
  <2>3. \A p \in M : p = <<c, p[2]>> /\ p[2] \in I
    BY DEF PlacesOfChunk, PlacesOf
  <2> DEFINE f == [i \in I |-> <<c, i>>]
  <2> HIDE DEF M, I
  <2>4. f \in Bijection(I, M)
    <3>1. f \in [I -> M]
      BY <2>2
    <3>2. \A p \in M : \E i \in I : f[i] = p
      BY <2>3
    <3>3. \A i, j \in I : f[i] = f[j] => i = j
      OBVIOUS
    <3> QED BY <3>1, <3>2, <3>3 DEF Bijection, Injection, IsInjective, Surjection
  <2> HIDE DEF f
  <2>5. Cardinality(M) = Cardinality(I)
    BY <2>1, <2>4, FS_Bijection DEF ExistsBijection
  <2>6. Cardinality(I) \in Nat
    BY <2>1, FS_CardinalityType
  <2> HIDE DEF P, E
  <2>7. Cardinality(P) = Cardinality(E) + Copies(h[c], k)
    BY <1>2, <2>1, <2>5, <2>6
  <2> QED BY <1>2, <1>3, <2>7 DEF HeldCopies, P, E
<1>4. CASE l[c] \notin labels
  <2>1. M = {}
    BY <1>4 DEF PlacesOfChunk, PlacesOf
  <2> HIDE DEF M, P, E
  <2>2. Cardinality(M) = 0
    BY <2>1, FS_EmptySet
  <2>3. Cardinality(P) = Cardinality(E)
    BY <1>2, <2>2
  <2> QED BY <1>2, <1>4, <2>3 DEF HeldCopies, P, E
<1> QED BY <1>3, <1>4

\* A step of one client moves nothing elsewhere.
LEMMA ElsewhereKept ==
  ASSUME NEW h, NEW l, NEW g, NEW m, NEW labels, NEW k, NEW c,
         \A d \in Clients \ {c} : g[d] = h[d] /\ m[d] = l[d]
  PROVE  Elsewhere(g, m, labels, k, c) = Elsewhere(h, l, labels, k, c)
<1>1. ASSUME NEW p PROVE p \in Elsewhere(g, m, labels, k, c) => p \in Elsewhere(h, l, labels, k, c)
  BY DEF Elsewhere, PlacesOfChunk, PlacesOf
<1>2. ASSUME NEW p PROVE p \in Elsewhere(h, l, labels, k, c) => p \in Elsewhere(g, m, labels, k, c)
  BY DEF Elsewhere, PlacesOfChunk, PlacesOf
<1> QED BY <1>1, <1>2

LEMMA HeldStep ==
  ASSUME IsFiniteSet(Clients), NEW h \in [Clients -> Texts], NEW l,
         NEW g \in [Clients -> Texts], NEW m, NEW c \in Clients,
         \A d \in Clients \ {c} : g[d] = h[d] /\ m[d] = l[d],
         NEW labels, NEW k
  PROVE  HeldCopies(g, m, labels, k) + (IF l[c] \in labels THEN Copies(h[c], k) ELSE 0)
           = HeldCopies(h, l, labels, k) + IF m[c] \in labels THEN Copies(g[c], k) ELSE 0
<1>1. Elsewhere(g, m, labels, k, c) = Elsewhere(h, l, labels, k, c)
  BY ElsewhereKept
<1> DEFINE n == Cardinality(Elsewhere(h, l, labels, k, c))
<1>2. /\ n \in Nat
      /\ HeldCopies(h, l, labels, k) = n + IF l[c] \in labels THEN Copies(h[c], k) ELSE 0
  BY HeldSplit
<1>3. HeldCopies(g, m, labels, k) = n + IF m[c] \in labels THEN Copies(g[c], k) ELSE 0
  BY <1>1, HeldSplit
<1>4. Copies(h[c], k) \in Nat /\ Copies(g[c], k) \in Nat
  BY CopiesType
<1> HIDE DEF n
<1> QED BY <1>2, <1>3, <1>4

LEMMA HeldType ==
  ASSUME IsFiniteSet(Clients), hand \in [Clients -> Texts], NEW labels
  PROVE  IsBag(Held(labels)) /\ \A k : Of(Held(labels), k) = HeldCopies(hand, pc, labels, k)
<1>1. DOMAIN Held(labels) = {hand[p[1]][p[2]] : p \in PlacesOf(hand, pc, labels)}
  BY DEF Held, Places, PlacesOf
<1>2. ASSUME NEW k \in DOMAIN Held(labels)
      PROVE  Held(labels)[k] = HeldCopies(hand, pc, labels, k) /\ Held(labels)[k] \in Nat \ {0}
  <2>1. Held(labels)[k] = HeldCopies(hand, pc, labels, k)
    BY <1>1 DEF Held, Places, HeldCopies, PlacesOfChunk, PlacesOf
  <2>2. PlacesOfChunk(hand, pc, labels, k) # {}
    BY <1>1 DEF PlacesOfChunk
  <2> QED BY <2>1, <2>2, PlacesFinite
<1>3. ASSUME NEW k, k \notin DOMAIN Held(labels) PROVE HeldCopies(hand, pc, labels, k) = 0
  <2>1. PlacesOfChunk(hand, pc, labels, k) = {}
    BY <1>1, <1>3 DEF PlacesOfChunk
  <2> QED BY <2>1, PlacesFinite
<1>4. Held(labels) = [k \in DOMAIN Held(labels) |-> Held(labels)[k]]
  BY DEF Held
<1>5. IsBag(Held(labels))
  BY <1>2, <1>4 DEF IsBag
<1> QED BY <1>2, <1>3, <1>5 DEF Of

-----------------------------------------------------------------------------
(* The invariant.                                                          *)

WorkerLabels   == {"publish", "validate", "drain", "delete", "forget", "over"}
ConsumerLabels == {"idle", "pop", "push", "requeueAll", "clear", "return", "requeue"}
Carrying       == {"pop", "push", "requeue", "requeueAll", "clear"}

QueueType ==
  /\ scenario \in Scenarios /\ text \in scenario.texts
  /\ messages \in Texts /\ pending \in Texts
  /\ published \in Texts /\ assembled \in Texts
  /\ pc \in [Clients -> WorkerLabels \cup ConsumerLabels]
  /\ pc[Worker] \in WorkerLabels
  /\ \A c \in Consumers : pc[c] \in ConsumerLabels
  /\ hand \in [Clients -> Texts] /\ given \in [Clients -> Texts]
  /\ IsBag(finished) /\ crossed \in BOOLEAN

\* A hand is empty between two operations, and only the consumers of the
\* scenario have operations.
Hands ==
  /\ \A c \in Clients : pc[c] \notin Carrying => hand[c] = <<>>
  /\ \A c \in Consumers : pc[c] # "idle" => c \in scenario.consumers
  /\ \A c \in Consumers : pc[c] = "return" => given[c] # <<>>

\* What a client has copied is still what is there, and nobody else has copied it.
CopyFits ==
  \A c \in Consumers : Copying(c) =>
    hand[c] = pending /\ \A d \in Consumers : Copying(d) => d = c
DrainFits == pc[Worker] = "delete" => assembled = messages

QueueInv == QueueType /\ Hands /\ (~crossed => CopyFits /\ DrainFits)

LEMMA ClientsFinite == IsFiniteSet(Clients) /\ Worker \in Clients /\ Consumers \subseteq Clients
  BY ConsumersAssumption, FS_AddElement DEF Clients

LEMMA ChunksType ==
  ASSUME QueueType
  PROVE  Chunks \in Texts /\ Normalize(text) \in Text /\ scenario.size \in Nat \ {0}
<1>1. scenario.size \in Nat \ {0} /\ text \in Seq(STRING)
  BY ScenariosAssumption DEF QueueType, ScenarioType
<1>2. text \in Text
  <2>1. STRING \subseteq Token
    BY DEF Token
  <2> QED BY <1>1, <2>1, SeqMonotonic DEF Text
<1> QED BY <1>1, <1>2, NormalizeType, ChunkWords DEF Chunks

LEMMA QueueInvInit ==
  ASSUME Init
  PROVE  QueueInv
<1>1. <<>> \in Texts /\ IsBag(EmptyBag)
  BY CopiesOfNone, EmptyBagType
<1>2. Worker \in Clients /\ Worker \notin Consumers
  BY WorkerAssumption DEF Clients
<1> QED BY <1>1, <1>2 DEF Init, QueueInv, QueueType, Hands, CopyFits, DrainFits, Copying,
      WorkerLabels, ConsumerLabels, Carrying, Clients

\* Every step notes whether it crosses another client.
Noted == crossed' = (crossed \/ Crossing)

LEMMA NotedType ==
  ASSUME QueueType, Noted
  PROVE  crossed' \in BOOLEAN /\ (~crossed' => ~crossed /\ ~Crossing)
<1>1. (crossed \/ Crossing) \in BOOLEAN
  OBVIOUS
<1> QED BY <1>1 DEF Noted

\* What every step of a consumer leaves alone, and what it leaves behind.
Moved(c) ==
  /\ c \in scenario.consumers
  /\ UNCHANGED <<scenario, text, published, assembled>>
  /\ messages' \in Texts /\ pending' \in Texts /\ IsBag(finished')
  /\ pc' \in [Clients -> WorkerLabels \cup ConsumerLabels]
  /\ hand' \in [Clients -> Texts] /\ given' \in [Clients -> Texts]
  /\ \A d \in Clients \ {c} : pc'[d] = pc[d] /\ hand'[d] = hand[d] /\ given'[d] = given[d]
  /\ pc'[c] \in ConsumerLabels
  /\ pc'[c] \notin Carrying => hand'[c] = <<>>
  /\ pc'[c] = "return" => given'[c] # <<>>
  /\ c \notin dead /\ dead' = dead
  /\ pc'[c] \in {"requeueAll", "clear"} =>
       /\ pending' = pending
       /\ hand'[c] = pending \/ (Copying(c) /\ hand'[c] = hand[c])

LEMMA MovedInv ==
  ASSUME QueueInv, NEW c \in Consumers, Moved(c), Noted
  PROVE  QueueInv'
<1>1. c # Worker /\ c \in Clients /\ Worker \in Clients /\ Consumers \subseteq Clients
  BY WorkerAssumption, ClientsFinite
<1>2. crossed' \in BOOLEAN /\ (~crossed' => ~crossed /\ ~Crossing)
  BY NotedType DEF QueueInv
<1>3. QueueType'
  BY <1>1, <1>2 DEF QueueInv, QueueType, Moved
<1>4. Hands'
  BY <1>1 DEF QueueInv, Hands, Moved
<1>5. ASSUME ~crossed' PROVE CopyFits'
  <2>1. ~Crossing /\ CopyFits
    BY <1>2, <1>5 DEF QueueInv
  <2>2. \A d \in Consumers \ {c} :
          /\ Copying(d)' <=> Copying(d)
          /\ hand'[d] = hand[d] /\ pc'[d] = pc[d]
    BY <1>1 DEF Moved, Copying
  <2>3. ASSUME NEW d \in Consumers \ {c}, Copying(d)
        PROVE  pending' = pending /\ (Copying(c)' => Copying(c))
    BY <2>1, <2>2, <2>3 DEF Crossing
  <2>4. ASSUME NEW d \in Consumers \ {c}, Copying(d) PROVE ~Copying(c)'
    BY <2>1, <2>3, <2>4 DEF CopyFits
  <2>5. Copying(c)' => hand'[c] = pending'
    BY <2>1 DEF CopyFits, Moved, Copying
  <2>6. ASSUME NEW d \in Consumers, Copying(d)'
        PROVE  hand'[d] = pending' /\ \A e \in Consumers : Copying(e)' => e = d
    <3>1. CASE d = c
      BY <2>2, <2>4, <2>5, <2>6, <3>1
    <3>2. CASE d # c
      BY <2>1, <2>2, <2>3, <2>4, <2>6, <3>2 DEF CopyFits
    <3> QED BY <3>1, <3>2
  <2> QED BY <2>6 DEF CopyFits
<1>6. ASSUME ~crossed' PROVE DrainFits'
  BY <1>1, <1>2, <1>6 DEF QueueInv, DrainFits, Moved, Crossing
<1> QED BY <1>3, <1>4, <1>5, <1>6 DEF QueueInv

LEMMA ListsType ==
  ASSUME NEW s \in Texts, NEW t \in Texts, NEW ids
  PROVE  /\ s \o t \in Texts /\ <<>> \in Texts
         /\ Only(s, ids) \in Texts /\ Without(s, ids) \in Texts
         /\ \A k \in ToSet(s) : k \in Text /\ <<k>> \in Texts /\ RemoveFirst(s, k) \in Texts
         /\ s # <<>> => Head(s) \in ToSet(s) /\ Tail(s) \in Texts
<1>1. s \o t \in Texts /\ <<>> \in Texts
  BY CopiesConcat, CopiesOfNone
<1>2. Only(s, ids) \in Texts /\ Without(s, ids) \in Texts
  BY CopiesOnly, CopiesWithout
<1>3. ASSUME NEW k \in ToSet(s) PROVE k \in Text /\ <<k>> \in Texts /\ RemoveFirst(s, k) \in Texts
  BY CopiesRemoveFirst, CopiesOfOne
<1>4. s # <<>> => Head(s) \in ToSet(s) /\ Tail(s) \in Texts
  BY HeadTailProperties DEF Texts, ToSet
<1> QED BY <1>1, <1>2, <1>3, <1>4

LEMMA FinishedType ==
  ASSUME QueueInv, NEW s \in Texts
  PROVE  IsBag(finished (+) BagOf(s)) /\ \A k : Of(finished (+) BagOf(s), k) = Of(finished, k) + Copies(s, k)
<1>1. IsBag(finished) /\ IsBag(BagOf(s)) /\ \A k : Of(BagOf(s), k) = Copies(s, k)
  BY BagOfType DEF QueueInv, QueueType
<1>2. IsBag(finished (+) BagOf(s)) /\ \A k : Of(finished (+) BagOf(s), k) = Of(finished, k) + Of(BagOf(s), k)
  BY <1>1, BagPlus
<1> QED BY <1>1, <1>2

LEMMA ConsumerMoves ==
  ASSUME QueueInv, NEW c \in Consumers, ConsumerStep(c)
  PROVE  Moved(c)
<1> USE DEF Moved, QueueInv, QueueType, Goto, Take, At, Begin, ConsumerLabels, Carrying
<1> USE ClientsFinite
<1>1. pc[c] # "idle" => c \in scenario.consumers
  BY DEF Hands
<1>2. pc[c] \notin Carrying => hand[c] = <<>>
  BY DEF Hands
<1>3. CASE Consume(c)
  BY <1>3, <1>2 DEF Consume, queueVars
<1>4. CASE Pop(c)
  <2>1. CASE messages # <<>>
    <3>1. Tail(messages) \in Texts /\ Append(hand[c], Head(messages)) \in Texts
      BY <2>1, CopiesTail, CopiesAppend
    <3> QED BY <1>1, <1>4, <2>1, <3>1 DEF Pop, ghostVars
  <2>2. CASE messages = <<>>
    BY <1>1, <1>4, <2>2 DEF Pop, ghostVars
  <2> QED BY <2>1, <2>2
<1>5. CASE Push(c)
  <2>1. pending \o hand[c] \in Texts /\ given[c] \o hand[c] \in Texts /\ <<>> \in Texts
    BY ListsType
  <2> QED BY <1>1, <1>5, <2>1 DEF Push, ghostVars
<1>6. CASE Ack(c)
  <2>1. PICK k \in ToSet(given[c]) :
          /\ pending' = Without(pending, {k})
          /\ finished' = finished (+) BagOf(Only(pending, {k}))
          /\ given' = [given EXCEPT ![c] = Without(@, {k})]
    BY <1>6 DEF Ack
  <2>2. /\ Without(pending, {k}) \in Texts /\ Without(given[c], {k}) \in Texts
        /\ Only(pending, {k}) \in Texts
    BY ListsType
  <2>3. IsBag(finished')
    BY <2>1, <2>2, FinishedType
  <2> QED BY <1>2, <1>6, <2>1, <2>2, <2>3 DEF Ack
<1>7. CASE AckAll(c)
  <2>1. IsBag(finished') /\ <<>> \in Texts
    BY <1>7, FinishedType, ListsType DEF AckAll
  <2> QED BY <1>2, <1>7, <2>1 DEF AckAll
<1>8. CASE NackAll(c)
  <2>1. /\ pc' = [pc EXCEPT ![c] = IF pending = <<>> THEN "clear" ELSE "requeueAll"]
        /\ hand' = [hand EXCEPT ![c] = pending]
    BY <1>8 DEF NackAll
  <2>2. pc'[c] \in {"clear", "requeueAll"} /\ hand'[c] = pending
    BY <2>1
  <2> QED BY <1>8, <2>1, <2>2 DEF NackAll, queueVars
<1>9. CASE RequeueAll(c)
  <2>1. messages \o hand[c] \in Texts
    BY ListsType
  <2>2. Copying(c)
    BY <1>9 DEF RequeueAll, Copying
  <2> QED BY <1>1, <1>9, <2>1, <2>2 DEF RequeueAll, ghostVars
<1>10. CASE Clear(c)
  <2>1. <<>> \in Texts
    BY ListsType
  <2> QED BY <1>1, <1>10, <2>1 DEF Clear, ghostVars
<1>11. CASE Nack(c)
  BY <1>2, <1>11 DEF Nack, queueVars
<1>12. CASE Return(c)
  <2>1. given[c] # <<>> /\ given[c] \in Texts
    BY <1>12 DEF Return, Hands
  <2>2. Tail(given[c]) \in Texts /\ (Len(given[c]) # 1 => Tail(given[c]) # <<>>)
    <3>1. Tail(given[c]) \in Texts
      BY <2>1, CopiesTail
    <3> DEFINE g == given[c]
    <3>2. g \in Texts /\ g # <<>>
      BY <2>1
    <3> HIDE DEF g
    <3>3. Len(g) # 1 => Tail(g) # <<>>
      <4>1. Len(Tail(g)) = Len(g) - 1 /\ Len(g) \in Nat
        BY <3>2, HeadTailProperties DEF Texts
      <4>2. Tail(g) = <<>> <=> Len(Tail(g)) = 0
        BY <3>2, HeadTailProperties, EmptySeq DEF Texts
      <4> QED BY <4>1, <4>2
    <3> QED BY <3>1, <3>3 DEF g
  <2>3. CASE Head(given[c]) \in ToSet(pending)
    <3>1. <<Head(given[c])>> \in Texts /\ RemoveFirst(pending, Head(given[c])) \in Texts
      BY <2>3, ListsType
    <3> QED BY <1>1, <1>12, <2>2, <2>3, <3>1 DEF Return, ghostVars
  <2>4. CASE Head(given[c]) \notin ToSet(pending)
    BY <1>1, <1>2, <1>12, <2>2, <2>4 DEF Return, ghostVars
  <2> QED BY <2>3, <2>4
<1>13. CASE Requeue(c)
  <2>1. messages \o hand[c] \in Texts /\ <<>> \in Texts
    BY ListsType
  <2> QED BY <1>1, <1>13, <2>1 DEF Requeue, ghostVars
<1>14. CASE MemoryConsume(c)
  <2>1. PICK count \in 1 .. 2 :
          LET consumed == SubSeq(messages, 1, IF count < Len(messages) THEN count ELSE Len(messages)) IN
          /\ messages' = SubSeq(messages, Len(consumed) + 1, Len(messages))
          /\ pending' = pending \o consumed
          /\ given' = [given EXCEPT ![c] = @ \o consumed]
    BY <1>14 DEF MemoryConsume
  <2> DEFINE m == IF count < Len(messages) THEN count ELSE Len(messages)
             consumed == SubSeq(messages, 1, m)
  <2>2. Len(messages) \in Nat /\ m \in 0 .. Len(messages)
    BY DEF Texts
  <2>3. consumed \in Texts /\ Len(consumed) = m
    BY <2>2, CopiesSplit, SubSeqProperties DEF Texts
  <2>4. messages' \in Texts
    BY <2>1, <2>2, <2>3, CopiesSplit
  <2>5. pending \o consumed \in Texts /\ given[c] \o consumed \in Texts
    BY <2>3, ListsType
  <2> HIDE DEF consumed
  <2>6. given' = [given EXCEPT ![c] = @ \o consumed] /\ pending' = pending \o consumed
    BY <2>1 DEF consumed
  <2> QED BY <1>2, <1>14, <2>4, <2>5, <2>6 DEF MemoryConsume
<1>15. CASE MemoryAck(c)
  <2>1. PICK ids :
          /\ pending' = Without(pending, ids)
          /\ finished' = finished (+) BagOf(Only(pending, ids))
          /\ given' = [given EXCEPT ![c] = Without(@, ids)]
    BY <1>15 DEF MemoryAck
  <2>2. /\ Without(pending, ids) \in Texts /\ Without(given[c], ids) \in Texts
        /\ Only(pending, ids) \in Texts
    BY ListsType
  <2>3. IsBag(finished')
    BY <2>1, <2>2, FinishedType
  <2> QED BY <1>2, <1>15, <2>1, <2>2, <2>3 DEF MemoryAck
<1>16. CASE MemoryNack(c)
  <2>1. PICK ids :
          /\ messages' = Only(pending, ids) \o messages
          /\ pending' = Without(pending, ids)
          /\ given' = [given EXCEPT ![c] = Without(@, ids)]
    BY <1>16 DEF MemoryNack
  <2>2. /\ Without(pending, ids) \in Texts /\ Without(given[c], ids) \in Texts
        /\ Only(pending, ids) \in Texts
    BY ListsType
  <2>3. messages' \in Texts
    BY <2>1, <2>2, ListsType
  <2> QED BY <1>2, <1>16, <2>1, <2>2, <2>3 DEF MemoryNack
<1> QED
  BY <1>3, <1>4, <1>5, <1>6, <1>7, <1>8, <1>9, <1>10, <1>11, <1>12, <1>13, <1>14, <1>15, <1>16
  DEF ConsumerStep

\* The same of the worker.
Worked ==
  /\ UNCHANGED <<scenario, text, hand, given, dead>>
  /\ messages' \in Texts /\ pending' \in Texts /\ published' \in Texts /\ assembled' \in Texts
  /\ IsBag(finished')
  /\ pc' = [pc EXCEPT ![Worker] = pc'[Worker]]
  /\ pc[Worker] \in WorkerLabels /\ pc'[Worker] \in WorkerLabels
  /\ pc'[Worker] = "delete" => assembled' = messages'

LEMMA WorkedInv ==
  ASSUME QueueInv, Worked, Noted
  PROVE  QueueInv'
<1>1. Worker \in Clients /\ Worker \notin Consumers /\ Consumers \subseteq Clients
  BY WorkerAssumption, ClientsFinite
<1>2. crossed' \in BOOLEAN /\ (~crossed' => ~crossed /\ ~Crossing)
  BY NotedType DEF QueueInv
<1>3. QueueType'
  BY <1>1, <1>2 DEF QueueInv, QueueType, Worked
<1>4. Hands'
  BY <1>1 DEF QueueInv, QueueType, Hands, Worked, WorkerLabels, Carrying
<1>5. ASSUME ~crossed' PROVE CopyFits'
  <2>1. ~Crossing /\ CopyFits
    BY <1>2, <1>5 DEF QueueInv
  <2>2. \A d \in Consumers : pc'[d] = pc[d] /\ hand'[d] = hand[d] /\ (Copying(d)' <=> Copying(d))
    BY <1>1 DEF Worked, Copying, QueueInv, QueueType
  <2>3. \A d \in Consumers : Copying(d) => pending' = pending
    BY <2>1, <2>2 DEF Crossing
  <2> QED BY <2>1, <2>2, <2>3 DEF CopyFits
<1>6. DrainFits'
  BY DEF Worked, DrainFits
<1> QED BY <1>3, <1>4, <1>5, <1>6 DEF QueueInv

LEMMA WorkerMoves ==
  ASSUME QueueInv, WorkerStep \/ WorkerDies
  PROVE  Worked
<1> USE DEF QueueInv, QueueType, Goto, At, WorkerLabels
<1> USE ClientsFinite
<1>1. <<>> \in Texts /\ IsBag(finished (+) BagOf(pending))
  BY ListsType, FinishedType
<1>2. CASE Publish
  <2>1. messages \o Chunks \in Texts /\ published \o Chunks \in Texts
    BY ChunksType, ListsType
  <2>2. pc' = [pc EXCEPT ![Worker] = "validate"]
    BY <1>2 DEF Publish
  <2> QED BY <1>2, <2>1, <2>2 DEF Publish, Worked
<1>3. CASE Validate
  <2>1. pc' = [pc EXCEPT ![Worker] = "drain"]
    BY <1>3 DEF Validate
  <2> QED BY <1>3, <2>1 DEF Validate, Worked, queueVars, ghostVars
<1>4. CASE Drain
  BY <1>1, <1>4 DEF Drain, Worked, queueVars
<1>5. CASE DrainDelete
  BY <1>1, <1>5 DEF DrainDelete, Worked, ghostVars
<1>6. CASE DrainForget
  BY <1>1, <1>6 DEF DrainForget, Worked
<1>7. CASE WorkerDies
  <2>1. pc' = [pc EXCEPT ![Worker] = "publish"]
    BY <1>7 DEF WorkerDies
  <2> QED BY <1>7, <2>1 DEF WorkerDies, Worked, queueVars, ghostVars
<1> QED BY <1>2, <1>3, <1>4, <1>5, <1>6, <1>7 DEF WorkerStep

LEMMA QueueInvStep ==
  ASSUME QueueInv, [Next]_vars
  PROVE  QueueInv'
<1>1. CASE (WorkerStep \/ WorkerDies) /\ Noted
  BY <1>1, WorkerMoves, WorkedInv
<1>2. ASSUME NEW c \in Consumers, ConsumerStep(c), Noted PROVE QueueInv'
  BY <1>2, ConsumerMoves, MovedInv
<1>3. ASSUME NEW c \in Consumers, ConsumerDies(c), Noted PROVE QueueInv'
  <2>1. crossed' \in BOOLEAN /\ (~crossed' => ~crossed)
    BY <1>3, NotedType DEF QueueInv
  <2>2. QueueType' /\ Hands' /\ DrainFits' = DrainFits
    BY <1>3, <2>1 DEF ConsumerDies, queueVars, ghostVars, QueueInv, QueueType, Hands, DrainFits
  <2>3. CopyFits => CopyFits'
    BY <1>3 DEF ConsumerDies, queueVars, CopyFits, Copying
  <2> QED BY <2>1, <2>2, <2>3 DEF QueueInv
<1>4. CASE UNCHANGED vars
  BY <1>4 DEF vars, queueVars, clientVars, ghostVars,
    QueueInv, QueueType, Hands, CopyFits, DrainFits, Copying
<1> QED BY <1>1, <1>2, <1>3, <1>4 DEF Next, Step, Noted

\* Types, and who holds what at which statement of the queue's operations
\* (services/queue.py:30-120).
THEOREM QueueInvariant == Spec => []QueueInv
<1>1. Init => QueueInv
  BY QueueInvInit
<1>2. QueueInv /\ [Next]_vars => QueueInv'
  BY QueueInvStep
<1> QED BY <1>1, <1>2, PTL DEF Spec

-----------------------------------------------------------------------------
(* The account, chunk by chunk.                                            *)

Between == {"pop", "push", "requeue"}
InHandOf(h, l, c, k)  == IF l[c] \in Between THEN Copies(h[c], k) ELSE 0
DoubledOf(h, l, c, k) == IF l[c] \in {"clear"} THEN Copies(h[c], k) ELSE 0
DrainedOf(k) == IF pc[Worker] \in {"forget", "over"} THEN Copies(assembled, k) ELSE 0

CountOf(k) ==
  Copies(published, k) + HeldCopies(hand, pc, {"clear"}, k) =
    Copies(messages, k) + Copies(pending, k) + HeldCopies(hand, pc, Between, k)
      + Of(finished, k) + DrainedOf(k)
Counted == ~crossed => \A k : CountOf(k)

LEMMA NumbersType ==
  ASSUME QueueInv, NEW k
  PROVE  /\ Copies(published, k) \in Nat /\ Copies(messages, k) \in Nat
         /\ Copies(pending, k) \in Nat /\ Copies(assembled, k) \in Nat
         /\ \A c \in Clients : Copies(hand[c], k) \in Nat
         /\ \A labels : HeldCopies(hand, pc, labels, k) \in Nat
         /\ Of(finished, k) \in Nat /\ DrainedOf(k) \in Nat
         /\ Copies(<<>>, k) = 0
<1>1. \A c \in Clients : Copies(hand[c], k) \in Nat
  BY CopiesType DEF QueueInv, QueueType
<1>2. \A labels : HeldCopies(hand, pc, labels, k) \in Nat
  BY ClientsFinite, PlacesFinite DEF QueueInv, QueueType
<1>3. /\ Copies(published, k) \in Nat /\ Copies(messages, k) \in Nat
      /\ Copies(pending, k) \in Nat /\ Copies(assembled, k) \in Nat
  BY CopiesType DEF QueueInv, QueueType
<1>4. Of(finished, k) \in Nat
  BY BagType DEF QueueInv, QueueType
<1> QED BY <1>1, <1>2, <1>3, <1>4, CopiesOfNone DEF DrainedOf

\* What a consumer takes from one place it puts into another.
Balanced(c, k) ==
  Copies(messages', k) + Copies(pending', k) + Of(finished', k)
    + InHandOf(hand', pc', c, k) + DoubledOf(hand, pc, c, k)
  = Copies(messages, k) + Copies(pending, k) + Of(finished, k)
    + InHandOf(hand, pc, c, k) + DoubledOf(hand', pc', c, k)

LEMMA PartsCounted ==
  ASSUME QueueInv, NEW k
  PROVE  \A ids : /\ Copies(Without(pending, ids), k) = IF k \in ids THEN 0 ELSE Copies(pending, k)
                  /\ Copies(Only(pending, ids), k) = IF k \in ids THEN Copies(pending, k) ELSE 0
<1>1. pending \in Texts
  BY DEF QueueInv, QueueType
<1>2. ASSUME NEW ids PROVE Copies(Without(pending, ids), k) = IF k \in ids THEN 0 ELSE Copies(pending, k)
  BY <1>1, CopiesWithout
<1>3. ASSUME NEW ids PROVE Copies(Only(pending, ids), k) = IF k \in ids THEN Copies(pending, k) ELSE 0
  BY <1>1, CopiesOnly, Zenon
<1> QED BY <1>2, <1>3, Zenon

LEMMA ConsumerBalanced ==
  ASSUME QueueInv, ~crossed, NEW c \in Consumers, ConsumerStep(c), NEW k
  PROVE  Balanced(c, k)
<1> USE ClientsFinite DEF QueueInv, QueueType, Goto, Take, At, Begin, Between, Carrying,
      Balanced, InHandOf, DoubledOf
<1>1. /\ Copies(messages, k) \in Nat /\ Copies(pending, k) \in Nat
      /\ Copies(hand[c], k) \in Nat /\ Of(finished, k) \in Nat /\ Copies(<<>>, k) = 0
  BY NumbersType
<1>2. pc[c] \notin Carrying => hand[c] = <<>>
  BY DEF Hands
<1>3. CASE Consume(c)
  <2>1. hand[c] = <<>>
    BY <1>2, <1>3 DEF Consume
  <2>2. Copies(hand[c], k) = 0
    BY <1>1, <2>1
  <2>3. /\ messages' = messages /\ pending' = pending /\ finished' = finished
        /\ hand'[c] = hand[c] /\ pc[c] = "idle" /\ pc'[c] = "pop"
    BY <1>3 DEF Consume, queueVars
  <2> QED BY <1>1, <2>2, <2>3
<1>4. CASE Pop(c)
  <2>1. CASE messages # <<>>
    <3> DEFINE x == Head(messages)
    <3>1. /\ x \in Text
          /\ Copies(messages, k) = (IF x = k THEN 1 ELSE 0) + Copies(Tail(messages), k)
          /\ Copies(Tail(messages), k) \in Nat
      BY <2>1, CopiesTail, CopiesType
    <3>2. Copies(Append(hand[c], x), k) = Copies(hand[c], k) + IF x = k THEN 1 ELSE 0
      BY <3>1, CopiesAppend
    <3>3. /\ messages' = Tail(messages) /\ pending' = pending /\ finished' = finished
          /\ hand'[c] = Append(hand[c], x) /\ pc[c] = "pop" /\ pc'[c] \in {"pop", "push"}
      BY <1>4, <2>1 DEF Pop, ghostVars
    <3> HIDE DEF x
    <3>4. /\ InHandOf(hand, pc, c, k) = Copies(hand[c], k) /\ DoubledOf(hand, pc, c, k) = 0
          /\ InHandOf(hand', pc', c, k) = Copies(Append(hand[c], x), k)
          /\ DoubledOf(hand', pc', c, k) = 0
      BY <3>3
    <3>5. /\ Copies(messages', k) = Copies(Tail(messages), k)
          /\ Copies(pending', k) = Copies(pending, k) /\ Of(finished', k) = Of(finished, k)
      BY <3>3
    <3> HIDE DEF InHandOf, DoubledOf
    <3> QED BY <1>1, <3>1, <3>2, <3>4, <3>5
  <2>2. CASE messages = <<>>
    <3>1. /\ messages' = messages /\ pending' = pending /\ finished' = finished
          /\ hand'[c] = hand[c] /\ pc[c] = "pop"
          /\ pc'[c] = IF hand[c] = <<>> THEN "idle" ELSE "push"
      BY <1>4, <2>2 DEF Pop, ghostVars
    <3> QED BY <1>1, <3>1
  <2> QED BY <2>1, <2>2
<1>5. CASE Push(c)
  <2>1. Copies(pending \o hand[c], k) = Copies(pending, k) + Copies(hand[c], k)
    BY CopiesConcat
  <2> QED BY <1>1, <1>5, <2>1 DEF Push, ghostVars
<1>6. CASE Ack(c)
  <2>1. PICK x \in ToSet(given[c]) :
          pending' = Without(pending, {x}) /\ finished' = finished (+) BagOf(Only(pending, {x}))
    BY <1>6 DEF Ack
  <2>2. Of(finished', k) = Of(finished, k) + Copies(Only(pending, {x}), k)
    BY <2>1, CopiesOnly, FinishedType
  <2>3. /\ Copies(pending', k) = IF k \in {x} THEN 0 ELSE Copies(pending, k)
        /\ Copies(Only(pending, {x}), k) = IF k \in {x} THEN Copies(pending, k) ELSE 0
    BY <2>1, PartsCounted
  <2>4. messages' = messages /\ hand' = hand /\ pc' = pc
    BY <1>6 DEF Ack
  <2> QED BY <1>1, <2>2, <2>3, <2>4
<1>7. CASE AckAll(c)
  <2>1. Of(finished', k) = Of(finished, k) + Copies(pending, k) /\ pending' = <<>>
    BY <1>7, FinishedType DEF AckAll
  <2> QED BY <1>1, <1>7, <2>1 DEF AckAll
<1>8. CASE NackAll(c)
  <2>1. /\ messages' = messages /\ pending' = pending /\ finished' = finished
        /\ pc[c] = "idle" /\ hand'[c] = pending
        /\ pc'[c] = IF pending = <<>> THEN "clear" ELSE "requeueAll"
    BY <1>8 DEF NackAll, queueVars
  <2> QED BY <1>1, <2>1
<1>9. CASE RequeueAll(c)
  <2>1. Copies(messages \o hand[c], k) = Copies(messages, k) + Copies(hand[c], k)
    BY CopiesConcat
  <2> QED BY <1>1, <1>9, <2>1 DEF RequeueAll, ghostVars
<1>10. CASE Clear(c)
  <2>1. hand[c] = pending
    BY <1>10 DEF Clear, Copying, CopyFits
  <2> QED BY <1>1, <1>10, <2>1 DEF Clear, ghostVars
<1>11. CASE Nack(c)
  BY <1>1, <1>11 DEF Nack, queueVars
<1>12. CASE Return(c)
  <2> DEFINE x == Head(given[c])
  <2>1. CASE x \in ToSet(pending)
    <3>1. /\ x \in Text /\ RemoveFirst(pending, x) \in Texts
          /\ Copies(pending, k) = (IF x = k THEN 1 ELSE 0) + Copies(RemoveFirst(pending, x), k)
      BY <2>1, CopiesRemoveFirst
    <3>4. Copies(RemoveFirst(pending, x), k) \in Nat
      BY <3>1, CopiesType
    <3>2. Copies(<<x>>, k) = IF x = k THEN 1 ELSE 0
      BY <3>1, CopiesOfOne
    <3>3. /\ messages' = messages /\ pending' = RemoveFirst(pending, x) /\ finished' = finished
          /\ hand'[c] = <<x>> /\ pc[c] = "return" /\ pc'[c] = "requeue"
      BY <1>12, <2>1 DEF Return, ghostVars
    <3> HIDE DEF x
    <3> QED BY <1>1, <3>1, <3>2, <3>3, <3>4
  <2>2. CASE x \notin ToSet(pending)
    <3>1. /\ messages' = messages /\ pending' = pending /\ finished' = finished
          /\ pc[c] = "return" /\ pc'[c] \in {"idle", "return"}
      BY <1>12, <2>2 DEF Return, ghostVars
    <3> QED BY <1>1, <3>1
  <2> QED BY <2>1, <2>2
<1>13. CASE Requeue(c)
  <2>1. Copies(messages \o hand[c], k) = Copies(messages, k) + Copies(hand[c], k)
    BY CopiesConcat
  <2>2. pc'[c] \in {"idle", "return"}
    BY <1>13 DEF Requeue
  <2> QED BY <1>1, <1>13, <2>1, <2>2 DEF Requeue, ghostVars
<1>14. CASE MemoryConsume(c)
  <2>1. PICK count \in 1 .. 2 :
          LET consumed == SubSeq(messages, 1, IF count < Len(messages) THEN count ELSE Len(messages)) IN
          /\ messages' = SubSeq(messages, Len(consumed) + 1, Len(messages))
          /\ pending' = pending \o consumed
    BY <1>14 DEF MemoryConsume
  <2> DEFINE m == IF count < Len(messages) THEN count ELSE Len(messages)
             consumed == SubSeq(messages, 1, m)
  <2>2. Len(messages) \in Nat /\ m \in 0 .. Len(messages)
    BY DEF Texts
  <2>3. Len(consumed) = m
    BY <2>2, SubSeqProperties DEF Texts
  <2>4. messages' = SubSeq(messages, m + 1, Len(messages)) /\ pending' = pending \o consumed
    BY <2>1, <2>3
  <2> HIDE DEF m
  <2>5. /\ consumed \in Texts /\ messages' \in Texts
        /\ Copies(messages, k) = Copies(consumed, k) + Copies(messages', k)
    BY <2>2, <2>4, CopiesSplit
  <2>6. Copies(consumed, k) \in Nat /\ Copies(messages', k) \in Nat
    BY <2>5, CopiesType
  <2> HIDE DEF consumed
  <2>7. Copies(pending', k) = Copies(pending, k) + Copies(consumed, k)
    BY <2>4, <2>5, CopiesConcat
  <2>8. pc' = pc /\ hand' = hand /\ finished' = finished
    BY <1>14 DEF MemoryConsume
  <2> QED BY <1>1, <2>5, <2>6, <2>7, <2>8
<1>15. CASE MemoryAck(c)
  <2>1. PICK ids :
          pending' = Without(pending, ids) /\ finished' = finished (+) BagOf(Only(pending, ids))
    BY <1>15 DEF MemoryAck
  <2>2. Of(finished', k) = Of(finished, k) + Copies(Only(pending, ids), k)
    BY <2>1, CopiesOnly, FinishedType
  <2>3. /\ Copies(pending', k) = IF k \in ids THEN 0 ELSE Copies(pending, k)
        /\ Copies(Only(pending, ids), k) = IF k \in ids THEN Copies(pending, k) ELSE 0
    BY <2>1, PartsCounted
  <2>4. messages' = messages /\ hand' = hand /\ pc' = pc
    BY <1>15 DEF MemoryAck
  <2> QED BY <1>1, <2>2, <2>3, <2>4
<1>16. CASE MemoryNack(c)
  <2>1. PICK ids :
          messages' = Only(pending, ids) \o messages /\ pending' = Without(pending, ids)
    BY <1>16 DEF MemoryNack
  <2>2. Copies(messages', k) = Copies(Only(pending, ids), k) + Copies(messages, k)
    BY <2>1, CopiesOnly, CopiesConcat
  <2>3. /\ Copies(pending', k) = IF k \in ids THEN 0 ELSE Copies(pending, k)
        /\ Copies(Only(pending, ids), k) = IF k \in ids THEN Copies(pending, k) ELSE 0
    BY <2>1, PartsCounted
  <2>4. finished' = finished /\ hand' = hand /\ pc' = pc
    BY <1>16 DEF MemoryNack
  <2> QED BY <1>1, <2>2, <2>3, <2>4
<1> QED
  BY <1>3, <1>4, <1>5, <1>6, <1>7, <1>8, <1>9, <1>10, <1>11, <1>12, <1>13, <1>14, <1>15, <1>16
  DEF ConsumerStep

LEMMA ConsumerCounts ==
  ASSUME QueueInv, ~crossed, NEW c \in Consumers, ConsumerStep(c), NEW k, CountOf(k)
  PROVE  CountOf(k)'
<1>1. Moved(c) /\ Balanced(c, k)
  BY ConsumerMoves, ConsumerBalanced
<1>2. c # Worker /\ c \in Clients /\ Worker \in Clients /\ IsFiniteSet(Clients)
  BY WorkerAssumption, ClientsFinite
<1>3. hand \in [Clients -> Texts] /\ hand' \in [Clients -> Texts]
  BY <1>1 DEF Moved, QueueInv, QueueType
<1>4. \A d \in Clients \ {c} : hand'[d] = hand[d] /\ pc'[d] = pc[d]
  BY <1>1 DEF Moved
<1>5. HeldCopies(hand', pc', Between, k) + InHandOf(hand, pc, c, k)
        = HeldCopies(hand, pc, Between, k) + InHandOf(hand', pc', c, k)
  BY <1>2, <1>3, <1>4, HeldStep DEF InHandOf
<1>6. HeldCopies(hand', pc', {"clear"}, k) + DoubledOf(hand, pc, c, k)
        = HeldCopies(hand, pc, {"clear"}, k) + DoubledOf(hand', pc', c, k)
  BY <1>2, <1>3, <1>4, HeldStep DEF DoubledOf
<1>7. Copies(published', k) = Copies(published, k) /\ DrainedOf(k)' = DrainedOf(k)
  BY <1>1, <1>2 DEF Moved, DrainedOf
<1>8. /\ Copies(published, k) \in Nat /\ Copies(messages, k) \in Nat
      /\ Copies(pending, k) \in Nat /\ Of(finished, k) \in Nat /\ DrainedOf(k) \in Nat
      /\ HeldCopies(hand, pc, Between, k) \in Nat /\ HeldCopies(hand, pc, {"clear"}, k) \in Nat
      /\ InHandOf(hand, pc, c, k) \in Nat /\ DoubledOf(hand, pc, c, k) \in Nat
  BY <1>2, NumbersType DEF InHandOf, DoubledOf
<1>9. /\ Copies(messages', k) \in Nat /\ Copies(pending', k) \in Nat /\ Of(finished', k) \in Nat
      /\ HeldCopies(hand', pc', Between, k) \in Nat /\ HeldCopies(hand', pc', {"clear"}, k) \in Nat
      /\ InHandOf(hand', pc', c, k) \in Nat /\ DoubledOf(hand', pc', c, k) \in Nat
  <2>1. /\ Copies(messages', k) \in Nat /\ Copies(pending', k) \in Nat /\ Copies(hand'[c], k) \in Nat
    BY <1>1, <1>2, CopiesType DEF Moved
  <2>2. Of(finished', k) \in Nat
    BY <1>1, BagType DEF Moved
  <2>3. /\ HeldCopies(hand', pc', Between, k) \in Nat
        /\ HeldCopies(hand', pc', {"clear"}, k) \in Nat
    BY <1>2, <1>3, PlacesFinite
  <2> QED BY <2>1, <2>2, <2>3 DEF InHandOf, DoubledOf
<1>10. Copies(messages', k) + Copies(pending', k) + Of(finished', k)
         + InHandOf(hand', pc', c, k) + DoubledOf(hand, pc, c, k)
       = Copies(messages, k) + Copies(pending, k) + Of(finished, k)
         + InHandOf(hand, pc, c, k) + DoubledOf(hand', pc', c, k)
  BY <1>1 DEF Balanced
<1>11. Copies(published, k) + HeldCopies(hand, pc, {"clear"}, k) =
         Copies(messages, k) + Copies(pending, k) + HeldCopies(hand, pc, Between, k)
           + Of(finished, k) + DrainedOf(k)
  BY DEF CountOf
<1>12. Copies(published', k) + HeldCopies(hand', pc', {"clear"}, k) =
         Copies(messages', k) + Copies(pending', k) + HeldCopies(hand', pc', Between, k)
           + Of(finished', k) + DrainedOf(k)'
  BY <1>5, <1>6, <1>7, <1>8, <1>9, <1>10, <1>11
<1> QED BY <1>12 DEF CountOf

LEMMA WorkerHoldsNothing ==
  ASSUME QueueInv, Worked, NEW k
  PROVE  \A labels \in {Between, {"clear"}} :
           HeldCopies(hand', pc', labels, k) = HeldCopies(hand, pc, labels, k)
<1>1. Worker \in Clients /\ IsFiniteSet(Clients)
  BY ClientsFinite
<1>2. hand \in [Clients -> Texts] /\ hand' = hand
  BY DEF QueueInv, QueueType, Worked
<1>3. \A d \in Clients \ {Worker} : hand'[d] = hand[d] /\ pc'[d] = pc[d]
  BY DEF QueueInv, QueueType, Worked
<1>4. ASSUME NEW labels \in {Between, {"clear"}}
      PROVE  HeldCopies(hand', pc', labels, k) = HeldCopies(hand, pc, labels, k)
  <2>1. pc[Worker] \notin labels /\ pc'[Worker] \notin labels
    BY DEF Worked, WorkerLabels, Between
  <2>2. HeldCopies(hand', pc', labels, k)
          + (IF pc[Worker] \in labels THEN Copies(hand[Worker], k) ELSE 0)
          = HeldCopies(hand, pc, labels, k)
          + IF pc'[Worker] \in labels THEN Copies(hand'[Worker], k) ELSE 0
    BY <1>1, <1>2, <1>3, HeldStep
  <2>3. HeldCopies(hand, pc, labels, k) \in Nat /\ HeldCopies(hand', pc', labels, k) \in Nat
    BY <1>1, <1>2, PlacesFinite
  <2> QED BY <2>1, <2>2, <2>3
<1> QED BY <1>4

LEMMA WorkerCounts ==
  ASSUME QueueInv, ~crossed, WorkerStep \/ WorkerDies, NEW k, CountOf(k)
  PROVE  CountOf(k)'
<1>1. /\ Copies(published, k) \in Nat /\ Copies(messages, k) \in Nat
      /\ Copies(pending, k) \in Nat /\ Copies(assembled, k) \in Nat
      /\ Of(finished, k) \in Nat /\ DrainedOf(k) \in Nat /\ Copies(<<>>, k) = 0
      /\ HeldCopies(hand, pc, Between, k) \in Nat /\ HeldCopies(hand, pc, {"clear"}, k) \in Nat
  BY NumbersType
<1>2. /\ HeldCopies(hand', pc', Between, k) = HeldCopies(hand, pc, Between, k)
      /\ HeldCopies(hand', pc', {"clear"}, k) = HeldCopies(hand, pc, {"clear"}, k)
  BY WorkerMoves, WorkerHoldsNothing
<1>3. Worker \in Clients /\ pc \in [Clients -> WorkerLabels \cup ConsumerLabels]
      /\ messages \in Texts /\ published \in Texts /\ pending \in Texts
  BY ClientsFinite DEF QueueInv, QueueType
<1> USE DEF Goto, At
<1> DEFINE Same ==
             Copies(published', k) + Copies(messages, k) + Copies(pending, k)
               + Of(finished, k) + DrainedOf(k)
             = Copies(published, k) + Copies(messages', k) + Copies(pending', k)
               + Of(finished', k) + DrainedOf(k)'
<1>5. ASSUME Publish PROVE Same
  <2>1. /\ Copies(messages \o Chunks, k) = Copies(messages, k) + Copies(Chunks, k)
        /\ Copies(published \o Chunks, k) = Copies(published, k) + Copies(Chunks, k)
        /\ Copies(Chunks, k) \in Nat
    <3>1. Chunks \in Texts
      BY ChunksType DEF QueueInv
    <3> HIDE DEF Same
    <3>2. Copies(messages \o Chunks, k) = Copies(messages, k) + Copies(Chunks, k)
      BY <1>3, <3>1, CopiesConcat
    <3>3. Copies(published \o Chunks, k) = Copies(published, k) + Copies(Chunks, k)
      BY <1>3, <3>1, CopiesConcat
    <3>4. Copies(Chunks, k) \in Nat
      BY <3>1, CopiesType
    <3> QED BY <3>2, <3>3, <3>4
  <2>2. /\ messages' = messages \o Chunks /\ published' = published \o Chunks
        /\ pending' = pending /\ finished' = finished /\ assembled' = assembled
        /\ pc[Worker] = "publish" /\ pc'[Worker] = "validate"
    BY <1>3, <1>5 DEF Publish
  <2>3. DrainedOf(k) = 0 /\ DrainedOf(k)' = 0
    BY <2>2 DEF DrainedOf
  <2> QED BY <1>1, <2>1, <2>2, <2>3
<1>6. ASSUME Validate PROVE Same
  <2>1. /\ messages' = messages /\ published' = published /\ pending' = pending
        /\ finished' = finished /\ assembled' = assembled
        /\ pc[Worker] = "validate"
        /\ pc'[Worker] = "drain"
    BY <1>3, <1>6 DEF Validate, queueVars, ghostVars
  <2>3. DrainedOf(k) = 0 /\ DrainedOf(k)' = 0
    BY <2>1 DEF DrainedOf
  <2> QED BY <1>1, <2>1, <2>3
<1>7. ASSUME Drain PROVE Same
  <2>1. /\ published' = published /\ assembled' = messages
        /\ pc[Worker] = "drain"
        /\ \/ /\ pc'[Worker] = "delete" /\ messages' = messages /\ pending' = pending
              /\ finished' = finished
           \/ /\ pc'[Worker] = "over" /\ messages' = <<>> /\ pending' = <<>>
              /\ finished' = finished (+) BagOf(pending)
    BY <1>3, <1>7 DEF Drain, queueVars
  <2>2. Of(finished (+) BagOf(pending), k) = Of(finished, k) + Copies(pending, k)
    BY <1>3, FinishedType
  <2>3. DrainedOf(k) = 0
    BY <2>1 DEF DrainedOf
  <2>4. CASE pc'[Worker] = "delete"
    <3>1. DrainedOf(k)' = 0
      BY <2>4 DEF DrainedOf
    <3> QED BY <1>1, <2>1, <2>3, <2>4, <3>1
  <2>5. CASE pc'[Worker] = "over"
    <3>1. DrainedOf(k)' = Copies(messages, k)
      BY <2>1, <2>5 DEF DrainedOf
    <3>2. Copies(messages', k) = 0 /\ Copies(pending', k) = 0
      BY <1>1, <2>1, <2>5
    <3> QED BY <1>1, <2>1, <2>2, <2>3, <3>1, <3>2
  <2> QED BY <2>1, <2>4, <2>5
<1>8. ASSUME DrainDelete PROVE Same
  <2>1. /\ messages' = <<>> /\ published' = published /\ pending' = pending
        /\ finished' = finished /\ assembled' = assembled
        /\ pc[Worker] = "delete" /\ pc'[Worker] = "forget"
    BY <1>3, <1>8 DEF DrainDelete, ghostVars
  <2>2. DrainedOf(k) = 0 /\ DrainedOf(k)' = Copies(messages, k) /\ Copies(messages', k) = 0
    BY <1>1, <2>1 DEF DrainedOf, QueueInv, DrainFits
  <2> QED BY <1>1, <2>1, <2>2
<1>9. ASSUME DrainForget PROVE Same
  <2>1. /\ messages' = messages /\ published' = published /\ pending' = <<>>
        /\ finished' = finished (+) BagOf(pending) /\ assembled' = assembled
        /\ pc[Worker] = "forget" /\ pc'[Worker] = "over"
    BY <1>3, <1>9 DEF DrainForget
  <2>2. Of(finished', k) = Of(finished, k) + Copies(pending, k)
    BY <1>3, <2>1, FinishedType
  <2>3. DrainedOf(k)' = DrainedOf(k)
    BY <2>1 DEF DrainedOf
  <2> QED BY <1>1, <2>1, <2>2, <2>3
<1>10. ASSUME WorkerDies PROVE Same
  <2>1. /\ messages' = messages /\ published' = published /\ pending' = pending
        /\ finished' = finished /\ assembled' = assembled
        /\ pc[Worker] = "validate" /\ pc'[Worker] = "publish"
    BY <1>3, <1>10 DEF WorkerDies, queueVars, ghostVars
  <2>2. DrainedOf(k)' = DrainedOf(k)
    BY <2>1 DEF DrainedOf
  <2> QED BY <1>1, <2>1, <2>2
<1>11. Same
  BY <1>5, <1>6, <1>7, <1>8, <1>9, <1>10 DEF WorkerStep
<1> QED
  <2>1. /\ Copies(messages', k) \in Nat /\ Copies(pending', k) \in Nat
        /\ Copies(published', k) \in Nat /\ Of(finished', k) \in Nat /\ DrainedOf(k)' \in Nat
    <3>1. Worked
      BY WorkerMoves
    <3>2. /\ Copies(messages', k) \in Nat /\ Copies(pending', k) \in Nat
          /\ Copies(published', k) \in Nat /\ Copies(assembled', k) \in Nat
      BY <3>1, CopiesType DEF Worked
    <3>3. Of(finished', k) \in Nat
      BY <3>1, BagType DEF Worked
    <3> QED BY <3>2, <3>3 DEF DrainedOf
  <2>2. Copies(published, k) + HeldCopies(hand, pc, {"clear"}, k) =
          Copies(messages, k) + Copies(pending, k) + HeldCopies(hand, pc, Between, k)
            + Of(finished, k) + DrainedOf(k)
    BY DEF CountOf
  <2>3. Copies(published', k) + HeldCopies(hand', pc', {"clear"}, k) =
          Copies(messages', k) + Copies(pending', k) + HeldCopies(hand', pc', Between, k)
            + Of(finished', k) + DrainedOf(k)'
    <3> DEFINE d == DrainedOf(k)'  h == HeldCopies(hand, pc, {"clear"}, k)
               b == HeldCopies(hand, pc, Between, k)
               n == Copies(published', k)  m == Copies(messages', k)
               p == Copies(pending', k)  f == Of(finished', k)
               n0 == Copies(published, k)  m0 == Copies(messages, k)
               p0 == Copies(pending, k)  f0 == Of(finished, k)  d0 == DrainedOf(k)
    <3>1. n + m0 + p0 + f0 + d0 = n0 + m + p + f + d
      BY <1>11
    <3>2. /\ n \in Nat /\ m \in Nat /\ p \in Nat /\ f \in Nat /\ d \in Nat /\ h \in Nat /\ b \in Nat
          /\ n0 \in Nat /\ m0 \in Nat /\ p0 \in Nat /\ f0 \in Nat /\ d0 \in Nat
      BY <1>1, <2>1
    <3>4. n0 + h = m0 + p0 + b + f0 + d0
      BY <2>2
    <3> HIDE DEF d, h, b, n, m, p, f, n0, m0, p0, f0, d0
    <3>3. n + h = m + p + b + f + d
      BY <3>1, <3>2, <3>4
    <3> QED BY <1>2, <3>3 DEF d, h, b, n, m, p, f
  <2> QED BY <2>3 DEF CountOf

LEMMA CountedInit ==
  ASSUME Init, NEW k
  PROVE  CountOf(k)
<1>1. QueueInv
  BY QueueInvInit
<1>2. ASSUME NEW labels, labels \in {Between, {"clear"}} PROVE HeldCopies(hand, pc, labels, k) = 0
  <2>1. PlacesOfChunk(hand, pc, labels, k) = {}
    <3>1. \A c \in Clients : pc[c] \notin labels
      BY <1>2 DEF Init, Between
    <3> QED BY <3>1 DEF PlacesOfChunk, PlacesOf
  <2> QED BY <2>1, FS_EmptySet DEF HeldCopies
<1>3. Of(finished, k) = 0
  BY EmptyBagType DEF Init
<1>4. DrainedOf(k) = 0
  BY ClientsFinite DEF Init, DrainedOf
<1>5. Copies(published, k) = 0 /\ Copies(messages, k) = 0 /\ Copies(pending, k) = 0
  BY CopiesOfNone DEF Init
<1> QED BY <1>2, <1>3, <1>4, <1>5 DEF CountOf

LEMMA CountedStep ==
  ASSUME QueueInv, Counted, [Next]_vars
  PROVE  Counted'
<1>1. SUFFICES ASSUME ~crossed', NEW k PROVE CountOf(k)'
  BY DEF Counted
<1>2. ~crossed /\ CountOf(k)
  <2>1. ~crossed
    <3>1. CASE Noted
      BY <1>1, <3>1, NotedType DEF QueueInv
    <3>2. CASE UNCHANGED vars
      BY <1>1, <3>2 DEF vars
    <3> QED BY <3>1, <3>2 DEF Next, Noted
  <2> QED BY <2>1 DEF Counted
<1>3. CASE WorkerStep \/ WorkerDies
  BY <1>2, <1>3, WorkerCounts
<1>4. ASSUME NEW c \in Consumers, ConsumerStep(c) PROVE CountOf(k)'
  BY <1>2, <1>4, ConsumerCounts
<1>5. ASSUME NEW c \in Consumers, ConsumerDies(c) PROVE CountOf(k)'
  BY <1>2, <1>5 DEF ConsumerDies, queueVars, ghostVars, CountOf, DrainedOf
<1>6. CASE UNCHANGED vars
  BY <1>2, <1>6 DEF vars, queueVars, clientVars, ghostVars, CountOf, DrainedOf
<1> QED BY <1>3, <1>4, <1>5, <1>6 DEF Next, Step

LEMMA CountedIsAccounted ==
  ASSUME QueueInv, Counted
  PROVE  Accounted
<1> SUFFICES ASSUME ~crossed PROVE Accounted
  BY DEF Accounted
<1> DEFINE m == BagOf(messages)  p == BagOf(pending)  b == Held(Between)
           d == Held({"clear"})  q == BagOf(published)
           left1 == q (+) d
           right1 == m (+) p  right2 == right1 (+) b  right3 == right2 (+) finished
           right4 == right3 (+) Drained
<1>1. /\ IsBag(q) /\ \A k : Of(q, k) = Copies(published, k)
      /\ IsBag(m) /\ \A k : Of(m, k) = Copies(messages, k)
      /\ IsBag(p) /\ \A k : Of(p, k) = Copies(pending, k)
  BY BagOfType DEF QueueInv, QueueType
<1>2. /\ IsBag(d) /\ \A k : Of(d, k) = HeldCopies(hand, pc, {"clear"}, k)
      /\ IsBag(b) /\ \A k : Of(b, k) = HeldCopies(hand, pc, Between, k)
  BY ClientsFinite, HeldType DEF QueueInv, QueueType
<1>3. IsBag(Drained) /\ \A k : Of(Drained, k) = DrainedOf(k)
  BY BagOfType, EmptyBagType DEF Drained, DrainedOf, QueueInv, QueueType
<1>4. IsBag(finished)
  BY DEF QueueInv, QueueType
<1> HIDE DEF m, p, b, d, q
<1>5. IsBag(left1) /\ \A k : Of(left1, k) = Of(q, k) + Of(d, k)
  BY <1>1, <1>2, BagPlus
<1>6. IsBag(right1) /\ \A k : Of(right1, k) = Of(m, k) + Of(p, k)
  BY <1>1, BagPlus
<1> HIDE DEF right1
<1>7. IsBag(right2) /\ \A k : Of(right2, k) = Of(right1, k) + Of(b, k)
  BY <1>2, <1>6, BagPlus
<1> HIDE DEF right2
<1>8. IsBag(right3) /\ \A k : Of(right3, k) = Of(right2, k) + Of(finished, k)
  BY <1>4, <1>7, BagPlus
<1> HIDE DEF right3
<1>9. IsBag(right4) /\ \A k : Of(right4, k) = Of(right3, k) + Of(Drained, k)
  BY <1>3, <1>8, BagPlus
<1> HIDE DEF left1, right4
<1>10. ASSUME NEW k PROVE Of(left1, k) = Of(right4, k)
  <2>1. Of(left1, k) = Copies(published, k) + HeldCopies(hand, pc, {"clear"}, k)
    BY <1>1, <1>2, <1>5
  <2>2. Of(right4, k) = Copies(messages, k) + Copies(pending, k)
                          + HeldCopies(hand, pc, Between, k) + Of(finished, k) + DrainedOf(k)
    BY <1>1, <1>2, <1>3, <1>6, <1>7, <1>8, <1>9
  <2> QED BY <2>1, <2>2 DEF Counted, CountOf
<1>11. left1 = right4
  BY <1>5, <1>9, <1>10, BagEqual
<1> QED BY <1>11 DEF Accounted, left1, right4, right3, right2, right1, q, d, m, p, b,
          InHand, Doubled, Between

\* Whatever the scenario: every chunk that was published waits, is pending, was
\* acknowledged or drained, and nowhere twice, but for the chunks in the hands of
\* a client between two commands of Redis (services/queue.py:84-120), and until
\* a list changes between its copy and its deletion.
THEOREM QueueAccounted == Spec => []Accounted
<1>1. Init => QueueInv /\ Counted
  BY QueueInvInit, CountedInit DEF Counted
<1>2. QueueInv /\ Counted /\ [Next]_vars => (QueueInv /\ Counted)'
  BY QueueInvStep, CountedStep
<1>3. QueueInv /\ Counted => Accounted
  BY CountedIsAccounted
<1> QED BY <1>1, <1>2, <1>3, PTL DEF Spec

-----------------------------------------------------------------------------
(* The chunks.                                                             *)

\* However long the transcript and whatever the size of a chunk: a chunk has at
\* most that many words, and all but the last have exactly that many
\* (TranscriptNormalizer.chunk, normalizer.py:17-22).
THEOREM ChunksAlwaysFit == Spec => []ChunksFit
<1>1. QueueInv => ChunksFit
  <2> SUFFICES ASSUME QueueInv PROVE ChunksFit
    OBVIOUS
  <2> DEFINE s == Normalize(text)  size == scenario.size  chunks == Chunk(s, size)
  <2>1. s \in Text /\ size \in Nat /\ size # 0
    BY ChunksType DEF QueueInv
  <2> HIDE DEF s, size
  <2>2. /\ chunks \in Texts /\ chunks # <<>>
        /\ \/ chunks = << <<>> >>
           \/ \A i \in 1 .. Len(chunks) :
                /\ i < Len(chunks) => Len(Words(chunks[i])) = size
                /\ Len(Words(chunks[i])) \in 1 .. size
    BY <2>1, ChunkWords
  <2> HIDE DEF chunks
  <2>3. Len(chunks) \in Nat \ {0}
    BY <2>2, EmptySeq DEF Texts
  <2>4. chunks = << <<>> >> \/
          /\ \A i \in 1 .. Len(chunks) - 1 : Len(Words(chunks[i])) = size
          /\ Len(Words(chunks[Len(chunks)])) \in 1 .. size
    <3>1. Len(chunks) \in 1 .. Len(chunks) /\ \A i \in 1 .. Len(chunks) - 1 : i \in 1 .. Len(chunks) /\ i < Len(chunks)
      BY <2>3
    <3> QED BY <2>2, <3>1
  <2> QED BY <2>4 DEF ChunksFit, Chunks, chunks, s, size
<1> QED BY <1>1, QueueInvariant, PTL

-----------------------------------------------------------------------------
(* The contract.                                                           *)

\* What the queue has given out: the value of held in the contract.
GivenOut == (BagOf(pending) (+) InHand) (-) Doubled
GivenOutOf(k) ==
  Copies(pending, k) + HeldCopies(hand, pc, Between, k) - HeldCopies(hand, pc, {"clear"}, k)
GivenOutType == IsBag(GivenOut) /\ \A k : GivenOutOf(k) \in Nat /\ Of(GivenOut, k) = GivenOutOf(k)

\* Nobody died and nothing crossed: the contract has not ended.
Whole == crossed = FALSE /\ dead = {}

\* Who has put everything back is alone, and has put back what was pending.
LEMMA DoubledIsPending ==
  ASSUME QueueInv, Whole, NEW k
  PROVE  HeldCopies(hand, pc, {"clear"}, k) \in {0, Copies(pending, k)}
<1>1. CASE \E c \in Clients : pc[c] = "clear"
  <2>1. PICK c \in Clients : pc[c] = "clear"
    BY <1>1
  <2>2. c \in Consumers
    BY <2>1, WorkerAssumption DEF QueueInv, QueueType, Clients, WorkerLabels
  <2>3. Copying(c) /\ CopyFits
    BY <2>1, <2>2 DEF QueueInv, Copying, Whole
  <2>10. hand[c] = pending
    BY <2>2, <2>3 DEF CopyFits
  <2>4. \A d \in Clients : pc[d] = "clear" => d = c
    <3>1. ASSUME NEW d \in Clients, pc[d] = "clear" PROVE d = c
      <4>1. d \in Consumers
        BY <3>1 DEF QueueInv, QueueType, Clients, WorkerLabels
      <4>2. Copying(d)
        BY <3>1 DEF Copying, Whole
      <4> QED BY <2>2, <2>3, <4>1, <4>2 DEF CopyFits
    <3> QED BY <3>1
  <2>5. Elsewhere(hand, pc, {"clear"}, k, c) = {}
    BY <2>4 DEF Elsewhere, PlacesOfChunk, PlacesOf
  <2>6. hand \in [Clients -> Texts] /\ IsFiniteSet(Clients)
    BY ClientsFinite DEF QueueInv, QueueType
  <2>7. HeldCopies(hand, pc, {"clear"}, k)
          = Cardinality(Elsewhere(hand, pc, {"clear"}, k, c))
            + IF pc[c] \in {"clear"} THEN Copies(hand[c], k) ELSE 0
    BY <2>6, HeldSplit
  <2>8. Cardinality(Elsewhere(hand, pc, {"clear"}, k, c)) = 0
    BY <2>5, FS_EmptySet
  <2>9. Copies(pending, k) \in Nat
    BY NumbersType
  <2> QED BY <2>1, <2>10, <2>7, <2>8, <2>9
<1>2. CASE ~ \E c \in Clients : pc[c] = "clear"
  <2>1. PlacesOfChunk(hand, pc, {"clear"}, k) = {}
    BY <1>2 DEF PlacesOfChunk, PlacesOf
  <2> QED BY <2>1, FS_EmptySet DEF HeldCopies
<1> QED BY <1>1, <1>2

LEMMA GivenOutCounted == QueueInv /\ Whole => GivenOutType
<1> SUFFICES ASSUME QueueInv, Whole PROVE GivenOutType
  OBVIOUS
<1> DEFINE p == BagOf(pending)  b == Held(Between)  d == Held({"clear"})
           both == p (+) b
<1>1. IsBag(p) /\ \A k : Of(p, k) = Copies(pending, k)
  BY BagOfType DEF QueueInv, QueueType
<1>2. /\ IsBag(d) /\ \A k : Of(d, k) = HeldCopies(hand, pc, {"clear"}, k)
      /\ IsBag(b) /\ \A k : Of(b, k) = HeldCopies(hand, pc, Between, k)
  BY ClientsFinite, HeldType DEF QueueInv, QueueType
<1> HIDE DEF p, b, d
<1>3. IsBag(both) /\ \A k : Of(both, k) = Of(p, k) + Of(b, k)
  BY <1>1, <1>2, BagPlus
<1> HIDE DEF both
<1>4. /\ IsBag(both (-) d)
      /\ \A k : Of(both (-) d, k) = IF Of(both, k) > Of(d, k) THEN Of(both, k) - Of(d, k) ELSE 0
  BY <1>2, <1>3, BagMinus
<1>5. GivenOut = both (-) d
  BY DEF GivenOut, both, p, b, d, InHand, Doubled, Between
<1>6. ASSUME NEW k PROVE GivenOutOf(k) \in Nat /\ Of(GivenOut, k) = GivenOutOf(k)
  <2> DEFINE x == Copies(pending, k)  y == HeldCopies(hand, pc, Between, k)
             z == HeldCopies(hand, pc, {"clear"}, k)
  <2>1. x \in Nat /\ y \in Nat /\ z \in Nat /\ z \in {0, x}
    BY NumbersType, DoubledIsPending
  <2>2. Of(both, k) = x + y /\ Of(d, k) = z
    BY <1>1, <1>2, <1>3
  <2>3. Of(GivenOut, k) = IF Of(both, k) > Of(d, k) THEN Of(both, k) - Of(d, k) ELSE 0
    BY <1>4, <1>5
  <2> HIDE DEF x, y, z
  <2>4. x + y - z \in Nat /\ Of(GivenOut, k) = x + y - z
    BY <2>1, <2>2, <2>3
  <2> QED BY <2>4 DEF GivenOutOf, x, y, z
<1> QED BY <1>4, <1>5, <1>6 DEF GivenOutType

LEMMA GivenOutCountedNext == QueueInv' /\ Whole' => GivenOutType'
  BY GivenOutCounted, PTL

\* A step after which the contract has not ended.
WholeStep == QueueInv /\ QueueInv' /\ Whole /\ Whole'

\* The contract sees three numbers of a consumer's step.
LEMMA ConsumerGives ==
  ASSUME WholeStep, NEW c \in Consumers, ConsumerStep(c), NEW k
  PROVE  /\ GivenOutOf(k)' + Copies(messages', k) + Of(finished', k)
              = GivenOutOf(k) + Copies(messages, k) + Of(finished, k)
         /\ Copies(messages', k) \in Nat /\ Copies(messages, k) \in Nat
         /\ Of(finished', k) \in Nat /\ Of(finished, k) \in Nat
<1>1. Moved(c) /\ QueueInv /\ QueueInv' /\ Balanced(c, k)
  BY ConsumerMoves, ConsumerBalanced DEF WholeStep, Whole
<1>2. c # Worker /\ c \in Clients /\ Worker \in Clients /\ IsFiniteSet(Clients)
  BY WorkerAssumption, ClientsFinite
<1>3. hand \in [Clients -> Texts] /\ hand' \in [Clients -> Texts]
  BY <1>1 DEF QueueInv, QueueType
<1>4. \A d \in Clients \ {c} : hand'[d] = hand[d] /\ pc'[d] = pc[d]
  BY <1>1 DEF Moved
<1> DEFINE b == HeldCopies(hand, pc, Between, k)  b1 == HeldCopies(hand', pc', Between, k)
           d == HeldCopies(hand, pc, {"clear"}, k)  d1 == HeldCopies(hand', pc', {"clear"}, k)
           i == InHandOf(hand, pc, c, k)  i1 == InHandOf(hand', pc', c, k)
           j == DoubledOf(hand, pc, c, k)  j1 == DoubledOf(hand', pc', c, k)
           m == Copies(messages, k)  m1 == Copies(messages', k)
           p == Copies(pending, k)  p1 == Copies(pending', k)
           f == Of(finished, k)  f1 == Of(finished', k)
<1>5. b1 + i = b + i1
  BY <1>2, <1>3, <1>4, HeldStep DEF InHandOf
<1>6. d1 + j = d + j1
  BY <1>2, <1>3, <1>4, HeldStep DEF DoubledOf
<1>7. m \in Nat /\ p \in Nat /\ f \in Nat /\ b \in Nat /\ d \in Nat /\ i \in Nat /\ j \in Nat
  BY <1>1, <1>2, NumbersType DEF InHandOf, DoubledOf
<1>8. m1 \in Nat /\ p1 \in Nat /\ f1 \in Nat /\ b1 \in Nat /\ d1 \in Nat /\ i1 \in Nat /\ j1 \in Nat
  <2>1. m1 \in Nat /\ p1 \in Nat /\ Copies(hand'[c], k) \in Nat
    BY <1>1, <1>2, CopiesType DEF Moved
  <2>2. f1 \in Nat
    BY <1>1, BagType DEF Moved
  <2>3. b1 \in Nat /\ d1 \in Nat
    BY <1>2, <1>3, PlacesFinite
  <2> QED BY <2>1, <2>2, <2>3 DEF InHandOf, DoubledOf
<1>9. m1 + p1 + f1 + i1 + j = m + p + f + i + j1
  BY <1>1 DEF Balanced
<1>10. GivenOutOf(k) = p + b - d /\ GivenOutOf(k)' = p1 + b1 - d1
  BY DEF GivenOutOf
<1> HIDE DEF b, b1, d, d1, i, i1, j, j1, m, m1, p, p1, f, f1
<1>11. (p1 + b1 - d1) + m1 + f1 = (p + b - d) + m + f
  BY <1>5, <1>6, <1>7, <1>8, <1>9
<1>12. GivenOutOf(k)' + m1 + f1 = GivenOutOf(k) + m + f
  BY <1>10, <1>11
<1> QED BY <1>7, <1>8, <1>12 DEF m, m1, f, f1

LEMMA WorkerGives ==
  ASSUME WholeStep, Worked
  PROVE  /\ pending' = pending => GivenOut' = GivenOut
         /\ pending' = <<>> => GivenOut' \sqsubseteq GivenOut
<1>1. QueueInv /\ QueueInv' /\ GivenOutType /\ GivenOutType'
  BY GivenOutCounted, GivenOutCountedNext DEF WholeStep
<1>2. /\ IsBag(GivenOut) /\ IsBag(GivenOut')
      /\ \A k : /\ Of(GivenOut, k) = GivenOutOf(k) /\ GivenOutOf(k) \in Nat
                /\ Of(GivenOut', k) = GivenOutOf(k)' /\ GivenOutOf(k)' \in Nat
  BY <1>1 DEF GivenOutType
<1>3. ASSUME NEW k
      PROVE  GivenOutOf(k)' + Copies(pending, k) = GivenOutOf(k) + Copies(pending', k)
  <2> DEFINE b == HeldCopies(hand, pc, Between, k)  d == HeldCopies(hand, pc, {"clear"}, k)
             p == Copies(pending, k)  p1 == Copies(pending', k)
  <2>1. HeldCopies(hand', pc', Between, k) = b /\ HeldCopies(hand', pc', {"clear"}, k) = d
    BY <1>1, WorkerHoldsNothing
  <2>2. b \in Nat /\ d \in Nat /\ p \in Nat /\ p1 \in Nat
    BY <1>1, NumbersType, CopiesType DEF Worked
  <2>3. GivenOutOf(k) = p + b - d /\ GivenOutOf(k)' = p1 + b - d
    BY <2>1 DEF GivenOutOf
  <2> HIDE DEF b, d, p, p1
  <2>4. GivenOutOf(k)' + p = GivenOutOf(k) + p1
    BY <2>2, <2>3
  <2> QED BY <2>4 DEF p, p1
<1>4. ASSUME pending' = pending PROVE GivenOut' = GivenOut
  <2>1. \A k : Copies(pending, k) \in Nat
    BY <1>1, NumbersType
  <2>2. ASSUME NEW k PROVE Of(GivenOut', k) = Of(GivenOut, k)
    BY <1>2, <1>3, <1>4, <2>1
  <2> QED BY <1>2, <2>2, BagEqual
<1>5. ASSUME pending' = <<>> PROVE GivenOut' \sqsubseteq GivenOut
  <2>1. \A k : Copies(pending, k) \in Nat /\ Copies(pending', k) = 0
    BY <1>1, <1>5, NumbersType
  <2>2. ASSUME NEW k PROVE Of(GivenOut', k) <= Of(GivenOut, k)
    BY <1>2, <1>3, <2>1
  <2> QED BY <1>2, <2>2, BagBelow
<1> QED BY <1>4, <1>5

\* The contract has operators of its own on sequences and bags: they are the same.
LEMMA SamePrefix == \A s, t : Contract!IsPrefix(s, t) <=> IsPrefix(s, t)
  BY DEF Contract!IsPrefix, IsPrefix

LEMMA SameSuffix == \A s, t : Contract!IsSuffix(s, t) <=> IsSuffix(s, t)
  BY SamePrefix DEF Contract!IsSuffix, IsSuffix, Contract!Reverse, Reverse

LEMMA SameBelow == \A s, t : Contract!\sqsubseteq(s, t) <=> (s \sqsubseteq t)
  BY DEF Contract!\sqsubseteq, \sqsubseteq

LEMMA SamePlus == \A s, t : Contract!(+)(s, t) = s (+) t
  BY DEF Contract!(+), (+)

LEMMA SameCardinality == \A s : Contract!Cardinality(s) = Cardinality(s)
  BY DEF Contract!Cardinality, Cardinality

LEMMA SameBagOf == \A s : Contract!BagOf(s) = BagOf(s)
<1>1. \A s : Contract!ToSet(s) = ToSet(s)
  BY DEF Contract!ToSet, ToSet
<1> QED BY <1>1, SameCardinality DEF Contract!BagOf, BagOf

LEMMA ConcatIsPrefix ==
  ASSUME NEW s \in Texts, NEW t \in Texts
  PROVE  IsPrefix(s, s \o t)
<1> DEFINE u == s \o t
<1>1. /\ Len(s) \in Nat /\ Len(t) \in Nat /\ u \in Seq(Text) /\ Len(u) = Len(s) + Len(t)
      /\ \A i \in 1 .. Len(s) : u[i] = s[i]
  BY ConcatProperties DEF Texts
<1> HIDE DEF u
<1>2. SubSeq(u, 1, Len(s)) = SubSeq(s, 1, Len(s))
  BY <1>1
<1> QED BY <1>1, <1>2 DEF IsPrefix, u

LEMMA ConcatIsSuffix ==
  ASSUME NEW s \in Texts, NEW t \in Texts
  PROVE  IsSuffix(s, t \o s)
<1> DEFINE u == t \o s
<1>1. /\ Len(s) \in Nat /\ Len(t) \in Nat /\ Len(u) = Len(t) + Len(s)
      /\ \A i \in 1 .. Len(s) : u[i + Len(t)] = s[i]
  BY ConcatProperties DEF Texts
<1> HIDE DEF u
<1> DEFINE a == Reverse(s)  b == Reverse(u)
<1>2. /\ a = [i \in 1 .. Len(s) |-> s[(Len(s) - i) + 1]] /\ Len(a) = Len(s)
      /\ b = [i \in 1 .. Len(u) |-> u[(Len(u) - i) + 1]] /\ Len(b) = Len(u)
  BY <1>1 DEF Reverse
<1>3. ASSUME NEW i \in 1 .. Len(s) PROVE a[i] = b[i]
  <2>1. (Len(s) - i) + 1 \in 1 .. Len(s) /\ ((Len(s) - i) + 1) + Len(t) = (Len(u) - i) + 1
    BY <1>1
  <2>2. i \in 1 .. Len(u)
    BY <1>1
  <2>3. a[i] = s[(Len(s) - i) + 1] /\ b[i] = u[(Len(u) - i) + 1]
    BY <1>2, <2>2
  <2> QED BY <1>1, <2>1, <2>3
<1> HIDE DEF a, b
<1>4. SubSeq(a, 1, Len(a)) = SubSeq(b, 1, Len(a))
  <2>1. \A i \in 1 .. Len(a) : a[i] = b[i]
    BY <1>2, <1>3
  <2> QED BY <1>1, <1>2, <2>1
<1> QED BY <1>1, <1>2, <1>4 DEF IsSuffix, IsPrefix, a, b, u

\* A step of the contract, or none.
ContractStep == [Contract!ContractNext]_(Contract!contractVars)

LEMMA Stutters ==
  ASSUME Whole, Whole', GivenOut' = GivenOut, messages' = messages
  PROVE  ContractStep
<1>1. (dead' # {} \/ crossed') = (dead # {} \/ crossed)
  BY DEF Whole
<1> QED BY <1>1 DEF ContractStep, Contract!contractVars, GivenOut

LEMMA Breaks ==
  ASSUME dead' # {} \/ crossed'
  PROVE  ContractStep
  BY DEF ContractStep, Contract!ContractNext, Contract!Break

LEMMA Publishes ==
  ASSUME Whole', GivenOut' = GivenOut, IsPrefix(messages, messages')
  PROVE  ContractStep
  BY SamePrefix DEF ContractStep, Contract!ContractNext, Contract!Publish, GivenOut, Whole

LEMMA Acknowledges ==
  ASSUME Whole', GivenOut' \sqsubseteq GivenOut, messages' = messages
  PROVE  ContractStep
  BY SameBelow DEF ContractStep, Contract!ContractNext, Contract!Ack, GivenOut, Whole

LEMMA DrainsAll ==
  ASSUME Whole', GivenOut' \sqsubseteq GivenOut, messages' = <<>>
  PROVE  ContractStep
  BY SameBelow DEF ContractStep, Contract!ContractNext, Contract!Drain, GivenOut, Whole

LEMMA GivesOut ==
  ASSUME Whole', NEW n \in DOMAIN messages,
         messages' = SubSeq(messages, n + 1, Len(messages)),
         GivenOut' = GivenOut (+) BagOf(SubSeq(messages, 1, n))
  PROVE  ContractStep
  BY SameBagOf, SamePlus DEF ContractStep, Contract!ContractNext, Contract!Consume, GivenOut, Whole

LEMMA HandsBack ==
  ASSUME Whole', IsPrefix(messages, messages') \/ IsSuffix(messages, messages'),
         GivenOut' \sqsubseteq GivenOut,
         BagOf(messages') (+) GivenOut' = BagOf(messages) (+) GivenOut
  PROVE  ContractStep
  BY SamePrefix, SameSuffix, SameBelow, SamePlus, SameBagOf
  DEF ContractStep, Contract!ContractNext, Contract!Nack, GivenOut, Whole

LEMMA ConsumerGivesBags ==
  ASSUME WholeStep, NEW c \in Consumers, ConsumerStep(c)
  PROVE  /\ messages \in Texts /\ messages' \in Texts
         /\ IsBag(GivenOut) /\ IsBag(GivenOut')
         /\ \A k : /\ Of(GivenOut', k) \in Nat /\ Of(GivenOut, k) \in Nat
                   /\ Copies(messages', k) \in Nat /\ Copies(messages, k) \in Nat
                   /\ Of(finished', k) \in Nat /\ Of(finished, k) \in Nat
                   /\ Of(GivenOut', k) + Copies(messages', k) + Of(finished', k)
                        = Of(GivenOut, k) + Copies(messages, k) + Of(finished, k)
<1>1. QueueInv /\ QueueInv' /\ GivenOutType /\ GivenOutType'
  BY GivenOutCounted, GivenOutCountedNext DEF WholeStep
<1>2. /\ IsBag(GivenOut) /\ IsBag(GivenOut')
      /\ \A k : /\ Of(GivenOut, k) = GivenOutOf(k) /\ GivenOutOf(k) \in Nat
                /\ Of(GivenOut', k) = GivenOutOf(k)' /\ GivenOutOf(k)' \in Nat
  BY <1>1 DEF GivenOutType
<1>3. messages \in Texts /\ messages' \in Texts
  BY <1>1 DEF QueueInv, QueueType
<1>4. ASSUME NEW k
      PROVE  /\ Copies(messages', k) \in Nat /\ Copies(messages, k) \in Nat
             /\ Of(finished', k) \in Nat /\ Of(finished, k) \in Nat
             /\ GivenOutOf(k)' + Copies(messages', k) + Of(finished', k)
                  = GivenOutOf(k) + Copies(messages, k) + Of(finished, k)
  BY ConsumerGives
<1> QED BY <1>2, <1>3, <1>4

LEMMA GivesNothing ==
  ASSUME WholeStep, NEW c \in Consumers, ConsumerStep(c),
         messages' = messages, finished' = finished
  PROVE  ContractStep
<1>1. /\ IsBag(GivenOut) /\ IsBag(GivenOut')
      /\ \A k : /\ Of(GivenOut', k) \in Nat /\ Of(GivenOut, k) \in Nat
                /\ Copies(messages, k) \in Nat /\ Of(finished, k) \in Nat
                /\ Of(GivenOut', k) + Copies(messages, k) + Of(finished, k)
                     = Of(GivenOut, k) + Copies(messages, k) + Of(finished, k)
  BY ConsumerGivesBags
<1>2. ASSUME NEW k PROVE Of(GivenOut', k) = Of(GivenOut, k)
  BY <1>1
<1>3. GivenOut' = GivenOut
  BY <1>1, <1>2, BagEqual
<1> QED BY <1>3, Stutters DEF WholeStep

LEMMA GivesUp ==
  ASSUME WholeStep, NEW c \in Consumers, ConsumerStep(c), NEW s \in Texts,
         messages' = messages, finished' = finished (+) BagOf(s)
  PROVE  ContractStep
<1>1. /\ IsBag(GivenOut) /\ IsBag(GivenOut')
      /\ \A k : /\ Of(GivenOut', k) \in Nat /\ Of(GivenOut, k) \in Nat
                /\ Copies(messages, k) \in Nat /\ Of(finished, k) \in Nat /\ Of(finished', k) \in Nat
                /\ Of(GivenOut', k) + Copies(messages, k) + Of(finished', k)
                     = Of(GivenOut, k) + Copies(messages, k) + Of(finished, k)
  BY ConsumerGivesBags
<1>2. \A k : Of(finished', k) = Of(finished, k) + Copies(s, k)
  BY FinishedType DEF WholeStep
<1>3. ASSUME NEW k PROVE Of(GivenOut', k) <= Of(GivenOut, k)
  <2>1. Copies(s, k) \in Nat
    BY CopiesType
  <2> QED BY <1>1, <1>2, <2>1
<1>4. GivenOut' \sqsubseteq GivenOut
  BY <1>1, <1>3, BagBelow
<1> QED BY <1>4, Acknowledges DEF WholeStep

LEMMA GivesFirst ==
  ASSUME WholeStep, NEW c \in Consumers, ConsumerStep(c), NEW n \in 0 .. Len(messages),
         messages' = SubSeq(messages, n + 1, Len(messages)),
         finished' = finished
  PROVE  ContractStep
<1> DEFINE s == SubSeq(messages, 1, n)
<1>1. /\ messages \in Texts /\ messages' \in Texts /\ IsBag(GivenOut) /\ IsBag(GivenOut')
      /\ \A k : /\ Of(GivenOut', k) \in Nat /\ Of(GivenOut, k) \in Nat
                /\ Copies(messages', k) \in Nat /\ Copies(messages, k) \in Nat
                /\ Of(finished, k) \in Nat
                /\ Of(GivenOut', k) + Copies(messages', k) + Of(finished, k)
                     = Of(GivenOut, k) + Copies(messages, k) + Of(finished, k)
  BY ConsumerGivesBags
<1>2. s \in Texts /\ \A k : Copies(messages, k) = Copies(s, k) + Copies(messages', k)
  BY <1>1, CopiesSplit
<1> HIDE DEF s
<1>3. CASE n = 0
  <2>1. messages' = messages
    BY <1>1, <1>3, SubSeqFull DEF Texts
  <2> QED BY <2>1, GivesNothing
<1>4. CASE n # 0
  <2>1. IsBag(BagOf(s)) /\ \A k : Of(BagOf(s), k) = Copies(s, k)
    BY <1>2, BagOfType
  <2>2. /\ IsBag(GivenOut (+) BagOf(s))
        /\ \A k : Of(GivenOut (+) BagOf(s), k) = Of(GivenOut, k) + Of(BagOf(s), k)
    BY <1>1, <2>1, BagPlus
  <2>3. ASSUME NEW k PROVE Of(GivenOut', k) = Of(GivenOut (+) BagOf(s), k)
    <3>1. Copies(s, k) \in Nat
      BY <1>2, CopiesType
    <3>2. Of(GivenOut', k) = Of(GivenOut, k) + Copies(s, k)
      <4> DEFINE g == Of(GivenOut, k)  g1 == Of(GivenOut', k)  f == Of(finished, k)
                 m == Copies(messages, k)  m1 == Copies(messages', k)  x == Copies(s, k)
      <4>1. g \in Nat /\ g1 \in Nat /\ f \in Nat /\ m \in Nat /\ m1 \in Nat /\ g1 + m1 + f = g + m + f
        BY <1>1
      <4>2. m = x + m1 /\ x \in Nat
        BY <1>2, <3>1
      <4> HIDE DEF g, g1, f, m, m1, x
      <4>3. g1 = g + x
        BY <4>1, <4>2
      <4> QED BY <4>3 DEF g, g1, x
    <3> QED BY <2>1, <2>2, <3>2
  <2>4. GivenOut' = GivenOut (+) BagOf(s)
    BY <1>1, <2>2, <2>3, BagEqual
  <2>5. n \in DOMAIN messages
    BY <1>1, <1>4 DEF Texts
  <2> QED BY <2>4, <2>5, GivesOut DEF s, WholeStep
<1> QED BY <1>3, <1>4

LEMMA GivesBack ==
  ASSUME WholeStep, NEW c \in Consumers, ConsumerStep(c), NEW s \in Texts,
         messages' = messages \o s \/ messages' = s \o messages,
         finished' = finished
  PROVE  ContractStep
<1>1. /\ messages \in Texts /\ messages' \in Texts /\ IsBag(GivenOut) /\ IsBag(GivenOut')
      /\ \A k : /\ Of(GivenOut', k) \in Nat /\ Of(GivenOut, k) \in Nat
                /\ Copies(messages', k) \in Nat /\ Copies(messages, k) \in Nat
                /\ Of(finished, k) \in Nat
                /\ Of(GivenOut', k) + Copies(messages', k) + Of(finished, k)
                     = Of(GivenOut, k) + Copies(messages, k) + Of(finished, k)
  BY ConsumerGivesBags
<1>2. IsPrefix(messages, messages') \/ IsSuffix(messages, messages')
  BY <1>1, ConcatIsPrefix, ConcatIsSuffix
<1>3. ASSUME NEW k PROVE Of(GivenOut', k) <= Of(GivenOut, k)
  <2>1. Copies(messages', k) = Copies(messages, k) + Copies(s, k)
        \/ Copies(messages', k) = Copies(s, k) + Copies(messages, k)
    <3>1. /\ Copies(messages \o s, k) = Copies(messages, k) + Copies(s, k)
          /\ Copies(s \o messages, k) = Copies(s, k) + Copies(messages, k)
      BY <1>1, CopiesConcat
    <3>2. CASE messages' = messages \o s
      BY <3>1, <3>2, Zenon
    <3>3. CASE messages' = s \o messages
      BY <3>1, <3>3, Zenon
    <3> QED BY <3>2, <3>3
  <2>2. Copies(s, k) \in Nat
    BY CopiesType
  <2> QED BY <1>1, <2>1, <2>2
<1>4. GivenOut' \sqsubseteq GivenOut
  BY <1>1, <1>3, BagBelow
<1> DEFINE m == BagOf(messages)  m1 == BagOf(messages')
<1>5. /\ IsBag(m) /\ \A k : Of(m, k) = Copies(messages, k)
      /\ IsBag(m1) /\ \A k : Of(m1, k) = Copies(messages', k)
  BY <1>1, BagOfType
<1> HIDE DEF m, m1
<1>6. /\ IsBag(m (+) GivenOut) /\ \A k : Of(m (+) GivenOut, k) = Of(m, k) + Of(GivenOut, k)
      /\ IsBag(m1 (+) GivenOut') /\ \A k : Of(m1 (+) GivenOut', k) = Of(m1, k) + Of(GivenOut', k)
  BY <1>1, <1>5, BagPlus
<1>7. ASSUME NEW k PROVE Of(m1 (+) GivenOut', k) = Of(m (+) GivenOut, k)
  <2>1. Copies(messages', k) + Of(GivenOut', k) = Copies(messages, k) + Of(GivenOut, k)
    <3> DEFINE g == Of(GivenOut, k)  g1 == Of(GivenOut', k)  f == Of(finished, k)
               n == Copies(messages, k)  n1 == Copies(messages', k)
    <3>1. g \in Nat /\ g1 \in Nat /\ f \in Nat /\ n \in Nat /\ n1 \in Nat /\ g1 + n1 + f = g + n + f
      BY <1>1
    <3> HIDE DEF g, g1, f, n, n1
    <3>2. n1 + g1 = n + g
      BY <3>1
    <3> QED BY <3>2 DEF g, g1, n, n1
  <2> QED BY <1>5, <1>6, <2>1
<1>8. m1 (+) GivenOut' = m (+) GivenOut
  BY <1>6, <1>7, BagEqual
<1> QED BY <1>2, <1>4, <1>8, HandsBack DEF m, m1, WholeStep

LEMMA ConsumerMaps ==
  ASSUME WholeStep, NEW c \in Consumers, ConsumerStep(c)
  PROVE  ContractStep
<1> USE DEF Begin
<1>15. messages \in Texts /\ pending \in Texts /\ hand[c] \in Texts
  BY ClientsFinite DEF WholeStep, QueueInv, QueueType
<1>1. CASE Consume(c)
  BY <1>1, GivesNothing DEF Consume, queueVars
<1>2. CASE Pop(c)
  <2>1. CASE messages # <<>>
    <3>1. messages' = Tail(messages) /\ finished' = finished
      BY <1>2, <2>1 DEF Pop, ghostVars
    <3>2. 1 \in 0 .. Len(messages) /\ Tail(messages) = SubSeq(messages, 1 + 1, Len(messages))
      <4>1. Len(messages) \in Nat /\ Len(messages) # 0
        BY <1>15, <2>1, EmptySeq DEF Texts
      <4>2. Tail(messages) = SubSeq(messages, 2, Len(messages))
        BY <1>15, <2>1, TailIsSubSeq DEF Texts
      <4> QED BY <4>1, <4>2
    <3> QED BY <3>1, <3>2, GivesFirst
  <2>2. CASE messages = <<>>
    BY <1>2, <2>2, GivesNothing DEF Pop, ghostVars
  <2> QED BY <2>1, <2>2
<1>3. CASE Push(c)
  BY <1>3, GivesNothing DEF Push, ghostVars
<1>4. CASE Ack(c)
  <2>1. PICK k \in ToSet(given[c]) : finished' = finished (+) BagOf(Only(pending, {k}))
    BY <1>4 DEF Ack
  <2>2. Only(pending, {k}) \in Texts
    BY <1>15, ListsType
  <2> QED BY <1>4, <2>1, <2>2, GivesUp DEF Ack
<1>5. CASE AckAll(c)
  BY <1>15, <1>5, GivesUp DEF AckAll
<1>6. CASE NackAll(c)
  BY <1>6, GivesNothing DEF NackAll, queueVars
<1>7. CASE RequeueAll(c)
  BY <1>15, <1>7, GivesBack DEF RequeueAll, ghostVars
<1>8. CASE Clear(c)
  BY <1>8, GivesNothing DEF Clear, ghostVars
<1>9. CASE Nack(c)
  BY <1>9, GivesNothing DEF Nack, queueVars
<1>10. CASE Return(c)
  BY <1>10, GivesNothing DEF Return, ghostVars
<1>11. CASE Requeue(c)
  BY <1>15, <1>11, GivesBack DEF Requeue, ghostVars
<1>12. CASE MemoryConsume(c)
  <2>1. PICK count \in 1 .. 2 :
          LET consumed == SubSeq(messages, 1, IF count < Len(messages) THEN count ELSE Len(messages)) IN
          messages' = SubSeq(messages, Len(consumed) + 1, Len(messages))
    BY <1>12 DEF MemoryConsume
  <2> DEFINE n == IF count < Len(messages) THEN count ELSE Len(messages)
  <2>2. n \in 0 .. Len(messages) /\ Len(SubSeq(messages, 1, n)) = n
    BY <1>15, SubSeqProperties DEF Texts
  <2>3. messages' = SubSeq(messages, n + 1, Len(messages))
    BY <2>1, <2>2
  <2> HIDE DEF n
  <2> QED BY <1>12, <2>2, <2>3, GivesFirst DEF MemoryConsume
<1>13. CASE MemoryAck(c)
  <2>1. PICK ids : finished' = finished (+) BagOf(Only(pending, ids))
    BY <1>13 DEF MemoryAck
  <2>2. Only(pending, ids) \in Texts
    BY <1>15, ListsType
  <2> QED BY <1>13, <2>1, <2>2, GivesUp DEF MemoryAck
<1>14. CASE MemoryNack(c)
  <2>1. PICK ids : messages' = Only(pending, ids) \o messages
    BY <1>14 DEF MemoryNack
  <2>2. Only(pending, ids) \in Texts
    BY <1>15, ListsType
  <2> QED BY <1>14, <2>1, <2>2, GivesBack DEF MemoryNack
<1> QED
  BY <1>1, <1>2, <1>3, <1>4, <1>5, <1>6, <1>7, <1>8, <1>9, <1>10, <1>11, <1>12, <1>13, <1>14
  DEF ConsumerStep

LEMMA WorkerMaps ==
  ASSUME WholeStep, WorkerStep \/ WorkerDies
  PROVE  ContractStep
<1>1. /\ pending' = pending => GivenOut' = GivenOut
      /\ pending' = <<>> => GivenOut' \sqsubseteq GivenOut
  BY WorkerMoves, WorkerGives DEF WholeStep
<1>2. messages \in Texts /\ Chunks \in Texts
  BY ChunksType DEF WholeStep, QueueInv, QueueType
<1>3. GivenOut \sqsubseteq GivenOut
  <2>1. IsBag(GivenOut) /\ \A k : Of(GivenOut, k) \in Nat
    BY GivenOutCounted DEF GivenOutType, WholeStep
  <2> QED BY <2>1, BagBelow
<1> USE DEF WholeStep
<1>4. CASE Publish
  <2>1. IsPrefix(messages, messages')
    BY <1>2, <1>4, ConcatIsPrefix DEF Publish
  <2> QED BY <1>1, <1>4, <2>1, Publishes DEF Publish
<1>5. CASE Validate
  BY <1>1, <1>5, Stutters DEF Validate, queueVars
<1>6. CASE Drain
  <2>1. CASE Redis /\ UNCHANGED <<queueVars, finished>>
    BY <1>1, <2>1, Stutters DEF queueVars
  <2>2. CASE messages' = <<>> /\ pending' = <<>>
    BY <1>1, <2>2, DrainsAll
  <2> QED BY <1>6, <2>1, <2>2 DEF Drain
<1>7. CASE DrainDelete
  BY <1>1, <1>3, <1>7, DrainsAll DEF DrainDelete
<1>8. CASE DrainForget
  BY <1>1, <1>8, Acknowledges DEF DrainForget
<1>9. CASE WorkerDies
  BY <1>1, <1>9, Stutters DEF WorkerDies, queueVars
<1> QED BY <1>4, <1>5, <1>6, <1>7, <1>8, <1>9 DEF WorkerStep

LEMMA ContractStepMaps ==
  ASSUME QueueInv, [Next]_vars
  PROVE  ContractStep
<1>1. CASE dead' # {} \/ crossed'
  BY <1>1, Breaks
<1>2. CASE UNCHANGED vars
  BY <1>2 DEF vars, queueVars, clientVars, GivenOut, InHand, Doubled, Held, Places,
    ContractStep, Contract!contractVars
<1>3. CASE Step /\ Noted /\ dead' = {} /\ ~crossed'
  <2>1. QueueInv' /\ crossed \in BOOLEAN /\ crossed' \in BOOLEAN /\ ~crossed
    BY <1>3, QueueInvStep, NotedType DEF Next, Noted, QueueInv, QueueType
  <2>2. ASSUME NEW c \in Consumers, ConsumerDies(c) PROVE FALSE
    BY <1>3, <2>2 DEF ConsumerDies
  <2>3. dead = {}
    <3>1. ASSUME NEW c \in Consumers, ConsumerStep(c) PROVE dead' = dead
      BY <3>1, ConsumerMoves DEF Moved
    <3>2. ASSUME WorkerStep \/ WorkerDies PROVE dead' = dead
      BY <3>2, WorkerMoves DEF Worked
    <3> QED BY <1>3, <2>2, <3>1, <3>2 DEF Step
  <2>4. WholeStep
    BY <1>3, <2>1, <2>3 DEF WholeStep, Whole
  <2>5. CASE WorkerStep \/ WorkerDies
    BY <2>4, <2>5, WorkerMaps
  <2>6. ASSUME NEW c \in Consumers, ConsumerStep(c) PROVE ContractStep
    BY <2>4, <2>6, ConsumerMaps
  <2> QED BY <1>3, <2>2, <2>5, <2>6 DEF Step
<1> QED BY <1>1, <1>2, <1>3 DEF Next, Noted

LEMMA ContractInitMaps ==
  ASSUME Init
  PROVE  Contract!ContractInit
<1>1. GivenOutType
  BY QueueInvInit, GivenOutCounted DEF Init, Whole
<1>2. ASSUME NEW k PROVE Of(GivenOut, k) = 0
  <2>1. ASSUME NEW labels \in {Between, {"clear"}} PROVE HeldCopies(hand, pc, labels, k) = 0
    <3>1. \A c \in Clients : pc[c] \notin labels
      BY DEF Init, Between
    <3>2. PlacesOfChunk(hand, pc, labels, k) = {}
      BY <3>1 DEF PlacesOfChunk, PlacesOf
    <3> QED BY <3>2, FS_EmptySet DEF HeldCopies
  <2>2. Copies(pending, k) = 0
    BY CopiesOfNone DEF Init
  <2> QED BY <1>1, <2>1, <2>2 DEF GivenOutType, GivenOutOf
<1>3. GivenOut = EmptyBag
  BY <1>1, <1>2, EmptyBagType, BagEqual DEF GivenOutType
<1>4. Contract!EmptyBag = EmptyBag
  BY DEF Contract!EmptyBag, EmptyBag, Contract!SetToBag, SetToBag
<1> QED BY <1>3, <1>4 DEF Init, Contract!ContractInit, GivenOut

\* Both queues keep the Protocol's promise (services/queue.py:9-23) until a
\* client dies or a list changes between its copy and its deletion: chunks are given out from the front and held until they are
\* acknowledged or handed back, none is lost and none is given out twice.
THEOREM QueueKeepsContract == Spec => ImplementsContract
<1>1. Init => Contract!ContractInit
  BY ContractInitMaps
<1>2. QueueInv /\ [Next]_vars => [Contract!ContractNext]_(Contract!contractVars)
  BY ContractStepMaps DEF ContractStep
<1> QED BY <1>1, <1>2, QueueInvariant, PTL DEF Spec, ImplementsContract, Contract!ContractSpec

-----------------------------------------------------------------------------
(* What is left when fillers are dropped.                                  *)

\* Without looks at one word after the other.
LEMMA WithoutAppend ==
  ASSUME NEW s \in Texts, NEW x \in Text, NEW ids
  PROVE  /\ Without(s, ids) \in Texts
         /\ Without(Append(s, x), ids) = IF x \in ids THEN Without(s, ids) ELSE Append(Without(s, ids), x)
<1> DEFINE t == Append(s, x)  n == Len(s)  A == ToSet(s) \ ids  B == ToSet(t) \ ids
<1>1. /\ n \in Nat /\ t \in Texts /\ Len(t) = n + 1
      /\ \A i \in 1 .. n : s[i] \in Text /\ t[i] = s[i]
      /\ t[n + 1] = x
  BY AppendProperties, LenProperties, ElementOfSeq DEF Texts
<1>2. \A i \in 1 .. n : s[i] \in A <=> s[i] \notin ids
  BY <1>1 DEF ToSet, Texts
<1>3. \A i \in 1 .. n + 1 : t[i] \in B <=> t[i] \notin ids
  BY <1>1 DEF ToSet, Texts
<1>4. PICK F : OnlyOf(F, s, A) /\ Without(s, ids) = F[n]
  BY OnlyUnfold DEF Without
<1> HIDE DEF t, A, B
<1>5. PICK G : OnlyOf(G, t, B) /\ Without(t, ids) = G[n + 1]
  BY <1>1, OnlyUnfold DEF Without, B
<1> HIDE DEF n
<1> DEFINE S == {i \in Nat : i <= n => G[i] = F[i]}
<1>6. 0 \in S
  BY <1>4, <1>5 DEF OnlyOf
<1>7. ASSUME NEW i \in Nat, i \in S PROVE i + 1 \in S
  <2>1. SUFFICES ASSUME i + 1 <= n PROVE G[i + 1] = F[i + 1]
    OBVIOUS
  <2>2. i + 1 \in 1 .. n /\ i + 1 \in 1 .. n + 1 /\ (i + 1) - 1 = i /\ G[i] = F[i]
    BY <1>1, <1>7, <2>1
  <2>3. /\ F[i + 1] = IF s[i + 1] \in A THEN Append(F[i], s[i + 1]) ELSE F[i]
        /\ G[i + 1] = IF t[i + 1] \in B THEN Append(G[i], t[i + 1]) ELSE G[i]
    BY <1>1, <1>4, <1>5, <2>2 DEF OnlyOf, n
  <2> QED BY <1>1, <1>2, <1>3, <2>2, <2>3
<1>8. G[n] = F[n]
  <2> HIDE DEF S
  <2>1. Nat \subseteq S
    BY <1>6, <1>7, Induct
  <2> QED BY <1>1, <2>1 DEF S
<1>9. n \in 0 .. n /\ n + 1 \in 1 .. n + 1 /\ (n + 1) - 1 = n
  BY <1>1
<1>10. F[n] \in Texts /\ G[n + 1] = IF t[n + 1] \in B THEN Append(G[n], t[n + 1]) ELSE G[n]
  <2>1. F[n] \in Texts
    BY <1>4, <1>9 DEF OnlyOf, n
  <2>2. n + 1 \in 1 .. Len(t)
    BY <1>1, <1>9
  <2> QED BY <1>5, <1>9, <2>1, <2>2 DEF OnlyOf
<1> QED BY <1>1, <1>3, <1>4, <1>5, <1>8, <1>9, <1>10 DEF t

LEMMA TextsAppend ==
  ASSUME NEW s \in Texts, NEW t \in Texts, NEW x \in Text
  PROVE  Append(s \o t, x) = s \o Append(t, x)
<1>1. <<x>> \in Texts /\ s \o t \in Texts
  BY TextsConcat DEF Texts
<1>2. Append(t, x) = t \o <<x>> /\ Append(s \o t, x) = (s \o t) \o <<x>>
  BY <1>1, AppendIsConcat DEF Texts
<1>3. (s \o t) \o <<x>> = s \o (t \o <<x>>)
  BY <1>1, TextsConcat
<1> QED BY <1>2, <1>3

LEMMA WithoutConcat ==
  ASSUME NEW s \in Texts, NEW t \in Texts, NEW ids
  PROVE  /\ Without(s, ids) \in Texts
         /\ Without(s \o t, ids) = Without(s, ids) \o Without(t, ids)
<1> DEFINE W(x) == Without(x, ids)
           S == {x \in Texts : W(s \o x) = W(s) \o W(x)}
<1>1. <<>> \in Texts /\ W(<<>>) = <<>> /\ \A x \in Texts : W(x) \in Texts
  <2>1. <<>> \in Texts /\ \A x \in Texts : W(x) \in Texts
    BY CopiesOfNone, CopiesWithout
  <2>2. W(<<>>) = <<>>
    <3>1. PICK F : OnlyOf(F, <<>>, ToSet(<<>>) \ ids) /\ W(<<>>) = F[Len(<<>>)]
      BY <2>1, OnlyUnfold DEF Without
    <3> QED BY <3>1 DEF OnlyOf
  <2> QED BY <2>1, <2>2
<1> HIDE DEF W
<1>2. <<>> \in S
  <2>1. s \o <<>> = s /\ W(s) \o <<>> = W(s)
    BY <1>1, ConcatEmptySeq DEF Texts
  <2> QED BY <1>1, <2>1
<1>3. ASSUME NEW x \in Texts, NEW w \in Text, x \in S PROVE Append(x, w) \in S
  <2>1. PICK y \in Texts : y = s \o x
    BY <1>1, TextsConcat
  <2>3. W(y) = W(s) \o W(x)
    BY <1>3, <2>1
  <2> HIDE DEF S
  <2>2. s \o Append(x, w) = Append(y, w) /\ Append(x, w) \in Texts
    <3>1. Append(s \o x, w) = s \o Append(x, w)
      BY TextsAppend, Zenon
    <3>2. Append(x, w) \in Texts
      BY TextsConcat
    <3> QED BY <2>1, <3>1, <3>2
  <2>4. /\ W(Append(y, w)) = IF w \in ids THEN W(y) ELSE Append(W(y), w)
        /\ W(Append(x, w)) = IF w \in ids THEN W(x) ELSE Append(W(x), w)
    BY WithoutAppend DEF W
  <2>5. PICK a \in Texts, b \in Texts : a = W(s) /\ b = W(x)
    BY <1>1
  <2>6. Append(a \o b, w) = a \o Append(b, w)
    BY TextsAppend, Zenon
  <2> USE DEF S
  <2>7. CASE w \in ids
    BY <2>2, <2>3, <2>4, <2>7
  <2>8. CASE w \notin ids
    BY <2>2, <2>3, <2>4, <2>5, <2>6, <2>8
  <2> QED BY <2>7, <2>8
<1> HIDE DEF S
<1>4. Texts \subseteq S
  BY <1>2, <1>3, AppendInduct DEF Texts
<1> QED BY <1>1, <1>4 DEF S, W

\* What AssembledFaithful says of the words that were said and those that were
\* kept, when nothing is known of how the text is spaced.
FillersDropped(said, kept) ==
  /\ Meant(kept) = Meant(said)
  /\ \A w : Copies(kept, w) <= Copies(said, w)
  /\ Copies(said, You) - Copies(kept, You) = Copies(said, Know) - Copies(kept, Know)

LEMMA DroppedType ==
  /\ \A a \in Texts : FillersDropped(a, a)
  /\ \A a, b, c \in Texts : FillersDropped(a, b) /\ FillersDropped(b, c) => FillersDropped(a, c)
<1>1. \A a \in Texts : \A w : Copies(a, w) \in Nat
  BY CopiesType
<1>2. ASSUME NEW a \in Texts PROVE FillersDropped(a, a)
  BY <1>1 DEF FillersDropped
<1>3. ASSUME NEW a \in Texts, NEW b \in Texts, NEW c \in Texts, FillersDropped(a, b), FillersDropped(b, c)
      PROVE  FillersDropped(a, c)
  <2>1. ASSUME NEW w PROVE Copies(c, w) <= Copies(a, w)
    <3>1. Copies(c, w) <= Copies(b, w) /\ Copies(b, w) <= Copies(a, w)
      BY <1>3 DEF FillersDropped
    <3>2. Copies(a, w) \in Nat /\ Copies(b, w) \in Nat /\ Copies(c, w) \in Nat
      BY <1>1
    <3> QED BY <3>1, <3>2
  <2>2. Copies(a, You) - Copies(c, You) = Copies(a, Know) - Copies(c, Know)
    <3>1. /\ Copies(a, You) \in Nat /\ Copies(b, You) \in Nat /\ Copies(c, You) \in Nat
          /\ Copies(a, Know) \in Nat /\ Copies(b, Know) \in Nat /\ Copies(c, Know) \in Nat
      BY <1>1
    <3>2. /\ Copies(a, You) - Copies(b, You) = Copies(a, Know) - Copies(b, Know)
          /\ Copies(b, You) - Copies(c, You) = Copies(b, Know) - Copies(c, Know)
      BY <1>3 DEF FillersDropped
    <3> QED BY <3>1, <3>2
  <2> QED BY <1>3, <2>1, <2>2 DEF FillersDropped
<1> QED BY <1>2, <1>3

LEMMA MeantConcat ==
  ASSUME NEW s \in Texts, NEW t \in Texts
  PROVE  Meant(s \o t) = Meant(s) \o Meant(t)
<1> DEFINE ids == Singles \cup {You, Know}
<1>1. Meant(s) = Without(s, ids) /\ Meant(t) = Without(t, ids) /\ Meant(s \o t) = Without(s \o t, ids)
  BY DEF Meant
<1> HIDE DEF ids
<1>2. Without(s \o t, ids) = Without(s, ids) \o Without(t, ids)
  BY WithoutConcat, Zenon
<1> QED BY <1>1, <1>2

LEMMA DroppedConcat ==
  ASSUME NEW a \in Texts, NEW b \in Texts, NEW c \in Texts, NEW d \in Texts,
         FillersDropped(a, b), FillersDropped(c, d)
  PROVE  FillersDropped(a \o c, b \o d)
<1>1. \A x \in Texts : \A w : Copies(x, w) \in Nat
  BY CopiesType
<1>2. ASSUME NEW w
      PROVE  Copies(a \o c, w) = Copies(a, w) + Copies(c, w) /\ Copies(b \o d, w) = Copies(b, w) + Copies(d, w)
  BY CopiesConcat
<1>3. Meant(b \o d) = Meant(a \o c)
  <2>1. Meant(b \o d) = Meant(b) \o Meant(d) /\ Meant(a \o c) = Meant(a) \o Meant(c)
    BY MeantConcat
  <2> QED BY <2>1 DEF FillersDropped
<1>4. ASSUME NEW w PROVE Copies(b \o d, w) <= Copies(a \o c, w)
  <2>1. Copies(b, w) <= Copies(a, w) /\ Copies(d, w) <= Copies(c, w)
    BY DEF FillersDropped
  <2>2. /\ Copies(a, w) \in Nat /\ Copies(b, w) \in Nat /\ Copies(c, w) \in Nat /\ Copies(d, w) \in Nat
    BY <1>1
  <2> QED BY <1>2, <2>1, <2>2
<1>5. Copies(a \o c, You) - Copies(b \o d, You) = Copies(a \o c, Know) - Copies(b \o d, Know)
  <2>1. \A w : Copies(a, w) \in Nat /\ Copies(b, w) \in Nat /\ Copies(c, w) \in Nat /\ Copies(d, w) \in Nat
    BY <1>1
  <2>2. /\ Copies(a, You) - Copies(b, You) = Copies(a, Know) - Copies(b, Know)
        /\ Copies(c, You) - Copies(d, You) = Copies(c, Know) - Copies(d, Know)
    BY DEF FillersDropped
  <2>3. /\ Copies(a \o c, You) = Copies(a, You) + Copies(c, You)
        /\ Copies(b \o d, You) = Copies(b, You) + Copies(d, You)
        /\ Copies(a \o c, Know) = Copies(a, Know) + Copies(c, Know)
        /\ Copies(b \o d, Know) = Copies(b, Know) + Copies(d, Know)
    BY <1>2
  <2> QED BY <2>1, <2>2, <2>3
<1> QED BY <1>3, <1>4, <1>5 DEF FillersDropped

\* The fillers as words.
LEMMA ThreeTokens ==
  ASSUME NEW a \in Token, NEW b \in Token, NEW c \in Token
  PROVE  <<a>> \o <<b>> \o <<c>> = <<a, b, c>>
<1> DEFINE ab == <<a>> \o <<b>>  s == ab \o <<c>>  t == <<a, b, c>>
<1>1. <<a>> \in Seq(Token) /\ Len(<<a>>) = 1 /\ <<a>>[1] = a
  OBVIOUS
<1>2. <<b>> \in Seq(Token) /\ Len(<<b>>) = 1 /\ <<b>>[1] = b
  OBVIOUS
<1>3. <<c>> \in Seq(Token) /\ Len(<<c>>) = 1 /\ <<c>>[1] = c
  OBVIOUS
<1>4. t \in Seq(Token) /\ Len(t) = 3 /\ t[1] = a /\ t[2] = b /\ t[3] = c
  OBVIOUS
<1>5. ab \in Seq(Token) /\ Len(ab) = 2 /\ ab[1] = a /\ ab[2] = b
  <2>1. ab \in Seq(Token) /\ Len(ab) = Len(<<a>>) + Len(<<b>>)
        /\ \A i \in 1 .. Len(<<a>>) + Len(<<b>>) : ab[i] = IF i <= Len(<<a>>) THEN <<a>>[i] ELSE <<b>>[i - Len(<<a>>)]
    BY <1>1, <1>2, ConcatProperties
  <2> QED BY <1>1, <1>2, <2>1
<1> HIDE DEF ab
<1>6. s \in Seq(Token) /\ Len(s) = 3 /\ s[1] = a /\ s[2] = b /\ s[3] = c
  <2>1. s \in Seq(Token) /\ Len(s) = Len(ab) + Len(<<c>>)
        /\ \A i \in 1 .. Len(ab) + Len(<<c>>) : s[i] = IF i <= Len(ab) THEN ab[i] ELSE <<c>>[i - Len(ab)]
    BY <1>3, <1>5, ConcatProperties
  <2> QED BY <1>3, <1>5, <2>1
<1> HIDE DEF s, t
<1>7. \A i \in 1 .. Len(s) : s[i] = t[i]
  BY <1>4, <1>6
<1>8. s = t
  BY <1>4, <1>6, <1>7, SeqEqual
<1> QED BY <1>8 DEF s, t, ab

LEMMA FillerWords ==
  /\ Words(Fillers[1]) = << <<"um">> >> /\ Words(Fillers[2]) = << <<"uh">> >>
  /\ Words(Fillers[3]) = <<You>> \o <<Know>> /\ Words(Fillers[4]) = << <<"like">> >>
  /\ <<"um">> \in Text /\ <<"uh">> \in Text /\ <<"like">> \in Text /\ You \in Text /\ Know \in Text
  /\ You # Know /\ You \notin Singles /\ Know \notin Singles
<1> DEFINE Spoken == {"um", "uh", "you", "know", "like"}
<1>1. ASSUME NEW x \in Spoken PROVE <<x>> \in Text /\ Words(<<x>>) = << <<x>> >>
  <2>1. x \in Token /\ x \notin WhiteSpace /\ <<>> \in Text /\ Words(<<>>) = <<>>
    BY WordsType, EmptySeq DEF Token, WhiteSpace, Space, Newline, Text
  <2>2. Runs(<<x>> \o <<>>, WhiteSpace) = << <<x>> >> \o Runs(<<>>, WhiteSpace)
    BY <2>1, RunsAlone
  <2>3. <<x>> \in Text
    BY <2>1 DEF Text
  <2>4. << <<x>> >> \in Texts
    BY <2>3 DEF Texts
  <2>5. <<x>> \o <<>> = <<x>> /\ << <<x>> >> \o <<>> = << <<x>> >>
    BY <2>3, <2>4, ConcatEmptySeq DEF Text, Texts
  <2> QED BY <2>1, <2>2, <2>3, <2>5 DEF Words
<1>2. Words(<<"you", Space, "know">>) = <<You>> \o <<Know>>
  <2>1. You \in Text /\ Know \in Text /\ Words(You) = <<You>> /\ Words(Know) = <<Know>>
    BY <1>1 DEF You, Know
  <2>2. Words(You \o <<Space>> \o Know) = Words(You) \o Words(Know)
    BY <2>1, WordsSpaced
  <2>3. <<"you">> \o <<Space>> \o <<"know">> = <<"you", Space, "know">>
    <3>1. "you" \in Token /\ Space \in Token /\ "know" \in Token
      BY SpaceType DEF Token
    <3> QED BY <3>1, ThreeTokens
  <2> QED BY <2>1, <2>2, <2>3 DEF You, Know
<1>3. <<"um">> \in Text /\ <<"uh">> \in Text /\ <<"like">> \in Text /\ You \in Text /\ Know \in Text
  BY <1>1 DEF You, Know
<1>4. You # Know /\ You \notin Singles /\ Know \notin Singles
  BY DEF You, Know, Singles
<1> QED BY <1>1, <1>2, <1>3, <1>4 DEF Fillers

\* A filler is dropped with all its words.
LEMMA DroppedFiller ==
  ASSUME NEW i \in 1 .. 4
  PROVE  Words(Fillers[i]) \in Texts /\ FillersDropped(Words(Fillers[i]), <<>>)
<1>0. <<>> \in Texts /\ Meant(<<>>) = <<>> /\ \A k : Copies(<<>>, k) = 0
  <2>1. <<>> \in Texts /\ \A k : Copies(<<>>, k) = 0
    BY CopiesOfNone
  <2>2. PICK F : OnlyOf(F, <<>>, ToSet(<<>>) \ (Singles \cup {You, Know})) /\ Meant(<<>>) = F[Len(<<>>)]
    BY <2>1, OnlyUnfold DEF Meant, Without
  <2> QED BY <2>1, <2>2 DEF OnlyOf
<1>1. ASSUME NEW w \in Singles \cup {You, Know} PROVE w \in Text /\ <<w>> \in Texts /\ Meant(<<w>>) = <<>>
  <2>1. w \in Text
    BY FillerWords DEF Singles
  <2>2. Append(<<>>, w) = <<w>> /\ <<w>> \in Texts
    BY <2>1 DEF Texts
  <2>3. Without(Append(<<>>, w), Singles \cup {You, Know}) = Without(<<>>, Singles \cup {You, Know})
    BY <1>0, <2>1, WithoutAppend
  <2> QED BY <1>0, <2>1, <2>2, <2>3 DEF Meant
<1>2. ASSUME NEW w \in Singles PROVE FillersDropped(<<w>>, <<>>)
  <2>1. \A k : Copies(<<w>>, k) = IF w = k THEN 1 ELSE 0
    BY <1>1, CopiesOfOne
  <2>2. w # You /\ w # Know
    BY FillerWords
  <2>3. Meant(<<>>) = Meant(<<w>>)
    BY <1>0, <1>1
  <2>4. \A k : Copies(<<>>, k) <= Copies(<<w>>, k)
    BY <1>0, <2>1
  <2>5. Copies(<<w>>, You) = 0 /\ Copies(<<w>>, Know) = 0 /\ Copies(<<>>, You) = 0 /\ Copies(<<>>, Know) = 0
    BY <1>0, <2>1, <2>2
  <2> QED BY <2>3, <2>4, <2>5 DEF FillersDropped
<1>3. <<You>> \o <<Know>> \in Texts /\ FillersDropped(<<You>> \o <<Know>>, <<>>)
  <2> DEFINE pair == <<You>> \o <<Know>>
  <2>1. <<You>> \in Texts /\ <<Know>> \in Texts /\ Meant(<<You>>) = <<>> /\ Meant(<<Know>>) = <<>>
    BY <1>1
  <2>2. Meant(pair) = <<>>
    <3>1. Meant(pair) = Meant(<<You>>) \o Meant(<<Know>>)
      BY <2>1, MeantConcat
    <3> QED BY <2>1, <3>1, <1>0, ConcatEmptySeq DEF Texts
  <2>3. ASSUME NEW k
        PROVE  Copies(pair, k) = (IF You = k THEN 1 ELSE 0) + (IF Know = k THEN 1 ELSE 0)
    <3>1. Copies(pair, k) = Copies(<<You>>, k) + Copies(<<Know>>, k)
      BY <2>1, CopiesConcat
    <3>2. Copies(<<You>>, k) = (IF You = k THEN 1 ELSE 0) /\ Copies(<<Know>>, k) = IF Know = k THEN 1 ELSE 0
      BY <1>1, CopiesOfOne
    <3> QED BY <3>1, <3>2
  <2>4. pair \in Texts
    BY <2>1, TextsConcat
  <2> HIDE DEF pair
  <2>5. \A k : Copies(<<>>, k) <= Copies(pair, k)
    BY <1>0, <2>3
  <2>6. Copies(pair, You) = 1 /\ Copies(pair, Know) = 1 /\ Copies(<<>>, You) = 0 /\ Copies(<<>>, Know) = 0
    BY <1>0, <2>3, FillerWords
  <2>7. Meant(<<>>) = Meant(pair)
    BY <1>0, <2>2
  <2>8. FillersDropped(pair, <<>>)
    BY <2>5, <2>6, <2>7 DEF FillersDropped
  <2> QED BY <2>4, <2>8 DEF pair
<1>4. <<"um">> \in Singles /\ <<"uh">> \in Singles /\ <<"like">> \in Singles
  BY DEF Singles
<1>5. CASE i = 1
  BY <1>1, <1>2, <1>4, <1>5, FillerWords
<1>6. CASE i = 2
  BY <1>1, <1>2, <1>4, <1>6, FillerWords
<1>7. CASE i = 3
  BY <1>3, <1>7, FillerWords
<1>8. CASE i = 4
  BY <1>1, <1>2, <1>4, <1>8, FillerWords
<1> QED BY <1>5, <1>6, <1>7, <1>8

\* Normalising a text drops fillers and nothing else: every other word is kept, in
\* order, no word is added, and "you know" goes as a whole (normalizer.py:5-15).
THEOREM NormalizeDropsFillers ==
  ASSUME NEW s \in Text
  PROVE  FillersDropped(Words(s), Words(Normalize(s)))
<1> DEFINE R == {p \in Texts \X Texts : FillersDropped(p[1], p[2])}
<1>1. \A a \in Texts : <<a, a>> \in R
  BY DroppedType
<1>2. \A a, b, c \in Texts : <<a, b>> \in R /\ <<b, c>> \in R => <<a, c>> \in R
  BY DroppedType
<1>3. ASSUME NEW a \in Texts, NEW b \in Texts, NEW w \in Text, <<a, b>> \in R
      PROVE  << <<w>> \o a, <<w>> \o b >> \in R
  <2>1. PICK x \in Texts : x = <<w>>
    <3>1. <<w>> \in Texts
      BY CopiesOfOne
    <3> QED BY <3>1
  <2>2. x \o a \in Texts /\ x \o b \in Texts
    BY TextsConcat
  <2>3. FillersDropped(x, x) /\ FillersDropped(a, b)
    BY <1>3, DroppedType
  <2>4. FillersDropped(x \o a, x \o b)
    BY <2>3, DroppedConcat
  <2> QED BY <2>1, <2>2, <2>4
<1>4. ASSUME NEW i \in 1 .. 4, NEW a \in Texts, NEW b \in Texts, <<a, b>> \in R
      PROVE  <<Words(Fillers[i]) \o a, b>> \in R
  <2>1. PICK x \in Texts : x = Words(Fillers[i]) /\ FillersDropped(x, <<>>)
    BY DroppedFiller
  <2>2. <<>> \in Texts /\ <<>> \o b = b /\ x \o a \in Texts /\ FillersDropped(a, b)
    BY <1>4, TextsConcat, EmptySeq, ConcatEmptySeq DEF Texts
  <2>3. FillersDropped(x \o a, <<>> \o b)
    BY <2>1, <2>2, DroppedConcat
  <2> QED BY <2>1, <2>2, <2>3
<1> HIDE DEF R
<1>5. <<Words(s), Words(Normalize(s))>> \in R
  BY <1>1, <1>2, <1>3, <1>4, NormalizeDrops
<1> QED BY <1>5 DEF R

-----------------------------------------------------------------------------
(* Plain speech without fillers.                                           *)

\* The values of the fold that WithoutFillers is, when the words at D are left
\* out.
KeptOf(F, ws, D) ==
  /\ F \in [0 .. Len(ws) -> Texts]
  /\ F[0] = <<>>
  /\ \A i \in 1 .. Len(ws) : F[i] = IF i \in D THEN F[i - 1] ELSE Append(F[i - 1], ws[i])

FillersOf(ws) == {i \in DOMAIN ws : IsFiller(ws, i)}

LEMMA KeptUnfold ==
  ASSUME NEW s \in Texts
  PROVE  \E F : KeptOf(F, s, FillersOf(s)) /\ WithoutFillers(s) = F[Len(s)]
<1> DEFINE n == Len(s)
           at == [i \in DOMAIN s |-> i]
           Next1(g, i) == IF IsFiller(s, i) THEN g ELSE Append(g, s[i])
           step == [p \in (1 .. n) \X Texts |-> Next1(p[2], p[1])]
           Solution(g) == g = [S \in SUBSET DOMAIN at |->
             IF S = {} THEN <<>> ELSE Next1(g[S \ {Max(S)}], at[Max(S)])]
           iter == CHOOSE g : Solution(g)
<1>1. /\ n \in Nat /\ DOMAIN s = 1 .. n /\ <<>> \in Texts /\ DOMAIN at = 1 .. n
      /\ \A i \in 1 .. n : s[i] \in Text /\ at[i] = i
  BY CopiesOfNone DEF Texts
<1>2. WithoutFillers(s) = iter[DOMAIN at]
  BY DEF WithoutFillers, FoldLeft, MapThenFoldSet
<1>3. ASSUME NEW g \in Texts, NEW i \in 1 .. n PROVE Next1(g, i) \in Texts
  BY <1>1 DEF Texts
<1> HIDE DEF n, Next1, at
<1>4. step \in [(1 .. n) \X Texts -> Texts]
  BY <1>3
<1>5. PICK g : IsFold(g, n, Texts, <<>>, step)
  <2> HIDE DEF step
  <2> QED BY <1>1, <1>4, FoldExists
<1> USE DEF IsFold
<1>6. ASSUME NEW S \in SUBSET (1 .. n), S # {}
      PROVE  step[Max(S), g[S \ {Max(S)}]] = Next1(g[S \ {Max(S)}], at[Max(S)])
  <2>1. Max(S) \in 1 .. n /\ S \ {Max(S)} \in SUBSET (1 .. n)
    BY <1>1, <1>6, Greatest
  <2>2. <<Max(S), g[S \ {Max(S)}]>> \in (1 .. n) \X Texts
    BY <2>1, <1>5
  <2>3. at[Max(S)] = Max(S)
    BY <1>1, <2>1
  <2> QED BY <2>1, <2>2, <2>3
<1> HIDE DEF step
<1>7. Solution(g)
  <2>1. \A S \in SUBSET DOMAIN at :
          g[S] = IF S = {} THEN <<>> ELSE Next1(g[S \ {Max(S)}], at[Max(S)])
    BY <1>1, <1>5, <1>6
  <2> QED BY <2>1, <1>1, <1>5
<1>8. Solution(iter)
  BY <1>7
<1> HIDE DEF iter
<1> DEFINE F == [i \in 0 .. n |-> iter[1 .. i]]
<1>9. F[0] = <<>>
  <2>1. 1 .. 0 = {} /\ 1 .. 0 \in SUBSET DOMAIN at
    BY <1>1
  <2> QED BY <1>1, <1>8, <2>1
<1>10. ASSUME NEW i \in 1 .. n PROVE F[i] = Next1(F[i - 1], i)
  <2> HIDE DEF F, Solution
  <2>1. /\ 1 .. i \in SUBSET (1 .. n) /\ i \in 1 .. i
        /\ i \in Nat /\ i # 0 /\ i \in 0 .. n /\ i - 1 \in 0 .. n /\ at[i] = i
    BY <1>1
  <2> USE DEF F, Solution
  <2>2. Max(1 .. i) = i /\ (1 .. i) \ {Max(1 .. i)} = 1 .. (i - 1)
    BY <2>1, GreatestOfInterval
  <2>3. PICK S : S = 1 .. i /\ S \in SUBSET DOMAIN at /\ S # {} /\ Max(S) = i /\ S \ {Max(S)} = 1 .. (i - 1)
    BY <1>1, <2>1, <2>2
  <2>4. iter[S] = Next1(iter[S \ {Max(S)}], at[Max(S)])
    <3> HIDE DEF Max
    <3> QED BY <1>8, <2>3
  <2> QED BY <2>1, <2>3, <2>4
<1> HIDE DEF F, Solution
<1>11. \A i \in 0 .. n : F[i] \in Texts
  <2>1. ASSUME NEW i \in 1 .. n, F[i - 1] \in Texts PROVE F[i] \in Texts
    BY <1>3, <1>10, <2>1
  <2> QED BY <1>1, <1>9, <2>1, Recursion
<1>12. F \in [0 .. n -> Texts]
  BY <1>11 DEF F
<1>13. WithoutFillers(s) = F[n]
  BY <1>1, <1>2 DEF F
<1>14. \A i \in 1 .. n : i \in FillersOf(s) <=> IsFiller(s, i)
  BY <1>1 DEF FillersOf
<1>15. KeptOf(F, s, FillersOf(s))
  BY <1>9, <1>10, <1>12, <1>14 DEF KeptOf, n, Next1
<1> QED BY <1>13, <1>15 DEF n

\* What is left of a list is what is left of its beginning and its end.
SameBehind(p, r, D, E) == \A i \in 1 .. Len(r) : Len(p) + i \in D <=> i \in E

Shifted(p, r, D, E, F, G, ws) ==
  /\ p \in Texts /\ r \in Texts /\ ws \in Texts /\ ws = p \o r
  /\ SameBehind(p, r, D, E)
  /\ KeptOf(F, ws, D) /\ KeptOf(G, r, E)
Glued(p, r, F, G, ws) == F[Len(ws)] = F[Len(p)] \o G[Len(r)]

LEMMA KeptShift ==
  ASSUME NEW p, NEW r, NEW ws, NEW D, NEW E, NEW F, NEW G, Shifted(p, r, D, E, F, G, ws)
  PROVE  Glued(p, r, F, G, ws)
<1>0. p \in Texts /\ r \in Texts /\ ws \in Texts /\ ws = p \o r
  BY DEF Shifted
<1> DEFINE l == Len(p)  n == Len(r)
           A == {i \in Nat : i <= n => F[l + i] = F[l] \o G[i]}
<1>1. /\ l \in Nat /\ n \in Nat /\ Len(ws) = l + n
      /\ \A i \in 1 .. n : ws[l + i] = r[i] /\ r[i] \in Text
  <2>1. /\ l \in Nat /\ n \in Nat /\ Len(p \o r) = l + n
        /\ \A i \in 1 .. l + n : (p \o r)[i] = IF i <= l THEN p[i] ELSE r[i - l]
    BY <1>0, ConcatProperties, LenProperties DEF Texts
  <2> HIDE DEF l, n
  <2>2. ASSUME NEW i \in 1 .. n PROVE (p \o r)[l + i] = r[i]
    <3>1. l + i \in 1 .. l + n /\ ~(l + i <= l) /\ (l + i) - l = i
      BY <2>1
    <3> QED BY <2>1, <3>1
  <2>3. \A i \in 1 .. n : r[i] \in Text
    BY <1>0, ElementOfSeq DEF Texts, n
  <2> QED BY <1>0, <2>1, <2>2, <2>3
<1>2. /\ \A i \in 0 .. l + n : F[i] \in Texts
      /\ \A i \in 1 .. l + n : F[i] = IF i \in D THEN F[i - 1] ELSE Append(F[i - 1], ws[i])
      /\ G[0] = <<>> /\ \A i \in 0 .. n : G[i] \in Texts
      /\ \A i \in 1 .. n : G[i] = IF i \in E THEN G[i - 1] ELSE Append(G[i - 1], r[i])
  BY <1>1 DEF KeptOf, Shifted
<1> HIDE DEF l, n
<1>3. 0 \in A
  <2>1. F[l] \in Texts /\ l + 0 = l
    BY <1>1, <1>2
  <2>2. F[l] \o <<>> = F[l]
    BY <2>1, ConcatEmptySeq DEF Texts
  <2> QED BY <1>2, <2>1, <2>2
<1>4. ASSUME NEW i \in Nat, i \in A PROVE i + 1 \in A
  <2>0. i + 1 \in Nat
    BY <1>4
  <2>1. SUFFICES ASSUME i + 1 <= n PROVE F[l + (i + 1)] = F[l] \o G[i + 1]
    BY <2>0
  <2>2. /\ i + 1 \in 1 .. n /\ (i + 1) - 1 = i /\ l + (i + 1) \in 1 .. l + n
        /\ (l + (i + 1)) - 1 = l + i /\ i \in 0 .. n /\ l \in 0 .. l + n /\ i <= n
    BY <1>1, <2>1
  <2>3. F[l + i] = F[l] \o G[i]
    BY <1>4, <2>2
  <2>4. PICK a \in Texts, b \in Texts, w \in Text : a = F[l] /\ b = G[i] /\ w = r[i + 1]
    BY <1>1, <1>2, <2>2
  <2>5. Append(a \o b, w) = a \o Append(b, w)
    BY TextsAppend, Zenon
  <2>6. /\ F[l + (i + 1)] = IF l + (i + 1) \in D THEN F[l + i] ELSE Append(F[l + i], r[i + 1])
        /\ G[i + 1] = IF i + 1 \in E THEN G[i] ELSE Append(G[i], r[i + 1])
    BY <1>1, <1>2, <2>2
  <2>7. l + (i + 1) \in D <=> i + 1 \in E
    BY <2>2 DEF l, n, SameBehind, Shifted
  <2> QED BY <2>3, <2>4, <2>5, <2>6, <2>7
<1>5. n \in A
  <2> HIDE DEF A
  <2>1. Nat \subseteq A
    BY <1>3, <1>4, Induct
  <2> QED BY <1>1, <2>1
<1>6. F[l + n] = F[l] \o G[n]
  <2>1. n \in Nat /\ n <= n
    BY <1>1
  <2> QED BY <1>5, <2>1
<1>7. Len(ws) = l + n
  BY <1>1
<1> HIDE DEF A
<1> QED BY <1>6, <1>7 DEF l, n, Glued

\* Words before others do not make these fillers, unless they end in "you".
Divided(p, r) == ~(p[Len(p)] = You /\ r # <<>> /\ r[1] = Know)

LEMMA FillersShift ==
  ASSUME NEW p \in Texts, p # <<>>, NEW r \in Texts, NEW ws \in Texts, ws = p \o r, Divided(p, r)
  PROVE  /\ Len(p) \in Nat \ {0} /\ Len(r) \in Nat /\ Len(ws) = Len(p) + Len(r)
         /\ \A i \in 1 .. Len(p) : ws[i] = p[i]
         /\ \A i \in 1 .. Len(r) : ws[Len(p) + i] = r[i]
         /\ \A i \in 1 .. Len(r) : IsFiller(ws, Len(p) + i) <=> IsFiller(r, i)
<1> DEFINE l == Len(p)  n == Len(r)
<1>1. /\ l \in Nat \ {0} /\ n \in Nat /\ Len(ws) = l + n
      /\ \A i \in 1 .. l + n : ws[i] = IF i <= l THEN p[i] ELSE r[i - l]
  BY ConcatProperties, LenProperties, EmptySeq DEF Texts
<1>2. (n = 0 => r = <<>>) /\ Divided(p, r)
  BY EmptySeq DEF Texts
<1>3. p[l] = You /\ r # <<>> => r[1] # Know
  BY DEF Divided
<1> HIDE DEF l, n
<1>4. \A i \in 1 .. l : ws[i] = p[i]
  BY <1>1
<1>5. ASSUME NEW i \in 1 .. n PROVE ws[l + i] = r[i]
  <2>1. l + i \in 1 .. l + n /\ ~(l + i <= l) /\ (l + i) - l = i
    BY <1>1
  <2> QED BY <1>1, <2>1
<1>6. ASSUME NEW i \in 1 .. n PROVE IsFiller(ws, l + i) <=> IsFiller(r, i)
  <2>1. ws[l + i] = r[i]
    BY <1>5
  <2>2. (l + i < l + n <=> i < n) /\ (i < n => i + 1 \in 1 .. n) /\ (l + i) + 1 = l + (i + 1)
    BY <1>1
  <2>3. i < n => ws[(l + i) + 1] = r[i + 1]
    BY <1>5, <2>2
  <2>4. CASE i > 1
    <3>1. i - 1 \in 1 .. n /\ (l + i) - 1 = l + (i - 1) /\ l + i > 1
      BY <1>1, <2>4
    <3>2. ws[(l + i) - 1] = r[i - 1]
      BY <1>5, <3>1
    <3> QED BY <1>1, <2>1, <2>2, <2>3, <2>4, <3>1, <3>2 DEF IsFiller, n
  <2>5. CASE i = 1
    <3>1. (l + i) - 1 = l /\ l + i > 1 /\ ~(i > 1) /\ l \in 1 .. l /\ n # 0
      BY <1>1, <2>5
    <3>2. ws[(l + i) - 1] = p[l]
      BY <1>4, <3>1
    <3>3. r # <<>>
      BY <3>1, EmptySeq DEF n
    <3>4. ~(r[i] = Know /\ p[l] = You)
      BY <1>3, <2>5, <3>3
    <3> QED BY <1>1, <2>1, <2>2, <2>3, <3>1, <3>2, <3>4 DEF IsFiller, n
  <2> QED BY <1>1, <2>4, <2>5
<1> QED BY <1>1, <1>4, <1>5, <1>6 DEF l, n

\* One or two words of the beginning are left out, or one is kept.
LEMMA KeptFirst ==
  ASSUME NEW p \in Texts, p # <<>>, NEW r \in Texts, NEW ws \in Texts, ws = p \o r, Divided(p, r)
  PROVE  /\ WithoutFillers(r) \in Texts
         /\ Len(p) \in 1 .. 2 /\ (\A i \in 1 .. Len(p) : IsFiller(ws, i)) => WithoutFillers(ws) = WithoutFillers(r)
         /\ Len(p) = 1 /\ ~IsFiller(ws, 1) => WithoutFillers(ws) = p \o WithoutFillers(r)
<1>1. PICK F : KeptOf(F, ws, FillersOf(ws)) /\ WithoutFillers(ws) = F[Len(ws)]
  BY KeptUnfold
<1>2. PICK G : KeptOf(G, r, FillersOf(r)) /\ WithoutFillers(r) = G[Len(r)]
  BY KeptUnfold
<1>3. /\ Len(p) \in Nat \ {0} /\ Len(r) \in Nat /\ Len(ws) = Len(p) + Len(r)
      /\ \A i \in 1 .. Len(p) : ws[i] = p[i]
      /\ \A i \in 1 .. Len(r) : IsFiller(ws, Len(p) + i) <=> IsFiller(r, i)
  BY FillersShift
<1>4. DOMAIN ws = 1 .. Len(ws) /\ DOMAIN r = 1 .. Len(r)
  BY DEF Texts
<1>5. \A i \in 1 .. Len(r) : Len(p) + i \in FillersOf(ws) <=> i \in FillersOf(r)
  BY <1>3, <1>4 DEF FillersOf
<1>6. F[Len(ws)] = F[Len(p)] \o G[Len(r)]
  <2>1. PICK D, E : D = FillersOf(ws) /\ E = FillersOf(r)
    OBVIOUS
  <2>2. SameBehind(p, r, D, E)
    BY <1>5, <2>1 DEF SameBehind
  <2>3. KeptOf(F, ws, D) /\ KeptOf(G, r, E)
    BY <1>1, <1>2, <2>1
  <2>4. Shifted(p, r, D, E, F, G, ws)
    BY <2>2, <2>3 DEF Shifted
  <2>5. Glued(p, r, F, G, ws)
    BY <2>4, KeptShift, Zenon
  <2> QED BY <2>5 DEF Glued
<1>7. G[Len(r)] \in Texts
  BY <1>2, <1>3 DEF KeptOf
<1>8. \A i \in 1 .. Len(p) : F[i] = IF IsFiller(ws, i) THEN F[i - 1] ELSE Append(F[i - 1], p[i])
  <2>1. \A i \in 1 .. Len(p) : i \in 1 .. Len(ws)
    BY <1>3
  <2> QED BY <1>1, <1>3, <1>4, <2>1 DEF KeptOf, FillersOf
<1>9. F[0] = <<>>
  BY <1>1 DEF KeptOf
<1>10. ASSUME Len(p) \in 1 .. 2, \A i \in 1 .. Len(p) : IsFiller(ws, i)
       PROVE  WithoutFillers(ws) = WithoutFillers(r)
  <2>1. 1 \in 1 .. Len(p) /\ 1 - 1 = 0 /\ 2 - 1 = 1 /\ (Len(p) = 2 => 2 \in 1 .. Len(p))
    <3> DEFINE l == Len(p)
    <3>1. l \in 1 .. 2
      BY <1>10
    <3> HIDE DEF l
    <3>2. 1 \in 1 .. l /\ (l = 2 => 2 \in 1 .. l)
      BY <3>1
    <3> QED BY <3>2 DEF l
  <2>2. F[1] = <<>> /\ (Len(p) = 2 => F[2] = <<>>)
    BY <1>8, <1>9, <1>10, <2>1
  <2>3. F[Len(p)] = <<>>
    BY <1>10, <2>2
  <2>4. <<>> \o G[Len(r)] = G[Len(r)]
    BY <1>7, ConcatEmptySeq DEF Texts
  <2> QED BY <1>1, <1>2, <1>6, <2>3, <2>4
<1>11. ASSUME Len(p) = 1, ~IsFiller(ws, 1)
       PROVE  WithoutFillers(ws) = p \o WithoutFillers(r)
  <2>1. 1 \in 1 .. Len(p) /\ 1 - 1 = 0
    BY <1>11
  <2>2. F[1] = Append(<<>>, p[1])
    BY <1>8, <1>9, <1>11, <2>1
  <2>3. Append(<<>>, p[1]) = p
    <3> DEFINE q == Append(<<>>, p[1])
    <3>1. p[1] \in Text /\ <<>> \in Texts /\ Len(<<>>) = 0
      BY <2>1, ElementOfSeq, CopiesOfNone DEF Texts
    <3>2. q \in Texts /\ Len(q) = 1 /\ q[1] = p[1]
      BY <3>1, AppendProperties DEF Texts
    <3> HIDE DEF q
    <3>3. \A i \in 1 .. Len(p) : q[i] = p[i]
      BY <1>11, <3>2
    <3>4. q = p
      BY <1>11, <3>2, <3>3, SeqEqual DEF Texts
    <3> QED BY <3>4 DEF q
  <2> QED BY <1>1, <1>2, <1>6, <1>11, <2>2, <2>3
<1> QED BY <1>2, <1>7, <1>10, <1>11

-----------------------------------------------------------------------------
(* Which filler a text begins with.                                       *)

\* What a filler at the beginning says of the first tokens.
LEMMA BeginsAt ==
  ASSUME NEW f \in Text, NEW s \in Text, IsPrefixAt(Padded(f), s, 1)
  PROVE  /\ Len(s) \in Nat /\ Len(f) \in Nat /\ Len(f) + 2 <= Len(s)
         /\ \A i \in 1 .. Len(f) : s[i + 1] = f[i]
         /\ s[Len(f) + 2] = Space
<1>1. PICK old \in Text : /\ old = Padded(f) /\ old # <<>> /\ Len(f) \in Nat /\ Len(old) = Len(f) + 2
                          /\ (\A i \in 1 .. Len(f) : old[i + 1] = f[i])
                          /\ old[Len(f) + 2] = Space
  BY PaddedAt
<1>2. PICK t \in Text : s = old \o t
  BY <1>1, PrefixConcat
<1>3. Len(s) = Len(old) + Len(t) /\ Len(t) \in Nat /\ \A i \in 1 .. Len(old) : s[i] = old[i]
  BY <1>2, TextConcatAt
<1> DEFINE n == Len(f)  m == Len(t)
<1>4. n \in Nat /\ m \in Nat /\ Len(old) = n + 2
  BY <1>1, <1>3
<1> HIDE DEF n, m
<1>5. n + 2 <= n + 2 + m /\ n + 2 \in 1 .. n + 2 /\ \A i \in 1 .. n : i + 1 \in 1 .. n + 2
  BY <1>4
<1>6. Len(s) = n + 2 + m
  BY <1>3, <1>4 DEF m
<1>7. \A i \in 1 .. n : s[i + 1] = f[i]
  BY <1>1, <1>3, <1>4, <1>5 DEF n
<1>8. s[n + 2] = Space
  BY <1>1, <1>3, <1>4, <1>5 DEF n
<1> QED BY <1>4, <1>5, <1>6, <1>7, <1>8 DEF n

LEMMA BeginsWord ==
  ASSUME NEW x \in Token, NEW w \in Word, NEW a \in WordLists, Begins(<<x>>, <<w>> \o a)
  PROVE  w = <<x>>
<1>1. PICK f \in Text : f = <<x>> /\ Len(f) = 1 /\ f[1] = x
  <2>1. <<x>> \in Text
    BY DEF Text
  <2> QED BY <2>1
<1>2. w \in Text /\ a \in Texts
  BY WordListsType DEF Word
<1>3. PICK s \in Text : s = Spaced(<<w>> \o a)
  <2>1. PICK t \in Text, sp \in Text : t = Spaced(a) /\ sp = <<Space>>
    BY <1>2, TrailingFirst, WordListsType
  <2>2. PICK u \in Text : u = w \o t
    BY <1>2, TextConcat
  <2>3. sp \o u \in Text /\ Spaced(<<w>> \o a) = sp \o u
    BY <1>2, <2>1, <2>2, TextConcat, TrailingFirst
  <2> QED BY <2>3
<1>4. IsPrefixAt(Padded(f), s, 1)
  BY <1>1, <1>3 DEF Begins
<1>5. 1 \in 1 .. Len(f) /\ s[1 + 1] = f[1] /\ s[Len(f) + 2] = Space
  <2>1. (\A i \in 1 .. Len(f) : s[i + 1] = f[i]) /\ s[Len(f) + 2] = Space
    BY <1>4, BeginsAt
  <2>2. 1 \in 1 .. Len(f)
    BY <1>1
  <2> QED BY <2>1, <2>2
<1>6. s[2] = x /\ s[3] = Space
  BY <1>1, <1>5
<1> QED BY <1>3, <1>6, FirstWord

LEMMA WordsFirst ==
  ASSUME NEW ws \in WordLists, ws # <<>>
  PROVE  \E w \in Word, r \in WordLists :
           ws = <<w>> \o r /\ w = ws[1] /\ Len(ws) \in Nat \ {0} /\ Len(r) = Len(ws) - 1
<1>1. /\ Head(ws) \in Word /\ Tail(ws) \in WordLists /\ Head(ws) = ws[1]
      /\ Len(ws) \in Nat \ {0} /\ Len(Tail(ws)) = Len(ws) - 1 /\ ws = <<Head(ws)>> \o Tail(ws)
  BY FirstAndRest DEF WordLists
<1>2. PICK w \in Word, r \in WordLists : w = Head(ws) /\ r = Tail(ws)
  BY <1>1
<1>3. ws = <<w>> \o r /\ w = ws[1] /\ Len(ws) \in Nat \ {0} /\ Len(r) = Len(ws) - 1
  BY <1>1, <1>2, Zenon
<1> QED BY <1>3

LEMMA BeginsWords ==
  ASSUME NEW f \in Text, NEW x, NEW y, Len(f) = 3, f[1] = x, f[2] = Space, f[3] = y,
         NEW w \in Word, NEW a \in WordLists, Begins(f, <<w>> \o a)
  PROVE  w = <<x>> /\ a # <<>> /\ a[1] = <<y>>
<1>2. w \in Text /\ a \in Texts
  BY WordListsType DEF Word
<1>3. PICK s \in Text : s = Spaced(<<w>> \o a)
  <2>1. PICK t \in Text, sp \in Text : t = Spaced(a) /\ sp = <<Space>>
    BY <1>2, TrailingFirst, WordListsType
  <2>2. PICK u \in Text : u = w \o t
    BY <1>2, TextConcat
  <2>3. sp \o u \in Text /\ Spaced(<<w>> \o a) = sp \o u
    BY <1>2, <2>1, <2>2, TextConcat, TrailingFirst
  <2> QED BY <2>3
<1>4. IsPrefixAt(Padded(f), s, 1)
  BY <1>3 DEF Begins
<1>5. /\ Len(s) \in Nat /\ 5 <= Len(s)
      /\ s[2] = x /\ s[3] = Space /\ s[4] = y /\ s[5] = Space
  <2>1. /\ Len(s) \in Nat /\ Len(f) + 2 <= Len(s)
        /\ (\A i \in 1 .. Len(f) : s[i + 1] = f[i]) /\ s[Len(f) + 2] = Space
    BY <1>4, BeginsAt
  <2>2. 1 \in 1 .. Len(f) /\ 2 \in 1 .. Len(f) /\ 3 \in 1 .. Len(f) /\ Len(f) + 2 = 5
    OBVIOUS
  <2> QED BY <2>1, <2>2
<1>6. PICK t \in Text : /\ t = Spaced(a) /\ Len(s) = Len(t) + 2 /\ w = <<x>>
                        /\ \A i \in 1 .. Len(t) : s[i + 2] = t[i]
  BY <1>3, <1>5, FirstWord
<1>7. Len(t) \in Nat /\ 3 <= Len(t) /\ t[2] = y /\ t[3] = Space
  <2> DEFINE n == Len(t)
  <2>1. n \in Nat /\ n + 2 = Len(s)
    BY <1>6 DEF Text
  <2> HIDE DEF n
  <2>2. 3 <= n /\ 2 \in 1 .. n /\ 3 \in 1 .. n /\ 2 + 2 = 4 /\ 3 + 2 = 5
    BY <1>5, <2>1
  <2>3. s[2 + 2] = t[2] /\ s[3 + 2] = t[3]
    BY <1>6, <2>2 DEF n
  <2> QED BY <1>5, <2>1, <2>2, <2>3 DEF n
<1>8. a # <<>>
  <2>1. Spaced(<<>>) = <<Space>> /\ Len(<<Space>>) = 1
    BY WordListsType, TrailingFirst
  <2> QED BY <1>6, <1>7, <2>1
<1>9. PICK v \in Word, b \in WordLists : v = a[1] /\ a = <<v>> \o b
  BY <1>8, WordsFirst
<1>10. v = <<y>>
  <2>1. LET z == Spaced(<<v>> \o b) IN z[2] = y /\ z[3] = Space
    BY <1>6, <1>7, <1>9
  <2> QED BY <2>1, FirstWord
<1> QED BY <1>6, <1>8, <1>9, <1>10

LEMMA FillerTypes ==
  /\ You \in Word /\ Know \in Word /\ You # Know
  /\ \A i \in 1 .. 4 : Fillers[i] \in Text /\ Fillers[i] # <<>>
  /\ \A w \in Singles : w \in Word /\ w # You /\ w # Know
  /\ \A w \in Singles : \E i \in {1, 2, 4} : w = Fillers[i]
  /\ \A i \in {1, 2, 4} : Fillers[i] \in Singles
  /\ Fillers[3] = You \o (<<Space>> \o Know)
<1> DEFINE Spoken == {"um", "uh", "you", "know", "like"}
<1>1. ASSUME NEW x \in Spoken PROVE <<x>> \in Word /\ x \in Token /\ <<x>> \in Text /\ <<x>> # <<>>
  <2>1. x \in Token /\ x \notin WhiteSpace
    BY DEF Token, WhiteSpace, Space, Newline
  <2>2. PICK f : f = <<x>> /\ f \in Text /\ f # <<>> /\ Len(f) = 1 /\ f[1] = x
    <3>1. <<x>> \in Text /\ <<x>> # <<>> /\ Len(<<x>>) = 1 /\ <<x>>[1] = x
      BY <2>1 DEF Text
    <3> QED BY <3>1
  <2>3. f \in Word
    BY <2>1, <2>2 DEF Word, IsRun
  <2> QED BY <2>1, <2>2, <2>3
<1>2. You # Know /\ You \notin Singles /\ Know \notin Singles
  BY FillerWords
<1>3. You \in Word /\ Know \in Word /\ You \in Text /\ Know \in Text
  BY <1>1 DEF You, Know
<1>4. Fillers[3] = You \o (<<Space>> \o Know)
  <2>1. Fillers[3] = <<"you", Space, "know">>
    BY DEF Fillers
  <2>2. PICK x \in Token, y \in Token : x = "you" /\ y = "know"
    BY <1>1
  <2>3. <<x>> \o <<Space>> \o <<y>> = <<x, Space, y>>
    BY WordListsType, ThreeTokens
  <2>4. PICK a \in Text, b \in Text, c \in Text : a = You /\ b = <<Space>> /\ c = Know
    BY <1>3, WordListsType
  <2>5. (a \o b) \o c = a \o (b \o c)
    <3>1. Regrouped(a, b, c)
      BY TextAssoc
    <3> QED BY <3>1 DEF Regrouped
  <2> QED BY <2>1, <2>2, <2>3, <2>4, <2>5 DEF You, Know
<1>5. Fillers[3] \in Text /\ Fillers[3] # <<>>
  <2>1. PICK a \in Text, b \in Text, c \in Text : a = You /\ b = <<Space>> /\ c = Know
    BY <1>3, WordListsType
  <2>2. PICK d \in Text : d = b \o c
    BY TextConcat
  <2>3. Len(a) = 1
    BY <2>1 DEF You
  <2>4. a \o d \in Text /\ Len(a \o d) = Len(a) + Len(d) /\ Len(d) \in Nat
    BY TextConcat, TextConcatAt
  <2>5. Fillers[3] = a \o d
    BY <1>4, <2>1, <2>2
  <2> QED BY <2>3, <2>4, <2>5, EmptySeq
<1>6. Fillers[1] = <<"um">> /\ Fillers[2] = <<"uh">> /\ Fillers[4] = <<"like">>
  BY DEF Fillers
<1>7. \A w \in Singles : w \in Word
  BY <1>1 DEF Singles
<1>8. \A i \in {1, 2, 4} : Fillers[i] \in Singles /\ Fillers[i] \in Text /\ Fillers[i] # <<>>
  BY <1>1, <1>6 DEF Singles
<1>9. \A w \in Singles : \E i \in {1, 2, 4} : w = Fillers[i]
  BY <1>6 DEF Singles
<1>10. \A i \in 1 .. 4 : Fillers[i] \in Text /\ Fillers[i] # <<>>
  BY <1>5, <1>8
<1> QED BY <1>2, <1>3, <1>4, <1>7, <1>8, <1>9, <1>10

LEMMA BeginsFiller ==
  ASSUME NEW w \in Word, NEW a \in WordLists
  PROVE  /\ \A i \in {1, 2, 4} : Begins(Fillers[i], <<w>> \o a) => w = Fillers[i]
         /\ Begins(Fillers[3], <<w>> \o a) => w = You /\ a # <<>> /\ a[1] = Know
<1>1. ASSUME NEW i \in {1, 2, 4}, Begins(Fillers[i], <<w>> \o a) PROVE w = Fillers[i]
  <2>1. PICK x \in Token : Fillers[i] = <<x>>
    <3>1. "um" \in Token /\ "uh" \in Token /\ "like" \in Token
      BY DEF Token
    <3> QED BY <3>1 DEF Fillers
  <2> QED BY <1>1, <2>1, BeginsWord
<1>2. ASSUME Begins(Fillers[3], <<w>> \o a) PROVE w = You /\ a # <<>> /\ a[1] = Know
  <2>1. PICK f : f = Fillers[3] /\ f \in Text
    <3>1. \A i \in 1 .. 4 : Fillers[i] \in Text
      BY FillerTypes
    <3>2. 3 \in 1 .. 4
      OBVIOUS
    <3>3. Fillers[3] \in Text
      BY <3>1, <3>2
    <3> QED BY <3>3
  <2>2. f[1] = "you" /\ f[2] = Space /\ f[3] = "know" /\ Len(f) = 3
    BY <2>1 DEF Fillers
  <2>3. PICK x, y : x = "you" /\ y = "know" /\ f[1] = x /\ f[3] = y /\ You = <<x>> /\ Know = <<y>>
    BY <2>2 DEF You, Know
  <2>4. w = <<x>> /\ a # <<>> /\ a[1] = <<y>>
    BY <1>2, <2>1, <2>2, <2>3, BeginsWords
  <2> QED BY <2>3, <2>4
<1> QED BY <1>1, <1>2

-----------------------------------------------------------------------------
(* Neighbours in plain speech.                                            *)

\* What PlainSpeech says of neighbours.
Plain(ws) ==
  /\ \A i \in 1 .. Len(ws) - 1 : IsFiller(ws, i) /\ IsFiller(ws, i + 1) => ws[i] = You
  /\ \A i \in 2 .. Len(ws) - 1 : ws[i - 1] = You /\ ws[i + 1] = Know => ws[i] \notin Singles

LEMMA ListOfFirst ==
  ASSUME NEW w \in Word, NEW r \in WordLists
  PROVE  /\ w \in Text /\ r \in Texts /\ <<w>> \in Texts /\ <<w>> # <<>> /\ Len(<<w>>) = 1 /\ <<w>>[1] = w
         /\ <<w>> \o r \in WordLists /\ <<w>> \o r \in Texts /\ <<w>> \o r # <<>>
         /\ (<<w>> \o r)[1] = w
         /\ Len(r) \in Nat /\ Len(<<w>> \o r) = Len(r) + 1
         /\ \A i \in 1 .. Len(r) : (<<w>> \o r)[i + 1] = r[i]
         /\ Len(r) > 0 <=> r # <<>>
<1>1. w \in Text /\ r \in Texts
  BY WordListsType DEF Word
<1>2. <<w>> \in Texts /\ <<w>> # <<>> /\ Len(<<w>>) = 1 /\ <<w>>[1] = w /\ <<w>> \in Seq(Word)
  BY <1>1 DEF Texts
<1>3. PICK p \in Seq(Word), q \in Seq(Word) : p = <<w>> /\ q = r
  BY <1>2 DEF WordLists
<1> DEFINE n == Len(q)  s == p \o q
<1>4. /\ n \in Nat /\ Len(s) = 1 + n /\ s \in Seq(Word)
      /\ \A i \in 1 .. 1 + n : s[i] = IF i <= 1 THEN p[i] ELSE q[i - 1]
  BY <1>2, <1>3, ConcatProperties, LenProperties
<1>5. n > 0 <=> q # <<>>
  BY EmptySeq
<1> HIDE DEF n, s
<1>6. Len(s) = n + 1 /\ 1 \in 1 .. 1 + n /\ s[1] = p[1]
  BY <1>4
<1>7. ASSUME NEW i \in 1 .. n PROVE s[i + 1] = q[i]
  <2>1. i + 1 \in 1 .. 1 + n /\ ~(i + 1 <= 1) /\ (i + 1) - 1 = i
    BY <1>4
  <2> QED BY <1>4, <2>1
<1>8. s # <<>>
  BY <1>4, EmptySeq
<1>9. s \in WordLists /\ s \in Texts
  BY <1>4, WordListsType DEF WordLists
<1> QED BY <1>1, <1>2, <1>3, <1>4, <1>5, <1>6, <1>7, <1>8, <1>9 DEF n, s

LEMMA FillerFirst ==
  ASSUME NEW w \in Word, NEW r \in WordLists
  PROVE  /\ IsFiller(<<w>> \o r, 1) <=> (w \in Singles \/ (w = You /\ r # <<>> /\ r[1] = Know))
         /\ Divided(<<w>>, r) <=> ~(w = You /\ r # <<>> /\ r[1] = Know)
<1> DEFINE s == <<w>> \o r  n == Len(r)
<1>1. n \in Nat /\ Len(s) = n + 1 /\ s[1] = w /\ \A i \in 1 .. n : s[i + 1] = r[i]
  BY ListOfFirst
<1>2. n > 0 <=> r # <<>>
  BY ListOfFirst
<1> HIDE DEF s, n
<1>3. ~(1 > 1) /\ (1 < n + 1 <=> n > 0) /\ (n > 0 => 1 \in 1 .. n)
  BY <1>1
<1>4. n > 0 => s[1 + 1] = r[1]
  BY <1>1, <1>3
<1>5. IsFiller(s, 1) <=> (w \in Singles \/ (w = You /\ r # <<>> /\ r[1] = Know))
  BY <1>1, <1>2, <1>3, <1>4 DEF IsFiller
<1>6. Len(<<w>>) = 1 /\ <<w>>[1] = w
  OBVIOUS
<1> QED BY <1>5, <1>6 DEF Divided, s

\* The end of plain speech is plain speech.
LEMMA PlainShift ==
  ASSUME NEW p \in Texts, p # <<>>, NEW r \in Texts, NEW ws \in Texts, ws = p \o r,
         Divided(p, r), Plain(ws)
  PROVE  Plain(r)
<1> DEFINE l == Len(p)  n == Len(r)
<1>1. /\ l \in Nat \ {0} /\ n \in Nat /\ Len(ws) = l + n
      /\ \A i \in 1 .. n : ws[l + i] = r[i]
      /\ \A i \in 1 .. n : IsFiller(ws, l + i) <=> IsFiller(r, i)
  BY FillersShift
<1>2. /\ \A i \in 1 .. Len(ws) - 1 : IsFiller(ws, i) /\ IsFiller(ws, i + 1) => ws[i] = You
      /\ \A i \in 2 .. Len(ws) - 1 : ws[i - 1] = You /\ ws[i + 1] = Know => ws[i] \notin Singles
  BY DEF Plain
<1> HIDE DEF l, n
<1>3. ASSUME NEW i \in 1 .. n - 1, IsFiller(r, i), IsFiller(r, i + 1) PROVE r[i] = You
  <2>1. /\ i \in 1 .. n /\ i + 1 \in 1 .. n /\ l + i \in 1 .. Len(ws) - 1 /\ (l + i) + 1 = l + (i + 1)
    BY <1>1
  <2> QED BY <1>1, <1>2, <1>3, <2>1
<1>4. ASSUME NEW i \in 2 .. n - 1, r[i - 1] = You, r[i + 1] = Know PROVE r[i] \notin Singles
  <2>1. /\ i \in 1 .. n /\ i + 1 \in 1 .. n /\ i - 1 \in 1 .. n /\ l + i \in 2 .. Len(ws) - 1
        /\ (l + i) + 1 = l + (i + 1) /\ (l + i) - 1 = l + (i - 1)
    BY <1>1
  <2> QED BY <1>1, <1>2, <1>4, <2>1
<1> QED BY <1>3, <1>4 DEF Plain, n

\* What follows a filler, at once, is not one.
LEMMA PlainFirst ==
  ASSUME NEW w \in Word, NEW r \in WordLists, Plain(<<w>> \o r), IsFiller(<<w>> \o r, 1), w # You
  PROVE  Plain(r) /\ (r = <<>> \/ ~IsFiller(r, 1))
<1>1. PICK p \in Texts, s \in Texts : p = <<w>> /\ s = p \o r /\ p # <<>> /\ Len(p) = 1 /\ s[1] = w /\ r \in Texts
  <2>1. /\ <<w>> \in Texts /\ <<w>> # <<>> /\ Len(<<w>>) = 1 /\ <<w>> \o r \in Texts
        /\ (<<w>> \o r)[1] = w /\ r \in Texts
    BY ListOfFirst
  <2> QED BY <2>1, Zenon
<1>2. Divided(p, r)
  BY <1>1, FillerFirst
<1>3. Plain(r)
  BY <1>1, <1>2, PlainShift
<1>4. ASSUME r # <<>>, IsFiller(r, 1) PROVE FALSE
  <2>1. /\ Len(r) \in Nat /\ Len(s) = Len(p) + Len(r)
        /\ \A i \in 1 .. Len(r) : IsFiller(s, Len(p) + i) <=> IsFiller(r, i)
    <3>1. s = p \o r /\ p # <<>> /\ r \in Texts
      BY <1>1
    <3> QED BY <1>2, <3>1, FillersShift
  <2>2. Len(r) > 0
    BY <1>4, ListOfFirst
  <2>3. 1 \in 1 .. Len(r) /\ 1 \in 1 .. Len(s) - 1
    BY <1>1, <2>1, <2>2
  <2>4. IsFiller(s, 1 + 1) /\ IsFiller(s, 1)
    BY <1>1, <1>4, <2>1, <2>3
  <2> QED BY <1>1, <2>3, <2>4 DEF Plain
<1> QED BY <1>3, <1>4

-----------------------------------------------------------------------------
(* Plain speech, filler by filler.                                        *)

\* The text while the fillers are dropped, one after the other.
Steps(g) ==
  /\ g \in [0 .. 4 -> WordLists]
  /\ \A i \in 1 .. 4 : DropsTo(Fillers[i], g[i - 1], g[i])
Unbegun(g) == \A i \in 1 .. 4 : ~Begins(Fillers[i], g[i - 1])

\* "know" comes first only behind a filler that is gone by then.
KnowFirst(a, ws) ==
  a # <<>> /\ a[1] = Know =>
    ws # <<>> /\ (ws[1] = Know \/ (ws[1] \in Singles /\ Len(ws) >= 2 /\ ws[2] = Know))

Stages(g, ws) ==
  /\ Steps(g) /\ g[0] = ws /\ g[4] = WithoutFillers(ws)
  /\ ws = <<>> \/ ~IsFiller(ws, 1) => Unbegun(g)
  /\ KnowFirst(g[2], ws)

LEMMA StepsType ==
  ASSUME NEW h, Steps(h), NEW i \in 1 .. 4
  PROVE  /\ h[i - 1] \in WordLists /\ h[i] \in WordLists /\ Fillers[i] \in Text
         /\ DropsTo(Fillers[i], h[i - 1], h[i])
<1>1. i \in 0 .. 4 /\ i - 1 \in 0 .. 4
  OBVIOUS
<1>2. Fillers[i] \in Text
  BY FillerTypes
<1> QED BY <1>1, <1>2 DEF Steps

LEMMA StepLater ==
  ASSUME NEW h, Steps(h), NEW i \in 1 .. 4, NEW w \in Word, ~Begins(Fillers[i], <<w>> \o h[i - 1])
  PROVE  DropsTo(Fillers[i], <<w>> \o h[i - 1], <<w>> \o h[i])
<1>1. PICK a, b, f : a = h[i - 1] /\ b = h[i] /\ f = Fillers[i]
  OBVIOUS
<1>2. a \in WordLists /\ b \in WordLists /\ f \in Text /\ DropsTo(f, a, b)
  BY <1>1, StepsType
<1>3. ~Begins(f, <<w>> \o a)
  BY <1>1
<1>4. DropsTo(f, <<w>> \o a, <<w>> \o b)
  BY <1>2, <1>3, DropsLater, Zenon
<1> QED BY <1>1, <1>4

LEMMA NotBegun ==
  ASSUME NEW w \in Word, NEW a \in WordLists, NEW i \in 1 .. 4,
         i # 3 => w # Fillers[i],
         i = 3 => ~(w = You /\ a # <<>> /\ a[1] = Know)
  PROVE  ~Begins(Fillers[i], <<w>> \o a)
<1>1. CASE i = 3
  BY <1>1, BeginsFiller, Zenon
<1>2. CASE i # 3
  <2>1. i \in {1, 2, 4}
    BY <1>2
  <2> QED BY <1>2, <2>1, BeginsFiller, Zenon
<1> QED BY <1>1, <1>2

\* The list that begins with a word that is kept.
LEMMA StagesKept ==
  ASSUME NEW w \in Word, NEW r \in WordLists, NEW h, Stages(h, r),
         Plain(<<w>> \o r), ~IsFiller(<<w>> \o r, 1)
  PROVE  \E g : Stages(g, <<w>> \o r)
<1>1. Steps(h) /\ h[0] = r /\ h[4] = WithoutFillers(r) /\ KnowFirst(h[2], r)
  BY DEF Stages
<1>2. w \notin Singles /\ ~(w = You /\ r # <<>> /\ r[1] = Know)
  BY FillerFirst
<1> DEFINE g == [i \in 0 .. 4 |-> <<w>> \o h[i]]
<1>3. \A i \in 0 .. 4 : h[i] \in WordLists /\ g[i] = <<w>> \o h[i]
  BY <1>1 DEF Steps
<1>4. \A i \in 0 .. 4 : g[i] \in WordLists
  BY <1>3, ListOfFirst
<1>5. ~(w = You /\ h[2] # <<>> /\ h[2][1] = Know)
  <2>1. SUFFICES ASSUME w = You, h[2] # <<>>, h[2][1] = Know PROVE FALSE
    OBVIOUS
  <2>2. r # <<>> /\ r[1] \in Singles /\ Len(r) >= 2 /\ r[2] = Know
    BY <1>1, <1>2, <2>1 DEF KnowFirst
  <2> DEFINE s == <<w>> \o r  n == Len(r)
  <2>3. n \in Nat /\ Len(s) = n + 1 /\ s[1] = w /\ \A i \in 1 .. n : s[i + 1] = r[i]
    BY ListOfFirst
  <2>6. Plain(s)
    OBVIOUS
  <2>7. n >= 2
    BY <2>2
  <2> HIDE DEF s, n
  <2>4. 2 \in 2 .. Len(s) - 1 /\ 1 \in 1 .. n /\ 2 \in 1 .. n /\ 2 - 1 = 1 /\ 1 + 1 = 2 /\ 2 + 1 = 3
    BY <2>3, <2>7
  <2>5. s[1] = You /\ s[2] = r[1] /\ s[3] = r[2]
    BY <2>1, <2>3, <2>4
  <2> QED BY <2>2, <2>4, <2>5, <2>6 DEF Plain
<1>6. ASSUME NEW i \in 1 .. 4 PROVE ~Begins(Fillers[i], <<w>> \o h[i - 1])
  <2>1. i - 1 \in 0 .. 4 /\ (i = 3 => i - 1 = 2)
    OBVIOUS
  <2>2. PICK a \in WordLists : a = h[i - 1]
    BY <1>3, <2>1
  <2>3. i # 3 => w # Fillers[i]
    <3>1. i # 3 => i \in {1, 2, 4}
      OBVIOUS
    <3> QED BY <1>2, <3>1, FillerTypes
  <2>4. i = 3 => ~(w = You /\ a # <<>> /\ a[1] = Know)
    BY <1>5, <2>1, <2>2
  <2>5. ~Begins(Fillers[i], <<w>> \o a)
    BY <2>3, <2>4, NotBegun, Zenon
  <2> QED BY <2>2, <2>5
<1>7. ASSUME NEW i \in 1 .. 4
      PROVE  DropsTo(Fillers[i], g[i - 1], g[i]) /\ ~Begins(Fillers[i], g[i - 1])
  <2>1. i \in 0 .. 4 /\ i - 1 \in 0 .. 4
    OBVIOUS
  <2>2. g[i - 1] = <<w>> \o h[i - 1] /\ g[i] = <<w>> \o h[i]
    BY <2>1
  <2>3. DropsTo(Fillers[i], <<w>> \o h[i - 1], <<w>> \o h[i])
    BY <1>1, <1>6, StepLater, Zenon
  <2> HIDE DEF g
  <2> QED BY <1>6, <2>2, <2>3
<1>8. Steps(g) /\ Unbegun(g)
  <2>1. g \in [0 .. 4 -> WordLists]
    BY <1>3, <1>4
  <2> HIDE DEF g
  <2> QED BY <1>7, <2>1 DEF Steps, Unbegun
<1>9. g[0] = <<w>> \o r
  BY <1>1
<1>10. g[4] = WithoutFillers(<<w>> \o r)
  <2>1. PICK p \in Texts, s \in Texts : /\ p = <<w>> /\ s = <<w>> \o r /\ s = p \o r /\ p # <<>> /\ Len(p) = 1
                                        /\ r \in Texts
    <3>1. <<w>> \in Texts /\ <<w>> # <<>> /\ Len(<<w>>) = 1 /\ <<w>> \o r \in Texts /\ r \in Texts
      BY ListOfFirst
    <3> QED BY <3>1, Zenon
  <2>2. Divided(<<w>>, r) /\ ~IsFiller(<<w>> \o r, 1)
    BY <1>2, FillerFirst
  <2>3. Divided(p, r) /\ ~IsFiller(s, 1)
    BY <2>1, <2>2, Zenon
  <2>4. s = p \o r /\ p # <<>> /\ Len(p) = 1 /\ r \in Texts
    BY <2>1
  <2>5. WithoutFillers(s) = p \o WithoutFillers(r)
    BY <2>3, <2>4, KeptFirst
  <2>6. WithoutFillers(<<w>> \o r) = <<w>> \o h[4]
    BY <1>1, <2>1, <2>5, Zenon
  <2> QED BY <2>6
<1>11. KnowFirst(g[2], <<w>> \o r)
  <2>1. (<<w>> \o r)[1] = w /\ <<w>> \o r # <<>>
    BY ListOfFirst
  <2>2. g[2] = <<w>> \o h[2] /\ h[2] \in WordLists
    BY <1>3
  <2>3. (<<w>> \o h[2])[1] = w
    BY <2>2, ListOfFirst
  <2> HIDE DEF g
  <2>4. g[2][1] = w
    BY <2>2, <2>3
  <2> QED BY <2>1, <2>4 DEF KnowFirst
<1> HIDE DEF g
<1>12. Stages(g, <<w>> \o r)
  BY <1>8, <1>9, <1>10, <1>11 DEF Stages
<1> QED BY <1>12

\* The list that begins with a filler of one word.
LEMMA StagesDropOne ==
  ASSUME NEW w \in Word, NEW r \in WordLists, NEW h, Stages(h, r),
         Plain(<<w>> \o r), w \in Singles
  PROVE  \E g : Stages(g, <<w>> \o r)
<1>1. Steps(h) /\ h[0] = r /\ h[4] = WithoutFillers(r) /\ KnowFirst(h[2], r)
  BY DEF Stages
<1>2. w # You /\ w # Know
  BY FillerTypes
<1>3. IsFiller(<<w>> \o r, 1)
  BY FillerFirst
<1>4. r = <<>> \/ ~IsFiller(r, 1)
  BY <1>2, <1>3, PlainFirst
<1>5. Unbegun(h)
  BY <1>4 DEF Stages
<1>6. PICK k \in {1, 2, 4} : w = Fillers[k]
  BY FillerTypes
<1>7. \A i \in {1, 2, 4} : i # k => w # Fillers[i]
  <2>1. Fillers[1] = <<"um">> /\ Fillers[2] = <<"uh">> /\ Fillers[4] = <<"like">>
    BY DEF Fillers
  <2>2. <<"um">> # <<"uh">> /\ <<"um">> # <<"like">> /\ <<"uh">> # <<"like">>
    OBVIOUS
  <2> QED BY <1>6, <2>1, <2>2
<1> DEFINE g == [i \in 0 .. 4 |-> IF i < k THEN <<w>> \o h[i] ELSE h[i]]
<1>8. \A i \in 0 .. 4 : h[i] \in WordLists /\ g[i] = IF i < k THEN <<w>> \o h[i] ELSE h[i]
  BY <1>1 DEF Steps
<1>9. \A i \in 0 .. 4 : g[i] \in WordLists
  BY <1>8, ListOfFirst
<1>10. g \in [0 .. 4 -> WordLists]
  BY <1>9
<1> HIDE DEF g
<1>11. ASSUME NEW i \in 1 .. 4 PROVE DropsTo(Fillers[i], g[i - 1], g[i])
  <2>1. i \in 0 .. 4 /\ i - 1 \in 0 .. 4 /\ h[i - 1] \in WordLists /\ h[i] \in WordLists
    BY <1>8
  <2>2. CASE i < k
    <3>1. i - 1 < k
      BY <1>6, <2>2
    <3>2. g[i - 1] = <<w>> \o h[i - 1] /\ g[i] = <<w>> \o h[i]
      BY <1>8, <2>1, <2>2, <3>1
    <3>3. i # 3 => w # Fillers[i]
      <4>1. i # 3 => i \in {1, 2, 4}
        OBVIOUS
      <4>2. i # k
        BY <1>6, <2>2
      <4> QED BY <1>7, <4>1, <4>2
    <3>4. PICK a \in WordLists : a = h[i - 1]
      BY <2>1
    <3>5. ~Begins(Fillers[i], <<w>> \o a)
      BY <1>2, <3>3, NotBegun, Zenon
    <3>6. DropsTo(Fillers[i], <<w>> \o h[i - 1], <<w>> \o h[i])
      BY <1>1, <3>4, <3>5, StepLater, Zenon
    <3> QED BY <3>2, <3>6, Zenon
  <2>3. CASE i = k
    <3>1. i - 1 < k /\ ~(i < k)
      BY <1>6, <2>3
    <3>2. g[i - 1] = <<w>> \o h[i - 1] /\ g[i] = h[i]
      BY <1>8, <2>1, <3>1
    <3>3. PICK a \in WordLists, b \in WordLists : a = h[i - 1] /\ b = h[i]
      BY <2>1
    <3>4. DropsTo(w, a, b) /\ ~Begins(w, a) /\ w \in Text /\ a \in Texts
      BY <1>1, <1>5, <1>6, <2>3, <3>3, StepsType, ListOfFirst DEF Unbegun
    <3>5. PICK c \in WordLists : c = <<w>> \o a
      BY ListOfFirst
    <3>6. Spaced(c) = <<Space>> \o (w \o Spaced(a))
      BY <3>4, <3>5, TrailingFirst
    <3>7. DropsTo(w, c, b)
      BY <3>4, <3>6, DropsFirst, Zenon
    <3> QED BY <1>6, <2>3, <3>2, <3>3, <3>5, <3>7, Zenon
  <2>4. CASE i > k
    <3>1. ~(i < k) /\ ~(i - 1 < k)
      BY <1>6, <2>4
    <3>2. g[i - 1] = h[i - 1] /\ g[i] = h[i]
      BY <1>8, <2>1, <3>1
    <3>3. DropsTo(Fillers[i], h[i - 1], h[i])
      BY <1>1, StepsType
    <3> QED BY <3>2, <3>3
  <2> QED BY <1>6, <2>2, <2>3, <2>4
<1>12. Steps(g)
  BY <1>10, <1>11 DEF Steps
<1>13. g[0] = <<w>> \o r
  <2>1. 0 \in 0 .. 4 /\ 0 < k
    BY <1>6
  <2>2. g[0] = <<w>> \o h[0]
    BY <1>8, <2>1
  <2> QED BY <1>1, <2>2, Zenon
<1>14. g[4] = WithoutFillers(<<w>> \o r)
  <2>1. /\ <<w>> \in Texts /\ <<w>> # <<>> /\ Len(<<w>>) = 1 /\ <<w>> \o r \in Texts /\ r \in Texts
    BY ListOfFirst
  <2>2. PICK p \in Texts, s \in Texts : p = <<w>> /\ s = <<w>> \o r /\ s = p \o r
    BY <2>1, Zenon
  <2>3. Divided(<<w>>, r)
    BY <1>2, FillerFirst
  <2>4. Divided(p, r) /\ IsFiller(s, 1) /\ s = p \o r /\ p # <<>> /\ Len(p) = 1 /\ r \in Texts
    BY <1>3, <2>1, <2>2, <2>3, Zenon
  <2>5. Len(p) \in 1 .. 2 /\ \A i \in 1 .. Len(p) : IsFiller(s, i)
    BY <2>4
  <2>6. WithoutFillers(s) = WithoutFillers(r)
    BY <2>4, <2>5, KeptFirst
  <2>7. g[4] = h[4]
    BY <1>6, <1>8
  <2> QED BY <1>1, <2>2, <2>6, <2>7, Zenon
<1>15. KnowFirst(g[2], <<w>> \o r)
  <2>1. /\ (<<w>> \o r)[1] = w /\ <<w>> \o r # <<>> /\ Len(<<w>> \o r) = Len(r) + 1 /\ Len(r) \in Nat
        /\ (\A i \in 1 .. Len(r) : (<<w>> \o r)[i + 1] = r[i]) /\ (Len(r) > 0 <=> r # <<>>)
    BY ListOfFirst
  <2>2. CASE k < 3
    <3>1. g[2] = h[2]
      BY <1>6, <1>8, <2>2
    <3>2. ASSUME h[2] # <<>>, h[2][1] = Know
          PROVE  /\ (<<w>> \o r)[1] \in Singles /\ Len(<<w>> \o r) >= 2
                 /\ (<<w>> \o r)[2] = Know
      <4>1. r # <<>> /\ (r[1] = Know \/ r[1] \in Singles)
        BY <1>1, <3>2 DEF KnowFirst
      <4>2. r[1] = Know
        BY <1>4, <4>1 DEF IsFiller
      <4>3. 1 \in 1 .. Len(r) /\ 1 + 1 = 2 /\ Len(r) + 1 >= 2
        BY <2>1, <4>1
      <4>4. (<<w>> \o r)[1 + 1] = r[1]
        BY <2>1, <4>3
      <4> QED BY <2>1, <4>2, <4>3, <4>4
    <3> QED BY <2>1, <3>1, <3>2 DEF KnowFirst
  <2>3. CASE ~(k < 3)
    <3>1. k = 4
      BY <1>6, <2>3
    <3>2. g[2] = <<w>> \o h[2] /\ h[2] \in WordLists
      BY <1>8, <3>1
    <3>3. (<<w>> \o h[2])[1] = w
      BY <3>2, ListOfFirst
    <3>4. g[2][1] # Know
      BY <1>2, <3>2, <3>3
    <3> QED BY <3>4 DEF KnowFirst
  <2> QED BY <2>2, <2>3
<1>16. Stages(g, <<w>> \o r)
  <2>1. <<w>> \o r # <<>>
    BY ListOfFirst
  <2> QED BY <1>3, <1>12, <1>13, <1>14, <1>15, <2>1 DEF Stages
<1> QED BY <1>16

\* The list that begins with "you know".
LEMMA StagesDropTwo ==
  ASSUME NEW t \in WordLists, NEW r \in WordLists, t = <<Know>> \o r, NEW h, Stages(h, r),
         Plain(<<You>> \o t)
  PROVE  \E g : Stages(g, <<You>> \o t)
<1>1. Steps(h) /\ h[0] = r /\ h[4] = WithoutFillers(r) /\ KnowFirst(h[2], r)
  BY DEF Stages
<1>2. PICK y \in Word, n \in Word : y = You /\ n = Know
  BY FillerTypes
<1>3. /\ y # n /\ \A i \in {1, 2, 4} : y # Fillers[i] /\ n # Fillers[i]
  BY <1>2, FillerTypes
<1>4. /\ t # <<>> /\ t[1] = Know /\ Len(t) = Len(r) + 1 /\ Len(r) \in Nat
      /\ (\A i \in 1 .. Len(r) : t[i + 1] = r[i]) /\ (Len(r) > 0 <=> r # <<>>)
  <2>1. t = <<n>> \o r
    BY <1>2
  <2>2. /\ <<n>> \o r # <<>> /\ (<<n>> \o r)[1] = n /\ Len(<<n>> \o r) = Len(r) + 1 /\ Len(r) \in Nat
        /\ (\A i \in 1 .. Len(r) : (<<n>> \o r)[i + 1] = r[i]) /\ (Len(r) > 0 <=> r # <<>>)
    BY ListOfFirst
  <2> QED BY <1>2, <2>1, <2>2, Zenon
<1>5. PICK s \in WordLists : /\ s = <<You>> \o t /\ s # <<>> /\ s \in Texts
                             /\ s[1] = You /\ Len(s) = Len(t) + 1
                             /\ \A i \in 1 .. Len(t) : s[i + 1] = t[i]
  <2>1. /\ <<y>> \o t \in WordLists /\ <<y>> \o t # <<>> /\ <<y>> \o t \in Texts
        /\ (<<y>> \o t)[1] = y /\ Len(<<y>> \o t) = Len(t) + 1
        /\ \A i \in 1 .. Len(t) : (<<y>> \o t)[i + 1] = t[i]
    BY ListOfFirst
  <2> QED BY <1>2, <2>1, Zenon
<1>6. s[2] = Know /\ Len(s) = Len(r) + 2 /\ \A i \in 1 .. Len(r) : s[i + 2] = r[i]
  <2> DEFINE m == Len(r)
  <2>1. m \in Nat /\ Len(t) = m + 1 /\ \A i \in 1 .. m : t[i + 1] = r[i]
    BY <1>4
  <2> HIDE DEF m
  <2>2. 1 \in 1 .. Len(t) /\ 1 + 1 = 2 /\ (m + 1) + 1 = m + 2
    BY <2>1
  <2>3. s[2] = Know
    BY <1>4, <1>5, <2>2
  <2>4. ASSUME NEW i \in 1 .. m PROVE s[i + 2] = r[i]
    <3>1. i + 1 \in 1 .. Len(t) /\ (i + 1) + 1 = i + 2
      BY <2>1
    <3> QED BY <1>5, <2>1, <3>1
  <2> QED BY <1>5, <2>1, <2>2, <2>3, <2>4 DEF m
<1>7. IsFiller(s, 1) /\ IsFiller(s, 2)
  <2>1. 1 < Len(s) /\ 1 + 1 = 2 /\ 2 - 1 = 1 /\ 2 > 1
    BY <1>4, <1>6
  <2> QED BY <1>5, <1>6, <2>1 DEF IsFiller
<1>8. PICK p \in Texts : /\ p = <<You>> \o <<Know>> /\ Len(p) = 2 /\ p[2] = Know /\ p # <<>> /\ s = p \o r
  <2>1. PICK a \in Texts, b \in Texts : a = <<y>> /\ b = <<n>> /\ Len(a) = 1 /\ Len(b) = 1 /\ b[1] = n
    <3>1. <<y>> \in Texts /\ <<n>> \in Texts /\ Len(<<y>>) = 1 /\ Len(<<n>>) = 1 /\ <<n>>[1] = n
      BY ListOfFirst, WordListsType
    <3> QED BY <3>1, Zenon
  <2>2. /\ a \o b \in Texts /\ Len(a \o b) = 2 /\ (a \o b)[2] = n
    <3>1. a \o b \in Texts /\ Len(a \o b) = Len(a) + Len(b)
          /\ \A i \in 1 .. Len(a) + Len(b) : (a \o b)[i] = IF i <= Len(a) THEN a[i] ELSE b[i - Len(a)]
      BY ConcatProperties DEF Texts
    <3>2. 2 \in 1 .. 1 + 1 /\ ~(2 <= 1) /\ 2 - 1 = 1
      OBVIOUS
    <3> QED BY <2>1, <3>1, <3>2
  <2>3. PICK q \in Texts : q = r
    BY WordListsType
  <2>4. (a \o b) \o q = a \o (b \o q)
    BY ConcatAssociative DEF Texts
  <2>5. (<<y>> \o <<n>>) \o r = <<y>> \o (<<n>> \o r)
    BY <2>1, <2>3, <2>4, Zenon
  <2>6. (<<You>> \o <<Know>>) \o r = s
    BY <1>2, <1>5, <2>5, Zenon
  <2>7. a \o b = <<You>> \o <<Know>>
    BY <1>2, <2>1, Zenon
  <2>8. a \o b # <<>>
    BY <2>2
  <2> QED BY <1>2, <2>2, <2>6, <2>7, <2>8, Zenon
<1>9. Divided(p, r) /\ s \in Texts /\ r \in Texts /\ s = p \o r /\ p # <<>> /\ Len(p) = 2
  BY <1>5, <1>8, FillerTypes, WordListsType DEF Divided
<1>10. r = <<>> \/ ~IsFiller(r, 1)
  <2>1. SUFFICES ASSUME r # <<>>, IsFiller(r, 1) PROVE FALSE
    OBVIOUS
  <2>2. /\ Len(p) + 1 = 3 /\ 1 \in 1 .. Len(r)
    BY <1>4, <1>9, <2>1
  <2>3. IsFiller(s, Len(p) + 1)
    BY <1>9, <2>1, <2>2, FillersShift
  <2>4. 2 \in 1 .. Len(s) - 1 /\ 2 + 1 = 3
    BY <1>4, <1>6, <2>2
  <2>5. Plain(s)
    BY <1>5
  <2>6. s[2] = You
    BY <1>7, <2>2, <2>3, <2>4, <2>5 DEF Plain
  <2> QED BY <1>6, <2>6, FillerTypes
<1>11. Unbegun(h)
  BY <1>10 DEF Stages
<1> DEFINE g == [i \in 0 .. 4 |-> IF i < 3 THEN <<y>> \o (<<n>> \o h[i]) ELSE h[i]]
<1>12. \A i \in 0 .. 4 : h[i] \in WordLists /\ g[i] = IF i < 3 THEN <<y>> \o (<<n>> \o h[i]) ELSE h[i]
  BY <1>1 DEF Steps
<1>13. \A i \in 0 .. 4 : g[i] \in WordLists
  <2>1. \A a \in WordLists : <<n>> \o a \in WordLists
    BY ListOfFirst
  <2>2. \A a \in WordLists : <<y>> \o a \in WordLists
    BY ListOfFirst
  <2> HIDE DEF g
  <2> QED BY <1>12, <2>1, <2>2
<1>14. g \in [0 .. 4 -> WordLists]
  BY <1>13
<1> HIDE DEF g
<1>15. ASSUME NEW i \in 1 .. 4 PROVE DropsTo(Fillers[i], g[i - 1], g[i])
  <2>1. i \in 0 .. 4 /\ i - 1 \in 0 .. 4
    OBVIOUS
  <2>2. PICK a \in WordLists, b \in WordLists, f \in Text :
          a = h[i - 1] /\ b = h[i] /\ f = Fillers[i] /\ DropsTo(f, a, b)
    BY <1>1, StepsType
  <2>3. PICK c \in WordLists, d \in WordLists : c = <<n>> \o a /\ d = <<n>> \o b
    BY ListOfFirst
  <2>4. CASE i < 3
    <3>1. i - 1 < 3 /\ i \in {1, 2, 4} /\ i # 3
      BY <2>4
    <3>2. g[i - 1] = <<y>> \o c /\ g[i] = <<y>> \o d
      BY <1>12, <2>1, <2>2, <2>3, <2>4, <3>1
    <3>3. ~Begins(f, <<n>> \o a)
      BY <1>3, <2>2, <3>1, NotBegun, Zenon
    <3>4. DropsTo(f, <<n>> \o a, <<n>> \o b)
      BY <2>2, <3>3, DropsLater, Zenon
    <3>5. ~Begins(f, <<y>> \o c)
      BY <1>3, <2>2, <3>1, NotBegun, Zenon
    <3>6. DropsTo(f, c, d)
      BY <2>3, <3>4, Zenon
    <3>7. DropsTo(f, <<y>> \o c, <<y>> \o d)
      BY <3>5, <3>6, DropsLater, Zenon
    <3> QED BY <2>2, <3>2, <3>7, Zenon
  <2>5. CASE i = 3
    <3>1. i - 1 < 3 /\ ~(i < 3)
      BY <2>5
    <3>2. g[i - 1] = <<y>> \o c /\ g[i] = b
      BY <1>12, <2>1, <2>2, <2>3, <3>1
    <3>3. ~Begins(f, a)
      BY <1>11, <2>2 DEF Unbegun
    <3>4. f = y \o (<<Space>> \o n)
      BY <1>2, <2>2, <2>5, FillerTypes
    <3>5. y \in Text /\ n \in Text /\ a \in Texts /\ c \in Texts
      BY ListOfFirst
    <3>6. PICK sp \in Text, x \in Text : sp = <<Space>> /\ x = Spaced(a)
      BY <3>5, WordListsType, TrailingFirst
    <3>7. Spaced(c) = sp \o (n \o x)
      BY <2>3, <3>5, <3>6, TrailingFirst
    <3>8. Spaced(<<y>> \o c) = sp \o (y \o (sp \o (n \o x)))
      BY <3>5, <3>6, <3>7, TrailingFirst
    <3>9. y \o (sp \o (n \o x)) = (y \o (sp \o n)) \o x
      <4>1. (sp \o n) \o x = sp \o (n \o x)
        <5>1. Regrouped(sp, n, x)
          BY <3>5, TextAssoc
        <5> QED BY <5>1 DEF Regrouped
      <4>2. PICK m \in Text : m = sp \o n
        BY <3>5, TextConcat
      <4>3. (y \o m) \o x = y \o (m \o x)
        <5>1. Regrouped(y, m, x)
          BY <3>5, TextAssoc
        <5> QED BY <5>1 DEF Regrouped
      <4> QED BY <4>1, <4>2, <4>3, Zenon
    <3>10. PICK e \in WordLists : e = <<y>> \o c
      BY ListOfFirst
    <3>11. Spaced(e) = <<Space>> \o (f \o Spaced(a))
      BY <3>4, <3>6, <3>8, <3>9, <3>10, Zenon
    <3>12. DropsTo(f, e, b)
      BY <2>2, <3>3, <3>11, DropsFirst, Zenon
    <3> QED BY <2>2, <3>2, <3>10, <3>12, Zenon
  <2>6. CASE i > 3
    <3>1. ~(i < 3) /\ ~(i - 1 < 3)
      BY <2>6
    <3> QED BY <1>12, <2>1, <2>2, <3>1
  <2> QED BY <2>4, <2>5, <2>6
<1>16. Steps(g)
  BY <1>14, <1>15 DEF Steps
<1>17. g[0] = s
  <2>1. 0 \in 0 .. 4 /\ 0 < 3
    OBVIOUS
  <2>2. g[0] = <<y>> \o (<<n>> \o h[0])
    BY <1>12, <2>1
  <2> QED BY <1>1, <1>2, <1>5, <2>2, Zenon
<1>18. g[4] = WithoutFillers(s)
  <2>1. Len(p) \in 1 .. 2 /\ \A i \in 1 .. Len(p) : IsFiller(s, i)
    BY <1>7, <1>9
  <2>2. WithoutFillers(s) = WithoutFillers(r)
    BY <1>9, <2>1, KeptFirst
  <2>3. g[4] = h[4]
    BY <1>12
  <2> QED BY <1>1, <2>2, <2>3
<1>19. KnowFirst(g[2], s)
  <2>1. g[2] = <<y>> \o (<<n>> \o h[2]) /\ h[2] \in WordLists
    BY <1>12
  <2>2. PICK a \in WordLists : a = <<n>> \o h[2]
    BY <2>1, ListOfFirst
  <2>3. (<<y>> \o a)[1] = y
    BY ListOfFirst
  <2>4. g[2][1] # Know
    BY <1>2, <1>3, <2>1, <2>2, <2>3
  <2> QED BY <2>4 DEF KnowFirst
<1>20. Stages(g, s)
  BY <1>5, <1>7, <1>16, <1>17, <1>18, <1>19 DEF Stages
<1> QED BY <1>5, <1>20

LEMMA WithoutNothing == WithoutFillers(<<>>) = <<>>
<1>1. <<>> \in Texts /\ Len(<<>>) = 0
  BY WordListsType
<1>2. PICK F : KeptOf(F, <<>>, FillersOf(<<>>)) /\ WithoutFillers(<<>>) = F[Len(<<>>)]
  BY <1>1, KeptUnfold
<1> QED BY <1>1, <1>2 DEF KeptOf

LEMMA StagesOfNothing == \E g : Stages(g, <<>>)
<1>1. <<>> \in Texts /\ <<>> \in WordLists /\ Len(<<>>) = 0
  BY WordListsType
<1>2. WithoutFillers(<<>>) = <<>>
  BY WithoutNothing
<1> DEFINE g == [i \in 0 .. 4 |-> <<>>]
<1>3. g \in [0 .. 4 -> WordLists] /\ \A i \in 0 .. 4 : g[i] = <<>>
  BY <1>1
<1> HIDE DEF g
<1>4. ASSUME NEW i \in 1 .. 4
      PROVE  DropsTo(Fillers[i], g[i - 1], g[i]) /\ ~Begins(Fillers[i], g[i - 1])
  <2>1. i \in 0 .. 4 /\ i - 1 \in 0 .. 4 /\ Fillers[i] \in Text /\ Fillers[i] # <<>>
    BY FillerTypes
  <2> QED BY <1>3, <2>1, DropsNothing
<1>5. g[0] = <<>> /\ g[2] = <<>> /\ g[4] = <<>>
  BY <1>3
<1>6. Stages(g, <<>>)
  BY <1>2, <1>3, <1>4, <1>5 DEF Stages, Steps, Unbegun, KnowFirst
<1> QED BY <1>6

LEMMA StagesExist ==
  ASSUME NEW ws \in WordLists, Plain(ws)
  PROVE  \E g : Stages(g, ws)
<1> DEFINE S == {x \in WordLists : Plain(x) => \E g : Stages(g, x)}
<1>1. ASSUME NEW x \in WordLists, \A z \in WordLists : Len(z) < Len(x) => z \in S PROVE x \in S
  <2>1. SUFFICES ASSUME Plain(x) PROVE \E g : Stages(g, x)
    OBVIOUS
  <2>2. CASE x = <<>>
    BY <2>2, StagesOfNothing
  <2>3. CASE x # <<>>
    <3>1. PICK w \in Word, r \in WordLists : x = <<w>> \o r /\ Len(x) \in Nat \ {0} /\ Len(r) = Len(x) - 1
      BY <2>3, WordsFirst
    <3>2. Len(r) \in Nat /\ Len(r) < Len(x)
      BY <3>1
    <3>3. Plain(<<w>> \o r)
      BY <2>1, <3>1
    <3>4. Plain(r) => \E h : Stages(h, r)
      BY <1>1, <3>2
    <3>5. CASE ~(w = You /\ r # <<>> /\ r[1] = Know)
      <4>1. Divided(<<w>>, r)
        BY <3>5, FillerFirst
      <4>2. Plain(r)
        <5>1. <<w>> \in Texts /\ <<w>> # <<>> /\ r \in Texts /\ <<w>> \o r \in Texts
          BY ListOfFirst
        <5>2. PICK p \in Texts : p = <<w>>
          BY <5>1
        <5>3. PICK s \in Texts : s = p \o r /\ s = <<w>> \o r /\ p # <<>>
          BY <5>1, <5>2, Zenon
        <5>4. Divided(p, r) /\ Plain(s)
          BY <3>3, <4>1, <5>2, <5>3, Zenon
        <5> QED BY <5>1, <5>3, <5>4, PlainShift
      <4>3. PICK h : Stages(h, r)
        BY <3>4, <4>2
      <4>4. CASE IsFiller(<<w>> \o r, 1)
        <5>1. w \in Singles
          BY <3>5, <4>4, FillerFirst
        <5> QED BY <3>1, <3>3, <4>3, <5>1, StagesDropOne
      <4>5. CASE ~IsFiller(<<w>> \o r, 1)
        BY <3>1, <3>3, <4>3, <4>5, StagesKept
      <4> QED BY <4>4, <4>5
    <3>6. CASE w = You /\ r # <<>> /\ r[1] = Know
      <4>1. PICK n \in Word, q \in WordLists : r = <<n>> \o q /\ n = r[1] /\ Len(r) \in Nat \ {0} /\ Len(q) = Len(r) - 1
        BY <3>6, WordsFirst
      <4>2. r = <<Know>> \o q
        BY <3>6, <4>1
      <4>3. Len(q) < Len(x) /\ Len(q) \in Nat
        BY <3>1, <3>2, <4>1
      <4>4. Plain(q)
        <5>1. PICK y \in Word : y = You /\ y = w
          BY <3>6
        <5>2. PICK a \in Texts, b \in Texts, c \in Texts :
                a = <<y>> /\ b = <<n>> /\ c = q /\ Len(a) = 1 /\ Len(b) = 1 /\ b[1] = n
          <6>1. /\ <<y>> \in Texts /\ <<n>> \in Texts /\ q \in Texts /\ Len(<<y>>) = 1 /\ Len(<<n>>) = 1
                /\ <<n>>[1] = n
            BY ListOfFirst
          <6> QED BY <6>1, Zenon
        <5>3. PICK p \in Texts : p = a \o b /\ Len(p) = 2 /\ p[2] = n /\ p # <<>>
          <6>1. a \o b \in Texts /\ Len(a \o b) = Len(a) + Len(b)
                /\ \A i \in 1 .. Len(a) + Len(b) : (a \o b)[i] = IF i <= Len(a) THEN a[i] ELSE b[i - Len(a)]
            BY ConcatProperties DEF Texts
          <6>2. 2 \in 1 .. 1 + 1 /\ ~(2 <= 1) /\ 2 - 1 = 1
            OBVIOUS
          <6>3. Len(a \o b) = 2 /\ (a \o b)[2] = n
            BY <5>2, <6>1, <6>2
          <6>4. a \o b # <<>>
            BY <6>3
          <6> QED BY <6>1, <6>3, <6>4
        <5>4. (a \o b) \o c = a \o (b \o c)
          BY ConcatAssociative DEF Texts
        <5>5. x = p \o c
          BY <3>1, <4>1, <5>1, <5>2, <5>3, <5>4, Zenon
        <5>6. PICK s \in Texts : s = x /\ s = p \o c
          BY <5>5, WordListsType
        <5>7. Plain(s) /\ n # You
          BY <2>1, <3>6, <4>1, <5>6, FillerTypes
        <5>8. Divided(p, c)
          BY <5>3, <5>7 DEF Divided
        <5>9. s = p \o c /\ p # <<>>
          BY <5>3, <5>6
        <5>10. Plain(c)
          BY <5>7, <5>8, <5>9, PlainShift
        <5> QED BY <5>2, <5>10, Zenon
      <4>5. PICK h : Stages(h, q)
        BY <1>1, <4>3, <4>4
      <4>6. Plain(<<You>> \o r)
        BY <3>3, <3>6
      <4>7. \E g : Stages(g, <<You>> \o r)
        BY <4>2, <4>5, <4>6, StagesDropTwo, Zenon
      <4> QED BY <3>1, <3>6, <4>7, Zenon
    <3> QED BY <3>5, <3>6
  <2> QED BY <2>2, <2>3
<1> HIDE DEF S
<1>2. WordLists \subseteq S
  BY <1>1, ShorterInduct DEF WordLists
<1> QED BY <1>2 DEF S

\* From plain speech the fillers are dropped, at its ends too, and nothing else
\* (normalizer.py:5-15).
THEOREM NormalizePlain ==
  ASSUME NEW ws \in WordLists, ws # <<>>, Plain(ws), NEW s \in Text, s = Join(ws)
  PROVE  Words(Normalize(s)) = WithoutFillers(ws)
<1>1. PICK g : Stages(g, ws)
  BY StagesExist
<1>2. Steps(g) /\ g[0] = ws /\ g[4] = WithoutFillers(ws)
  BY <1>1 DEF Stages
<1>3. PICK F : NormalizeOf(F, s) /\ Normalize(s) = Join(Words(F[4]))
  BY NormalizeUnfold
<1>4. F[0] = Spaced(g[0])
  <2>1. Padded(Strip(s)) = Spaced(ws)
    BY StripOfWords
  <2> QED BY <1>2, <1>3, <2>1 DEF NormalizeOf
<1>5. ASSUME NEW i \in 1 .. 4, F[i - 1] = Spaced(g[i - 1]) PROVE F[i] = Spaced(g[i])
  <2>1. DropsTo(Fillers[i], g[i - 1], g[i])
    BY <1>2, StepsType
  <2>2. F[i] = Replace(F[i - 1], Padded(Fillers[i]), <<Space>>)
    BY <1>3 DEF NormalizeOf
  <2> QED BY <1>5, <2>1, <2>2 DEF DropsTo
<1>6. F[4] = Spaced(g[4])
  <2>1. 1 \in 1 .. 4 /\ 2 \in 1 .. 4 /\ 3 \in 1 .. 4 /\ 4 \in 1 .. 4 /\ 1 - 1 = 0 /\ 2 - 1 = 1 /\ 3 - 1 = 2 /\ 4 - 1 = 3
    OBVIOUS
  <2>2. F[1] = Spaced(g[1])
    BY <1>4, <1>5, <2>1
  <2>3. F[2] = Spaced(g[2])
    BY <1>5, <2>1, <2>2
  <2>4. F[3] = Spaced(g[3])
    BY <1>5, <2>1, <2>3
  <2> QED BY <1>5, <2>1, <2>4
<1>7. g[4] \in WordLists
  BY <1>2 DEF Steps
<1>8. Words(F[4]) = g[4]
  BY <1>6, <1>7, WordsOfSpaced
<1>9. Words(Join(g[4])) = g[4]
  BY <1>7, WordListsType, WordsOfJoin
<1> QED BY <1>2, <1>3, <1>8, <1>9

-----------------------------------------------------------------------------
(* What is published and assembled.                                        *)

\* A text, said some times.
Repeated(s, n) == [i \in 1 .. n |-> s]
Said(s, n) == Words(Join(Repeated(s, n)))

LEMMA SaidAgain ==
  ASSUME NEW s \in Text, NEW n \in Nat
  PROVE  /\ Repeated(s, n) \in Texts /\ Said(s, n) \in Texts /\ Words(s) \in Texts
         /\ Said(s, 0) = <<>>
         /\ Said(s, n + 1) = Said(s, n) \o Words(s)
         /\ Repeated(s, 1) = <<s>> /\ Join(Repeated(s, 1)) = s
<1>1. \A m \in Nat : Repeated(s, m) \in Texts /\ Len(Repeated(s, m)) = m
  BY DEF Repeated, Texts
<1>2. \A m \in Nat : Join(Repeated(s, m)) \in Text /\ Said(s, m) \in Texts
  BY <1>1, JoinAppend, WordsType DEF Said
<1>3. Words(s) \in Texts /\ <<s>> \in Texts /\ <<>> \in Texts /\ <<>> \in Text
  BY WordsType, CopiesOfOne, EmptySeq DEF Texts, Text
<1>4. Repeated(s, 0) = <<>>
  BY <1>1, EmptySeq DEF Texts
<1>5. Said(s, 0) = <<>>
  BY <1>3, <1>4, JoinOfNothing, WordsType DEF Said
<1>6. Join(<<s>>) = s
  <2>1. Append(<<>>, s) = <<s>>
    BY <1>3 DEF Texts
  <2> QED BY <1>3, <2>1, JoinAppend
<1>7. ASSUME NEW m \in Nat PROVE Repeated(s, m + 1) = Repeated(s, m) \o <<s>>
  <2> DEFINE a == Repeated(s, m + 1)  b == Append(Repeated(s, m), s)
  <2>1. a \in Texts /\ Len(a) = m + 1 /\ \A i \in 1 .. m + 1 : a[i] = s
    BY <1>1 DEF Repeated
  <2>2. b \in Texts /\ Len(b) = m + 1 /\ \A i \in 1 .. m + 1 : b[i] = s
    <3>1. Repeated(s, m) \in Texts /\ Len(Repeated(s, m)) = m /\ \A i \in 1 .. m : Repeated(s, m)[i] = s
      BY <1>1 DEF Repeated
    <3> QED BY <3>1, AppendProperties DEF Texts
  <2>3. b = Repeated(s, m) \o <<s>>
    BY <1>1, AppendIsConcat DEF Texts
  <2> HIDE DEF a, b
  <2>4. a = b
    BY <2>1, <2>2, SeqEqual DEF Texts
  <2> QED BY <2>3, <2>4 DEF a
<1>8. Said(s, n + 1) = Said(s, n) \o Words(s)
  <2>1. Words(Join(Repeated(s, n) \o <<s>>)) = Words(Join(Repeated(s, n))) \o Words(Join(<<s>>))
    BY <1>1, <1>3, WordsOfParts
  <2> QED BY <1>6, <1>7, <2>1 DEF Said
<1>9. Repeated(s, 1) = <<s>>
  <2>1. Repeated(s, 0 + 1) = <<>> \o <<s>>
    BY <1>4, <1>7
  <2> QED BY <1>3, <2>1, ConcatEmptySeq DEF Texts
<1> QED BY <1>1, <1>2, <1>3, <1>5, <1>6, <1>8, <1>9

\* The text was published this many times, and what was said is in it but for
\* fillers.
PublishedTimes(n) ==
  /\ Len(published) = n * Len(Chunks)
  /\ n <= scenario.deaths + 1
  /\ pc[Worker] = "publish" => n <= scenario.deaths
  /\ pc[Worker] # "publish" => n >= 1
  /\ n = 0 => published = <<>>
  /\ n = 1 => published = Chunks
  /\ FillersDropped(Said(text, n), Words(Join(published)))
  /\ Len(Said(text, n)) = n * Len(Words(text))

\* What nobody consumes is drained.
Unread ==
  scenario.consumers = {} =>
    /\ pc[Worker] \in {"publish", "validate", "drain"} => messages = published
    /\ pc[Worker] \in {"delete", "forget", "over"} => assembled = published

Assembling == Unread /\ \E n \in Nat : PublishedTimes(n)

LEMMA TextType ==
  ASSUME QueueType
  PROVE  /\ text \in Text /\ Words(text) \in Texts /\ scenario.deaths \in Nat
         /\ Chunks \in Texts /\ Len(Chunks) \in Nat \ {0} /\ Chunks # <<>>
         /\ FillersDropped(Words(text), Words(Join(Chunks)))
<1>1. scenario.size \in Nat \ {0} /\ text \in Seq(STRING) /\ scenario.deaths \in Nat
  BY ScenariosAssumption DEF QueueType, ScenarioType
<1>2. text \in Text
  <2>1. STRING \subseteq Token
    BY DEF Token
  <2> QED BY <1>1, <2>1, SeqMonotonic DEF Text
<1>3. Normalize(text) \in Text /\ Chunks \in Texts /\ Chunks # <<>>
  BY <1>1, <1>2, NormalizeType, ChunkWords DEF Chunks
<1>4. Len(Chunks) \in Nat \ {0}
  <2> DEFINE c == Chunks
  <2>1. c \in Texts /\ c # <<>>
    BY <1>3
  <2> HIDE DEF c
  <2>2. Len(c) \in Nat \ {0}
    BY <2>1, EmptySeq DEF Texts
  <2> QED BY <2>2 DEF c
<1>5. Words(Join(Chunks)) = Words(Normalize(text))
  BY <1>1, <1>3, WordsOfChunks DEF Chunks
<1>6. FillersDropped(Words(text), Words(Normalize(text)))
  BY <1>2, NormalizeDropsFillers
<1> QED BY <1>1, <1>2, <1>3, <1>4, <1>5, <1>6, WordsType

LEMMA AssemblingInit ==
  ASSUME Init
  PROVE  Assembling
<1>1. QueueType
  BY QueueInvInit DEF QueueInv
<1>2. /\ pc[Worker] = "publish" /\ published = <<>> /\ messages = <<>>
  BY ClientsFinite DEF Init
<1>3. PublishedTimes(0)
  <2>1. Said(text, 0) = <<>> /\ <<>> \in Texts /\ Len(<<>>) = 0 /\ <<>> \in Text
    BY <1>1, TextType, SaidAgain, EmptySeq DEF Texts, Text
  <2>2. Words(Join(published)) = <<>>
    BY <1>2, <2>1, JoinOfNothing, WordsType
  <2>3. FillersDropped(Said(text, 0), Words(Join(published)))
    BY <2>1, <2>2, DroppedType
  <2>4. 0 * Len(Chunks) = 0 /\ 0 * Len(Words(text)) = 0 /\ scenario.deaths \in Nat
    <3>1. Len(Chunks) \in Nat /\ Len(Words(text)) \in Nat /\ scenario.deaths \in Nat
      BY <1>1, TextType DEF Texts
    <3> QED BY <3>1
  <2> QED BY <1>2, <2>1, <2>3, <2>4 DEF PublishedTimes
<1>4. Unread
  BY <1>2 DEF Unread
<1> QED BY <1>3, <1>4 DEF Assembling

LEMMA AssemblingPublish ==
  ASSUME QueueType, Assembling, Publish
  PROVE  Assembling'
<1>1. PICK n \in Nat : PublishedTimes(n)
  BY DEF Assembling
<1>2. /\ pc[Worker] = "publish" /\ pc'[Worker] = "validate"
      /\ text' = text /\ scenario' = scenario /\ Chunks' = Chunks
      /\ published' = published \o Chunks /\ messages' = messages \o Chunks
  BY ClientsFinite DEF Publish, At, Goto, Chunks, QueueType
<1>3. /\ text \in Text /\ Words(text) \in Texts /\ scenario.deaths \in Nat
      /\ Chunks \in Texts /\ Len(Chunks) \in Nat \ {0}
      /\ FillersDropped(Words(text), Words(Join(Chunks)))
      /\ published \in Texts
  BY TextType DEF QueueType
<1>4. /\ Said(text, n) \in Texts /\ Said(text, n + 1) = Said(text, n) \o Words(text)
  BY <1>3, SaidAgain
<1> DEFINE p == published  c == Chunks  w == Words(text)  s == Said(text, n)
<1>5. /\ p \in Texts /\ c \in Texts /\ w \in Texts /\ s \in Texts /\ Len(c) \in Nat
      /\ Len(p) = n * Len(c) /\ Len(s) = n * Len(w) /\ Len(w) \in Nat
      /\ FillersDropped(s, Words(Join(p))) /\ FillersDropped(w, Words(Join(c)))
      /\ n <= scenario.deaths
      /\ n = 0 => p = <<>>
  BY <1>1, <1>2, <1>3, <1>4 DEF PublishedTimes, Texts
<1>6. published' = p \o c /\ Said(text, n + 1) = s \o w
  BY <1>2, <1>4
<1> HIDE DEF p, c, w, s
<1>7. Len(p \o c) = (n + 1) * Len(c) /\ Len(s \o w) = (n + 1) * Len(w)
  <2>1. Len(p \o c) = Len(p) + Len(c) /\ Len(s \o w) = Len(s) + Len(w)
    BY <1>5, ConcatProperties DEF Texts
  <2>2. (n + 1) * Len(c) = n * Len(c) + Len(c) /\ (n + 1) * Len(w) = n * Len(w) + Len(w)
    BY <1>5
  <2> QED BY <1>5, <2>1, <2>2
<1>8. FillersDropped(s \o w, Words(Join(p \o c)))
  <2>1. Words(Join(p \o c)) = Words(Join(p)) \o Words(Join(c))
    BY <1>5, WordsOfParts
  <2>2. Words(Join(p)) \in Texts /\ Words(Join(c)) \in Texts
    BY <1>5, WordsType, WordsOfParts
  <2>3. FillersDropped(s \o w, Words(Join(p)) \o Words(Join(c)))
    BY <1>5, <2>2, DroppedConcat
  <2> QED BY <2>1, <2>3
<1>9. n + 1 = 1 => p \o c = c
  <2>1. <<>> \o c = c
    BY <1>5, ConcatEmptySeq DEF Texts
  <2>2. n + 1 = 1 => p = <<>>
    BY <1>5
  <2> QED BY <2>1, <2>2
<1>10. PublishedTimes(n + 1)'
  <2>1. n + 1 <= scenario.deaths + 1 /\ n + 1 >= 1 /\ n + 1 # 0 /\ n + 1 \in Nat
    BY <1>3, <1>5
  <2>2. /\ Len(published') = (n + 1) * Len(Chunks') /\ n + 1 <= scenario'.deaths + 1
        /\ pc'[Worker] # "publish"
        /\ n + 1 = 1 => published' = Chunks'
        /\ FillersDropped(Said(text', n + 1), Words(Join(published')))
        /\ Len(Said(text', n + 1)) = (n + 1) * Len(Words(text'))
    BY <1>2, <1>6, <1>7, <1>8, <1>9, <2>1 DEF c, w
  <2> QED BY <2>1, <2>2 DEF PublishedTimes
<1>11. Unread'
  BY <1>2 DEF Unread, Assembling
<1> QED BY <1>10, <1>11 DEF Assembling

LEMMA AssemblingStep ==
  ASSUME QueueInv, Assembling, [Next]_vars
  PROVE  Assembling'
<1>1. PICK n \in Nat : PublishedTimes(n)
  BY DEF Assembling
<1>2. /\ Worker \in Clients /\ Worker \notin Consumers /\ QueueType /\ scenario.deaths \in Nat
      /\ Len(Chunks) \in Nat \ {0} /\ Chunks # <<>>
  BY WorkerAssumption, ClientsFinite, TextType DEF QueueInv
<1>3. ASSUME text' = text, scenario' = scenario, published' = published,
             pc'[Worker] = "publish" => n <= scenario.deaths,
             pc'[Worker] # "publish" => n >= 1
      PROVE  PublishedTimes(n)'
  <2>1. Chunks' = Chunks
    BY <1>3 DEF Chunks
  <2> QED BY <1>1, <1>3, <2>1 DEF PublishedTimes
<1>4. CASE Publish
  BY <1>2, <1>4, AssemblingPublish
<1> USE DEF At, Goto
<1>5. CASE Validate
  <2>1. /\ text' = text /\ scenario' = scenario /\ published' = published /\ messages' = messages
        /\ assembled' = assembled
        /\ pc[Worker] = "validate" /\ pc'[Worker] = "drain"
    BY <1>2, <1>5 DEF Validate, queueVars, ghostVars, QueueType
  <2>2. PublishedTimes(n)'
    BY <1>1, <1>3, <2>1 DEF PublishedTimes
  <2>3. Unread'
    BY <2>1 DEF Unread, Assembling
  <2> QED BY <2>2, <2>3 DEF Assembling
<1>6. CASE Drain
  <2>1. /\ text' = text /\ scenario' = scenario /\ published' = published /\ assembled' = messages
        /\ pc[Worker] = "drain" /\ pc'[Worker] \in {"delete", "over"}
    BY <1>2, <1>6 DEF Drain, queueVars, QueueType
  <2>2. PublishedTimes(n)'
    BY <1>1, <1>3, <2>1 DEF PublishedTimes
  <2>3. Unread'
    BY <2>1 DEF Unread, Assembling
  <2> QED BY <2>2, <2>3 DEF Assembling
<1>7. CASE DrainDelete \/ DrainForget
  <2>1. /\ text' = text /\ scenario' = scenario /\ published' = published /\ assembled' = assembled
        /\ pc[Worker] \in {"delete", "forget"} /\ pc'[Worker] \in {"forget", "over"}
    BY <1>2, <1>7 DEF DrainDelete, DrainForget, ghostVars, QueueType
  <2>2. PublishedTimes(n)'
    BY <1>1, <1>3, <2>1 DEF PublishedTimes
  <2>3. Unread'
    BY <2>1 DEF Unread, Assembling
  <2> QED BY <2>2, <2>3 DEF Assembling
<1>8. CASE WorkerDies
  <2>1. /\ text' = text /\ scenario' = scenario /\ published' = published /\ messages' = messages
        /\ assembled' = assembled
        /\ pc[Worker] = "validate" /\ pc'[Worker] = "publish"
        /\ Len(published) < (1 + scenario.deaths) * Len(Chunks)
    BY <1>2, <1>8 DEF WorkerDies, queueVars, ghostVars, QueueType
  <2>2. n <= scenario.deaths
    <3> DEFINE c == Len(Chunks)  d == scenario.deaths
    <3>1. n * c < (1 + d) * c /\ c \in Nat \ {0} /\ d \in Nat
      BY <1>1, <1>2, <2>1 DEF PublishedTimes
    <3> HIDE DEF c, d
    <3>2. SUFFICES ASSUME n >= 1 + d PROVE FALSE
      BY <3>1 DEF d
    <3>3. PICK e \in Nat : n = (1 + d) + e
      <4>1. n - (1 + d) \in Nat /\ n = (1 + d) + (n - (1 + d))
        BY <3>1, <3>2
      <4> QED BY <4>1
    <3>4. n * c = (1 + d) * c + e * c /\ e * c >= 0
      BY <3>1, <3>3
    <3> QED BY <3>1, <3>4
  <2>3. PublishedTimes(n)'
    BY <1>3, <2>1, <2>2
  <2>4. Unread'
    BY <2>1 DEF Unread, Assembling
  <2> QED BY <2>3, <2>4 DEF Assembling
<1>9. ASSUME NEW c \in Consumers, ConsumerStep(c) \/ ConsumerDies(c) PROVE Assembling'
  <2>1. /\ c \in scenario.consumers /\ UNCHANGED <<scenario, text, published, assembled>>
        /\ pc'[Worker] = pc[Worker]
    <3>1. CASE ConsumerStep(c)
      BY <1>2, <3>1, ConsumerMoves DEF Moved
    <3>2. CASE ConsumerDies(c)
      BY <3>2 DEF ConsumerDies, ghostVars
    <3> QED BY <1>9, <3>1, <3>2
  <2>2. PublishedTimes(n)'
    BY <1>1, <1>3, <2>1 DEF PublishedTimes
  <2>3. Unread'
    BY <2>1 DEF Unread
  <2> QED BY <2>2, <2>3 DEF Assembling
<1>10. CASE UNCHANGED vars
  <2>1. PublishedTimes(n)'
    BY <1>1, <1>3, <1>10 DEF PublishedTimes, vars, ghostVars, clientVars
  <2>2. Unread'
    BY <1>10 DEF Unread, Assembling, vars, queueVars, ghostVars, clientVars
  <2> QED BY <2>1, <2>2 DEF Assembling
<1> QED BY <1>4, <1>5, <1>6, <1>7, <1>8, <1>9, <1>10 DEF Next, Step, WorkerStep

-----------------------------------------------------------------------------
(* What the planner is given.                                             *)

\* What the drain returned, when it is over.
LEMMA AssembledTexts ==
  ASSUME QueueInv, Assembling, scenario.consumers = {}, pc[Worker] = "over", NEW n \in Nat, PublishedTimes(n)
  PROVE  /\ assembled = published /\ n \in 1 .. scenario.deaths + 1
         /\ Len(published) \div Len(Chunks) = n
         /\ Said(text, n) \in WordLists /\ Words(Join(published)) \in Texts
<1>1. /\ QueueType /\ published \in Texts
  BY DEF QueueInv, QueueType
<1>2. /\ text \in Text /\ scenario.deaths \in Nat /\ Len(Chunks) \in Nat \ {0}
  BY <1>1, TextType
<1>3. assembled = published
  BY DEF Assembling, Unread
<1>4. n >= 1 /\ n <= scenario.deaths + 1 /\ Len(published) = n * Len(Chunks)
  BY DEF PublishedTimes
<1>5. Len(published) \div Len(Chunks) = n
  <2> DEFINE c == Len(Chunks)  p == Len(published)
  <2>1. c \in Nat \ {0} /\ p = n * c
    BY <1>2, <1>4
  <2> HIDE DEF c, p
  <2>2. (n * c) \div c = n
    BY <2>1
  <2> QED BY <2>1, <2>2 DEF c, p
<1>6. Join(Repeated(text, n)) \in Text
  BY <1>2, SaidAgain, JoinAppend
<1>7. Said(text, n) \in WordLists
  BY <1>6, WordsType, WordListsType DEF Said
<1>8. Words(Join(published)) \in Texts
  <2>1. PICK j \in Text : j = Join(published)
    <3>1. Join(published) \in Text
      BY <1>1, <1>2, JoinAppend
    <3> QED BY <3>1
  <2>2. Words(j) \in Texts
    BY WordsType
  <2> QED BY <2>1, <2>2
<1> QED BY <1>2, <1>3, <1>4, <1>5, <1>7, <1>8

LEMMA AssembledPlain ==
  ASSUME QueueInv, Assembling, NEW n \in Nat, PublishedTimes(n), n >= 1,
         NEW said, said = Said(text, n), said \in WordLists,
         NEW kept, kept = Words(Join(published)), kept \in Texts, PlainSpeech(said)
  PROVE  kept = WithoutFillers(said)
<1>1. QueueType
  BY DEF QueueInv
<1>2. text \in Text /\ Words(text) \in Texts
  BY <1>1, TextType
<1>3. Join(said) = text /\ Plain(said) /\ said \in Texts
  BY WordListsType DEF PlainSpeech, Plain
<1>4. Words(text) = said
  BY <1>3, WordListsType, WordsOfJoin
<1>5. FillersDropped(said, kept) /\ Len(said) = n * Len(said)
  BY <1>4 DEF PublishedTimes
<1>6. CASE said = <<>>
  <2>1. \A w : Copies(said, w) = 0 /\ Copies(kept, w) <= Copies(said, w) /\ Copies(kept, w) \in Nat
    BY <1>5, <1>6, CopiesOfNone, CopiesType DEF FillersDropped
  <2>2. \A w : w \notin ToSet(kept)
    <3>1. \A w : Copies(kept, w) = 0
      BY <2>1
    <3> QED BY <3>1, CopiesType
  <2>3. kept = <<>>
    <3>1. SUFFICES ASSUME kept # <<>> PROVE FALSE
      OBVIOUS
    <3>2. 1 \in DOMAIN kept
      BY <3>1, EmptySeq DEF Texts
    <3> QED BY <2>2, <3>2 DEF ToSet
  <2> QED BY <1>6, <2>3, WithoutNothing
<1>7. CASE said # <<>>
  <2>1. n = 1
    <3> DEFINE l == Len(said)
    <3>1. l \in Nat \ {0} /\ l = n * l
      BY <1>3, <1>5, <1>7, EmptySeq DEF Texts
    <3> HIDE DEF l
    <3>2. SUFFICES ASSUME n >= 2 PROVE FALSE
      OBVIOUS
    <3>3. PICK e \in Nat : n = 2 + e
      <4>1. n - 2 \in Nat /\ n = 2 + (n - 2)
        BY <3>2
      <4> QED BY <4>1
    <3>4. n * l = l + l + e * l /\ e * l >= 0
      BY <3>1, <3>3
    <3> QED BY <3>1, <3>4
  <2>2. published = Chunks
    BY <2>1 DEF PublishedTimes
  <2>3. scenario.size \in Nat \ {0} /\ Normalize(text) \in Text
    BY <1>1, <1>2, ScenariosAssumption, NormalizeType DEF QueueType, ScenarioType
  <2>4. kept = Words(Normalize(text))
    BY <2>2, <2>3, WordsOfChunks DEF Chunks
  <2> QED BY <1>2, <1>3, <1>7, <2>4, NormalizePlain
<1> QED BY <1>6, <1>7

LEMMA AssemblingFaithful ==
  ASSUME QueueInv, Assembling
  PROVE  AssembledFaithful
<1>1. PICK n \in Nat : PublishedTimes(n)
  BY DEF Assembling
<1>2. SUFFICES ASSUME scenario.consumers = {}, pc[Worker] = "over"
               PROVE  LET times == Len(published) \div Len(Chunks)
                          said  == Words(Join([i \in 1 .. times |-> text]))
                          kept  == Words(Join(assembled))
                      IN /\ times \in 1 .. scenario.deaths + 1
                         /\ Meant(kept) = Meant(said)
                         /\ \A w \in ToSet(kept) : Count(kept, w) <= Count(said, w)
                         /\ Count(said, You) - Count(kept, You) = Count(said, Know) - Count(kept, Know)
                         /\ PlainSpeech(said) => kept = WithoutFillers(said)
  BY DEF AssembledFaithful
<1>3. /\ assembled = published /\ n \in 1 .. scenario.deaths + 1
      /\ Len(published) \div Len(Chunks) = n
      /\ Said(text, n) \in WordLists /\ Words(Join(published)) \in Texts
  BY <1>1, <1>2, AssembledTexts
<1>4. PICK said, kept : said = Said(text, n) /\ kept = Words(Join(published))
  OBVIOUS
<1>5. Words(Join([i \in 1 .. n |-> text])) = said
  BY <1>4 DEF Said, Repeated
<1>6. FillersDropped(said, kept)
  BY <1>1, <1>4 DEF PublishedTimes
<1>7. PlainSpeech(said) => kept = WithoutFillers(said)
  BY <1>1, <1>3, <1>4, AssembledPlain
<1>8. \A s, w : Count(s, w) = Copies(s, w)
  BY DEF Count, Copies
<1>9. /\ n \in 1 .. scenario.deaths + 1
      /\ Meant(kept) = Meant(said)
      /\ \A w \in ToSet(kept) : Count(kept, w) <= Count(said, w)
      /\ Count(said, You) - Count(kept, You) = Count(said, Know) - Count(kept, Know)
      /\ PlainSpeech(said) => kept = WithoutFillers(said)
  BY <1>3, <1>6, <1>7, <1>8 DEF FillersDropped
<1> QED BY <1>3, <1>4, <1>5, <1>9, Zenon

\* The planner is given what was said (orchestrator.py:76-90): the chunks, joined
\* again, are the words of the transcript without fillers, a whole number of
\* times, and from plain speech every filler is dropped.
THEOREM AssembledAlwaysFaithful == Spec => []AssembledFaithful
<1>1. Init => Assembling
  BY AssemblingInit
<1>2. QueueInv /\ Assembling /\ [Next]_vars => Assembling'
  BY AssemblingStep
<1>3. QueueInv /\ Assembling => AssembledFaithful
  BY AssemblingFaithful
<1> QED BY <1>1, <1>2, <1>3, QueueInvariant, PTL DEF Spec
=============================================================================
