------------------------ MODULE TranscriptText_proofs -----------------------
(***************************************************************************)
(* What the operators of TranscriptText compute, for every text and every  *)
(* size of a chunk: the words of a text, what joining words gives, what    *)
(* TranscriptNormalizer.normalize returns and how chunk groups its words.  *)
(*                                                                         *)
(* The operators are folds and recursive functions, so the lemmas go by    *)
(* induction over data.  Induct states it for sets of numbers, and follows *)
(* from < being well founded: of the numbers at which something fails there *)
(* would be a least one.  FoldExists does the same for the functions on    *)
(* sets of positions that the folds of the community modules are defined   *)
(* by; the lemmas ...Unfold then give the values of a fold one by one, as a *)
(* function on 0 .. Len(s), and everything else uses only these.           *)
(***************************************************************************)
EXTENDS TranscriptText, Integers, TLAPS, WellFoundedInduction, FiniteSetTheorems, SequenceTheorems

-----------------------------------------------------------------------------
(* Induction and folds.                                                    *)

\* A set of numbers with 0 that is closed under + 1 has them all.
LEMMA Induct ==
  ASSUME NEW S, 0 \in S, \A n \in Nat : n \in S => n + 1 \in S
  PROVE  Nat \subseteq S
<1> DEFINE T == Nat \ S
<1>1. SUFFICES ASSUME T # {} PROVE FALSE
  OBVIOUS
<1>2. PICK x \in T : \A y \in T : ~(<<y, x>> \in OpToRel(<, Nat))
  BY <1>1, NatLessThanWellFounded, WFMin
<1>3. x - 1 \in T
  <2>1. x \in Nat /\ x # 0 /\ x \notin S
    BY <1>2
  <2>2. x - 1 \in Nat /\ (x - 1) + 1 = x
    BY <2>1
  <2> QED BY <2>1, <2>2
<1>4. <<x - 1, x>> \in OpToRel(<, Nat)
  BY <1>3 DEF OpToRel
<1> QED BY <1>2, <1>3, <1>4

\* A set of numbers that are at most n has a greatest one.
LEMMA Greatest ==
  ASSUME NEW n \in Nat, NEW S \in SUBSET (1 .. n), S # {}
  PROVE  Max(S) \in S /\ \A y \in S : y <= Max(S)
<1> DEFINE A == {m \in Nat : \A R \in SUBSET (1 .. m) : R # {} => \E x \in R : \A y \in R : y <= x}
<1>1. 0 \in A
  <2>1. 1 .. 0 = {}
    OBVIOUS
  <2> QED BY <2>1
<1>2. ASSUME NEW m \in Nat, m \in A PROVE m + 1 \in A
  <2>1. ASSUME NEW R \in SUBSET (1 .. m + 1), R # {} PROVE \E x \in R : \A y \in R : y <= x
    <3>1. CASE m + 1 \in R
      BY <3>1
    <3>2. CASE m + 1 \notin R
      <4>1. R \in SUBSET (1 .. m)
        BY <3>2
      <4> QED BY <4>1, <1>2, <2>1
    <3> QED BY <3>1, <3>2
  <2> QED BY <2>1
<1> HIDE DEF A
<1>3. n \in A
  BY <1>1, <1>2, Induct
<1>4. \E x \in S : \A y \in S : y <= x
  BY <1>3 DEF A
<1>5. \E x \in S : \A y \in S : x >= y
  BY <1>4
<1>6. Max(S) \in S /\ \A y \in S : Max(S) >= y
  BY <1>5 DEF Max
<1> QED BY <1>6

\* The greatest number of an interval.
LEMMA GreatestOfInterval ==
  ASSUME NEW i \in Nat, i # 0
  PROVE  Max(1 .. i) = i /\ (1 .. i) \ {Max(1 .. i)} = 1 .. (i - 1)
<1>2. i \in 1 .. i /\ 1 .. i \in SUBSET (1 .. i) /\ 1 .. i # {}
  OBVIOUS
<1>1. Max(1 .. i) \in 1 .. i /\ \A y \in 1 .. i : y <= Max(1 .. i)
  BY <1>2, Greatest
<1>3. Max(1 .. i) = i
  BY <1>1, <1>2
<1> QED BY <1>3

\* Without its greatest number a set ends earlier.
LEMMA WithoutGreatest ==
  ASSUME NEW m \in Nat, NEW S \in SUBSET (1 .. m + 1), S # {}
  PROVE  Max(S) \in 1 .. m + 1 /\ S \ {Max(S)} \in SUBSET (1 .. m)
<1>1. Max(S) \in S /\ \A y \in S : y <= Max(S)
  BY m + 1 \in Nat, Greatest
<1>2. ASSUME NEW y \in S \ {Max(S)} PROVE y \in 1 .. m
  <2>1. y \in 1 .. m + 1 /\ Max(S) \in 1 .. m + 1 /\ y <= Max(S) /\ y # Max(S)
    BY <1>1, <1>2
  <2> QED BY <2>1
<1> QED BY <1>1, <1>2

\* The least number of a set.
LEMMA Least ==
  ASSUME NEW S \in SUBSET Nat, S # {}
  PROVE  \E x \in S : \A y \in S : x <= y
<1>1. PICK x \in S : \A y \in S : ~(<<y, x>> \in OpToRel(<, Nat))
  BY NatLessThanWellFounded, WFMin
<1>2. ASSUME NEW y \in S PROVE x <= y
  <2>1. <<y, x>> \notin OpToRel(<, Nat)
    BY <1>1
  <2> QED BY <2>1 DEF OpToRel
<1> QED BY <1>2

\* The recursion of a fold over 1 .. n.
IsFold(g, n, V, base, step) ==
  /\ g \in [SUBSET (1 .. n) -> V]
  /\ \A S \in SUBSET (1 .. n) :
       g[S] = IF S = {} THEN base ELSE step[Max(S), g[S \ {Max(S)}]]

\* It has a solution, of the type of its steps.
LEMMA FoldExists ==
  ASSUME NEW n \in Nat, NEW V, NEW base \in V, NEW step \in [(1 .. n) \X V -> V]
  PROVE  \E g : IsFold(g, n, V, base, step)
<1> USE DEF IsFold
<1> DEFINE Solves(g, m) == IsFold(g, m, V, base, step)
    A == {m \in Nat : m <= n => \E g : Solves(g, m)}
<1>1. 0 \in A
  <2> DEFINE g == [S \in SUBSET (1 .. 0) |-> base]
  <2>1. Solves(g, 0)
    <3>1. 1 .. 0 = {}
      OBVIOUS
    <3> QED BY <3>1
  <2> QED BY <2>1
<1>2. ASSUME NEW m \in Nat, m \in A PROVE m + 1 \in A
  <2> HIDE DEF Solves
  <2>1. SUFFICES ASSUME m + 1 <= n PROVE \E g : Solves(g, m + 1)
    OBVIOUS
  <2>2. PICK g : Solves(g, m)
    BY <1>2, <2>1
  <2> USE DEF Solves
  <2> DEFINE h == [S \in SUBSET (1 .. m + 1) |-> IF S = {} THEN base ELSE step[Max(S), g[S \ {Max(S)}]]]
  <2>3. ASSUME NEW S \in SUBSET (1 .. m + 1), S # {}
        PROVE  Max(S) \in 1 .. n /\ S \ {Max(S)} \in SUBSET (1 .. m)
    <3>1. Max(S) \in 1 .. m + 1 /\ S \ {Max(S)} \in SUBSET (1 .. m)
      BY <2>3, WithoutGreatest
    <3>2. 1 .. m + 1 \subseteq 1 .. n
      BY <2>1
    <3> QED BY <3>1, <3>2
  <2>4. h \in [SUBSET (1 .. m + 1) -> V]
    <3>1. ASSUME NEW S \in SUBSET (1 .. m + 1) PROVE h[S] \in V
      <4>1. CASE S = {}
        BY <4>1
      <4>2. CASE S # {}
        <5>1. g[S \ {Max(S)}] \in V
          BY <2>3, <4>2, <2>2
        <5>2. <<Max(S), g[S \ {Max(S)}]>> \in (1 .. n) \X V
          BY <5>1, <2>3, <4>2
        <5> QED BY <5>2, <4>2
      <4> QED BY <4>1, <4>2
    <3> QED BY <3>1
  <2>5. ASSUME NEW S \in SUBSET (1 .. m) PROVE h[S] = g[S]
    <3>1. S \in SUBSET (1 .. m + 1)
      OBVIOUS
    <3> QED BY <3>1, <2>2
  <2>6. ASSUME NEW S \in SUBSET (1 .. m + 1)
        PROVE  h[S] = IF S = {} THEN base ELSE step[Max(S), h[S \ {Max(S)}]]
    BY <2>3, <2>5
  <2>7. Solves(h, m + 1)
    BY <2>4, <2>6
  <2> HIDE DEF h, Solves
  <2> QED BY <2>7
<1> HIDE DEF Solves, A
<1>3. n \in A
  BY <1>1, <1>2, Induct
<1>4. \E g : Solves(g, n)
  BY <1>3 DEF A
<1> QED BY <1>4 DEF Solves

\* What holds of the first value of a recursion and is kept by its steps.
LEMMA Recursion ==
  ASSUME NEW n \in Nat, NEW V, NEW F, F[0] \in V,
         \A i \in 1 .. n : F[i - 1] \in V => F[i] \in V
  PROVE  \A i \in 0 .. n : F[i] \in V
<1> DEFINE A == {i \in Nat : i <= n => F[i] \in V}
<1>1. 0 \in A
  OBVIOUS
<1>2. ASSUME NEW i \in Nat, i \in A PROVE i + 1 \in A
  BY <1>2
<1> HIDE DEF A
<1>3. Nat \subseteq A
  BY <1>1, <1>2, Induct
<1> QED BY <1>3 DEF A

-----------------------------------------------------------------------------
(* Runs.                                                                   *)

\* (The provers do not know that a string literal is a string.)
Token == STRING \cup WhiteSpace \cup {"um", "uh", "you", "know", "like"}
Text  == Seq(Token)
Texts == Seq(Text)

\* What the token at i does to the runs before it.
RunStep(s, separators, runs, i) ==
  IF s[i] \in separators THEN runs
  ELSE IF i > 1 /\ s[i - 1] \notin separators
       THEN [runs EXCEPT ![Len(runs)] = Append(@, s[i])]
       ELSE Append(runs, <<s[i]>>)

LEMMA RunStepType ==
  ASSUME NEW s \in Text, NEW separators, NEW i \in 1 .. Len(s), NEW runs \in Texts
  PROVE  RunStep(s, separators, runs, i) \in Texts
<1>1. s[i] \in Token
  BY DEF Text
<1>2. Append(runs, <<s[i]>>) \in Texts
  BY <1>1 DEF Texts, Text
<1>3. [runs EXCEPT ![Len(runs)] = Append(@, s[i])] \in Texts
  <2>1. CASE runs = <<>>
    <3> DEFINE r == [runs EXCEPT ![Len(runs)] = Append(@, s[i])]
    <3>1. DOMAIN runs = {} /\ Len(runs) = 0
      BY <2>1
    <3>2. r \in [1 .. 0 -> Text]
      <4>1. DOMAIN r = 1 .. 0
        BY <3>1
      <4>2. r = [j \in 1 .. 0 |-> r[j]]
        BY <4>1, <3>1
      <4> HIDE DEF r
      <4> QED BY <4>2
    <3> HIDE DEF r
    <3>3. r \in Texts
      BY <3>2, SeqDef, 0 \in Nat DEF Texts
    <3> QED BY <3>3 DEF r
  <2>2. CASE runs # <<>>
    <3>1. Len(runs) \in 1 .. Len(runs) /\ runs[Len(runs)] \in Text
      BY <2>2 DEF Texts, Text
    <3>2. Append(runs[Len(runs)], s[i]) \in Text
      BY <3>1, <1>1 DEF Text
    <3> QED BY <3>1, <3>2, ExceptSeq DEF Texts
  <2> QED BY <2>1, <2>2
<1> QED BY <1>2, <1>3 DEF RunStep

\* The values of the fold that Runs is.
RunsOf(R, s, separators) ==
  /\ R \in [0 .. Len(s) -> Texts]
  /\ R[0] = <<>>
  /\ \A i \in 1 .. Len(s) : R[i] = RunStep(s, separators, R[i - 1], i)

LEMMA RunsUnfold ==
  ASSUME NEW s \in Text, NEW separators
  PROVE  \E R : RunsOf(R, s, separators) /\ Runs(s, separators) = R[Len(s)]
<1> DEFINE n == Len(s)
           index == [i \in DOMAIN s |-> i]
           step == [p \in (1 .. n) \X Texts |-> RunStep(s, separators, p[2], p[1])]
           Solution(g) == g = [S \in SUBSET DOMAIN index |->
             IF S = {} THEN <<>> ELSE RunStep(s, separators, g[S \ {Max(S)}], index[Max(S)])]
           iter == CHOOSE g : Solution(g)
<1>1. n \in Nat /\ DOMAIN s = 1 .. n /\ DOMAIN index = 1 .. n /\ <<>> \in Texts
  BY DEF Text, Texts
<1>2. step \in [(1 .. n) \X Texts -> Texts]
  BY RunStepType
<1>3. Runs(s, separators) = iter[DOMAIN index]
  BY DEF Runs, FoldLeftDomain, FoldLeft, MapThenFoldSet, RunStep
<1> HIDE DEF n
<1>4. PICK g : IsFold(g, n, Texts, <<>>, step)
  <2> HIDE DEF step
  <2> QED BY <1>1, <1>2, FoldExists
<1> USE DEF IsFold
<1>5. ASSUME NEW S \in SUBSET (1 .. n), S # {}
      PROVE  /\ index[Max(S)] = Max(S)
             /\ step[Max(S), g[S \ {Max(S)}]] = RunStep(s, separators, g[S \ {Max(S)}], Max(S))
  <2>1. Max(S) \in 1 .. n /\ S \ {Max(S)} \in SUBSET (1 .. n)
    BY <1>1, <1>5, Greatest
  <2>2. <<Max(S), g[S \ {Max(S)}]>> \in (1 .. n) \X Texts
    BY <2>1, <1>4
  <2> QED BY <1>1, <2>1, <2>2
<1> HIDE DEF step, index
<1>6. Solution(g)
  <2>1. \A S \in SUBSET DOMAIN index :
          g[S] = IF S = {} THEN <<>> ELSE RunStep(s, separators, g[S \ {Max(S)}], index[Max(S)])
    BY <1>1, <1>4, <1>5
  <2> QED BY <2>1, <1>1, <1>4
<1>7. Solution(iter)
  BY <1>6
<1> HIDE DEF iter
<1> DEFINE R == [i \in 0 .. n |-> iter[1 .. i]]
<1>8. R[0] = <<>>
  <2>1. 1 .. 0 = {} /\ 1 .. 0 \in SUBSET DOMAIN index
    BY <1>1
  <2> QED BY <1>1, <1>7, <2>1
<1>9. ASSUME NEW i \in 1 .. n PROVE R[i] = RunStep(s, separators, R[i - 1], i)
  <2> HIDE DEF R, Solution
  <2>1. /\ 1 .. i \in SUBSET (1 .. n) /\ i \in 1 .. i
        /\ i \in Nat /\ i # 0 /\ i \in 0 .. n /\ i - 1 \in 0 .. n
    BY <1>1
  <2> USE DEF R, Solution
  <2>2. Max(1 .. i) = i /\ (1 .. i) \ {Max(1 .. i)} = 1 .. (i - 1)
    BY <2>1, GreatestOfInterval
  <2>3. iter[1 .. i] = RunStep(s, separators, iter[1 .. (i - 1)], index[i])
    BY <1>1, <1>7, <2>1, <2>2
  <2>4. index[i] = i
    BY <1>1 DEF index
  <2> QED BY <2>1, <2>3, <2>4
<1> HIDE DEF R, Solution
<1>10. \A i \in 0 .. n : R[i] \in Texts
  <2>1. ASSUME NEW i \in 1 .. n, R[i - 1] \in Texts PROVE R[i] \in Texts
    BY <1>9, <2>1, RunStepType DEF n
  <2> QED BY <1>1, <1>8, <2>1, Recursion
<1>11. R \in [0 .. n -> Texts]
  BY <1>10 DEF R
<1>12. Runs(s, separators) = R[n]
  BY <1>1, <1>3 DEF R
<1>13. RunsOf(R, s, separators)
  BY <1>8, <1>9, <1>11 DEF RunsOf, n
<1> QED BY <1>12, <1>13 DEF n

\* The values before i are those of the tokens before i.
LEMMA RunsUnique ==
  ASSUME NEW s \in Text, NEW t \in Text, NEW separators, NEW n \in 0 .. Len(s), n <= Len(t),
         \A i \in 1 .. n : s[i] = t[i],
         NEW R, RunsOf(R, s, separators), NEW Q, RunsOf(Q, t, separators)
  PROVE  R[n] = Q[n]
<1> DEFINE A == {i \in Nat : i <= n => R[i] = Q[i]}
<1>1. 0 \in A
  BY DEF RunsOf
<1>2. ASSUME NEW i \in Nat, i \in A PROVE i + 1 \in A
  <2>1. SUFFICES ASSUME i + 1 <= n PROVE R[i + 1] = Q[i + 1]
    OBVIOUS
  <2>2. Len(s) \in Nat /\ Len(t) \in Nat
    BY DEF Text
  <2>3. i + 1 \in 1 .. n /\ i + 1 \in 1 .. Len(s) /\ i + 1 \in 1 .. Len(t) /\ (i + 1) - 1 = i
    BY <2>1, <2>2
  <2>4. R[i] = Q[i]
    BY <1>2, <2>1
  <2>5. R[i + 1] = RunStep(s, separators, R[i], i + 1) /\ Q[i + 1] = RunStep(t, separators, Q[i], i + 1)
    BY <2>3 DEF RunsOf
  <2>6. s[i + 1] = t[i + 1] /\ (i + 1 > 1 => s[(i + 1) - 1] = t[(i + 1) - 1])
    BY <2>3
  <2> QED BY <2>4, <2>5, <2>6 DEF RunStep
<1> HIDE DEF A
<1>3. Nat \subseteq A
  BY <1>1, <1>2, Induct
<1> QED BY <1>3 DEF A

\* One more token: Runs does not look ahead.
LEMMA RunsAppend ==
  ASSUME NEW s \in Text, NEW x \in Token, NEW separators
  PROVE  /\ Runs(s, separators) \in Texts
         /\ Runs(Append(s, x), separators)
              = RunStep(Append(s, x), separators, Runs(s, separators), Len(s) + 1)
<1> DEFINE t == Append(s, x)
<1>1. Len(s) \in Nat /\ t \in Text /\ Len(t) = Len(s) + 1 /\ \A i \in 1 .. Len(s) : s[i] = t[i]
  BY DEF Text
<1>2. PICK R : RunsOf(R, s, separators) /\ Runs(s, separators) = R[Len(s)]
  BY RunsUnfold
<1> HIDE DEF t
<1>3. PICK Q : RunsOf(Q, t, separators) /\ Runs(t, separators) = Q[Len(t)]
  BY <1>1, RunsUnfold
<1>4. R[Len(s)] = Q[Len(s)]
  BY <1>1, <1>2, <1>3, RunsUnique
<1>5. Q[Len(s) + 1] = RunStep(t, separators, Q[(Len(s) + 1) - 1], Len(s) + 1)
  BY <1>1, <1>3 DEF RunsOf
<1>6. R[Len(s)] \in Texts
  BY <1>1, <1>2 DEF RunsOf
<1> QED BY <1>1, <1>2, <1>3, <1>4, <1>5, <1>6 DEF t

\* The runs of a text are not empty, and have no separators.
IsRun(w, separators) == w \in Text /\ w # <<>> /\ \A i \in 1 .. Len(w) : w[i] \notin separators
RunsApart(separators) == Seq({w \in Text : IsRun(w, separators)})

LEMMA RunsType ==
  ASSUME NEW s \in Text, NEW separators
  PROVE  Runs(s, separators) \in RunsApart(separators)
<1> DEFINE W == {w \in Text : IsRun(w, separators)}
<1>1. PICK R : RunsOf(R, s, separators) /\ Runs(s, separators) = R[Len(s)]
  BY RunsUnfold
<1>2. Len(s) \in Nat /\ R[0] \in Seq(W)
  BY <1>1 DEF RunsOf, Text
<1>3. ASSUME NEW i \in 1 .. Len(s), R[i - 1] \in Seq(W) PROVE R[i] \in Seq(W)
  <2> DEFINE runs == R[i - 1]
  <2>1. R[i] = RunStep(s, separators, runs, i) /\ s[i] \in Token
    BY <1>1 DEF RunsOf, Text
  <2>2. CASE s[i] \in separators
    BY <1>3, <2>1, <2>2 DEF RunStep
  <2>3. CASE s[i] \notin separators
    <3>1. IsRun(<<s[i]>>, separators)
      BY <2>1, <2>3 DEF IsRun, Text
    <3>2. Append(runs, <<s[i]>>) \in Seq(W)
      BY <3>1, <1>3 DEF IsRun
    <3> HIDE DEF W
    <3>3. [runs EXCEPT ![Len(runs)] = Append(@, s[i])] \in Seq(W)
      <4>1. CASE runs = <<>>
        <5> DEFINE r == [runs EXCEPT ![Len(runs)] = Append(@, s[i])]
        <5>1. DOMAIN runs = {} /\ Len(runs) = 0
          BY <4>1
        <5>2. DOMAIN r = 1 .. 0
          BY <5>1
        <5>3. r = [j \in 1 .. 0 |-> r[j]]
          BY <5>1, <5>2
        <5> HIDE DEF r
        <5>4. r \in [1 .. 0 -> W]
          BY <5>3
        <5>5. r \in Seq(W)
          BY <5>4, SeqDef, 0 \in Nat
        <5> QED BY <5>5 DEF r
      <4>2. CASE runs # <<>>
        <5>1. Len(runs) \in 1 .. Len(runs) /\ runs[Len(runs)] \in W
          BY <4>2, <1>3
        <5> DEFINE w == runs[Len(runs)]
        <5> HIDE DEF runs
        <5>2. w \in Text /\ w # <<>> /\ \A j \in 1 .. Len(w) : w[j] \notin separators
          BY <5>1 DEF W, IsRun
        <5> HIDE DEF w
        <5>3. /\ Append(w, s[i]) \in Text /\ Append(w, s[i]) # <<>>
              /\ Len(Append(w, s[i])) = Len(w) + 1
              /\ \A j \in 1 .. Len(w) : Append(w, s[i])[j] = w[j]
              /\ Append(w, s[i])[Len(w) + 1] = s[i] /\ Len(w) \in Nat
          BY <5>2, <2>1, AppendProperties, LenProperties DEF Text
        <5>4. \A j \in 1 .. Len(w) + 1 : Append(w, s[i])[j] \notin separators
          BY <5>2, <5>3, <2>3
        <5>5. Append(w, s[i]) \in W
          BY <5>3, <5>4 DEF W, IsRun
        <5> QED BY <5>1, <5>5, <1>3, ExceptSeq DEF w, runs
      <4> QED BY <4>1, <4>2
    <3> QED BY <2>1, <2>3, <3>2, <3>3 DEF RunStep
  <2> QED BY <2>2, <2>3
<1> HIDE DEF W
<1>4. \A i \in 0 .. Len(s) : R[i] \in Seq(W)
  BY <1>2, <1>3, Recursion
<1>5. R[Len(s)] \in Seq(W)
  BY <1>2, <1>4
<1> QED BY <1>1, <1>5 DEF RunsApart, W

LEMMA RunsOfNothing ==
  ASSUME NEW separators
  PROVE  Runs(<<>>, separators) = <<>>
<1>1. <<>> \in Text /\ Len(<<>>) = 0
  BY DEF Text
<1>2. PICK R : RunsOf(R, <<>>, separators) /\ Runs(<<>>, separators) = R[Len(<<>>)]
  BY <1>1, RunsUnfold
<1> QED BY <1>1, <1>2 DEF RunsOf

\* A separator at the end adds nothing.
LEMMA RunsSeparator ==
  ASSUME NEW s \in Text, NEW separators, NEW x \in Token, x \in separators
  PROVE  Runs(Append(s, x), separators) = Runs(s, separators)
<1>1. Append(s, x)[Len(s) + 1] = x
  BY DEF Text
<1> QED BY <1>1, RunsAppend DEF RunStep

\* A word after a separator, or at the start, is a run of its own.
LEMMA RunsWord ==
  ASSUME NEW s \in Text, NEW separators, s # <<>> => s[Len(s)] \in separators,
         NEW w \in Text, IsRun(w, separators)
  PROVE  Runs(s \o w, separators) = Append(Runs(s, separators), w)
<1> DEFINE runs == Runs(s, separators)
           Start(j) == SubSeq(w, 1, j)
           A == {j \in Nat : j + 1 <= Len(w) =>
                   Runs(s \o Start(j + 1), separators) = Append(runs, Start(j + 1))}
<1>1. runs \in Texts /\ Len(s) \in Nat /\ Len(w) \in Nat \ {0}
  BY RunsUnfold, EmptySeq DEF RunsOf, Text, IsRun
<1> HIDE DEF runs
<1>2. ASSUME NEW j \in 1 .. Len(w)
      PROVE  /\ Start(j) \in Text /\ Len(Start(j)) = j /\ Start(j)[j] = w[j]
             /\ w[j] \in Token /\ w[j] \notin separators
  BY <1>1, <1>2 DEF Text, IsRun
<1>3. 0 \in A
  <2>1. Start(1) = <<w[1]>>
    <3>1. Start(1) \in Text /\ Len(Start(1)) = 1 /\ Start(1)[1] = w[1] /\ w[1] \in Token
      BY <1>1, <1>2
    <3> HIDE DEF Start
    <3>2. <<w[1]>> \in Text /\ Len(<<w[1]>>) = 1 /\ <<w[1]>>[1] = w[1]
      BY <3>1 DEF Text
    <3> QED BY <3>1, <3>2, SeqEqual DEF Text
  <2>2. s \o <<w[1]>> = Append(s, w[1])
    BY <1>1, <1>2, AppendIsConcat DEF Text
  <2>3. w[1] \in Token /\ w[1] \notin separators
    BY <1>1, <1>2
  <2> DEFINE t == Append(s, w[1])
  <2>4. /\ t[Len(s) + 1] = w[1]
        /\ Len(s) + 1 > 1 => t[(Len(s) + 1) - 1] = s[Len(s)] /\ s # <<>>
    BY <1>1, <2>3 DEF Text
  <2>5. Runs(t, separators) = RunStep(t, separators, runs, Len(s) + 1)
    BY <2>3, RunsAppend DEF runs
  <2> HIDE DEF t
  <2>6. RunStep(t, separators, runs, Len(s) + 1) = Append(runs, <<w[1]>>)
    BY <2>3, <2>4 DEF RunStep
  <2>7. Runs(s \o Start(1), separators) = Append(runs, Start(1))
    BY <2>1, <2>2, <2>5, <2>6 DEF t
  <2> HIDE DEF Start
  <2> QED BY <2>7, 0 + 1 = 1
<1>4. ASSUME NEW j \in Nat, j \in A PROVE j + 1 \in A
  <2>1. SUFFICES ASSUME (j + 1) + 1 <= Len(w)
        PROVE  Runs(s \o Start((j + 1) + 1), separators) = Append(runs, Start((j + 1) + 1))
    OBVIOUS
  <2> DEFINE i == j + 1
             x == w[i + 1]
             before == s \o Start(i)
             t == Append(before, x)
  <2>2. i \in 1 .. Len(w) /\ i + 1 \in 1 .. Len(w) /\ i \in Nat /\ i # 0
    BY <1>1, <2>1
  <2>3. Runs(before, separators) = Append(runs, Start(i))
    BY <1>4, <1>1, <2>1
  <2> HIDE DEF A
  <2>4. x \in Token /\ x \notin separators /\ Start(i) \in Text /\ Len(Start(i)) = i
    BY <1>2, <2>2
  <2>5. Start(i + 1) = Append(Start(i), x)
    <3>1. SubSeq(w, 1, i + 1) = SubSeq(w, 1, (i + 1) - 1) \o <<w[i + 1]>>
      BY <2>2, SubSeqRecursiveSecond, <1>1 DEF Text
    <3>2. (i + 1) - 1 = i
      BY <2>2
    <3>3. Append(Start(i), x) = Start(i) \o <<x>>
      BY <2>4, AppendIsConcat DEF Text
    <3> HIDE DEF i
    <3> QED BY <3>1, <3>2, <3>3
  <2> HIDE DEF Start, i, x
  <2>6. s \o Append(Start(i), x) = t
    BY <2>4, <1>1 DEF Text
  <2>7. /\ before \in Text /\ Len(before) = Len(s) + i
        /\ before[Len(s) + i] = Start(i)[i]
    BY <2>4, <2>2, <1>1 DEF Text
  <2>8. Start(i)[i] = w[i] /\ w[i] \notin separators
    BY <1>2, <2>2
  <2> HIDE DEF before
  <2>9. /\ t[Len(before) + 1] = x
        /\ Len(before) + 1 > 1
        /\ t[(Len(before) + 1) - 1] = Start(i)[i]
    <3> DEFINE m == Len(before)
    <3>1. m \in Nat /\ m # 0 /\ m = Len(s) + i /\ (m + 1) - 1 = m
      BY <2>2, <2>7, <1>1
    <3>2. t[m + 1] = x /\ t[m] = before[m]
      BY <3>1, <2>4, <2>7, AppendProperties DEF Text
    <3> HIDE DEF m, t
    <3>3. m + 1 > 1
      BY <3>1
    <3> QED BY <3>1, <3>2, <3>3, <2>7 DEF m
  <2>10. Runs(t, separators) = RunStep(t, separators, Append(runs, Start(i)), Len(before) + 1)
    BY <2>3, <2>4, <2>7, RunsAppend
  <2> HIDE DEF t
  <2>11. RunStep(t, separators, Append(runs, Start(i)), Len(before) + 1)
           = [Append(runs, Start(i)) EXCEPT ![Len(Append(runs, Start(i)))] = Append(@, x)]
    BY <2>4, <2>8, <2>9 DEF RunStep
  <2>12. [Append(runs, Start(i)) EXCEPT ![Len(Append(runs, Start(i)))] = Append(@, x)]
           = Append(runs, Append(Start(i), x))
    <3> DEFINE u == Start(i)  v == Append(u, x)
    <3>1. u \in Text /\ v \in Text
      BY <2>4 DEF Text
    <3> HIDE DEF u, v
    <3>2. [Append(runs, u) EXCEPT ![Len(Append(runs, u))] = v] = Append(runs, v)
      <4> DEFINE a == Append(runs, u)  b == Append(runs, v)  m == Len(runs)
      <4>1. /\ a \in Texts /\ b \in Texts /\ Len(a) = m + 1 /\ Len(b) = m + 1 /\ m \in Nat
            /\ b[m + 1] = v /\ \A k \in 1 .. m : a[k] = runs[k] /\ b[k] = runs[k]
        BY <3>1, <1>1, AppendProperties DEF Texts
      <4> HIDE DEF a, b, m
      <4>2. m + 1 \in 1 .. Len(a)
        BY <4>1
      <4> DEFINE e == [a EXCEPT ![m + 1] = v]
      <4>3. e \in Texts /\ Len(e) = m + 1 /\ \A k \in 1 .. Len(a) : e[k] = IF k = m + 1 THEN v ELSE a[k]
        BY <4>1, <4>2, <3>1, ExceptSeq DEF Texts
      <4> HIDE DEF e
      <4>4. \A k \in 1 .. m + 1 : e[k] = b[k]
        BY <4>1, <4>3
      <4>5. e = b
        BY <4>1, <4>3, <4>4, SeqEqual DEF Texts
      <4> QED BY <4>5, <4>1 DEF e, a, b
    <3>3. Append(runs, u)[Len(Append(runs, u))] = u
      BY <3>1, <1>1 DEF Texts
    <3> QED BY <3>2, <3>3 DEF u, v
  <2> QED BY <2>5, <2>6, <2>10, <2>11, <2>12 DEF i
<1>5. Len(w) - 1 \in A
  <2> HIDE DEF A
  <2>1. Len(w) - 1 \in Nat
    BY <1>1
  <2> QED BY <2>1, <1>3, <1>4, Induct
<1>6. Start(Len(w)) = w
  BY SubSeqFull DEF Text
<1>7. (Len(w) - 1) + 1 = Len(w)
  BY <1>1
<1>8. Runs(s \o Start(Len(w)), separators) = Append(runs, Start(Len(w)))
  BY <1>1, <1>5, <1>7
<1> QED BY <1>6, <1>8 DEF runs

-----------------------------------------------------------------------------
(* Join.                                                                   *)

\* The values of the fold that Join is.
JoinOf(J, ps) ==
  /\ J \in [0 .. Len(ps) - 1 -> Text]
  /\ J[0] = ps[1]
  /\ \A i \in 1 .. Len(ps) - 1 : J[i] = J[i - 1] \o <<Space>> \o ps[i + 1]

LEMMA SpaceType == Space \in Token /\ <<Space>> \in Text
<1>1. Space \in Token
  BY DEF WhiteSpace, Token
<1> QED BY <1>1 DEF Text

LEMMA JoinStepType ==
  ASSUME NEW s \in Text, NEW t \in Text
  PROVE  s \o <<Space>> \o t \in Text
  BY SpaceType, ConcatProperties DEF Text

LEMMA JoinUnfold ==
  ASSUME NEW ps \in Texts, ps # <<>>
  PROVE  \E J : JoinOf(J, ps) /\ Join(ps) = J[Len(ps) - 1]
<1> DEFINE rest == Tail(ps)
           first == Head(ps)
           n == Len(rest)
           step == [p \in (1 .. n) \X Text |-> p[2] \o <<Space>> \o rest[p[1]]]
           Solution(g) == g = [S \in SUBSET DOMAIN rest |->
             IF S = {} THEN first ELSE g[S \ {Max(S)}] \o <<Space>> \o rest[Max(S)]]
           iter == CHOOSE g : Solution(g)
<1>1. /\ n \in Nat /\ n = Len(ps) - 1 /\ DOMAIN rest = 1 .. n
      /\ first \in Text /\ first = ps[1]
      /\ \A i \in 1 .. n : rest[i] = ps[i + 1] /\ rest[i] \in Text
  <2>1. /\ Head(ps) \in Text /\ Tail(ps) \in Seq(Text) /\ Len(Tail(ps)) = Len(ps) - 1
        /\ \A i \in 1 .. Len(Tail(ps)) : Tail(ps)[i] = ps[i + 1]
    BY HeadTailProperties DEF Texts
  <2>2. Head(ps) = ps[1]
    BY DEF Texts
  <2>3. /\ Len(Tail(ps)) \in Nat /\ DOMAIN Tail(ps) = 1 .. Len(Tail(ps))
        /\ \A i \in 1 .. Len(Tail(ps)) : Tail(ps)[i] \in Text
    BY <2>1, LenProperties, ElementOfSeq
  <2> QED BY <2>1, <2>2, <2>3
<1>2. Join(ps) = iter[DOMAIN rest]
  BY DEF Join, FoldLeft, MapThenFoldSet
<1> HIDE DEF n, first, rest
<1>3. step \in [(1 .. n) \X Text -> Text]
  BY <1>1, JoinStepType
<1>4. PICK g : IsFold(g, n, Text, first, step)
  <2> HIDE DEF step
  <2> QED BY <1>1, <1>3, FoldExists
<1> USE DEF IsFold
<1>5. ASSUME NEW S \in SUBSET (1 .. n), S # {}
      PROVE  step[Max(S), g[S \ {Max(S)}]] = g[S \ {Max(S)}] \o <<Space>> \o rest[Max(S)]
  <2>1. Max(S) \in 1 .. n /\ S \ {Max(S)} \in SUBSET (1 .. n)
    BY <1>1, <1>5, Greatest
  <2>2. <<Max(S), g[S \ {Max(S)}]>> \in (1 .. n) \X Text
    BY <2>1, <1>4
  <2> QED BY <1>1, <2>1, <2>2
<1> HIDE DEF step
<1>6. Solution(g)
  <2>1. \A S \in SUBSET DOMAIN rest :
          g[S] = IF S = {} THEN first ELSE g[S \ {Max(S)}] \o <<Space>> \o rest[Max(S)]
    BY <1>1, <1>4, <1>5
  <2> QED BY <2>1, <1>1, <1>4
<1>7. Solution(iter)
  BY <1>6
<1> HIDE DEF iter
<1> DEFINE J == [i \in 0 .. n |-> iter[1 .. i]]
<1>8. J[0] = first
  <2>1. 1 .. 0 = {} /\ 1 .. 0 \in SUBSET DOMAIN rest
    BY <1>1
  <2> QED BY <1>1, <1>7, <2>1
<1>9. ASSUME NEW i \in 1 .. n PROVE J[i] = J[i - 1] \o <<Space>> \o rest[i]
  <2> HIDE DEF J, Solution
  <2>1. /\ 1 .. i \in SUBSET (1 .. n) /\ i \in 1 .. i
        /\ i \in Nat /\ i # 0 /\ i \in 0 .. n /\ i - 1 \in 0 .. n
    BY <1>1
  <2> USE DEF J, Solution
  <2>2. Max(1 .. i) = i /\ (1 .. i) \ {Max(1 .. i)} = 1 .. (i - 1)
    BY <2>1, GreatestOfInterval
  <2>3. iter[1 .. i] = iter[1 .. (i - 1)] \o <<Space>> \o rest[i]
    BY <1>1, <1>7, <2>1, <2>2
  <2> QED BY <2>1, <2>3
<1> HIDE DEF J, Solution
<1>10. \A i \in 0 .. n : J[i] \in Text
  <2>1. ASSUME NEW i \in 1 .. n, J[i - 1] \in Text PROVE J[i] \in Text
    BY <1>1, <1>9, <2>1, JoinStepType
  <2> QED BY <1>1, <1>8, <2>1, Recursion
<1>11. J \in [0 .. n -> Text]
  BY <1>10 DEF J
<1>12. Join(ps) = J[n]
  BY <1>1, <1>2 DEF J
<1>13. JoinOf(J, ps)
  BY <1>1, <1>8, <1>9, <1>11 DEF JoinOf
<1> QED BY <1>1, <1>12, <1>13

LEMMA JoinUnique ==
  ASSUME NEW ps \in Texts, NEW qs \in Texts, NEW n \in Nat, n < Len(ps), n < Len(qs),
         \A i \in 1 .. n + 1 : ps[i] = qs[i],
         NEW J, JoinOf(J, ps), NEW K, JoinOf(K, qs)
  PROVE  J[n] = K[n]
<1> DEFINE A == {i \in Nat : i <= n => J[i] = K[i]}
<1>1. 0 \in A
  BY DEF JoinOf
<1>2. ASSUME NEW i \in Nat, i \in A PROVE i + 1 \in A
  <2>1. SUFFICES ASSUME i + 1 <= n PROVE J[i + 1] = K[i + 1]
    OBVIOUS
  <2>2. Len(ps) \in Nat /\ Len(qs) \in Nat
    BY DEF Texts
  <2>3. i + 1 \in 1 .. Len(ps) - 1 /\ i + 1 \in 1 .. Len(qs) - 1 /\ (i + 1) - 1 = i
        /\ (i + 1) + 1 \in 1 .. n + 1
    BY <2>1, <2>2
  <2>4. J[i] = K[i]
    BY <1>2, <2>1
  <2>5. J[i + 1] = J[i] \o <<Space>> \o ps[(i + 1) + 1] /\ K[i + 1] = K[i] \o <<Space>> \o qs[(i + 1) + 1]
    BY <2>3 DEF JoinOf
  <2> QED BY <2>3, <2>4, <2>5
<1> HIDE DEF A
<1>3. Nat \subseteq A
  BY <1>1, <1>2, Induct
<1> QED BY <1>3 DEF A

LEMMA JoinOfNothing == Join(<<>>) = <<>>
  BY DEF Join

\* One more part: a space and the part, or the part alone if it is the first.
LEMMA JoinAppend ==
  ASSUME NEW ps \in Texts, NEW p \in Text
  PROVE  /\ Join(ps) \in Text
         /\ Join(Append(ps, p)) = IF ps = <<>> THEN p ELSE Join(ps) \o <<Space>> \o p
<1> DEFINE qs == Append(ps, p)
           n  == Len(ps)
<1>1. /\ n \in Nat /\ qs \in Texts /\ qs # <<>> /\ Len(qs) = n + 1
      /\ qs[n + 1] = p /\ \A i \in 1 .. n : ps[i] = qs[i]
  BY AppendProperties, LenProperties DEF Texts
<1> HIDE DEF qs
<1>2. PICK K : JoinOf(K, qs) /\ Join(qs) = K[Len(qs) - 1]
  BY <1>1, JoinUnfold
<1>3. (n + 1) - 1 = n
  BY <1>1
<1>4. CASE ps = <<>>
  <2>1. n = 0
    BY <1>4
  <2>2. Join(ps) \in Text
    <3>1. Join(ps) = <<>>
      BY <1>4, JoinOfNothing
    <3>2. <<>> \in Text
      BY EmptySeq DEF Text
    <3> HIDE DEF n
    <3> QED BY <3>1, <3>2
  <2> HIDE DEF n
  <2> QED BY <1>1, <1>2, <1>3, <1>4, <2>1, <2>2 DEF JoinOf, qs
<1>5. CASE ps # <<>>
  <2>1. PICK J : JoinOf(J, ps) /\ Join(ps) = J[Len(ps) - 1]
    BY <1>5, JoinUnfold
  <2>2. n # 0 /\ n - 1 \in Nat /\ n - 1 \in 0 .. n - 1 /\ (n - 1) + 1 = n
    BY <1>1, <1>5, EmptySeq DEF Texts
  <2>3. J[n - 1] = K[n - 1]
    <3>1. n - 1 < Len(ps) /\ n - 1 < Len(qs) /\ \A i \in 1 .. (n - 1) + 1 : ps[i] = qs[i]
      BY <1>1, <2>2
    <3> HIDE DEF n
    <3> QED BY <3>1, <1>1, <1>2, <2>1, <2>2, JoinUnique
  <2>4. n \in 1 .. Len(qs) - 1
    BY <1>1, <2>2
  <2>5. K[n] = K[n - 1] \o <<Space>> \o qs[n + 1]
    BY <1>2, <2>4 DEF JoinOf
  <2>6. J[n - 1] \in Text
    BY <2>1, <2>2 DEF JoinOf
  <2> QED BY <1>1, <1>2, <1>3, <1>5, <2>1, <2>3, <2>5, <2>6 DEF qs
<1> QED BY <1>4, <1>5

\* What is joined with spaces is split where it was joined: a list of words that
\* chunk joined (normalizer.py:17-22), and the planner reads joined again
\* (orchestrator.py:90), is the same list, whatever the words.
THEOREM WordsOfJoin ==
  ASSUME NEW ws \in RunsApart(WhiteSpace)
  PROVE  ws \in Texts /\ Join(ws) \in Text /\ Words(Join(ws)) = ws
<1> DEFINE W == {w \in Text : IsRun(w, WhiteSpace)}
           Start(i) == SubSeq(ws, 1, i)
           A == {i \in Nat : i <= Len(ws) => Words(Join(Start(i))) = Start(i)}
<1>1. ws \in Seq(W) /\ ws \in Texts /\ Len(ws) \in Nat
  <2>1. ws \in Seq(W) /\ W \subseteq Text
    BY DEF RunsApart
  <2> HIDE DEF W
  <2> QED BY <2>1, SeqMonotonic DEF Texts
<1>2. ASSUME NEW i \in 0 .. Len(ws)
      PROVE  Start(i) \in Texts /\ Len(Start(i)) = i /\ (Start(i) = <<>> <=> i = 0)
  BY <1>1 DEF Texts
<1>3. 0 \in A
  <2>1. Start(0) = <<>>
    BY <1>1, <1>2
  <2> HIDE DEF Start
  <2>2. Words(Join(Start(0))) = Start(0)
    BY <2>1, JoinOfNothing, RunsOfNothing DEF Words
  <2> QED BY <2>2
<1>4. ASSUME NEW i \in Nat, i \in A PROVE i + 1 \in A
  <2>1. SUFFICES ASSUME i + 1 <= Len(ws) PROVE Words(Join(Start(i + 1))) = Start(i + 1)
    OBVIOUS
  <2>2. i \in 0 .. Len(ws) /\ i + 1 \in 1 .. Len(ws) /\ (i + 1) - 1 = i
    BY <1>1, <2>1
  <2> DEFINE w == ws[i + 1]  ps == Start(i)  s == Join(ps)  t == Append(s, Space)
  <2>3. Words(s) = ps
    BY <1>4, <2>2
  <2> HIDE DEF A
  <2>4. ps \in Texts /\ (ps = <<>> <=> i = 0)
    BY <1>2, <2>2
  <2>5. w \in Text /\ IsRun(w, WhiteSpace)
    BY <1>1, <2>2
  <2>6. Start(i + 1) = Append(ps, w)
    <3>1. SubSeq(ws, 1, i + 1) = SubSeq(ws, 1, (i + 1) - 1) \o <<ws[i + 1]>>
      <4>1. 1 \in 1 .. Len(ws) /\ i + 1 \in 1 .. Len(ws)
        BY <1>1, <2>2
      <4> QED BY <4>1, <1>1, SubSeqRecursiveSecond DEF Texts
    <3> HIDE DEF w, ps
    <3>2. Append(ps, w) = ps \o <<w>>
      BY <2>4, <2>5, AppendIsConcat DEF Texts
    <3> QED BY <3>1, <3>2, <2>2 DEF w, ps
  <2> HIDE DEF w, ps, Start
  <2>7. s \in Text /\ Join(Append(ps, w)) = IF ps = <<>> THEN w ELSE s \o <<Space>> \o w
    BY <2>4, <2>5, JoinAppend
  <2> HIDE DEF s
  <2>8. CASE ps = <<>>
    <3>1. Runs(<<>> \o w, WhiteSpace) = Append(Runs(<<>>, WhiteSpace), w)
      <4>1. <<>> \in Text
        BY EmptySeq DEF Text
      <4> QED BY <4>1, <2>5, RunsWord
    <3>2. <<>> \o w = w
      BY <2>5, ConcatEmptySeq DEF Text
    <3>3. Words(w) = Append(<<>>, w)
      BY <3>1, <3>2, RunsOfNothing DEF Words
    <3> QED BY <3>3, <2>6, <2>7, <2>8
  <2>9. CASE ps # <<>>
    <3>1. t \in Text /\ t[Len(t)] = Space /\ Space \in WhiteSpace /\ t = s \o <<Space>>
      <4>1. Append(s, Space) \in Text /\ Append(s, Space) = s \o <<Space>>
            /\ Len(Append(s, Space)) = Len(s) + 1 /\ Append(s, Space)[Len(s) + 1] = Space
        BY <2>7, SpaceType, AppendProperties, AppendIsConcat DEF Text
      <4> QED BY <4>1 DEF WhiteSpace
    <3>2. Runs(t, WhiteSpace) = Runs(s, WhiteSpace)
      BY <3>1, <2>7, SpaceType, RunsSeparator
    <3> HIDE DEF t
    <3>3. Runs(t \o w, WhiteSpace) = Append(Runs(t, WhiteSpace), w)
      BY <3>1, <2>5, RunsWord
    <3> QED BY <3>1, <3>2, <3>3, <2>3, <2>6, <2>7, <2>9 DEF Words
  <2> QED BY <2>8, <2>9
<1>5. Len(ws) \in A
  <2> HIDE DEF A
  <2> QED BY <1>1, <1>3, <1>4, Induct
<1>6. Start(Len(ws)) = ws
  BY <1>1, SubSeqFull DEF Texts
<1>7. Join(ws) \in Text
  <2>1. \E x : x \in Text
    BY EmptySeq DEF Text
  <2> QED BY <2>1, <1>1, JoinAppend
<1>8. Words(Join(Start(Len(ws)))) = Start(Len(ws))
  <2> HIDE DEF Start
  <2> QED BY <1>1, <1>5
<1> QED BY <1>1, <1>6, <1>7, <1>8

-----------------------------------------------------------------------------
(* Normalize and Chunk.                                                    *)

\* What Replace makes of the tokens from i on.
ReplaceStep(s, old, new, g, i) ==
  IF i > Len(s) THEN <<>>
  ELSE IF IsPrefixAt(old, s, i) THEN new \o g[i + Len(old)]
  ELSE <<s[i]>> \o g[i + 1]

LEMMA ReplaceStepType ==
  ASSUME NEW s \in Text, NEW old \in Text, old # <<>>, NEW new \in Text,
         NEW i \in 1 .. Len(s) + 1, NEW g,
         \A j \in i + 1 .. Len(s) + 1 : g[j] \in Text
  PROVE  /\ ReplaceStep(s, old, new, g, i) \in Text
         /\ \A h : (\A j \in i + 1 .. Len(s) + 1 : h[j] = g[j])
                  => ReplaceStep(s, old, new, h, i) = ReplaceStep(s, old, new, g, i)
<1>1. Len(s) \in Nat /\ Len(old) \in Nat \ {0}
  BY EmptySeq DEF Text
<1>2. CASE i > Len(s)
  BY <1>2, EmptySeq DEF ReplaceStep, Text
<1>3. CASE i <= Len(s)
  <2>1. s[i] \in Token /\ <<s[i]>> \in Text /\ i + 1 \in i + 1 .. Len(s) + 1 /\ ~(i > Len(s))
    BY <1>1, <1>3 DEF Text
  <2>2. <<s[i]>> \o g[i + 1] \in Text
    BY <2>1, ConcatProperties DEF Text
  <2>3. CASE ~IsPrefixAt(old, s, i)
    BY <2>1, <2>2, <2>3 DEF ReplaceStep
  <2>4. CASE IsPrefixAt(old, s, i)
    <3>1. i + Len(old) \in i + 1 .. Len(s) + 1
      BY <1>1, <2>4 DEF IsPrefixAt
    <3>2. new \o g[i + Len(old)] \in Text
      BY <3>1, ConcatProperties DEF Text
    <3> QED BY <2>1, <2>4, <3>1, <3>2 DEF ReplaceStep
  <2> QED BY <2>3, <2>4
<1> QED BY <1>1, <1>2, <1>3

ReplaceOf(F, s, old, new) ==
  /\ F \in [1 .. Len(s) + 1 -> Text]
  /\ \A i \in 1 .. Len(s) + 1 : F[i] = ReplaceStep(s, old, new, F, i)

LEMMA ReplaceUnfold ==
  ASSUME NEW s \in Text, NEW old \in Text, old # <<>>, NEW new \in Text
  PROVE  \E F : ReplaceOf(F, s, old, new) /\ Replace(s, old, new) = F[1]
<1> DEFINE n == Len(s)
           Solves(g, m) == /\ g \in [n + 1 - m .. n + 1 -> Text]
                           /\ \A i \in n + 1 - m .. n + 1 : g[i] = ReplaceStep(s, old, new, g, i)
           A == {m \in Nat : m <= n => \E g : Solves(g, m)}
           Solution(g) == g = [i \in 1 .. Len(s) + 1 |-> ReplaceStep(s, old, new, g, i)]
           F == CHOOSE g : Solution(g)
<1>1. n \in Nat
  BY DEF Text
<1>2. Replace(s, old, new) = F[1]
  BY DEF Replace, ReplaceStep
<1> HIDE DEF F
<1>3. 0 \in A
  <2> DEFINE g == [i \in n + 1 - 0 .. n + 1 |-> <<>>]
  <2>1. n + 1 - 0 = n + 1 /\ \A i \in n + 1 .. n + 1 : i > n
    BY <1>1
  <2>2. <<>> \in Text
    BY EmptySeq DEF Text
  <2>3. Solves(g, 0)
    BY <2>1, <2>2 DEF ReplaceStep
  <2> QED BY <2>3
<1>4. ASSUME NEW m \in Nat, m \in A PROVE m + 1 \in A
  <2> HIDE DEF Solves
  <2>1. SUFFICES ASSUME m + 1 <= n PROVE \E g : Solves(g, m + 1)
    OBVIOUS
  <2>2. PICK g : Solves(g, m)
    BY <1>1, <1>4, <2>1
  <2> HIDE DEF A
  <2> DEFINE lo == n + 1 - m
             h == [i \in lo - 1 .. n + 1 |-> ReplaceStep(s, old, new, g, i)]
  <2>3. lo \in 2 .. n + 1 /\ n + 1 - (m + 1) = lo - 1
    BY <1>1, <2>1
  <2>4. g \in [lo .. n + 1 -> Text] /\ \A i \in lo .. n + 1 : g[i] = ReplaceStep(s, old, new, g, i)
    BY <2>2 DEF Solves
  <2> HIDE DEF lo, n
  <2>5. ASSUME NEW i \in lo - 1 .. n + 1
        PROVE  /\ i \in 1 .. n + 1
               /\ \A j \in i + 1 .. n + 1 : g[j] \in Text /\ j \in lo .. n + 1 /\ j \in lo - 1 .. n + 1
    BY <1>1, <2>3, <2>4
  <2>6. ASSUME NEW i \in lo - 1 .. n + 1
        PROVE  /\ h[i] \in Text
               /\ \A f : (\A j \in i + 1 .. n + 1 : f[j] = g[j]) => h[i] = ReplaceStep(s, old, new, f, i)
    <3>1. /\ ReplaceStep(s, old, new, g, i) \in Text
          /\ \A f : (\A j \in i + 1 .. n + 1 : f[j] = g[j])
                   => ReplaceStep(s, old, new, f, i) = ReplaceStep(s, old, new, g, i)
      BY <2>5, ReplaceStepType DEF n
    <3> QED BY <3>1
  <2>7. \A j \in lo .. n + 1 : j \in lo - 1 .. n + 1 /\ h[j] = g[j]
    BY <1>1, <2>3, <2>4
  <2>8. ASSUME NEW i \in lo - 1 .. n + 1 PROVE h[i] = ReplaceStep(s, old, new, h, i)
    BY <2>5, <2>6, <2>7
  <2>9. h \in [lo - 1 .. n + 1 -> Text]
    BY <2>6
  <2> HIDE DEF h
  <2>10. Solves(h, m + 1)
    BY <2>3, <2>8, <2>9 DEF Solves
  <2> QED BY <2>10
<1> HIDE DEF A, Solves
<1>5. PICK g : Solves(g, n)
  <2>1. n \in A
    <3> HIDE DEF n
    <3> QED BY <1>1, <1>3, <1>4, Induct
  <2> QED BY <1>1, <2>1 DEF A
<1>6. n + 1 - n = 1
  BY <1>1
<1>7. Solution(g) /\ g \in [1 .. n + 1 -> Text]
  BY <1>5, <1>6 DEF Solves
<1>8. Solution(F)
  BY <1>7 DEF F
<1> DEFINE B == {m \in Nat : \A j \in 0 .. m : j <= n => F[n + 1 - j] \in Text}
<1>9. ASSUME NEW i \in 1 .. n + 1, \A j \in i + 1 .. n + 1 : F[j] \in Text
      PROVE  F[i] \in Text
  <2>1. F[i] = ReplaceStep(s, old, new, F, i)
    BY <1>8
  <2> QED BY <2>1, <1>9, ReplaceStepType
<1> HIDE DEF Solution, n
<1>10. 0 \in B
  <2>1. n + 1 - 0 \in 1 .. n + 1 /\ \A j \in (n + 1 - 0) + 1 .. n + 1 : FALSE
    BY <1>1
  <2> QED BY <2>1, <1>9
<1>11. ASSUME NEW m \in Nat, m \in B PROVE m + 1 \in B
  <2>1. SUFFICES ASSUME m + 1 <= n PROVE F[n + 1 - (m + 1)] \in Text
    BY <1>1, <1>11
  <2>2. n + 1 - (m + 1) \in 1 .. n + 1
    BY <1>1, <2>1
  <2>3. ASSUME NEW j \in (n + 1 - (m + 1)) + 1 .. n + 1 PROVE F[j] \in Text
    <3>1. n + 1 - j \in 0 .. m /\ n + 1 - j <= n /\ n + 1 - (n + 1 - j) = j
      BY <1>1, <2>1
    <3> QED BY <3>1, <1>11
  <2> QED BY <2>2, <2>3, <1>9
<1>12. n \in B
  <2> HIDE DEF B
  <2> QED BY <1>1, <1>10, <1>11, Induct
<1>13. ASSUME NEW i \in 1 .. n + 1 PROVE F[i] \in Text
  <2>1. n + 1 - i \in 0 .. n /\ n + 1 - (n + 1 - i) = i
    BY <1>1
  <2> QED BY <1>1, <1>12, <2>1
<1>14. ReplaceOf(F, s, old, new)
  BY <1>8, <1>13 DEF ReplaceOf, Solution, n
<1> QED BY <1>2, <1>14

LEMMA StripType ==
  ASSUME NEW s \in Text
  PROVE  Strip(s) \in Text
<1> DEFINE solid == {i \in DOMAIN s : s[i] \notin WhiteSpace}
           a == CHOOSE i \in solid : \A j \in solid : i <= j
           b == CHOOSE i \in solid : \A j \in solid : i >= j
<1>1. Len(s) \in Nat /\ DOMAIN s = 1 .. Len(s) /\ \A i \in 1 .. Len(s) : s[i] \in Token
  BY DEF Text
<1>2. CASE solid = {}
  <2>1. <<>> \in Text
    BY EmptySeq DEF Text
  <2> QED BY <1>2, <2>1 DEF Strip
<1>3. CASE solid # {}
  <2>1. solid \in SUBSET (1 .. Len(s)) /\ solid \in SUBSET Nat
    BY <1>1
  <2> HIDE DEF solid
  <2>2. a \in solid
    BY <2>1, <1>3, Least
  <2>3. b \in solid
    <3>1. Max(solid) \in solid /\ \A y \in solid : y <= Max(solid)
      BY <1>1, <1>3, <2>1, Greatest
    <3>2. \A y \in solid : Max(solid) >= y
      BY <2>1, <3>1
    <3> QED BY <3>1, <3>2
  <2>4. Strip(s) = SubSeq(s, a, b)
    BY <1>3 DEF Strip, solid
  <2> HIDE DEF a, b
  <2>5. a \in Int /\ b \in Int /\ \A i \in a .. b : s[i] \in Token
    BY <1>1, <2>1, <2>2, <2>3
  <2> QED BY <2>4, <2>5, SubSeqProperties DEF Text
<1> QED BY <1>2, <1>3

LEMMA PaddedType ==
  ASSUME NEW s \in Text
  PROVE  Padded(s) \in Text /\ Padded(s) # <<>>
<1>1. <<Space>> \o s \in Text /\ Len(<<Space>> \o s) = 1 + Len(s) /\ Len(s) \in Nat
  BY SpaceType, ConcatProperties DEF Text
<1>2. Padded(s) \in Text /\ Len(Padded(s)) = 1 + Len(s) + 1
  BY <1>1, SpaceType, ConcatProperties DEF Text, Padded
<1>3. Len(Padded(s)) # 0
  BY <1>1, <1>2
<1> QED BY <1>2, <1>3, EmptySeq

LEMMA FillersType == Len(Fillers) = 4 /\ DOMAIN Fillers = 1 .. 4 /\ \A i \in 1 .. 4 : Fillers[i] \in Text
<1>1. /\ "um" \in Token /\ "uh" \in Token /\ "you" \in Token /\ "know" \in Token
      /\ "like" \in Token /\ Space \in Token
  BY DEF Token, WhiteSpace
<1>2. /\ <<"um">> \in Text /\ <<"uh">> \in Text /\ <<"you", Space, "know">> \in Text
      /\ <<"like">> \in Text
  BY <1>1 DEF Text
<1> QED BY <1>2 DEF Fillers

LEMMA ReplaceType ==
  ASSUME NEW s \in Text, NEW i \in 1 .. 4
  PROVE  Replace(s, Padded(Fillers[i]), <<Space>>) \in Text
<1>1. Padded(Fillers[i]) \in Text /\ Padded(Fillers[i]) # <<>>
  BY FillersType, PaddedType
<1> DEFINE old == Padded(Fillers[i])
<1> HIDE DEF old
<1>2. PICK F : ReplaceOf(F, s, old, <<Space>>) /\ Replace(s, old, <<Space>>) = F[1]
  BY <1>1, SpaceType, ReplaceUnfold DEF old
<1>3. 1 \in 1 .. Len(s) + 1
  BY DEF Text
<1> QED BY <1>2, <1>3 DEF ReplaceOf, old

\* The text while the fillers are dropped, one kind after the other.
NormalizeOf(F, s) ==
  /\ F \in [0 .. 4 -> Text]
  /\ F[0] = Padded(Strip(s))
  /\ \A i \in 1 .. 4 : F[i] = Replace(F[i - 1], Padded(Fillers[i]), <<Space>>)

LEMMA NormalizeUnfold ==
  ASSUME NEW s \in Text
  PROVE  \E F : NormalizeOf(F, s) /\ Normalize(s) = Join(Words(F[4]))
<1> DEFINE base == Padded(Strip(s))
           step == [p \in (1 .. 4) \X Text |-> Replace(p[2], Padded(Fillers[p[1]]), <<Space>>)]
           Solution(g) == g = [S \in SUBSET DOMAIN Fillers |->
             IF S = {} THEN base ELSE Replace(g[S \ {Max(S)}], Padded(Fillers[Max(S)]), <<Space>>)]
           iter == CHOOSE g : Solution(g)
<1>1. base \in Text /\ DOMAIN Fillers = 1 .. 4
  BY StripType, PaddedType, FillersType
<1>2. Normalize(s) = Join(Words(iter[DOMAIN Fillers]))
  BY DEF Normalize, FoldLeft, MapThenFoldSet
<1> HIDE DEF base
<1>3. step \in [(1 .. 4) \X Text -> Text]
  BY ReplaceType
<1>4. PICK g : IsFold(g, 4, Text, base, step)
  <2> HIDE DEF step
  <2> QED BY <1>1, <1>3, FoldExists
<1> USE DEF IsFold
<1>5. ASSUME NEW S \in SUBSET (1 .. 4), S # {}
      PROVE  step[Max(S), g[S \ {Max(S)}]]
               = Replace(g[S \ {Max(S)}], Padded(Fillers[Max(S)]), <<Space>>)
  <2>1. Max(S) \in 1 .. 4 /\ S \ {Max(S)} \in SUBSET (1 .. 4)
    BY <1>5, Greatest
  <2>2. <<Max(S), g[S \ {Max(S)}]>> \in (1 .. 4) \X Text
    BY <2>1, <1>4
  <2> QED BY <2>1, <2>2
<1> HIDE DEF step
<1>6. Solution(g)
  <2>1. \A S \in SUBSET DOMAIN Fillers :
          g[S] = IF S = {} THEN base
                 ELSE Replace(g[S \ {Max(S)}], Padded(Fillers[Max(S)]), <<Space>>)
    BY <1>1, <1>4, <1>5
  <2> QED BY <2>1, <1>1, <1>4
<1>7. Solution(iter)
  BY <1>6
<1> HIDE DEF iter
<1> DEFINE F == [i \in 0 .. 4 |-> iter[1 .. i]]
<1>8. F[0] = base
  <2>1. 1 .. 0 = {} /\ 1 .. 0 \in SUBSET DOMAIN Fillers
    BY <1>1
  <2> QED BY <1>1, <1>7, <2>1
<1>9. ASSUME NEW i \in 1 .. 4 PROVE F[i] = Replace(F[i - 1], Padded(Fillers[i]), <<Space>>)
  <2> HIDE DEF F, Solution
  <2>1. /\ 1 .. i \in SUBSET (1 .. 4) /\ i \in 1 .. i
        /\ i \in Nat /\ i # 0 /\ i \in 0 .. 4 /\ i - 1 \in 0 .. 4
    OBVIOUS
  <2> USE DEF F, Solution
  <2>2. Max(1 .. i) = i /\ (1 .. i) \ {Max(1 .. i)} = 1 .. (i - 1)
    BY <2>1, GreatestOfInterval
  <2>3. iter[1 .. i] = Replace(iter[1 .. (i - 1)], Padded(Fillers[i]), <<Space>>)
    BY <1>1, <1>7, <2>1, <2>2
  <2> QED BY <2>1, <2>3
<1> HIDE DEF F, Solution
<1>10. \A i \in 0 .. 4 : F[i] \in Text
  <2>1. ASSUME NEW i \in 1 .. 4, F[i - 1] \in Text PROVE F[i] \in Text
    BY <1>9, <2>1, ReplaceType
  <2> QED BY <1>1, <1>8, <2>1, Recursion
<1>11. F \in [0 .. 4 -> Text]
  BY <1>10 DEF F
<1>12. Normalize(s) = Join(Words(F[4]))
  BY <1>1, <1>2 DEF F
<1>13. NormalizeOf(F, s)
  BY <1>8, <1>9, <1>11 DEF NormalizeOf, base
<1> QED BY <1>12, <1>13

LEMMA NormalizeType ==
  ASSUME NEW s \in Text
  PROVE  Normalize(s) \in Text
<1>1. PICK F : NormalizeOf(F, s) /\ Normalize(s) = Join(Words(F[4]))
  BY NormalizeUnfold
<1>2. F[4] \in Text
  BY <1>1 DEF NormalizeOf
<1>3. Words(F[4]) \in RunsApart(WhiteSpace)
  BY <1>2, RunsType DEF Words
<1> QED BY <1>1, <1>3, WordsOfJoin

\* n words in groups of size: all but the last are full, and it is not empty.
LEMMA GroupSizes ==
  ASSUME NEW n \in Nat, n # 0, NEW size \in Nat, size # 0, NEW count,
         count = (n + size - 1) \div size
  PROVE  /\ count \in Nat \ {0}
         /\ \A i \in 1 .. count - 1 : i * size < n
         /\ (count - 1) * size < n
         /\ n <= count * size
<1>1. /\ count \in Int /\ count * size <= n + size - 1 /\ n + size - 1 < count * size + size
  <2>1. n + size - 1 \in Nat
    OBVIOUS
  <2> DEFINE m == n + size - 1
  <2> HIDE DEF m
  <2>2. m \div size \in Int /\ size * (m \div size) <= m /\ m < size * (m \div size) + size
    BY <2>1 DEF m
  <2> QED BY <2>2 DEF m
<1>2. count >= 1
  <2>1. SUFFICES ASSUME count <= 0 PROVE FALSE
    BY <1>1
  <2>2. count * size <= 0
    BY <2>1, <1>1
  <2> QED BY <1>1, <2>2
<1>3. (count - 1) * size = count * size - size
  BY <1>1
<1>4. ASSUME NEW i \in 1 .. count - 1 PROVE i * size < n
  <2>1. i <= count - 1 /\ i \in Int
    BY <1>1
  <2>2. i * size <= (count - 1) * size
    BY <1>1, <2>1
  <2> QED BY <1>1, <1>3, <2>1, <2>2
<1> QED BY <1>1, <1>2, <1>3, <1>4

\* The words of a chunk are its group of the words of the text.
LEMMA ChunkWords ==
  ASSUME NEW s \in Text, NEW size \in Nat, size # 0
  PROVE  /\ Chunk(s, size) \in Texts /\ Chunk(s, size) # <<>>
         /\ \/ Words(s) = <<>> /\ Chunk(s, size) = << <<>> >>
            \/ /\ Words(s) # <<>>
               /\ Len(Chunk(s, size)) = (Len(Words(s)) + size - 1) \div size
               /\ \A i \in 1 .. Len(Chunk(s, size)) :
                    /\ Words(Chunk(s, size)[i])
                         = SubSeq(Words(s), (i - 1) * size + 1,
                                  IF i * size < Len(Words(s)) THEN i * size ELSE Len(Words(s)))
                    /\ Len(Words(Chunk(s, size)[i]))
                         = IF i < Len(Chunk(s, size)) THEN size
                           ELSE Len(Words(s)) - (i - 1) * size
                    /\ Len(Words(Chunk(s, size)[i])) \in 1 .. size
<1> DEFINE words == Words(s)
           n == Len(words)
           count == (n + size - 1) \div size
           End(i) == IF i * size < n THEN i * size ELSE n
           Group(i) == SubSeq(words, (i - 1) * size + 1, End(i))
           chunks == Chunk(s, size)
           W == {w \in Text : IsRun(w, WhiteSpace)}
<1>1. words \in Seq(W)
  BY RunsType DEF Words, RunsApart
<1>2. CASE words = <<>>
  <2>1. chunks = << <<>> >>
    BY <1>2 DEF Chunk
  <2>2. <<>> \in Text
    BY EmptySeq DEF Text
  <2>3. << <<>> >> \in Texts /\ << <<>> >> # <<>>
    BY <2>2 DEF Texts
  <2> QED BY <1>2, <2>1, <2>3
<1>3. CASE words # <<>>
  <2> HIDE DEF W
  <2>1. n \in Nat /\ n # 0
    BY <1>1, <1>3, EmptySeq
  <2>2. /\ count \in Nat \ {0}
        /\ \A i \in 1 .. count - 1 : i * size < n
        /\ (count - 1) * size < n
        /\ n <= count * size
    <3> HIDE DEF n
    <3> QED BY <2>1, GroupSizes
  <2>3. chunks = [i \in 1 .. count |-> Join(Group(i))]
    BY <1>3 DEF Chunk
  <2> HIDE DEF count, chunks, n, words
  <2>4. ASSUME NEW i \in 1 .. count
        PROVE  /\ (i - 1) * size + 1 \in 1 .. n
               /\ End(i) \in 1 .. n
               /\ End(i) - ((i - 1) * size + 1) + 1 = IF i < count THEN size ELSE n - (i - 1) * size
               /\ End(i) - ((i - 1) * size + 1) + 1 \in 1 .. size
    <3>0. i * size = (i - 1) * size + size /\ i * size \in Nat /\ (i - 1) * size \in Nat
      BY <2>2
    <3>1. CASE i < count
      <4>1. i * size < n
        BY <2>2, <3>1
      <4> QED BY <2>1, <3>0, <3>1, <4>1
    <3>2. CASE i = count
      <4> DEFINE x == (i - 1) * size  y == i * size
      <4>1. x < n /\ n <= y /\ y = x + size /\ x \in Nat /\ y \in Nat
        BY <2>2, <3>0, <3>2
      <4>2. End(i) = IF y < n THEN y ELSE n
        OBVIOUS
      <4> HIDE DEF x, y, End
      <4>3. End(i) = n
        BY <2>1, <4>1, <4>2
      <4>4. /\ x + 1 \in 1 .. n /\ n \in 1 .. n /\ n - (x + 1) + 1 = n - x
            /\ n - (x + 1) + 1 \in 1 .. size
        BY <2>1, <4>1
      <4>5. /\ x + 1 \in 1 .. n /\ End(i) \in 1 .. n
            /\ End(i) - (x + 1) + 1 = IF i < count THEN size ELSE n - x
            /\ End(i) - (x + 1) + 1 \in 1 .. size
        BY <2>2, <3>2, <4>3, <4>4
      <4> QED BY <4>5 DEF x
    <3>3. i < count \/ i = count
      BY <2>2
    <3> QED BY <3>1, <3>2, <3>3, Zenon
  <2>5. ASSUME NEW i \in 1 .. count
        PROVE  /\ Group(i) \in Seq(W)
               /\ Len(Group(i)) = End(i) - ((i - 1) * size + 1) + 1
    <3> DEFINE a == (i - 1) * size + 1  b == End(i)
    <3>1. a \in 1 .. n /\ b \in 1 .. n /\ b - a + 1 \in 1 .. size
      BY <2>4
    <3> HIDE DEF a, b, End
    <3>2. a \in Int /\ b \in Int /\ a <= b /\ \A j \in a .. b : words[j] \in W
      BY <1>1, <2>1, <3>1, ElementOfSeq DEF n
    <3>3. SubSeq(words, a, b) \in Seq(W) /\ Len(SubSeq(words, a, b)) = b - a + 1
      BY <3>2, SubSeqProperties
    <3> QED BY <3>3 DEF a, b
  <2>6. ASSUME NEW i \in 1 .. count
        PROVE  Join(Group(i)) \in Text /\ Words(Join(Group(i))) = Group(i)
    <3> HIDE DEF Group
    <3> QED BY <2>5, WordsOfJoin DEF RunsApart, W
  <2>7. chunks \in Texts /\ Len(chunks) = count /\ chunks # <<>>
    <3> HIDE DEF Group
    <3>1. chunks \in [1 .. count -> Text]
      BY <2>3, <2>6
    <3>2. chunks \in Texts
      BY <3>1, <2>2, SeqDef DEF Texts
    <3>3. Len(chunks) = count
      BY <3>1, <3>2, <2>2 DEF Texts
    <3> QED BY <3>2, <3>3, <2>2, EmptySeq
  <2>8. ASSUME NEW i \in 1 .. count
        PROVE  /\ Words(chunks[i]) = Group(i)
               /\ Len(Words(chunks[i])) = IF i < count THEN size ELSE n - (i - 1) * size
               /\ Len(Words(chunks[i])) \in 1 .. size
    <3>1. chunks[i] = Join(Group(i))
      BY <2>3
    <3> HIDE DEF Group
    <3>2. Words(chunks[i]) = Group(i)
      BY <2>6, <3>1
    <3> QED BY <3>2, <2>4, <2>5
  <2> QED BY <1>3, <2>7, <2>8 DEF count, chunks, n, words
<1> QED BY <1>2, <1>3

-----------------------------------------------------------------------------
(* Induction over lists.                                                   *)

\* A set of lists with the empty one, closed under adding at the end.
LEMMA AppendInduct ==
  ASSUME NEW T, NEW S, <<>> \in S, \A s \in Seq(T), x \in T : s \in S => Append(s, x) \in S
  PROVE  Seq(T) \subseteq S
<1> DEFINE A == {n \in Nat : \A s \in Seq(T) : Len(s) = n => s \in S}
<1>1. 0 \in A
  BY EmptySeq
<1>2. ASSUME NEW n \in Nat, n \in A PROVE n + 1 \in A
  <2>1. SUFFICES ASSUME NEW s \in Seq(T), Len(s) = n + 1 PROVE s \in S
    OBVIOUS
  <2>2. s # <<>>
    BY <2>1, EmptySeq
  <2>3. PICK r \in Seq(T), x \in T : s = Append(r, x)
    BY <2>2, SequenceEmptyOrAppend
  <2>4. Len(r) = n
    BY <2>1, <2>3, AppendProperties, LenProperties
  <2> QED BY <1>2, <2>3, <2>4
<1> HIDE DEF A
<1>3. Nat \subseteq A
  BY <1>1, <1>2, Induct
<1> QED BY <1>3, LenProperties DEF A

\* A set of lists that has a list if it has all shorter ones.
LEMMA ShorterInduct ==
  ASSUME NEW T, NEW S, \A s \in Seq(T) : (\A t \in Seq(T) : Len(t) < Len(s) => t \in S) => s \in S
  PROVE  Seq(T) \subseteq S
<1> DEFINE A == {n \in Nat : \A s \in Seq(T) : Len(s) <= n => s \in S}
<1>1. 0 \in A
  <2>1. SUFFICES ASSUME NEW s \in Seq(T), Len(s) <= 0 PROVE s \in S
    OBVIOUS
  <2>2. \A t \in Seq(T) : ~(Len(t) < Len(s))
    BY <2>1, LenProperties
  <2> QED BY <2>2
<1>2. ASSUME NEW n \in Nat, n \in A PROVE n + 1 \in A
  <2>1. SUFFICES ASSUME NEW s \in Seq(T), Len(s) <= n + 1 PROVE s \in S
    OBVIOUS
  <2>2. ASSUME NEW t \in Seq(T), Len(t) < Len(s) PROVE t \in S
    <3>1. Len(t) \in Nat /\ Len(s) \in Nat
      BY LenProperties
    <3> QED BY <1>2, <2>1, <2>2, <3>1
  <2> QED BY <2>2
<1> HIDE DEF A
<1>3. Nat \subseteq A
  BY <1>1, <1>2, Induct
<1> QED BY <1>3, LenProperties DEF A

\* A list that is not empty is its first element before the rest.
LEMMA FirstAndRest ==
  ASSUME NEW T, NEW s \in Seq(T), s # <<>>
  PROVE  /\ Head(s) \in T /\ Tail(s) \in Seq(T) /\ Head(s) = s[1]
         /\ Len(Tail(s)) = Len(s) - 1 /\ Len(s) \in Nat \ {0}
         /\ s = <<Head(s)>> \o Tail(s)
<1>1. Len(s) \in Nat \ {0}
  BY EmptySeq
<1>2. SubSeq(s, 1, Len(s)) = <<s[1]>> \o SubSeq(s, 1 + 1, Len(s))
  BY <1>1, SubSeqRecursiveFirst
<1>3. SubSeq(s, 1, Len(s)) = s
  BY SubSeqFull
<1>4. Tail(s) = SubSeq(s, 2, Len(s))
  BY TailIsSubSeq
<1>5. Head(s) = s[1]
  OBVIOUS
<1> QED BY <1>1, <1>2, <1>3, <1>4, <1>5, HeadTailProperties

LEMMA HeadAndTailOf ==
  ASSUME NEW T, NEW x \in T, NEW s \in Seq(T)
  PROVE  /\ <<x>> \in Seq(T) /\ <<x>> \o s \in Seq(T) /\ <<x>> \o s # <<>>
         /\ Len(<<x>> \o s) = 1 + Len(s) /\ (<<x>> \o s)[1] = x
         /\ Head(<<x>> \o s) = x /\ Tail(<<x>> \o s) = s
<1>1. <<x>> \in Seq(T) /\ Len(<<x>>) = 1 /\ <<x>>[1] = x
  OBVIOUS
<1>2. /\ <<x>> \o s \in Seq(T) /\ Len(<<x>> \o s) = 1 + Len(s) /\ Len(s) \in Nat
      /\ \A i \in 1 .. 1 + Len(s) : (<<x>> \o s)[i] = IF i <= 1 THEN x ELSE s[i - 1]
  BY <1>1, ConcatProperties, LenProperties
<1>3. <<x>> \o s # <<>>
  BY <1>2, EmptySeq
<1> DEFINE t == <<x>> \o s
<1> HIDE DEF t
<1>4. t \in Seq(T) /\ t # <<>> /\ Len(t) = 1 + Len(s) /\ Len(s) \in Nat
      /\ t[1] = x /\ \A i \in 1 .. Len(s) : t[i + 1] = s[i]
  BY <1>2, <1>3 DEF t
<1>5. Head(t) = t[1] /\ Tail(t) \in Seq(T) /\ Len(Tail(t)) = Len(s) /\ \A i \in 1 .. Len(s) : Tail(t)[i] = s[i]
  BY <1>4, FirstAndRest, HeadTailProperties
<1>6. Tail(t) = s
  BY <1>5, SeqEqual
<1> QED BY <1>1, <1>4, <1>5, <1>6 DEF t

LEMMA AppendConcat ==
  ASSUME NEW T, NEW s \in Seq(T), NEW t \in Seq(T), NEW x \in T
  PROVE  /\ s \o t \in Seq(T) /\ Append(t, x) \in Seq(T)
         /\ Append(s \o t, x) = s \o Append(t, x)
<1>1. <<x>> \in Seq(T) /\ s \o t \in Seq(T) /\ Append(t, x) \in Seq(T)
  BY ConcatProperties, AppendProperties
<1>2. Append(s \o t, x) = (s \o t) \o <<x>> /\ Append(t, x) = t \o <<x>>
  BY <1>1, AppendIsConcat
<1>3. (s \o t) \o <<x>> = s \o (t \o <<x>>)
  BY <1>1, ConcatAssociative
<1> QED BY <1>1, <1>2, <1>3

\* The same for lists of texts.
LEMMA TextsConcat ==
  ASSUME NEW a \in Texts, NEW b \in Texts
  PROVE  /\ a \o b \in Texts
         /\ \A c \in Texts : (a \o b) \o c = a \o (b \o c)
         /\ \A w \in Text : Append(b, w) \in Texts /\ Append(a \o b, w) = a \o Append(b, w)
<1>1. a \o b \in Texts
  BY ConcatProperties DEF Texts
<1>2. ASSUME NEW c \in Texts PROVE (a \o b) \o c = a \o (b \o c)
  BY ConcatAssociative DEF Texts
<1>3. ASSUME NEW w \in Text
      PROVE  Append(b, w) \in Texts /\ Append(a \o b, w) = a \o Append(b, w)
  <2>1. <<w>> \in Texts /\ Append(b, w) \in Texts
    BY AppendProperties DEF Texts
  <2>2. Append(b, w) = b \o <<w>> /\ Append(a \o b, w) = (a \o b) \o <<w>>
    BY <1>1, AppendIsConcat DEF Texts
  <2> QED BY <1>2, <2>1, <2>2
<1> QED BY <1>1, <1>2, <1>3

\* Growing the last element of a list.
LEMMA LastOfConcat ==
  ASSUME NEW T, NEW a \in Seq(T), NEW b \in Seq(T), b # <<>>, NEW z \in T
  PROVE  [(a \o b) EXCEPT ![Len(a \o b)] = z] = a \o [b EXCEPT ![Len(b)] = z]
<1> DEFINE ab == a \o b
           c == [b EXCEPT ![Len(b)] = z]
           d == [ab EXCEPT ![Len(ab)] = z]
<1>1. Len(a) \in Nat /\ Len(b) \in Nat \ {0}
  BY EmptySeq, LenProperties
<1>2. /\ ab \in Seq(T) /\ Len(ab) = Len(a) + Len(b)
      /\ \A i \in 1 .. Len(a) + Len(b) : ab[i] = IF i <= Len(a) THEN a[i] ELSE b[i - Len(a)]
  BY ConcatProperties
<1>3. c \in Seq(T) /\ Len(c) = Len(b) /\ \A j \in 1 .. Len(b) : c[j] = IF j = Len(b) THEN z ELSE b[j]
  BY <1>1, ExceptSeq
<1> HIDE DEF ab, c
<1>4. d \in Seq(T) /\ Len(d) = Len(ab) /\ \A j \in 1 .. Len(ab) : d[j] = IF j = Len(ab) THEN z ELSE ab[j]
  <2>1. Len(ab) \in 1 .. Len(ab)
    BY <1>1, <1>2
  <2> QED BY <1>2, <2>1, ExceptSeq
<1> HIDE DEF d
<1>5. /\ a \o c \in Seq(T) /\ Len(a \o c) = Len(a) + Len(c)
      /\ \A j \in 1 .. Len(a) + Len(c) : (a \o c)[j] = IF j <= Len(a) THEN a[j] ELSE c[j - Len(a)]
  BY <1>3, ConcatProperties
<1>6. ASSUME NEW j \in 1 .. Len(d) PROVE d[j] = (a \o c)[j]
  <2>1. CASE j <= Len(a)
    BY <1>1, <1>2, <1>3, <1>4, <1>5, <2>1
  <2>2. CASE ~(j <= Len(a))
    <3>1. j - Len(a) \in 1 .. Len(b) /\ (j - Len(a) = Len(b) <=> j = Len(a) + Len(b))
      BY <1>1, <1>2, <1>4, <2>2
    <3> QED BY <1>1, <1>2, <1>3, <1>4, <1>5, <2>2, <3>1
  <2> QED BY <2>1, <2>2
<1>7. d = a \o c
  BY <1>2, <1>3, <1>4, <1>5, <1>6, SeqEqual
<1> QED BY <1>7 DEF d, c, ab

LEMMA LastGrows ==
  ASSUME NEW T, NEW b \in Seq(T), b # <<>>, NEW z \in T
  PROVE  [b EXCEPT ![Len(b)] = z] \in Seq(T) /\ [b EXCEPT ![Len(b)] = z] # <<>>
<1>1. Len(b) \in Nat \ {0} /\ Len(b) \in 1 .. Len(b)
  BY EmptySeq, LenProperties
<1>2. [b EXCEPT ![Len(b)] = z] \in Seq(T) /\ Len([b EXCEPT ![Len(b)] = z]) = Len(b)
  BY <1>1, ExceptSeq
<1> DEFINE c == [b EXCEPT ![Len(b)] = z]
<1> HIDE DEF c
<1>3. c \in Seq(T) /\ Len(c) # 0
  BY <1>1, <1>2 DEF c
<1>4. c # <<>>
  BY <1>3, EmptySeq
<1> QED BY <1>3, <1>4 DEF c

LEMMA LastOfText ==
  ASSUME NEW T, NEW s \in Seq(T), NEW t \in Seq(T), t # <<>>
  PROVE  s \o t \in Seq(T) /\ s \o t # <<>> /\ (s \o t)[Len(s \o t)] = t[Len(t)]
<1>1. Len(s) \in Nat /\ Len(t) \in Nat \ {0}
  BY EmptySeq, LenProperties
<1>2. /\ s \o t \in Seq(T) /\ Len(s \o t) = Len(s) + Len(t)
      /\ \A i \in 1 .. Len(s) + Len(t) : (s \o t)[i] = IF i <= Len(s) THEN s[i] ELSE t[i - Len(s)]
  BY ConcatProperties
<1> DEFINE v == s \o t
<1> HIDE DEF v
<1>3. v[Len(s) + Len(t)] = t[(Len(s) + Len(t)) - Len(s)] /\ Len(v) # 0
  BY <1>1, <1>2 DEF v
<1>4. v # <<>>
  BY <1>3, EmptySeq
<1> QED BY <1>1, <1>2, <1>3, <1>4 DEF v

-----------------------------------------------------------------------------
(* The runs of texts put together.                                         *)

\* What a token adds to the runs: a run of its own, or the end of the last.
LEMMA RunsNew ==
  ASSUME NEW s \in Text, NEW x \in Token, NEW separators, x \notin separators,
         s # <<>> => s[Len(s)] \in separators
  PROVE  Runs(Append(s, x), separators) = Append(Runs(s, separators), <<x>>)
<1> DEFINE t == Append(s, x)
<1>1. /\ Len(s) \in Nat /\ t[Len(s) + 1] = x /\ (Len(s) = 0 <=> s = <<>>)
      /\ Len(s) + 1 > 1 => t[(Len(s) + 1) - 1] = s[Len(s)]
  BY EmptySeq DEF Text
<1>2. Runs(t, separators) = RunStep(t, separators, Runs(s, separators), Len(s) + 1)
  BY RunsAppend
<1> HIDE DEF t
<1>3. CASE s = <<>>
  BY <1>1, <1>2, <1>3 DEF RunStep, t
<1>4. CASE s # <<>>
  BY <1>1, <1>2, <1>4 DEF RunStep, t
<1> QED BY <1>3, <1>4

LEMMA RunsGrow ==
  ASSUME NEW s \in Text, NEW x \in Token, NEW separators, x \notin separators,
         s # <<>>, s[Len(s)] \notin separators, NEW runs, runs = Runs(s, separators)
  PROVE  Runs(Append(s, x), separators) = [runs EXCEPT ![Len(runs)] = Append(runs[Len(runs)], x)]
<1> DEFINE t == Append(s, x)
<1>1. /\ Len(s) \in Nat /\ t[Len(s) + 1] = x /\ (Len(s) = 0 <=> s = <<>>)
      /\ Len(s) + 1 > 1 => t[(Len(s) + 1) - 1] = s[Len(s)]
  BY EmptySeq DEF Text
<1>2. Runs(t, separators) = RunStep(t, separators, runs, Len(s) + 1)
  BY RunsAppend
<1> HIDE DEF t
<1> QED BY <1>1, <1>2 DEF RunStep, t

\* A text that does not end in a separator ends in a run.
LEMMA RunsNonempty ==
  ASSUME NEW s \in Text, NEW separators, s # <<>>, s[Len(s)] \notin separators
  PROVE  Runs(s, separators) # <<>>
<1> DEFINE S == {t \in Text : t # <<>> /\ t[Len(t)] \notin separators => Runs(t, separators) # <<>>}
<1>1. <<>> \in S
  BY EmptySeq DEF Text
<1>2. ASSUME NEW t \in Text, NEW x \in Token, t \in S PROVE Append(t, x) \in S
  <2>1. Append(t, x) \in Text /\ Append(t, x)[Len(Append(t, x))] = x
    BY AppendProperties DEF Text
  <2>2. SUFFICES ASSUME x \notin separators PROVE Runs(Append(t, x), separators) # <<>>
    BY <2>1
  <2>3. PICK runs \in Texts : runs = Runs(t, separators)
    BY RunsAppend, <2>2
  <2>4. CASE t # <<>> => t[Len(t)] \in separators
    <3>1. Runs(Append(t, x), separators) = Append(runs, <<x>>)
      BY <2>2, <2>3, <2>4, RunsNew
    <3>2. <<x>> \in Text
      BY DEF Text
    <3> QED BY <3>1, <3>2, AppendProperties DEF Texts
  <2>5. CASE t # <<>> /\ t[Len(t)] \notin separators
    <3> DEFINE z == Append(runs[Len(runs)], x)
    <3>1. Runs(Append(t, x), separators) = [runs EXCEPT ![Len(runs)] = z]
      BY <2>2, <2>3, <2>5, RunsGrow
    <3>2. runs # <<>>
      BY <1>2, <2>3, <2>5
    <3>3. z \in Text
      <4>1. Len(runs) \in 1 .. Len(runs)
        BY <3>2, EmptySeq DEF Texts
      <4>2. runs[Len(runs)] \in Text
        BY <4>1, ElementOfSeq DEF Texts
      <4> QED BY <4>2, AppendProperties DEF Text
    <3> HIDE DEF z
    <3> QED BY <3>1, <3>2, <3>3, LastGrows DEF Texts
  <2> QED BY <2>4, <2>5
<1> HIDE DEF S
<1>3. Text \subseteq S
  BY <1>1, <1>2, AppendInduct DEF Text
<1> QED BY <1>3 DEF S

\* Where a text ends in a separator, what follows is split by itself.
LEMMA RunsConcat ==
  ASSUME NEW s \in Text, NEW separators, s # <<>> => s[Len(s)] \in separators, NEW t \in Text
  PROVE  Runs(s \o t, separators) = Runs(s, separators) \o Runs(t, separators)
<1> DEFINE R(u) == Runs(u, separators)
           S == {u \in Text : R(s \o u) = R(s) \o R(u)}
<1>0. \A u \in Text : R(u) \in Texts
  BY RunsAppend, SpaceType
<1>1. <<>> \in S
  <2>1. <<>> \in Text /\ s \o <<>> = s
    BY EmptySeq, ConcatEmptySeq DEF Text
  <2>2. R(<<>>) = <<>>
    BY RunsOfNothing
  <2> HIDE DEF R
  <2>4. R(s) \o <<>> = R(s)
    BY <1>0, ConcatEmptySeq DEF Texts
  <2> QED BY <2>1, <2>2, <2>4
<1>2. ASSUME NEW u \in Text, NEW x \in Token, u \in S PROVE Append(u, x) \in S
  <2>1. PICK v \in Text : v = s \o u /\ s \o Append(u, x) = Append(v, x) /\ Append(u, x) \in Text
    BY AppendConcat DEF Text
  <2>2. R(v) = R(s) \o R(u)
    BY <1>2, <2>1
  <2> HIDE DEF S
  <2>3. PICK a \in Texts, b \in Texts : a = R(s) /\ b = R(u)
    BY <1>0
  <2>4. SUFFICES R(Append(v, x)) = a \o R(Append(u, x))
    BY <2>1, <2>3 DEF S
  <2>5. CASE x \in separators
    <3>1. R(Append(v, x)) = R(v) /\ R(Append(u, x)) = R(u)
      BY <2>5, RunsSeparator
    <3> HIDE DEF R
    <3> QED BY <2>2, <2>3, <3>1
  <2>6. CASE x \notin separators
    <3>0. u # <<>> => v # <<>> /\ v[Len(v)] = u[Len(u)]
      BY <2>1, LastOfText DEF Text
    <3>1. CASE u # <<>> => u[Len(u)] \in separators
      <4>1. v # <<>> => v[Len(v)] \in separators
        <5>1. CASE u = <<>>
          BY <2>1, <5>1, ConcatEmptySeq DEF Text
        <5>2. CASE u # <<>>
          BY <3>0, <3>1, <5>2
        <5> QED BY <5>1, <5>2
      <4>2. R(Append(v, x)) = Append(R(v), <<x>>) /\ R(Append(u, x)) = Append(R(u), <<x>>)
        BY <2>6, <3>1, <4>1, RunsNew
      <4>3. <<x>> \in Text
        BY DEF Text
      <4>4. Append(a \o b, <<x>>) = a \o Append(b, <<x>>)
        <5> HIDE DEF R
        <5> QED BY <4>3, TextsConcat
      <4> HIDE DEF R
      <4> QED BY <2>2, <2>3, <4>2, <4>4
    <3>2. CASE u # <<>> /\ u[Len(u)] \notin separators
      <4>1. v # <<>> /\ v[Len(v)] \notin separators
        BY <3>0, <3>2
      <4>2. PICK ab \in Texts : ab = a \o b
        BY ConcatProperties DEF Texts
      <4>3. ab = R(v)
        BY <2>2, <2>3, <4>2
      <4>4. /\ R(Append(v, x)) = [ab EXCEPT ![Len(ab)] = Append(ab[Len(ab)], x)]
            /\ R(Append(u, x)) = [b EXCEPT ![Len(b)] = Append(b[Len(b)], x)]
        BY <2>3, <2>6, <3>2, <4>1, <4>3, RunsGrow
      <4>5. b # <<>>
        BY <2>3, <3>2, RunsNonempty
      <4>6. ab[Len(ab)] = b[Len(b)]
        BY <4>2, <4>5, LastOfText DEF Texts
      <4> DEFINE z == Append(b[Len(b)], x)
      <4>7. z \in Text
        <5>1. Len(b) \in 1 .. Len(b)
          BY <4>5, EmptySeq DEF Texts
        <5>2. b[Len(b)] \in Text
          BY <5>1, ElementOfSeq DEF Texts
        <5> QED BY <5>2, AppendProperties DEF Text
      <4> HIDE DEF R
      <4>8. R(Append(v, x)) = [ab EXCEPT ![Len(ab)] = z] /\ R(Append(u, x)) = [b EXCEPT ![Len(b)] = z]
        BY <4>4, <4>6
      <4> HIDE DEF z
      <4>9. [ab EXCEPT ![Len(ab)] = z] = a \o [b EXCEPT ![Len(b)] = z]
        BY <4>2, <4>5, <4>7, LastOfConcat DEF Texts
      <4> QED BY <4>8, <4>9
    <3> QED BY <3>1, <3>2
  <2> QED BY <2>5, <2>6
<1> HIDE DEF S, R
<1>3. Text \subseteq S
  BY <1>1, <1>2, AppendInduct DEF Text
<1> QED BY <1>3 DEF S, R

\* A separator before a text adds nothing.
LEMMA RunsBlank ==
  ASSUME NEW s \in Text, NEW separators, NEW x \in Token, x \in separators
  PROVE  Runs(<<x>> \o s, separators) = Runs(s, separators)
<1>1. <<x>> \in Text /\ <<x>>[Len(<<x>>)] = x /\ <<>> \in Text /\ Append(<<>>, x) = <<x>>
  BY EmptySeq DEF Text
<1>2. Runs(<<x>>, separators) = <<>>
  <2>1. Runs(Append(<<>>, x), separators) = Runs(<<>>, separators)
    BY <1>1, RunsSeparator
  <2> QED BY <1>1, <2>1, RunsOfNothing
<1>3. Runs(<<x>> \o s, separators) = <<>> \o Runs(s, separators)
  <2> DEFINE t == <<x>>
  <2>1. t \in Text /\ (t # <<>> => t[Len(t)] \in separators)
    BY <1>1
  <2> HIDE DEF t
  <2>2. Runs(t \o s, separators) = Runs(t, separators) \o Runs(s, separators)
    BY <2>1, RunsConcat
  <2> QED BY <1>2, <2>2 DEF t
<1>4. Runs(s, separators) \in Texts
  BY SpaceType, RunsAppend
<1> QED BY <1>3, <1>4, ConcatEmptySeq DEF Texts

\* A token before a separator, or at the end, is a run of its own.
LEMMA RunsAlone ==
  ASSUME NEW s \in Text, NEW separators, NEW x \in Token, x \notin separators,
         s # <<>> => s[1] \in separators
  PROVE  Runs(<<x>> \o s, separators) = << <<x>> >> \o Runs(s, separators)
<1>1. <<x>> \in Text /\ <<>> \in Text /\ Append(<<>>, x) = <<x>>
  BY EmptySeq DEF Text
<1>2. Runs(<<x>>, separators) = << <<x>> >>
  <2>1. Runs(Append(<<>>, x), separators) = Append(Runs(<<>>, separators), <<x>>)
    BY <1>1, RunsNew
  <2>2. Append(<<>>, <<x>>) = << <<x>> >>
    OBVIOUS
  <2> QED BY <1>1, <2>1, <2>2, RunsOfNothing
<1>3. CASE s = <<>>
  <2>1. <<x>> \o <<>> = <<x>>
    BY <1>1, ConcatEmptySeq DEF Text
  <2>2. << <<x>> >> \in Texts
    BY <1>1 DEF Texts
  <2>3. << <<x>> >> \o <<>> = << <<x>> >>
    BY <2>2, ConcatEmptySeq DEF Texts
  <2> QED BY <1>2, <1>3, <2>1, <2>3, RunsOfNothing
<1>4. CASE s # <<>>
  <2> DEFINE y == Head(s)  r == Tail(s)
  <2>1. y \in Token /\ y \in separators /\ r \in Text /\ s = <<y>> \o r
    BY <1>4, FirstAndRest DEF Text
  <2> HIDE DEF y, r
  <2>2. /\ Append(<<x>>, y) \in Text /\ Append(<<x>>, y) = <<x>> \o <<y>>
        /\ Append(<<x>>, y)[Len(Append(<<x>>, y))] = y /\ <<y>> \in Text
    BY <1>1, <2>1, AppendProperties, AppendIsConcat DEF Text
  <2>3. (<<x>> \o <<y>>) \o r = <<x>> \o s
    BY <1>1, <2>1, <2>2, ConcatAssociative DEF Text
  <2>4. Runs(Append(<<x>>, y) \o r, separators) = Runs(Append(<<x>>, y), separators) \o Runs(r, separators)
    BY <2>1, <2>2, RunsConcat
  <2>5. Runs(Append(<<x>>, y), separators) = << <<x>> >>
    BY <1>1, <1>2, <2>1, RunsSeparator
  <2>6. Runs(s, separators) = Runs(r, separators)
    BY <2>1, RunsBlank
  <2> QED BY <2>2, <2>3, <2>4, <2>5, <2>6
<1> QED BY <1>3, <1>4

\* Two lists that differ in the beginning of their first run do so, too, when
\* their last run grows.
LEMMA LastOfFirst ==
  ASSUME NEW a \in Texts, NEW b \in Texts, a # <<>>, b # <<>>, NEW x \in Token, NEW y \in Token,
         Head(b) = <<x>> \o Head(a), Tail(b) = Tail(a)
  PROVE  /\ [a EXCEPT ![Len(a)] = Append(@, y)] # <<>>
         /\ [b EXCEPT ![Len(b)] = Append(@, y)] # <<>>
         /\ Head([b EXCEPT ![Len(b)] = Append(@, y)])
              = <<x>> \o Head([a EXCEPT ![Len(a)] = Append(@, y)])
         /\ Tail([b EXCEPT ![Len(b)] = Append(@, y)]) = Tail([a EXCEPT ![Len(a)] = Append(@, y)])
<1> DEFINE p == Append(a[Len(a)], y)  q == Append(b[Len(b)], y)
           c == [a EXCEPT ![Len(a)] = p]  d == [b EXCEPT ![Len(b)] = q]
<1>1. /\ Len(a) \in Nat \ {0} /\ Len(b) = Len(a)
      /\ a[1] \in Text /\ b[1] = <<x>> \o a[1]
      /\ \A i \in 2 .. Len(a) : b[i] = a[i]
  <2>1. /\ Len(a) \in Nat \ {0} /\ Len(b) \in Nat \ {0}
        /\ Head(a) \in Text /\ Head(a) = a[1] /\ Head(b) = b[1]
        /\ Len(Tail(a)) = Len(a) - 1 /\ Len(Tail(b)) = Len(b) - 1
        /\ \A i \in 1 .. Len(a) - 1 : Tail(a)[i] = a[i + 1]
        /\ \A i \in 1 .. Len(b) - 1 : Tail(b)[i] = b[i + 1]
    BY FirstAndRest, HeadTailProperties DEF Texts
  <2>2. Len(b) = Len(a)
    <3> DEFINE m == Len(a)  n == Len(b)
    <3>1. m \in Nat /\ n \in Nat /\ n - 1 = m - 1
      BY <2>1, Tail(b) = Tail(a)
    <3> HIDE DEF m, n
    <3>2. n = m
      BY <3>1
    <3> QED BY <3>2 DEF m, n
  <2>3. ASSUME NEW i \in 2 .. Len(a) PROVE b[i] = a[i]
    <3> DEFINE n == Len(a)
    <3>0. n \in Nat /\ i \in 2 .. n
      BY <2>1
    <3> HIDE DEF n
    <3>1. i - 1 \in 1 .. n - 1 /\ (i - 1) + 1 = i
      BY <3>0
    <3> USE DEF n
    <3>2. Tail(a)[i - 1] = a[(i - 1) + 1] /\ Tail(b)[i - 1] = b[(i - 1) + 1]
      BY <2>1, <2>2, <3>1
    <3> QED BY <3>1, <3>2
  <2> QED BY <2>1, <2>2, <2>3
<1>2. <<x>> \in Text /\ \A i \in 1 .. Len(a) : a[i] \in Text /\ b[i] \in Text
  <2>1. <<x>> \in Text
    BY DEF Text
  <2> QED BY <1>1, <2>1, ElementOfSeq DEF Texts
<1>3. p \in Text /\ q \in Text
  BY <1>1, <1>2, AppendProperties DEF Text
<1>4. Len(a) = 1 => q = <<x>> \o p
  <2>1. Append(<<x>> \o a[1], y) = <<x>> \o Append(a[1], y)
    BY <1>1, <1>2, AppendConcat DEF Text
  <2> QED BY <1>1, <2>1
<1>5. Len(a) # 1 => q = p
  BY <1>1
<1> HIDE DEF p, q
<1>6. /\ c \in Texts /\ Len(c) = Len(a)
      /\ \A j \in 1 .. Len(a) : c[j] = IF j = Len(a) THEN p ELSE a[j]
  BY <1>1, <1>3, ExceptSeq DEF Texts
<1>7. /\ d \in Texts /\ Len(d) = Len(a)
      /\ \A j \in 1 .. Len(a) : d[j] = IF j = Len(a) THEN q ELSE b[j]
  BY <1>1, <1>3, ExceptSeq DEF Texts
<1>8. c = [a EXCEPT ![Len(a)] = Append(@, y)] /\ d = [b EXCEPT ![Len(b)] = Append(@, y)]
  BY DEF p, q
<1> HIDE DEF c, d
<1>9. c # <<>> /\ d # <<>>
  BY <1>1, <1>6, <1>7, EmptySeq DEF Texts
<1>10. /\ Head(c) = c[1] /\ Head(d) = d[1] /\ Tail(c) \in Texts /\ Tail(d) \in Texts
       /\ Len(Tail(c)) = Len(a) - 1 /\ Len(Tail(d)) = Len(a) - 1
       /\ \A i \in 1 .. Len(a) - 1 : Tail(c)[i] = c[i + 1] /\ Tail(d)[i] = d[i + 1]
  BY <1>6, <1>7, <1>9, FirstAndRest, HeadTailProperties DEF Texts
<1>11. Head(d) = <<x>> \o Head(c)
  <2>1. CASE Len(a) = 1
    BY <2>1, <1>1, <1>4, <1>6, <1>7, <1>10
  <2>2. CASE Len(a) # 1
    BY <2>2, <1>1, <1>6, <1>7, <1>10
  <2> QED BY <2>1, <2>2
<1>12. Tail(d) = Tail(c)
  <2>1. ASSUME NEW i \in 1 .. Len(a) - 1 PROVE Tail(d)[i] = Tail(c)[i]
    <3>1. i + 1 \in 2 .. Len(a) /\ Len(a) # 1
      BY <1>1
    <3> QED BY <3>1, <1>1, <1>5, <1>6, <1>7, <1>10
  <2> QED BY <1>1, <1>10, <2>1, SeqEqual DEF Texts
<1> QED BY <1>8, <1>9, <1>11, <1>12

\* Otherwise it begins the first run.
LEMMA RunsFirst ==
  ASSUME NEW s \in Text, NEW separators, NEW x \in Token, x \notin separators,
         s # <<>>, s[1] \notin separators
  PROVE  /\ Runs(s, separators) # <<>>
         /\ Runs(<<x>> \o s, separators)
              = << <<x>> \o Head(Runs(s, separators)) >> \o Tail(Runs(s, separators))
<1> DEFINE R(u) == Runs(u, separators)
           Good(u) == /\ R(u) # <<>>
                      /\ R(<<x>> \o u) # <<>>
                      /\ Head(R(<<x>> \o u)) = <<x>> \o Head(R(u))
                      /\ Tail(R(<<x>> \o u)) = Tail(R(u))
           S == {u \in Text : u # <<>> /\ u[1] \notin separators => Good(u)}
<1>0. <<x>> \in Text /\ \A u \in Text : R(u) \in Texts /\ <<x>> \o u \in Text
  <2>1. <<x>> \in Text
    BY DEF Text
  <2> QED BY <2>1, RunsAppend, SpaceType, ConcatProperties DEF Text
<1>1. <<>> \in S
  BY EmptySeq DEF Text
<1>2. ASSUME NEW u \in Text, NEW y \in Token, u \in S PROVE Append(u, y) \in S
  <2> DEFINE v == Append(u, y)
  <2>1. v \in Text /\ <<x>> \o v = Append(<<x>> \o u, y)
    <3>1. v = u \o <<y>> /\ Append(<<x>> \o u, y) = (<<x>> \o u) \o <<y>> /\ <<y>> \in Text
      BY <1>0, AppendIsConcat DEF Text
    <3>2. (<<x>> \o u) \o <<y>> = <<x>> \o (u \o <<y>>)
      BY <1>0, <3>1, ConcatAssociative DEF Text
    <3> QED BY <3>1, <3>2, AppendProperties DEF Text
  <2>2. SUFFICES ASSUME v[1] \notin separators PROVE Good(v)
    BY <2>1
  <2> HIDE DEF S, R
  <2>3. CASE u = <<>>
    <3>1. v = <<y>> /\ <<x>> \o u = <<x>> /\ v[1] = y
      BY <1>0, <2>3, ConcatEmptySeq DEF Text
    <3>2. <<x>>[Len(<<x>>)] = x /\ <<x>> # <<>>
      OBVIOUS
    <3>4. R(<<x>>) = << <<x>> >> /\ R(<<y>>) = << <<y>> >>
      <4>1. <<>> \in Text /\ Append(<<>>, x) = <<x>> /\ Append(<<>>, y) = <<y>> /\ y \notin separators
        BY <2>2, <3>1, EmptySeq DEF Text
      <4>2. /\ Runs(Append(<<>>, x), separators) = Append(Runs(<<>>, separators), <<x>>)
            /\ Runs(Append(<<>>, y), separators) = Append(Runs(<<>>, separators), <<y>>)
        <5> HIDE DEF v
        <5> QED BY <4>1, RunsNew
      <4>3. Append(<<>>, <<x>>) = << <<x>> >> /\ Append(<<>>, <<y>>) = << <<y>> >>
        OBVIOUS
      <4> QED BY <4>1, <4>2, <4>3, RunsOfNothing DEF R
    <3>5. R(<<x>> \o v) = << Append(<<x>>, y) >>
      <4> DEFINE t == <<x>>  runs == << <<x>> >>
      <4>1. t \in Text /\ t # <<>> /\ t[Len(t)] \notin separators /\ y \notin separators
        BY <1>0, <2>2, <3>1
      <4>2. runs = Runs(t, separators) /\ <<x>> \o v = Append(t, y)
        BY <2>1, <3>1, <3>4 DEF R
      <4> HIDE DEF t, runs
      <4>3. Runs(Append(t, y), separators) = [runs EXCEPT ![Len(runs)] = Append(runs[Len(runs)], y)]
        BY <4>1, <4>2, RunsGrow
      <4> USE DEF runs, t
      <4>4. Len(runs) = 1 /\ runs[1] = t /\ [runs EXCEPT ![1] = Append(t, y)] = << Append(t, y) >>
        OBVIOUS
      <4> HIDE DEF runs, v
      <4> QED BY <4>2, <4>3, <4>4 DEF R
    <3>6. Append(<<x>>, y) = <<x>> \o <<y>>
      BY <1>0, AppendIsConcat DEF Text
    <3>7. Head(<< Append(<<x>>, y) >>) = Append(<<x>>, y) /\ Tail(<< Append(<<x>>, y) >>) = <<>>
          /\ Head(<< <<y>> >>) = <<y>> /\ Tail(<< <<y>> >>) = <<>>
      OBVIOUS
    <3>8. << Append(<<x>>, y) >> # <<>> /\ << <<y>> >> # <<>>
      OBVIOUS
    <3> HIDE DEF v
    <3> QED BY <3>1, <3>4, <3>5, <3>6, <3>7, <3>8
  <2>4. CASE u # <<>>
    <3> DEFINE xu == <<x>> \o u  a == R(u)  b == R(xu)
    <3>1. /\ v[1] = u[1] /\ Len(u) \in Nat \ {0} /\ xu \in Text /\ xu # <<>>
          /\ Len(xu) = 1 + Len(u) /\ xu[Len(xu)] = u[Len(u)]
      <4>1. Len(u) \in Nat \ {0} /\ v[1] = u[1]
        BY <2>4, EmptySeq, AppendProperties DEF Text
      <4>2. Len(<<x>>) = 1 /\ xu \in Text /\ xu # <<>> /\ Len(xu) = 1 + Len(u)
        BY HeadAndTailOf DEF Text
      <4>3. \A i \in 1 .. 1 + Len(u) : xu[i] = IF i <= 1 THEN <<x>>[i] ELSE u[i - 1]
        BY <1>0, <4>2, ConcatProperties DEF Text
      <4> HIDE DEF xu
      <4>4. xu[1 + Len(u)] = u[(1 + Len(u)) - 1] /\ (1 + Len(u)) - 1 = Len(u)
        BY <4>1, <4>3
      <4> QED BY <4>1, <4>2, <4>4
    <3>2. Good(u)
      BY <1>2, <2>2, <2>4, <3>1 DEF S
    <3>3. a \in Texts /\ b \in Texts /\ a # <<>> /\ b # <<>> /\ Head(b) = <<x>> \o Head(a) /\ Tail(b) = Tail(a)
      BY <1>0, <3>1, <3>2
    <3>4. CASE y \in separators
      <4>1. R(v) = a /\ R(<<x>> \o v) = b
        BY <2>1, <3>1, <3>4, RunsSeparator DEF R
      <4> QED BY <3>3, <4>1
    <3>5. CASE y \notin separators /\ u[Len(u)] \in separators
      <4>1. R(v) = Append(a, <<y>>) /\ R(<<x>> \o v) = Append(b, <<y>>)
        <5> HIDE DEF xu
        <5>1. R(v) = Append(a, <<y>>)
          BY <3>5, RunsNew DEF R
        <5>2. R(Append(xu, y)) = Append(b, <<y>>)
          BY <3>1, <3>5, RunsNew DEF R
        <5> QED BY <2>1, <5>1, <5>2 DEF xu
      <4>2. <<y>> \in Text
        BY DEF Text
      <4> HIDE DEF a, b
      <4>3. /\ Head(Append(a, <<y>>)) = Head(a) /\ Tail(Append(a, <<y>>)) = Append(Tail(a), <<y>>)
            /\ Head(Append(b, <<y>>)) = Head(b) /\ Tail(Append(b, <<y>>)) = Append(Tail(b), <<y>>)
            /\ Append(a, <<y>>) # <<>> /\ Append(b, <<y>>) # <<>>
        BY <3>3, <4>2, HeadTailAppend, AppendProperties DEF Texts
      <4> QED BY <3>3, <4>1, <4>3
    <3>6. CASE y \notin separators /\ u[Len(u)] \notin separators
      <4>1. /\ R(v) = [a EXCEPT ![Len(a)] = Append(@, y)]
            /\ R(<<x>> \o v) = [b EXCEPT ![Len(b)] = Append(@, y)]
        <5>1. xu \in Text /\ xu # <<>> /\ xu[Len(xu)] \notin separators
          BY <3>1, <3>6
        <5>2. Append(xu, y) = <<x>> \o v
          BY <2>1
        <5> HIDE DEF xu, v
        <5>3. a = Runs(u, separators) /\ b = Runs(xu, separators)
          BY DEF R
        <5> HIDE DEF a, b
        <5>4. Runs(Append(u, y), separators) = [a EXCEPT ![Len(a)] = Append(a[Len(a)], y)]
          BY <2>4, <3>6, <5>3, RunsGrow
        <5>5. Runs(Append(xu, y), separators) = [b EXCEPT ![Len(b)] = Append(b[Len(b)], y)]
          BY <3>6, <5>1, <5>3, RunsGrow
        <5> QED BY <5>2, <5>4, <5>5 DEF R, v
      <4> HIDE DEF a, b
      <4>2. /\ [a EXCEPT ![Len(a)] = Append(@, y)] # <<>>
            /\ [b EXCEPT ![Len(b)] = Append(@, y)] # <<>>
            /\ Head([b EXCEPT ![Len(b)] = Append(@, y)])
                 = <<x>> \o Head([a EXCEPT ![Len(a)] = Append(@, y)])
            /\ Tail([b EXCEPT ![Len(b)] = Append(@, y)]) = Tail([a EXCEPT ![Len(a)] = Append(@, y)])
        BY <3>3, LastOfFirst
      <4> QED BY <4>1, <4>2
    <3> QED BY <3>4, <3>5, <3>6
  <2> QED BY <2>3, <2>4
<1> HIDE DEF S
<1>3. s \in S
  BY <1>1, <1>2, AppendInduct DEF Text
<1>4. Good(s)
  BY <1>3 DEF S
<1>5. R(<<x>> \o s) \in Texts
  BY <1>0
<1> HIDE DEF R
<1>6. R(<<x>> \o s) = << Head(R(<<x>> \o s)) >> \o Tail(R(<<x>> \o s))
  BY <1>4, <1>5, FirstAndRest DEF Texts
<1> QED BY <1>4, <1>6 DEF R
-----------------------------------------------------------------------------
(* The words of texts put together.                                        *)

LEMMA WordsType ==
  ASSUME NEW s \in Text
  PROVE  Words(s) \in RunsApart(WhiteSpace) /\ Words(s) \in Texts
         /\ Words(<<>>) = <<>> /\ Space \in WhiteSpace
  BY RunsType, RunsAppend, SpaceType, RunsOfNothing DEF Words, WhiteSpace

\* What stands behind a space is split by itself.
LEMMA WordsSpaced ==
  ASSUME NEW s \in Text, NEW t \in Text
  PROVE  /\ s \o <<Space>> \in Text /\ s \o <<Space>> \o t \in Text
         /\ Words(s \o <<Space>>) = Words(s)
         /\ Words(s \o <<Space>> \o t) = Words(s) \o Words(t)
<1> DEFINE u == Append(s, Space)
<1>1. u \in Text /\ u # <<>> /\ u[Len(u)] \in WhiteSpace /\ u = s \o <<Space>>
  BY SpaceType, WordsType, AppendProperties, AppendIsConcat DEF Text
<1>2. Runs(u, WhiteSpace) = Runs(s, WhiteSpace)
  BY SpaceType, WordsType, RunsSeparator
<1> HIDE DEF u
<1>3. Runs(u \o t, WhiteSpace) = Runs(u, WhiteSpace) \o Runs(t, WhiteSpace)
  BY <1>1, RunsConcat
<1>4. u \o t \in Text
  BY <1>1, ConcatProperties DEF Text
<1> QED BY <1>1, <1>2, <1>3, <1>4 DEF Words

LEMMA WordsOfBlanks ==
  ASSUME NEW s \in Text, NEW t \in Text
  PROVE  /\ (\A i \in 1 .. Len(s) : s[i] \in WhiteSpace) => Words(s \o t) = Words(t)
         /\ (\A i \in 1 .. Len(t) : t[i] \in WhiteSpace) => Words(s \o t) = Words(s)
<1> DEFINE Blank(u) == \A i \in 1 .. Len(u) : u[i] \in WhiteSpace
           S == {u \in Text : Blank(u) => \A v \in Text : Words(v \o u) = Words(v)}
<1>1. <<>> \in S
  <2>1. \A v \in Text : v \o <<>> = v
    BY ConcatEmptySeq DEF Text
  <2> QED BY <2>1, EmptySeq DEF Text
<1>2. ASSUME NEW u \in Text, NEW x \in Token, u \in S PROVE Append(u, x) \in S
  <2>1. Append(u, x) \in Text /\ Len(Append(u, x)) = Len(u) + 1 /\ Len(u) \in Nat
        /\ Append(u, x)[Len(u) + 1] = x /\ \A i \in 1 .. Len(u) : Append(u, x)[i] = u[i]
    BY AppendProperties, LenProperties DEF Text
  <2>2. SUFFICES ASSUME Blank(Append(u, x)), NEW v \in Text PROVE Words(v \o Append(u, x)) = Words(v)
    BY <2>1
  <2>3. Len(u) + 1 \in 1 .. Len(u) + 1 /\ \A i \in 1 .. Len(u) : i \in 1 .. Len(u) + 1
    BY <2>1
  <2>4. x \in WhiteSpace /\ Blank(u)
    BY <2>1, <2>2, <2>3
  <2>5. PICK w \in Text : w = v \o u /\ v \o Append(u, x) = Append(w, x)
    <3>1. v \o u \in Text /\ v \o Append(u, x) = Append(v \o u, x)
      BY AppendConcat, SMTT(30) DEF Text
    <3> QED BY <3>1
  <2>6. Words(w) = Words(v)
    BY <1>2, <2>4, <2>5
  <2>7. Words(Append(w, x)) = Words(w)
    BY <2>4, RunsSeparator DEF Words
  <2> QED BY <2>5, <2>6, <2>7
<1>3. \A u \in Text : u \in S
  <2> HIDE DEF S
  <2> QED BY <1>1, <1>2, AppendInduct DEF Text
<1>4. ASSUME Blank(s) PROVE Words(s \o t) = Words(t)
  <2>1. <<>> \in Text /\ <<>> \o s = s
    BY EmptySeq, ConcatEmptySeq DEF Text
  <2>2. Words(s) = <<>>
    BY <1>3, <1>4, <2>1, WordsType
  <2>3. s # <<>> => s[Len(s)] \in WhiteSpace
    <3>1. s # <<>> => Len(s) \in 1 .. Len(s)
      BY EmptySeq DEF Text
    <3> QED BY <1>4, <3>1
  <2>4. Words(s \o t) = <<>> \o Words(t)
    BY <2>2, <2>3, RunsConcat DEF Words
  <2>5. Words(t) \in Texts
    BY WordsType
  <2> QED BY <2>4, <2>5, ConcatEmptySeq DEF Texts
<1> QED BY <1>3, <1>4

\* A text is as much as its words: neither white space at its ends nor around it
\* changes them.
LEMMA WordsOfStrip ==
  ASSUME NEW s \in Text
  PROVE  Words(Padded(Strip(s))) = Words(s)
<1> DEFINE solid == {i \in DOMAIN s : s[i] \notin WhiteSpace}
           a == CHOOSE i \in solid : \A j \in solid : i <= j
           b == CHOOSE i \in solid : \A j \in solid : i >= j
<1>1. Len(s) \in Nat /\ DOMAIN s = 1 .. Len(s)
  BY DEF Text
<1>2. Words(Strip(s)) = Words(s)
  <2>1. CASE solid = {}
    <3>1. <<>> \in Text /\ <<>> \o s = s /\ s \o <<>> = s
      BY EmptySeq, ConcatEmptySeq DEF Text
    <3>2. \A i \in 1 .. Len(s) : s[i] \in WhiteSpace
      BY <1>1, <2>1
    <3>3. Words(s \o <<>>) = Words(<<>>)
      BY <3>1, <3>2, WordsOfBlanks
    <3>4. Strip(s) = <<>>
      BY <2>1 DEF Strip
    <3> QED BY <3>1, <3>3, <3>4
  <2>2. CASE solid # {}
    <3>1. solid \in SUBSET (1 .. Len(s)) /\ solid \in SUBSET Nat
      BY <1>1
    <3>2. \A i \in 1 .. Len(s) : i \notin solid => s[i] \in WhiteSpace
      BY <1>1
    <3> HIDE DEF solid
    <3>3. a \in solid /\ \A j \in solid : a <= j
      BY <2>2, <3>1, Least
    <3>4. b \in solid /\ \A j \in solid : b >= j
      <4>1. Max(solid) \in solid /\ \A y \in solid : y <= Max(solid)
        BY <1>1, <2>2, <3>1, Greatest
      <4>2. \A y \in solid : Max(solid) >= y
        BY <3>1, <4>1
      <4> QED BY <4>1, <4>2
    <3>5. Strip(s) = SubSeq(s, a, b)
      BY <2>2 DEF Strip, solid
    <3> HIDE DEF a, b
    <3>6. a \in 1 .. Len(s) /\ b \in 1 .. Len(s) /\ a <= b
      BY <3>1, <3>3, <3>4
    <3> DEFINE pre == SubSeq(s, 1, a - 1)  mid == SubSeq(s, a, b)  post == SubSeq(s, b + 1, Len(s))
    <3>7. /\ pre \in Text /\ mid \in Text /\ post \in Text /\ mid \o post \in Text
          /\ \A i \in 1 .. Len(pre) : pre[i] \in WhiteSpace
          /\ \A i \in 1 .. Len(post) : post[i] \in WhiteSpace
      <4>1. \A i \in 1 .. Len(s) : s[i] \in Token
        BY DEF Text
      <4>2. /\ pre \in Text /\ Len(pre) = IF 1 <= a - 1 THEN (a - 1) - 1 + 1 ELSE 0
            /\ \A i \in 1 .. (a - 1) - 1 + 1 : pre[i] = s[1 + i - 1]
        <5>1. 1 \in Int /\ a - 1 \in Int /\ \A i \in 1 .. a - 1 : s[i] \in Token
          BY <1>1, <3>6, <4>1
        <5> QED BY <5>1, SubSeqProperties DEF Text
      <4>3. mid \in Text
        <5>1. a \in Int /\ b \in Int /\ \A i \in a .. b : s[i] \in Token
          BY <1>1, <3>6, <4>1
        <5> QED BY <5>1, SubSeqProperties DEF Text
      <4>4. /\ post \in Text /\ Len(post) = IF b + 1 <= Len(s) THEN Len(s) - (b + 1) + 1 ELSE 0
            /\ \A i \in 1 .. Len(s) - (b + 1) + 1 : post[i] = s[(b + 1) + i - 1]
        <5>1. b + 1 \in Int /\ Len(s) \in Int /\ \A i \in b + 1 .. Len(s) : s[i] \in Token
          BY <1>1, <3>6, <4>1
        <5> QED BY <5>1, SubSeqProperties DEF Text
      <4> HIDE DEF pre, mid, post
      <4>5. ASSUME NEW i \in 1 .. Len(pre) PROVE pre[i] \in WhiteSpace
        <5>1. i \in 1 .. (a - 1) - 1 + 1 /\ 1 + i - 1 = i /\ i \in 1 .. Len(s) /\ i < a
          BY <1>1, <3>6, <4>2
        <5>2. i \notin solid
          BY <3>1, <3>3, <5>1
        <5> QED BY <3>2, <4>2, <5>1, <5>2
      <4>6. ASSUME NEW i \in 1 .. Len(post) PROVE post[i] \in WhiteSpace
        <5>1. i \in 1 .. Len(s) - (b + 1) + 1 /\ (b + 1) + i - 1 \in 1 .. Len(s) /\ b < (b + 1) + i - 1
          <6> DEFINE n == Len(s)  m == Len(post)
          <6>1. n \in Nat /\ b \in 1 .. n /\ m = IF b + 1 <= n THEN n - (b + 1) + 1 ELSE 0
            BY <1>1, <3>6, <4>4
          <6>2. i \in 1 .. m
            OBVIOUS
          <6> HIDE DEF n, m
          <6>3. i \in 1 .. n - (b + 1) + 1 /\ (b + 1) + i - 1 \in 1 .. n /\ b < (b + 1) + i - 1
            BY <6>1, <6>2
          <6> QED BY <6>3 DEF n
        <5>2. (b + 1) + i - 1 \notin solid
          BY <3>1, <3>4, <5>1
        <5> QED BY <3>2, <4>4, <5>1, <5>2
      <4>7. mid \o post \in Text
        BY <4>3, <4>4, ConcatProperties DEF Text
      <4> QED BY <4>2, <4>3, <4>4, <4>5, <4>6, <4>7
    <3>8. s = pre \o (mid \o post)
      <4>1. mid \o post = SubSeq(s, a, Len(s))
        <5>1. a \in 1 .. Len(s) + 1 /\ b \in a - 1 .. Len(s) /\ Len(s) \in b .. Len(s)
          BY <1>1, <3>6
        <5> QED BY <5>1, ConcatAdjacentSubSeq DEF Text
      <4>2. pre \o SubSeq(s, a, Len(s)) = SubSeq(s, 1, Len(s))
        <5>1. 1 \in 1 .. Len(s) + 1 /\ a - 1 \in 1 - 1 .. Len(s) /\ Len(s) \in a - 1 .. Len(s)
              /\ (a - 1) + 1 = a
          BY <1>1, <3>6
        <5>2. SubSeq(s, 1, a - 1) \o SubSeq(s, (a - 1) + 1, Len(s)) = SubSeq(s, 1, Len(s))
          BY <5>1, ConcatAdjacentSubSeq DEF Text
        <5> QED BY <5>1, <5>2
      <4>3. SubSeq(s, 1, Len(s)) = s
        BY SubSeqFull DEF Text
      <4> QED BY <4>1, <4>2, <4>3
    <3> HIDE DEF pre, mid, post
    <3>9. Words(pre \o (mid \o post)) = Words(mid \o post)
      BY <3>7, WordsOfBlanks
    <3>10. Words(mid \o post) = Words(mid)
      BY <3>7, WordsOfBlanks
    <3> QED BY <3>5, <3>8, <3>9, <3>10 DEF mid
  <2> QED BY <2>1, <2>2
<1>3. PICK t \in Text : t = Strip(s)
  BY StripType
<1>4. <<Space>> \o t \in Text
  BY SpaceType, ConcatProperties DEF Text
<1>5. Words(<<Space>> \o t) = Words(t)
  BY SpaceType, WordsType, RunsBlank DEF Words
<1>6. Words(Padded(t)) = Words(<<Space>> \o t)
  BY <1>4, WordsSpaced DEF Padded
<1> QED BY <1>2, <1>3, <1>5, <1>6

\* The words of a list of texts are theirs, one after the other.
LEMMA WordsOfParts ==
  ASSUME NEW ps \in Texts, NEW qs \in Texts
  PROVE  /\ Join(ps) \in Text /\ Join(ps \o qs) \in Text
         /\ Words(Join(ps \o qs)) = Words(Join(ps)) \o Words(Join(qs))
<1> DEFINE W(x) == Words(Join(x))
           S == {x \in Texts : W(ps \o x) = W(ps) \o W(x)}
<1>1. ASSUME NEW x \in Texts, NEW p \in Text
      PROVE  Join(x) \in Text /\ W(x) \in Texts /\ Words(p) \in Texts /\ W(Append(x, p)) = W(x) \o Words(p)
  <2>1. Join(x) \in Text /\ Join(Append(x, p)) = IF x = <<>> THEN p ELSE Join(x) \o <<Space>> \o p
    BY JoinAppend
  <2>2. W(x) \in Texts /\ Words(p) \in Texts
    BY <2>1, WordsType
  <2>3. CASE x = <<>>
    <3>1. W(x) = <<>>
      BY <2>3, JoinOfNothing, WordsType, <2>1
    <3>2. <<>> \o Words(p) = Words(p)
      BY <2>2, ConcatEmptySeq DEF Texts
    <3> QED BY <2>1, <2>2, <2>3, <3>1, <3>2
  <2>4. CASE x # <<>>
    BY <2>1, <2>2, <2>4, WordsSpaced
  <2> QED BY <2>1, <2>2, <2>3, <2>4
<1>2. \A x \in Texts : Join(x) \in Text /\ W(x) \in Texts
  <2>1. <<>> \in Text
    BY EmptySeq DEF Text
  <2> QED BY <1>1, <2>1
<1>3. <<>> \in S
  <2>1. <<>> \in Texts /\ ps \o <<>> = ps
    BY EmptySeq, ConcatEmptySeq DEF Texts
  <2>2. W(<<>>) = <<>>
    BY JoinOfNothing, WordsType, SpaceType
  <2> HIDE DEF W
  <2>3. W(ps) \o <<>> = W(ps)
    BY <1>2, ConcatEmptySeq DEF Texts
  <2> QED BY <2>1, <2>2, <2>3
<1>4. ASSUME NEW x \in Texts, NEW p \in Text, x \in S PROVE Append(x, p) \in S
  <2>1. PICK y \in Texts : y = ps \o x /\ ps \o Append(x, p) = Append(y, p) /\ Append(x, p) \in Texts
    BY AppendConcat, Zenon DEF Texts
  <2>2. W(y) = W(ps) \o W(x)
    BY <1>4, <2>1
  <2>3. W(Append(y, p)) = W(y) \o Words(p) /\ W(Append(x, p)) = W(x) \o Words(p)
    BY <1>1
  <2>4. W(ps) \in Texts /\ W(x) \in Texts /\ Words(p) \in Texts
    BY <1>1, <1>2
  <2> HIDE DEF W
  <2>5. (W(ps) \o W(x)) \o Words(p) = W(ps) \o (W(x) \o Words(p))
    <3>1. PICK a \in Texts, b \in Texts, c \in Texts : a = W(ps) /\ b = W(x) /\ c = Words(p)
      BY <2>4
    <3>2. (a \o b) \o c = a \o (b \o c)
      BY ConcatAssociative, SMTT(30) DEF Texts
    <3> QED BY <3>1, <3>2
  <2> QED BY <2>1, <2>2, <2>3, <2>5
<1>5. \A x \in Texts : x \in S
  <2> HIDE DEF S, W
  <2> QED BY <1>3, <1>4, AppendInduct DEF Texts
<1>6. ps \o qs \in Texts
  BY ConcatProperties DEF Texts
<1> QED BY <1>2, <1>5, <1>6

\* Chunking a transcript and joining the chunks changes no word (chunk,
\* normalizer.py:17-22; orchestrator.py:90).
THEOREM WordsOfChunks ==
  ASSUME NEW s \in Text, NEW size \in Nat, size # 0
  PROVE  Words(Join(Chunk(s, size))) = Words(s)
<1> DEFINE words == Words(s)
           n == Len(words)
           chunks == Chunk(s, size)
           count == Len(chunks)
           End(i) == IF i * size < n THEN i * size ELSE n
<1>1. /\ chunks \in Texts /\ chunks # <<>>
      /\ \/ words = <<>> /\ chunks = << <<>> >>
         \/ /\ words # <<>>
            /\ count = (n + size - 1) \div size
            /\ \A i \in 1 .. count : Words(chunks[i]) = SubSeq(words, (i - 1) * size + 1, End(i))
  BY ChunkWords
<1>2. words \in Texts
  BY WordsType
<1>3. CASE words = <<>> /\ chunks = << <<>> >>
  <2>1. <<>> \in Texts /\ <<>> \in Text /\ Append(<<>>, <<>>) = << <<>> >>
    BY EmptySeq DEF Text, Texts
  <2>2. Join(<< <<>> >>) = <<>>
    BY <2>1, JoinAppend
  <2> QED BY <1>3, <2>1, <2>2, WordsType
<1>4. CASE /\ words # <<>>
           /\ count = (n + size - 1) \div size
           /\ \A i \in 1 .. count : Words(chunks[i]) = SubSeq(words, (i - 1) * size + 1, End(i))
  <2>1. n \in Nat \ {0}
    BY <1>2, <1>4, EmptySeq DEF Texts
  <2> HIDE DEF chunks, words, n
  <2>2. /\ count \in Nat \ {0} /\ (\A i \in 1 .. count - 1 : i * size < n) /\ n <= count * size
        /\ (count - 1) * size < n
    <3> HIDE DEF count
    <3> QED BY <1>4, <2>1, GroupSizes
  <2> DEFINE A == {i \in Nat : i < count =>
                     Words(Join(SubSeq(chunks, 1, i + 1))) = SubSeq(words, 1, End(i + 1))}
  <2>3. \A i \in 1 .. count : chunks[i] \in Text /\ SubSeq(chunks, 1, i) \in Texts
    <3>1. ASSUME NEW i \in 1 .. count PROVE SubSeq(chunks, 1, i) \in Texts
      <4>1. 1 \in Int /\ i \in Int /\ \A j \in 1 .. i : chunks[j] \in Text
        BY <1>1, ElementOfSeq, <2>2 DEF Texts
      <4> QED BY <4>1, SubSeqProperties DEF Texts
    <3> QED BY <1>1, <3>1, ElementOfSeq DEF Texts
  <2>4. 0 \in A
    <3>1. 1 \in 1 .. count
      BY <2>2
    <3>2. SubSeq(chunks, 1, 0 + 1) = <<chunks[1]>>
      <4>1. SubSeq(chunks, 1, 1) = SubSeq(chunks, 1, 1 - 1) \o <<chunks[1]>>
        BY <1>1, <3>1, SubSeqRecursiveSecond DEF Texts
      <4>2. SubSeq(chunks, 1, 1 - 1) = <<>>
        BY SubSeqEmpty
      <4>3. <<chunks[1]>> \in Texts
        BY <2>3, <3>1 DEF Texts
      <4>4. <<>> \o <<chunks[1]>> = <<chunks[1]>>
        BY <4>3, ConcatEmptySeq DEF Texts
      <4>5. 0 + 1 = 1
        OBVIOUS
      <4> QED BY <4>1, <4>2, <4>4, <4>5, Zenon
    <3>3. Join(<<chunks[1]>>) = chunks[1]
      <4>1. <<>> \in Texts /\ Append(<<>>, chunks[1]) = <<chunks[1]>>
        BY EmptySeq DEF Texts
      <4> QED BY <2>3, <3>1, <4>1, JoinAppend
    <3>4. (1 - 1) * size + 1 = 1 /\ 0 + 1 = 1
      OBVIOUS
    <3>5. Words(chunks[1]) = SubSeq(words, (1 - 1) * size + 1, End(1))
      BY <1>4, <3>1
    <3> HIDE DEF End
    <3> QED BY <3>2, <3>3, <3>4, <3>5
  <2>5. ASSUME NEW i \in Nat, i \in A PROVE i + 1 \in A
    <3>1. SUFFICES ASSUME i + 1 < count
                   PROVE  Words(Join(SubSeq(chunks, 1, (i + 1) + 1))) = SubSeq(words, 1, End((i + 1) + 1))
      OBVIOUS
    <3> DEFINE k == i + 1  ps == SubSeq(chunks, 1, k)  p == chunks[k + 1]
    <3>2. k \in 1 .. count - 1 /\ k \in 1 .. count /\ k + 1 \in 1 .. count /\ (k + 1) - 1 = k
          /\ i < count /\ k \in Nat
      BY <2>2, <3>1
    <3>3. SubSeq(chunks, 1, k + 1) = ps \o <<p>>
      <4>1. SubSeq(chunks, 1, k + 1) = SubSeq(chunks, 1, (k + 1) - 1) \o <<chunks[k + 1]>>
        <5>1. 1 \in 1 .. count /\ k + 1 \in 1 .. count
          BY <2>2, <3>2
        <5> HIDE DEF k
        <5> QED BY <1>1, <5>1, SubSeqRecursiveSecond DEF Texts
      <4> QED BY <4>1, <3>2
    <3>4. ps \in Texts /\ p \in Text /\ <<p>> \in Texts
      <4>1. ps \in Texts /\ p \in Text
        BY <2>3, <3>2
      <4> HIDE DEF p
      <4> QED BY <4>1 DEF Texts
    <3>5. Words(Join(ps)) = SubSeq(words, 1, End(k))
      BY <2>5, <3>2
    <3>6. End(k) = k * size /\ k * size \in Nat /\ k * size < n
      BY <2>1, <2>2, <3>2
    <3>7. Words(p) = SubSeq(words, ((k + 1) - 1) * size + 1, End(k + 1))
      BY <1>4, <3>2
    <3>8. End(k + 1) \in k * size .. n
      <4>1. (k + 1) * size = k * size + size /\ (k + 1) * size \in Nat
        BY <3>2
      <4> QED BY <2>1, <3>6, <4>1
    <3>9. SubSeq(words, 1, k * size) \o SubSeq(words, k * size + 1, End(k + 1)) = SubSeq(words, 1, End(k + 1))
      <4> DEFINE e == End(k + 1)  m == k * size
      <4>1. m \in Nat /\ m < n /\ e \in m .. n
        BY <3>6, <3>8
      <4> HIDE DEF e, m
      <4>2. 1 \in 1 .. n + 1 /\ m \in 1 - 1 .. n /\ e \in m .. n
        BY <2>1, <4>1
      <4>3. SubSeq(words, 1, m) \o SubSeq(words, m + 1, e) = SubSeq(words, 1, e)
        BY <1>2, <4>2, ConcatAdjacentSubSeq DEF Texts, n
      <4> QED BY <4>3 DEF e, m
    <3> HIDE DEF End, k, ps, p
    <3>10. Join(<<p>>) = p
      <4>1. <<>> \in Texts /\ Append(<<>>, p) = <<p>>
        BY <3>4, EmptySeq DEF Texts
      <4> QED BY <3>4, <4>1, JoinAppend
    <3>11. Words(Join(ps \o <<p>>)) = Words(Join(ps)) \o Words(p)
      BY <3>4, <3>10, WordsOfParts
    <3>12. Words(Join(SubSeq(chunks, 1, k + 1))) = SubSeq(words, 1, End(k + 1))
      BY <3>2, <3>3, <3>5, <3>6, <3>7, <3>9, <3>11
    <3> QED BY <3>12 DEF k
  <2>6. count - 1 \in A
    <3> HIDE DEF A
    <3>1. Nat \subseteq A
      BY <2>4, <2>5, Induct
    <3> QED BY <2>2, <3>1
  <2>7. End(count) = n
    BY <2>1, <2>2
  <2>8. (count - 1) + 1 = count /\ count - 1 < count
    BY <2>2
  <2>9. SubSeq(chunks, 1, count) = chunks /\ SubSeq(words, 1, n) = words
    BY <1>1, <1>2, SubSeqFull DEF Texts, n
  <2>10. Words(Join(SubSeq(chunks, 1, (count - 1) + 1))) = SubSeq(words, 1, End((count - 1) + 1))
    <3> HIDE DEF End
    <3> QED BY <2>6, <2>8
  <2> HIDE DEF End, count
  <2> QED BY <2>7, <2>8, <2>9, <2>10 DEF words, chunks
<1> QED BY <1>1, <1>3, <1>4

-----------------------------------------------------------------------------
(* What Replace makes of a text, token by token.                           *)

\* What it makes of the end of a text does not depend on what is before it.
IsConcat(s, p, t) == s \in Text /\ s = p \o t

LEMMA ReplaceSuffix ==
  ASSUME NEW p \in Text, NEW t \in Text, NEW s, IsConcat(s, p, t),
         NEW old \in Text, old # <<>>, NEW new \in Text,
         NEW F, ReplaceOf(F, s, old, new), NEW G, ReplaceOf(G, t, old, new)
  PROVE  F[Len(p) + 1] = G[1]
<1> DEFINE l == Len(p)  n == Len(t)  o == Len(old)
           A == {m \in Nat : \A j \in 0 .. m : j <= n => F[l + (n + 1 - j)] = G[n + 1 - j]}
<1>0. s \in Text /\ s = p \o t
  BY DEF IsConcat
<1>1. l \in Nat /\ n \in Nat /\ o \in Nat \ {0} /\ Len(s) = l + n
  BY <1>0, EmptySeq, ConcatProperties DEF Text
<1>2. \A i \in 1 .. n : s[l + i] = t[i]
  <2>1. \A i \in 1 .. l + n : s[i] = IF i <= l THEN p[i] ELSE t[i - l]
    BY <1>0, ConcatProperties DEF Text
  <2> HIDE DEF l, n
  <2>2. ASSUME NEW i \in 1 .. n PROVE s[l + i] = t[i]
    <3>1. l + i \in 1 .. l + n /\ ~(l + i <= l) /\ (l + i) - l = i
      BY <1>1
    <3> QED BY <2>1, <3>1
  <2> QED BY <2>2
<1> HIDE DEF l, n, o
<1>3. ASSUME NEW i \in 1 .. n PROVE IsPrefixAt(old, s, l + i) <=> IsPrefixAt(old, t, i)
  <2>1. (l + i) + o - 1 <= l + n <=> i + o - 1 <= n
    BY <1>1
  <2>2. ASSUME i + o - 1 <= n
        PROVE  SubSeq(s, l + i, (l + i) + o - 1) = SubSeq(t, i, i + o - 1)
    <3> DEFINE a == l + i  b == (l + i) + o - 1
    <3>1. /\ a \in l + 1 .. l + n /\ b \in l + 1 .. l + n /\ a - l = i /\ b - l = i + o - 1
      BY <1>1, <2>2
    <3> HIDE DEF a, b
    <3>2. SubSeq(p \o t, a, b) = SubSeq(t, a - l, b - l)
      BY <3>1, SubSeqOfConcat2 DEF l, n, Text
    <3> QED BY <1>0, <3>1, <3>2 DEF a, b
  <2> QED BY <1>1, <2>1, <2>2 DEF IsPrefixAt, o, n
<1>4. ASSUME NEW i \in 1 .. n + 1, \A j \in i + 1 .. n + 1 : F[l + j] = G[j]
      PROVE  F[l + i] = G[i]
  <2>1. F[l + i] = ReplaceStep(s, old, new, F, l + i) /\ G[i] = ReplaceStep(t, old, new, G, i)
    <3>1. l + i \in 1 .. Len(s) + 1
      BY <1>1
    <3> QED BY <3>1 DEF ReplaceOf, n
  <2>2. CASE i = n + 1
    <3>1. l + i > Len(s) /\ i > n
      BY <1>1, <2>2
    <3> QED BY <2>1, <3>1 DEF ReplaceStep, n
  <2>3. CASE i \in 1 .. n
    <3>1. ~(l + i > Len(s)) /\ ~(i > n) /\ i + 1 \in i + 1 .. n + 1 /\ (l + i) + 1 = l + (i + 1)
      BY <1>1, <2>3
    <3>2. IsPrefixAt(old, s, l + i) <=> IsPrefixAt(old, t, i)
      BY <1>3, <2>3
    <3>3. CASE IsPrefixAt(old, t, i)
      <4>1. i + o \in i + 1 .. n + 1 /\ (l + i) + o = l + (i + o)
        BY <1>1, <3>3 DEF IsPrefixAt, n, o
      <4>2. F[(l + i) + o] = G[i + o]
        BY <1>4, <4>1
      <4> QED BY <2>1, <3>1, <3>2, <3>3, <4>2 DEF ReplaceStep, n, o
    <3>4. CASE ~IsPrefixAt(old, t, i)
      <4>1. F[(l + i) + 1] = G[i + 1]
        BY <1>4, <3>1
      <4>2. s[l + i] = t[i]
        BY <1>2, <2>3
      <4>3. ReplaceStep(s, old, new, F, l + i) = <<s[l + i]>> \o F[(l + i) + 1]
        BY <3>1, <3>2, <3>4 DEF ReplaceStep
      <4>4. ReplaceStep(t, old, new, G, i) = <<t[i]>> \o G[i + 1]
        BY <3>1, <3>4 DEF ReplaceStep, n
      <4> QED BY <2>1, <4>1, <4>2, <4>3, <4>4
    <3> QED BY <3>3, <3>4
  <2> QED BY <1>1, <2>2, <2>3
<1>5. 0 \in A
  <2>1. n + 1 - 0 \in 1 .. n + 1 /\ \A j \in (n + 1 - 0) + 1 .. n + 1 : FALSE
    BY <1>1
  <2>2. F[l + (n + 1 - 0)] = G[n + 1 - 0]
    BY <2>1, <1>4
  <2> QED BY <2>2
<1>6. ASSUME NEW m \in Nat, m \in A PROVE m + 1 \in A
  <2>1. SUFFICES ASSUME m + 1 <= n PROVE F[l + (n + 1 - (m + 1))] = G[n + 1 - (m + 1)]
    BY <1>1, <1>6
  <2>2. n + 1 - (m + 1) \in 1 .. n + 1
    BY <1>1, <2>1
  <2>3. ASSUME NEW j \in (n + 1 - (m + 1)) + 1 .. n + 1 PROVE F[l + j] = G[j]
    <3>1. n + 1 - j \in 0 .. m /\ n + 1 - j <= n /\ n + 1 - (n + 1 - j) = j
      BY <1>1, <2>1
    <3> QED BY <3>1, <1>6
  <2> QED BY <2>2, <2>3, <1>4
<1>7. n \in A
  <2> HIDE DEF A
  <2> QED BY <1>1, <1>5, <1>6, Induct
<1>8. ASSUME NEW i \in 1 .. n + 1 PROVE F[l + i] = G[i]
  <2>1. PICK j \in 0 .. n : j <= n /\ n + 1 - j = i
    <3>1. n + 1 - i \in 0 .. n /\ n + 1 - i <= n /\ n + 1 - (n + 1 - i) = i
      BY <1>1
    <3> QED BY <3>1
  <2>2. F[l + (n + 1 - j)] = G[n + 1 - j]
    BY <1>7, <2>1
  <2> QED BY <2>1, <2>2
<1>9. 1 \in 1 .. n + 1
  BY <1>1
<1> QED BY <1>8, <1>9 DEF l

\* A text that begins with another one is that one before the rest.
LEMMA PrefixConcat ==
  ASSUME NEW old \in Text, old # <<>>, NEW s \in Text
  PROVE  /\ IsPrefixAt(old, old \o s, 1)
         /\ IsPrefixAt(old, s, 1) => \E t \in Text : s = old \o t /\ Len(t) < Len(s)
<1> DEFINE n == Len(s)  o == Len(old)
<1>1. n \in Nat /\ o \in Nat \ {0} /\ Len(old \o s) = o + n
  BY EmptySeq, ConcatProperties DEF Text
<1>2. IsPrefixAt(old, old \o s, 1)
  <2>1. 1 \in 1 .. o /\ o \in 1 .. o /\ 1 + o - 1 = o /\ 1 + o - 1 <= o + n
    BY <1>1
  <2>2. SubSeq(old \o s, 1, o) = SubSeq(old, 1, o)
    BY <2>1, SubSeqOfConcat1 DEF Text
  <2>3. SubSeq(old, 1, o) = old
    BY SubSeqFull DEF Text
  <2> QED BY <1>1, <2>1, <2>2, <2>3 DEF IsPrefixAt
<1>3. ASSUME IsPrefixAt(old, s, 1) PROVE \E t \in Text : s = old \o t /\ Len(t) < n
  <2>1. 1 + o - 1 = o
    BY <1>1
  <2>2. o <= n /\ SubSeq(s, 1, o) = old
    BY <1>3, <2>1 DEF IsPrefixAt
  <2> DEFINE t == SubSeq(s, o + 1, n)
  <2> HIDE DEF n, o
  <2>3. SubSeq(s, 1, o) \o SubSeq(s, o + 1, n) = SubSeq(s, 1, n)
    <3>1. 1 \in 1 .. n + 1 /\ o \in 1 - 1 .. n /\ n \in o .. n
      BY <1>1, <2>2
    <3> QED BY <3>1, ConcatAdjacentSubSeq DEF Text, n
  <2>4. SubSeq(s, 1, n) = s
    BY SubSeqFull DEF Text, n
  <2>5. t \in Text /\ Len(t) = IF o + 1 <= n THEN n - (o + 1) + 1 ELSE 0
    <3>1. o + 1 \in Int /\ n \in Int
      BY <1>1
    <3>2. \A i \in o + 1 .. n : s[i] \in Token
      <4>1. \A i \in o + 1 .. n : i \in 1 .. n
        BY <1>1
      <4> QED BY <4>1, ElementOfSeq DEF Text, n
    <3> QED BY <3>1, <3>2, SubSeqProperties DEF Text
  <2>6. s = old \o t
    BY <2>2, <2>3, <2>4
  <2> HIDE DEF t
  <2>7. Len(t) < n
    BY <1>1, <2>2, <2>5
  <2> QED BY <2>5, <2>6, <2>7
<1> QED BY <1>2, <1>3

\* Replace goes from left to right.
LEMMA ReplaceCases ==
  ASSUME NEW t \in Text, NEW old \in Text, old # <<>>, NEW new \in Text
  PROVE  /\ Replace(t, old, new) \in Text
         /\ Replace(<<>>, old, new) = <<>>
         /\ Replace(old \o t, old, new) = new \o Replace(t, old, new)
         /\ \A x \in Token : ~IsPrefixAt(old, <<x>> \o t, 1)
              => Replace(<<x>> \o t, old, new) = <<x>> \o Replace(t, old, new)
<1>1. PICK G : ReplaceOf(G, t, old, new) /\ Replace(t, old, new) = G[1]
  BY ReplaceUnfold
<1>2. Len(t) \in Nat /\ Len(old) \in Nat \ {0} /\ 1 \in 1 .. Len(t) + 1
  BY EmptySeq DEF Text
<1>3. G[1] \in Text
  BY <1>1, <1>2 DEF ReplaceOf
<1>4. Replace(<<>>, old, new) = <<>>
  <2>1. <<>> \in Text /\ Len(<<>>) = 0
    BY EmptySeq DEF Text
  <2>2. PICK F : ReplaceOf(F, <<>>, old, new) /\ Replace(<<>>, old, new) = F[1]
    BY <2>1, ReplaceUnfold
  <2>3. F[1] = ReplaceStep(<<>>, old, new, F, 1)
    BY <2>1, <2>2 DEF ReplaceOf
  <2> QED BY <2>1, <2>2, <2>3 DEF ReplaceStep
<1>5. Replace(old \o t, old, new) = new \o G[1]
  <2>1. PICK s \in Text : s = old \o t
    BY ConcatProperties DEF Text
  <2>2. PICK F : ReplaceOf(F, s, old, new) /\ Replace(s, old, new) = F[1]
    BY ReplaceUnfold
  <2>3. Len(s) = Len(old) + Len(t)
    BY <2>1, ConcatProperties DEF Text
  <2>4. F[Len(old) + 1] = G[1]
    <3>1. IsConcat(s, old, t)
      BY <2>1 DEF IsConcat
    <3>2. ReplaceOf(F, s, old, new)
      BY <2>2
    <3>3. ReplaceOf(G, t, old, new)
      BY <1>1
    <3> QED BY <3>1, <3>2, <3>3, ReplaceSuffix, Z3
  <2>5. F[1] = ReplaceStep(s, old, new, F, 1)
    BY <1>2, <2>2, <2>3 DEF ReplaceOf
  <2>6. IsPrefixAt(old, s, 1)
    BY <2>1, PrefixConcat
  <2>7. ~(1 > Len(s)) /\ 1 + Len(old) = Len(old) + 1
    BY <1>2, <2>3
  <2> QED BY <2>1, <2>2, <2>4, <2>5, <2>6, <2>7 DEF ReplaceStep
<1>6. ASSUME NEW x \in Token, ~IsPrefixAt(old, <<x>> \o t, 1)
      PROVE  Replace(<<x>> \o t, old, new) = <<x>> \o G[1]
  <2>1. PICK p \in Text, s \in Text : p = <<x>> /\ s = p \o t
    BY HeadAndTailOf DEF Text
  <2>2. PICK F : ReplaceOf(F, s, old, new) /\ Replace(s, old, new) = F[1]
    BY ReplaceUnfold
  <2>3. Len(p) = 1 /\ Len(s) = 1 + Len(t) /\ s[1] = x
    BY <2>1, HeadAndTailOf DEF Text
  <2>4. F[Len(p) + 1] = G[1]
    <3>1. IsConcat(s, p, t)
      BY <2>1 DEF IsConcat
    <3>2. ReplaceOf(F, s, old, new)
      BY <2>2
    <3>3. ReplaceOf(G, t, old, new)
      BY <1>1
    <3> QED BY <3>1, <3>2, <3>3, ReplaceSuffix, Z3
  <2>5. F[1] = ReplaceStep(s, old, new, F, 1)
    BY <1>2, <2>2, <2>3 DEF ReplaceOf
  <2>6. ~(1 > Len(s)) /\ 1 + 1 = Len(p) + 1
    BY <1>2, <2>3
  <2> QED BY <1>6, <2>1, <2>2, <2>3, <2>4, <2>5, <2>6 DEF ReplaceStep
<1> QED BY <1>1, <1>3, <1>4, <1>5, <1>6

\* The same, where the text goes on with what is replaced and where it does not.
ReplacedHere(t, old, new) == Replace(old \o t, old, new) = new \o Replace(t, old, new)
PassedOver(one, t, old, new) == Replace(one \o t, old, new) = one \o Replace(t, old, new)

LEMMA ReplaceHere ==
  ASSUME NEW t \in Text, NEW old \in Text, old # <<>>, NEW new \in Text
  PROVE  ReplacedHere(t, old, new)
  BY ReplaceCases, Zenon DEF ReplacedHere

LEMMA ReplaceLater ==
  ASSUME NEW t \in Text, NEW old \in Text, old # <<>>, NEW new \in Text,
         NEW one \in Text, NEW x \in Token, one = <<x>>, ~IsPrefixAt(old, one \o t, 1)
  PROVE  PassedOver(one, t, old, new)
<1>1. \A y \in Token : ~IsPrefixAt(old, <<y>> \o t, 1)
        => Replace(<<y>> \o t, old, new) = <<y>> \o Replace(t, old, new)
  BY ReplaceCases, Zenon
<1>2. ~IsPrefixAt(old, <<x>> \o t, 1)
  BY Zenon
<1>3. Replace(<<x>> \o t, old, new) = <<x>> \o Replace(t, old, new)
  BY <1>1, <1>2, Zenon
<1> QED BY <1>3, Zenon DEF PassedOver

\* Whatever holds of equal lists of words, and still does when a word comes
\* before both or a filler before the first, holds of the words of a text and
\* those that are left when the filler is dropped.
LEMMA ReplaceDrops ==
  ASSUME NEW f \in Text, NEW R, << <<>>, <<>> >> \in R,
         \A a, b \in Texts, w \in Text : <<a, b>> \in R => << <<w>> \o a, <<w>> \o b >> \in R,
         \A a, b \in Texts : <<a, b>> \in R => <<Words(f) \o a, b>> \in R
  PROVE  \A s \in Text : <<Words(s), Words(Replace(s, Padded(f), <<Space>>))>> \in R
<1> DEFINE old == Padded(f)
           Dropped(s) == Replace(s, old, <<Space>>)
           Solid(s) == s # <<>> /\ s[1] \notin WhiteSpace
           Begin(a, b) == a # <<>> /\ b # <<>> /\ Head(b) = Head(a) /\ <<Tail(a), Tail(b)>> \in R
           Good(s, u) == /\ <<Words(s), Words(u)>> \in R
                         /\ Solid(s) => Solid(u) /\ Begin(Words(s), Words(u))
                         /\ ~Solid(s) => ~Solid(u)
           S == {s \in Text : Good(s, Dropped(s))}
<1>0. /\ old \in Text /\ old # <<>> /\ <<Space>> \in Text /\ Space \in Token /\ Space \in WhiteSpace
      /\ <<>> \in Text /\ Words(<<>>) = <<>>
  BY PaddedType, SpaceType, WordsType, EmptySeq DEF Text
<1> HIDE DEF old
<1>1. \A s \in Text : Dropped(s) \in Text /\ Words(s) \in Texts
  BY <1>0, ReplaceCases, WordsType
<1>2. <<>> \in S
  <2>1. Dropped(<<>>) = <<>>
    BY <1>0, ReplaceCases
  <2> QED BY <1>0, <2>1
<1> HIDE DEF Dropped
<1>3. ASSUME NEW t \in Text, t \in S PROVE old \o t \in S
  <2>1. PICK v \in Text : v = Dropped(t) /\ <<Words(t), Words(v)>> \in R
    BY <1>1, <1>3
  <2>2. PICK s \in Text : s = old \o t
    BY <1>0, ConcatProperties DEF Text
  <2>3. Dropped(s) = <<Space>> \o v
    <3>1. Replace(old \o t, old, <<Space>>) = <<Space>> \o Replace(t, old, <<Space>>)
      <4> DEFINE new == <<Space>>
      <4>1. new \in Text
        BY <1>0
      <4> HIDE DEF new
      <4>2. Replace(old \o t, old, new) = new \o Replace(t, old, new)
        <5>1. ReplacedHere(t, old, new)
          BY <1>0, <4>1, ReplaceHere
        <5> QED BY <5>1 DEF ReplacedHere
      <4> QED BY <4>2 DEF new
    <3> QED BY <2>1, <2>2, <3>1 DEF Dropped
  <2>4. <<Space>> \o v \in Text /\ (<<Space>> \o v)[1] = Space
    BY <1>0, HeadAndTailOf DEF Text
  <2>5. Words(<<Space>> \o v) = Words(v)
    BY <1>0, RunsBlank DEF Words
  <2>6. s[1] = Space
    <3>1. <<Space>> \o f \in Text /\ (<<Space>> \o f)[1] = Space /\ Len(<<Space>> \o f) = 1 + Len(f)
          /\ Len(f) \in Nat
      BY <1>0, HeadAndTailOf DEF Text
    <3> DEFINE g == <<Space>> \o f
    <3> HIDE DEF g
    <3>2. old[1] = g[1] /\ Len(old) = Len(g) + 1
      <4>1. \A i \in 1 .. Len(g) + Len(<<Space>>) :
              (g \o <<Space>>)[i] = IF i <= Len(g) THEN g[i] ELSE <<Space>>[i - Len(g)]
        BY <1>0, <3>1, ConcatProperties DEF Text, g
      <4>2. Len(g \o <<Space>>) = Len(g) + Len(<<Space>>)
        BY <1>0, <3>1, ConcatProperties DEF Text, g
      <4>3. Len(<<Space>>) = 1 /\ old = g \o <<Space>>
        BY DEF old, Padded, g
      <4>4. 1 \in 1 .. Len(g) + 1 /\ 1 <= Len(g)
        BY <3>1 DEF g
      <4> QED BY <4>1, <4>2, <4>3, <4>4
    <3>3. s[1] = old[1]
      <4>1. \A i \in 1 .. Len(old) + Len(t) : (old \o t)[i] = IF i <= Len(old) THEN old[i] ELSE t[i - Len(old)]
        BY <1>0, ConcatProperties DEF Text
      <4>2. Len(t) \in Nat /\ Len(old) \in Nat /\ 1 <= Len(old)
        BY <1>0, EmptySeq DEF Text
      <4>3. 1 \in 1 .. Len(old) + Len(t)
        BY <4>2
      <4> QED BY <2>2, <4>1, <4>2, <4>3
    <3> QED BY <3>1, <3>2, <3>3 DEF g
  <2>7. Words(s) = Words(f) \o Words(t)
    <3>1. PICK g \in Text : g = <<Space>> \o f
      BY <1>0, ConcatProperties DEF Text
    <3>2. Words(g \o <<Space>> \o t) = Words(g) \o Words(t)
      BY WordsSpaced
    <3>3. Words(g) = Words(f)
      BY <1>0, <3>1, RunsBlank DEF Words
    <3>4. s = g \o <<Space>> \o t
      BY <2>2, <3>1 DEF old, Padded
    <3> QED BY <3>2, <3>3, <3>4
  <2>8. <<Words(f) \o Words(t), Words(v)>> \in R
    BY <1>1, <2>1
  <2>9. ~Solid(s) /\ ~Solid(<<Space>> \o v)
    BY <1>0, <2>4, <2>6
  <2>10. Good(s, Dropped(s))
    BY <2>3, <2>5, <2>7, <2>8, <2>9
  <2> QED BY <2>2, <2>10
<1>4. ASSUME NEW t \in Text, t \in S, NEW x \in Token, ~IsPrefixAt(old, <<x>> \o t, 1)
      PROVE  <<x>> \o t \in S
  <2>1. PICK v \in Text : v = Dropped(t) /\ Good(t, v)
    BY <1>1, <1>4
  <2>2. PICK s \in Text, u \in Text : s = <<x>> \o t /\ u = <<x>> \o v /\ u = Dropped(s)
    <3>1. <<x>> \o t \in Text /\ <<x>> \o v \in Text
      BY HeadAndTailOf DEF Text
    <3>2. Replace(<<x>> \o t, old, <<Space>>) = <<x>> \o Replace(t, old, <<Space>>)
      <4> DEFINE new == <<Space>>
      <4>1. new \in Text
        BY <1>0
      <4> HIDE DEF new
      <4>2. Replace(<<x>> \o t, old, new) = <<x>> \o Replace(t, old, new)
        BY <1>0, <1>4, <4>1, ReplaceCases
      <4> QED BY <4>2 DEF new
    <3> QED BY <2>1, <3>1, <3>2 DEF Dropped
  <2>3. s # <<>> /\ s[1] = x /\ u # <<>> /\ u[1] = x
    BY <2>2, HeadAndTailOf DEF Text
  <2>4. SUFFICES Good(s, u)
    BY <2>2
  <2> HIDE DEF S
  <2>5. PICK a \in Texts, b \in Texts : a = Words(t) /\ b = Words(v) /\ <<a, b>> \in R
    BY <1>1, <2>1
  <2>6. CASE x \in WhiteSpace
    <3>1. Words(s) = a /\ Words(u) = b
      BY <2>2, <2>5, <2>6, RunsBlank DEF Words
    <3> QED BY <2>3, <2>5, <2>6, <3>1
  <2>7. ASSUME x \notin WhiteSpace, NEW p \in Texts, NEW q \in Texts, NEW w \in Text,
               Words(s) = <<w>> \o p, Words(u) = <<w>> \o q, <<p, q>> \in R
        PROVE  Good(s, u)
    <3>1. << <<w>> \o p, <<w>> \o q >> \in R
      BY <2>7
    <3>2. /\ <<w>> \o p # <<>> /\ Head(<<w>> \o p) = w /\ Tail(<<w>> \o p) = p
          /\ <<w>> \o q # <<>> /\ Head(<<w>> \o q) = w /\ Tail(<<w>> \o q) = q
      BY HeadAndTailOf DEF Texts
    <3> QED BY <2>3, <2>7, <3>1, <3>2
  <2>8. CASE x \notin WhiteSpace /\ ~Solid(t)
    <3>1. ~Solid(v)
      BY <2>1, <2>8
    <3>2. Words(s) = << <<x>> >> \o a /\ Words(u) = << <<x>> >> \o b
      BY <2>2, <2>5, <2>8, <3>1, RunsAlone DEF Words
    <3>3. <<x>> \in Text
      BY DEF Text
    <3> QED BY <2>5, <2>7, <2>8, <3>2, <3>3
  <2>9. CASE x \notin WhiteSpace /\ Solid(t)
    <3>1. Solid(v) /\ Begin(a, b)
      BY <2>1, <2>5, <2>9
    <3>2. /\ Words(s) = << <<x>> \o Head(a) >> \o Tail(a)
          /\ Words(u) = << <<x>> \o Head(b) >> \o Tail(b)
      <4>1. Runs(<<x>> \o t, WhiteSpace) = << <<x>> \o Head(Runs(t, WhiteSpace)) >> \o Tail(Runs(t, WhiteSpace))
        BY <2>9, RunsFirst
      <4>2. Runs(<<x>> \o v, WhiteSpace) = << <<x>> \o Head(Runs(v, WhiteSpace)) >> \o Tail(Runs(v, WhiteSpace))
        BY <2>9, <3>1, RunsFirst
      <4> QED BY <2>2, <2>5, <4>1, <4>2, Zenon DEF Words
    <3>3. Head(a) \in Text /\ Tail(a) \in Texts /\ Tail(b) \in Texts
      BY <3>1, HeadTailProperties DEF Texts
    <3>4. <<x>> \o Head(a) \in Text
      BY <3>3, HeadAndTailOf DEF Text
    <3> QED BY <2>7, <2>9, <3>1, <3>2, <3>3, <3>4
  <2> QED BY <2>6, <2>8, <2>9
<1>5. ASSUME NEW s \in Text, \A t \in Text : Len(t) < Len(s) => t \in S PROVE s \in S
  <2>1. CASE s = <<>>
    BY <1>2, <2>1
  <2>2. CASE IsPrefixAt(old, s, 1)
    <3>1. PICK t \in Text : s = old \o t /\ Len(t) < Len(s)
      BY <1>0, <2>2, PrefixConcat
    <3> QED BY <1>3, <1>5, <3>1
  <2>3. CASE s # <<>> /\ ~IsPrefixAt(old, s, 1)
    <3>1. PICK x \in Token, t \in Text : s = <<x>> \o t /\ Len(t) = Len(s) - 1 /\ Len(s) \in Nat
      BY <2>3, FirstAndRest DEF Text
    <3>2. Len(t) < Len(s)
      BY <3>1
    <3> HIDE DEF S
    <3> QED BY <1>4, <1>5, <2>3, <3>1, <3>2
  <2> QED BY <2>1, <2>2, <2>3
<1> HIDE DEF S
<1>6. Text \subseteq S
  BY <1>5, ShorterInduct DEF Text
<1> QED BY <1>6 DEF S, Dropped, old

\* The same of the text that is normalised and chunked.
LEMMA NormalizeDrops ==
  ASSUME NEW R, \A a \in Texts : <<a, a>> \in R,
         \A a, b, c \in Texts : <<a, b>> \in R /\ <<b, c>> \in R => <<a, c>> \in R,
         \A a, b \in Texts, w \in Text : <<a, b>> \in R => << <<w>> \o a, <<w>> \o b >> \in R,
         \A i \in 1 .. 4 : \A a, b \in Texts : <<a, b>> \in R => <<Words(Fillers[i]) \o a, b>> \in R,
         NEW s \in Text
  PROVE  <<Words(s), Words(Normalize(s))>> \in R
<1>1. PICK F : NormalizeOf(F, s) /\ Normalize(s) = Join(Words(F[4]))
  BY NormalizeUnfold
<1> DEFINE V == {t \in Text : <<Words(s), Words(t)>> \in R}
<1>2. F[0] \in V
  <2>1. F[0] \in Text /\ F[0] = Padded(Strip(s))
    BY <1>1 DEF NormalizeOf
  <2>2. Words(F[0]) = Words(s)
    BY <2>1, WordsOfStrip
  <2>3. Words(s) \in Texts
    BY WordsType
  <2> QED BY <2>1, <2>2, <2>3
<1>3. ASSUME NEW i \in 1 .. 4, F[i - 1] \in V PROVE F[i] \in V
  <2>1. i - 1 \in 0 .. 4 /\ i \in 0 .. 4
    OBVIOUS
  <2>2. F[i - 1] \in Text /\ F[i] \in Text /\ F[i] = Replace(F[i - 1], Padded(Fillers[i]), <<Space>>)
    BY <1>1, <2>1 DEF NormalizeOf
  <2>3. PICK f \in Text : f = Fillers[i]
    BY FillersType
  <2>4. \A a, b \in Texts : <<a, b>> \in R => <<Words(f) \o a, b>> \in R
    BY <2>3
  <2>5. << <<>>, <<>> >> \in R
    BY EmptySeq DEF Texts
  <2>6. <<Words(F[i - 1]), Words(F[i])>> \in R
    <3>1. \A t \in Text : <<Words(t), Words(Replace(t, Padded(f), <<Space>>))>> \in R
      BY <2>4, <2>5, ReplaceDrops
    <3> QED BY <2>2, <2>3, <3>1
  <2>7. Words(s) \in Texts /\ Words(F[i - 1]) \in Texts /\ Words(F[i]) \in Texts
    BY <2>2, WordsType
  <2> QED BY <1>3, <2>2, <2>6, <2>7
<1> HIDE DEF V
<1>4. \A i \in 0 .. 4 : F[i] \in V
  BY <1>2, <1>3, Recursion
<1>5. F[4] \in Text /\ <<Words(s), Words(F[4])>> \in R
  BY <1>4 DEF V
<1>6. Words(Normalize(s)) = Words(F[4])
  BY <1>1, <1>5, WordsType, WordsOfJoin
<1> QED BY <1>5, <1>6

-----------------------------------------------------------------------------
(* Plain speech: words with one space between any two.                     *)

Word      == {w \in Text : IsRun(w, WhiteSpace)}
WordLists == Seq(Word)

\* The text that is normalised, when it has these words, and what follows its
\* first space.
Trailing(ws) == IF ws = <<>> THEN <<>> ELSE Join(ws) \o <<Space>>
Spaced(ws)   == <<Space>> \o Trailing(ws)

LEMMA WordListsType ==
  /\ WordLists = RunsApart(WhiteSpace) /\ WordLists \subseteq Texts
  /\ <<>> \in WordLists /\ <<>> \in Text /\ <<>> \in Texts
  /\ <<Space>> \in Text /\ <<Space>>[1] = Space /\ Len(<<Space>>) = 1
  /\ Space \in Token /\ Space \in WhiteSpace
<1>1. Word \subseteq Text
  BY DEF Word
<1>2. WordLists \subseteq Texts
  BY <1>1, SeqMonotonic DEF WordLists, Texts
<1>3. <<>> \in WordLists /\ <<>> \in Text /\ <<>> \in Texts
  BY EmptySeq DEF WordLists, Text, Texts
<1>4. WordLists = RunsApart(WhiteSpace)
  BY DEF WordLists, Word, RunsApart
<1>5. <<Space>>[1] = Space /\ Len(<<Space>>) = 1 /\ Space \in WhiteSpace
  BY DEF WhiteSpace
<1> QED BY <1>2, <1>3, <1>4, <1>5, SpaceType

LEMMA TextConcat ==
  ASSUME NEW a \in Text, NEW b \in Text, NEW c \in Text
  PROVE  a \o b \in Text /\ b \o c \in Text /\ (a \o b) \o c = a \o (b \o c)
  BY ConcatProperties, ConcatAssociative DEF Text

Regrouped(a, b, c) == (a \o b) \o c = a \o (b \o c)

LEMMA TextAssoc ==
  ASSUME NEW a \in Text, NEW b \in Text, NEW c \in Text
  PROVE  Regrouped(a, b, c)
  BY TextConcat DEF Regrouped

LEMMA TextConcatEmpty ==
  ASSUME NEW a \in Text
  PROVE  <<>> \o a = a /\ a \o <<>> = a
  BY ConcatEmptySeq DEF Text

LEMMA TextConcatAt ==
  ASSUME NEW a \in Text, NEW b \in Text
  PROVE  /\ Len(a) \in Nat /\ Len(b) \in Nat /\ Len(a \o b) = Len(a) + Len(b)
         /\ \A i \in 1 .. Len(a) : (a \o b)[i] = a[i]
         /\ \A i \in 1 .. Len(b) : (a \o b)[Len(a) + i] = b[i]
<1> DEFINE m == Len(a)  n == Len(b)  s == a \o b
<1>1. /\ m \in Nat /\ n \in Nat /\ Len(s) = m + n
      /\ \A i \in 1 .. m + n : s[i] = IF i <= m THEN a[i] ELSE b[i - m]
  BY ConcatProperties, LenProperties DEF Text
<1> HIDE DEF m, n, s
<1>2. \A i \in 1 .. m : s[i] = a[i]
  BY <1>1
<1>3. ASSUME NEW i \in 1 .. n PROVE s[m + i] = b[i]
  <2>1. m + i \in 1 .. m + n /\ ~(m + i <= m) /\ (m + i) - m = i
    BY <1>1
  <2> QED BY <1>1, <2>1
<1> QED BY <1>1, <1>2, <1>3 DEF m, n, s

\* Join from the left.
LEMMA JoinFirst ==
  ASSUME NEW w \in Text, NEW r \in Texts
  PROVE  /\ Join(r) \in Text /\ Join(<<w>>) = w
         /\ r # <<>> => Join(<<w>> \o r) = w \o (<<Space>> \o Join(r))
<1> DEFINE S == {x \in Texts : x # <<>> => Join(<<w>> \o x) = w \o (<<Space>> \o Join(x))}
<1>0. /\ <<>> \in Texts /\ <<Space>> \in Text /\ <<w>> \in Texts
  BY WordListsType DEF Texts
<1>1. \A x \in Texts : Join(x) \in Text
  BY JoinAppend
<1>2. Join(<<w>>) = w
  <2>1. Append(<<>>, w) = <<w>>
    BY <1>0 DEF Texts
  <2> QED BY <1>0, <2>1, JoinAppend
<1>3. <<>> \in S
  BY <1>0
<1>4. ASSUME NEW x \in Texts, NEW p \in Text, x \in S PROVE Append(x, p) \in S
  <2>1. PICK y \in Texts : y = <<w>> \o x /\ <<w>> \o Append(x, p) = Append(y, p) /\ Append(x, p) \in Texts
    BY <1>0, AppendConcat, Zenon DEF Texts
  <2>2. y # <<>>
    <3>1. <<w>> \o x # <<>>
      BY HeadAndTailOf DEF Texts
    <3> QED BY <2>1, <3>1
  <2>3. Join(Append(y, p)) = Join(y) \o <<Space>> \o p
    BY <2>2, JoinAppend
  <2>4. Join(Append(x, p)) = IF x = <<>> THEN p ELSE Join(x) \o <<Space>> \o p
    BY JoinAppend
  <2>5. PICK sp \in Text : sp = <<Space>>
    BY <1>0
  <2>6. CASE x = <<>>
    <3>1. y = <<w>>
      BY <1>0, <2>1, <2>6, ConcatEmptySeq DEF Texts
    <3>2. (w \o sp) \o p = w \o (sp \o p)
      <4>1. Regrouped(w, sp, p)
        BY TextAssoc
      <4> QED BY <4>1 DEF Regrouped
    <3> QED BY <1>2, <2>1, <2>3, <2>4, <2>5, <2>6, <3>1, <3>2
  <2>7. CASE x # <<>>
    <3>1. PICK j \in Text : j = Join(x)
      BY <1>1
    <3>2. Join(y) = w \o (sp \o j)
      BY <1>4, <2>1, <2>5, <2>7, <3>1
    <3>3. ((w \o (sp \o j)) \o sp) \o p = w \o (sp \o ((j \o sp) \o p))
      <4>1. PICK a \in Text, b \in Text : a = sp \o j /\ b = j \o sp
        BY TextConcat
      <4>2. PICK c \in Text, d \in Text : c = a \o sp /\ d = b \o p
        BY TextConcat
      <4>3. (w \o a) \o sp = w \o (a \o sp)
        <5>1. Regrouped(w, a, sp)
          BY TextAssoc
        <5> QED BY <5>1 DEF Regrouped
      <4>4. (w \o c) \o p = w \o (c \o p)
        <5>1. Regrouped(w, c, p)
          BY TextAssoc
        <5> QED BY <5>1 DEF Regrouped
      <4>5. c = sp \o b
        <5>1. (sp \o j) \o sp = sp \o (j \o sp)
          <6>1. Regrouped(sp, j, sp)
            BY TextAssoc
          <6> QED BY <6>1 DEF Regrouped
        <5> QED BY <4>1, <4>2, <5>1
      <4>6. (sp \o b) \o p = sp \o (b \o p)
        <5>1. Regrouped(sp, b, p)
          BY TextAssoc
        <5> QED BY <5>1 DEF Regrouped
      <4> QED BY <4>1, <4>2, <4>3, <4>4, <4>5, <4>6
    <3> QED BY <2>1, <2>3, <2>4, <2>5, <2>7, <3>1, <3>2, <3>3
  <2> QED BY <2>6, <2>7
<1> HIDE DEF S
<1>5. Texts \subseteq S
  BY <1>3, <1>4, AppendInduct DEF Texts
<1> QED BY <1>1, <1>2, <1>5 DEF S

LEMMA TrailingFirst ==
  ASSUME NEW w \in Text, NEW r \in Texts
  PROVE  /\ Trailing(r) \in Text /\ Spaced(r) \in Text
         /\ Spaced(<<>>) = <<Space>>
         /\ Trailing(<<w>> \o r) = w \o Spaced(r)
         /\ Spaced(<<w>> \o r) = <<Space>> \o (w \o Spaced(r))
<1>0. PICK sp \in Text : sp = <<Space>>
  BY WordListsType
<1>1. ASSUME NEW x \in Texts PROVE Trailing(x) \in Text /\ Spaced(x) \in Text
  <2>1. PICK j \in Text : j = Join(x)
    BY JoinAppend
  <2>2. j \o sp \in Text /\ <<>> \in Text
    BY TextConcat, WordListsType
  <2>3. Trailing(x) \in Text
    BY <1>0, <2>1, <2>2 DEF Trailing
  <2>4. PICK t \in Text : t = Trailing(x)
    BY <2>3
  <2>5. sp \o t \in Text
    BY TextConcat
  <2> QED BY <1>0, <2>4, <2>5 DEF Spaced
<1>2. Spaced(<<>>) = <<Space>>
  BY WordListsType, TextConcatEmpty DEF Spaced, Trailing
<1>3. <<w>> \o r # <<>>
  BY HeadAndTailOf DEF Texts
<1>4. Trailing(<<w>> \o r) = w \o Spaced(r)
  <2>1. Trailing(<<w>> \o r) = Join(<<w>> \o r) \o sp
    BY <1>0, <1>3 DEF Trailing
  <2>2. CASE r = <<>>
    <3>1. <<w>> \o r = <<w>>
      <4>1. <<w>> \in Texts
        BY DEF Texts
      <4> QED BY <2>2, <4>1, ConcatEmptySeq DEF Texts
    <3> QED BY <1>0, <1>2, <2>1, <2>2, <3>1, JoinFirst
  <2>3. CASE r # <<>>
    <3>1. PICK j \in Text : j = Join(r)
      BY JoinFirst
    <3>2. Join(<<w>> \o r) = w \o (sp \o j)
      BY <1>0, <2>3, <3>1, JoinFirst
    <3>3. PICK a \in Text : a = sp \o j
      BY TextConcat
    <3>4. (w \o a) \o sp = w \o (a \o sp)
      <4>1. Regrouped(w, a, sp)
        BY TextAssoc
      <4> QED BY <4>1 DEF Regrouped
    <3>5. (sp \o j) \o sp = sp \o (j \o sp)
      <4>1. Regrouped(sp, j, sp)
        BY TextAssoc
      <4> QED BY <4>1 DEF Regrouped
    <3>6. Spaced(r) = sp \o (j \o sp)
      BY <1>0, <2>3, <3>1 DEF Spaced, Trailing
    <3> QED BY <2>1, <3>2, <3>3, <3>4, <3>5, <3>6
  <2> QED BY <2>2, <2>3
<1> QED BY <1>1, <1>2, <1>4 DEF Spaced

\* Plain speech has no white space at its ends.
LEMMA StripOfWords ==
  ASSUME NEW ws \in WordLists, ws # <<>>
  PROVE  Padded(Strip(Join(ws))) = Spaced(ws)
<1>0. ws \in Texts /\ <<>> \in Texts /\ \A w \in Word : w \in Text /\ Len(w) \in Nat \ {0}
  BY WordListsType, EmptySeq DEF Word, IsRun, Text
<1>1. PICK s \in Text : s = Join(ws)
  <2>1. Join(ws) \in Text
    BY <1>0, WordListsType, JoinFirst
  <2> QED BY <2>1
<1>2. s # <<>> /\ s[1] \notin WhiteSpace
  <2>1. PICK w \in Word, r \in WordLists : ws = <<w>> \o r
    BY FirstAndRest DEF WordLists
  <2>2. w \in Text /\ Len(w) \in Nat \ {0} /\ w[1] \notin WhiteSpace /\ r \in Texts
    BY <1>0, WordListsType DEF Word, IsRun
  <2>3. w # <<>>
    BY DEF Word, IsRun
  <2>4. CASE r = <<>>
    <3>1. ws = <<w>>
      <4>1. <<w>> \in Texts
        BY <2>2 DEF Texts
      <4> QED BY <2>1, <2>4, <4>1, ConcatEmptySeq DEF Texts
    <3> QED BY <1>1, <2>2, <2>3, <3>1, JoinFirst
  <2>5. CASE r # <<>>
    <3>1. PICK a \in Text : a = <<Space>> \o Join(r)
      <4>1. PICK j \in Text, sp \in Text : j = Join(r) /\ sp = <<Space>>
        BY <2>2, JoinFirst, WordListsType
      <4> QED BY <4>1, TextConcat
    <3>2. s = w \o a
      BY <1>1, <2>1, <2>2, <2>5, <3>1, JoinFirst
    <3>3. /\ Len(w \o a) = Len(w) + Len(a) /\ Len(a) \in Nat /\ (w \o a)[1] = w[1]
      BY <2>2, TextConcatAt
    <3>4. s # <<>>
      BY <2>2, <3>2, <3>3, EmptySeq
    <3> QED BY <2>2, <3>2, <3>3, <3>4
  <2> QED BY <2>4, <2>5
<1>3. s[Len(s)] \notin WhiteSpace
  <2>1. PICK r \in WordLists, w \in Word : ws = Append(r, w)
    BY SequenceEmptyOrAppend DEF WordLists
  <2>2. w \in Text /\ Len(w) \in Nat \ {0} /\ w[Len(w)] \notin WhiteSpace /\ r \in Texts
    BY <1>0, WordListsType DEF Word, IsRun
  <2>3. s = IF r = <<>> THEN w ELSE (Join(r) \o <<Space>>) \o w
    BY <1>1, <2>1, <2>2, JoinAppend
  <2>4. CASE r = <<>>
    BY <2>2, <2>3, <2>4
  <2>5. CASE r # <<>>
    <3>1. PICK a \in Text : a = Join(r) \o <<Space>>
      <4>1. PICK j \in Text, sp \in Text : j = Join(r) /\ sp = <<Space>>
        BY <2>2, JoinFirst, WordListsType
      <4> QED BY <4>1, TextConcat
    <3>2. Len(a \o w) = Len(a) + Len(w) /\ (a \o w)[Len(a) + Len(w)] = w[Len(w)]
      BY <2>2, TextConcatAt
    <3> QED BY <2>2, <2>3, <2>5, <3>1, <3>2
  <2> QED BY <2>4, <2>5
<1>4. Strip(s) = s
  <2> DEFINE solid == {i \in DOMAIN s : s[i] \notin WhiteSpace}
             a == CHOOSE i \in solid : \A j \in solid : i <= j
             b == CHOOSE i \in solid : \A j \in solid : i >= j
  <2>1. Len(s) \in Nat \ {0} /\ DOMAIN s = 1 .. Len(s)
    BY <1>2, EmptySeq DEF Text
  <2>2. 1 \in solid /\ Len(s) \in solid /\ \A j \in solid : j \in Nat /\ 1 <= j /\ j <= Len(s)
    BY <1>2, <1>3, <2>1
  <2> HIDE DEF solid
  <2>3. a = 1 /\ b = Len(s)
    <3>1. a \in solid /\ \A j \in solid : a <= j
      BY <2>2
    <3>2. b \in solid /\ \A j \in solid : b >= j
      BY <2>1, <2>2
    <3> HIDE DEF a, b
    <3> QED BY <2>1, <2>2, <3>1, <3>2
  <2>4. Strip(s) = SubSeq(s, a, b)
    BY <2>2 DEF Strip, solid
  <2> QED BY <2>3, <2>4, SubSeqFull DEF Text
<1>5. PICK sp \in Text : sp = <<Space>>
  BY WordListsType
<1>6. Padded(s) = (sp \o s) \o sp /\ Spaced(ws) = sp \o (s \o sp)
  BY <1>1, <1>5 DEF Padded, Spaced, Trailing
<1>7. (sp \o s) \o sp = sp \o (s \o sp)
  <2>1. Regrouped(sp, s, sp)
    BY TextAssoc
  <2> QED BY <2>1 DEF Regrouped
<1> QED BY <1>1, <1>4, <1>6, <1>7

\* It is split where its words end.
LEMMA WordsOfSpaced ==
  ASSUME NEW ws \in WordLists
  PROVE  Words(Spaced(ws)) = ws
<1>1. PICK t \in Text : t = Trailing(ws)
  BY WordListsType, TrailingFirst DEF Texts
<1>2. Words(Spaced(ws)) = Words(t)
  BY <1>1, WordListsType, RunsBlank DEF Words, Spaced
<1>3. CASE ws = <<>>
  BY <1>1, <1>2, <1>3, WordsType, WordListsType DEF Trailing
<1>4. CASE ws # <<>>
  <2>1. Join(ws) \in Text /\ Words(Join(ws)) = ws
    BY WordListsType, WordsOfJoin
  <2>2. Words(Join(ws) \o <<Space>>) = Words(Join(ws))
    BY <2>1, WordListsType, WordsSpaced
  <2> QED BY <1>1, <1>2, <1>4, <2>1, <2>2 DEF Trailing
<1> QED BY <1>3, <1>4

\* A word in which nothing that is replaced begins.
LEMMA ReplacePassesWord ==
  ASSUME NEW w \in Word, NEW t \in Text, NEW old \in Text, old # <<>>, old[1] = Space
  PROVE  Replace(w \o t, old, <<Space>>) = w \o Replace(t, old, <<Space>>)
<1> DEFINE new == <<Space>>
           S == {v \in Text : (\A i \in 1 .. Len(v) : v[i] # old[1])
                              => Replace(v \o t, old, new) = v \o Replace(t, old, new)}
<1>0. new \in Text /\ w \in Text /\ \A i \in 1 .. Len(w) : w[i] # old[1]
  BY WordListsType DEF Word, IsRun
<1> HIDE DEF new
<1>1. PICK u \in Text : u = Replace(t, old, new)
  BY <1>0, ReplaceCases
<1>2. ASSUME NEW v \in Text, \A x \in Text : Len(x) < Len(v) => x \in S PROVE v \in S
  <2>1. CASE v = <<>>
    BY <1>1, <2>1, TextConcatEmpty
  <2>2. CASE v # <<>>
    <3>1. SUFFICES ASSUME \A i \in 1 .. Len(v) : v[i] # old[1]
                   PROVE  Replace(v \o t, old, new) = v \o u
      BY <1>1
    <3>2. PICK x \in Token, r \in Text : x = v[1] /\ v = <<x>> \o r /\ Len(r) = Len(v) - 1 /\ Len(v) \in Nat \ {0}
      BY <2>2, FirstAndRest DEF Text
    <3>3. PICK one \in Text : one = <<x>>
      <4>1. <<x>> \in Text
        BY DEF Text
      <4> QED BY <4>1
    <3>4. \A i \in 1 .. Len(r) : r[i] # old[1]
      <4>1. Len(one) = 1 /\ \A i \in 1 .. Len(r) : v[1 + i] = r[i]
        <5>1. Len(one) = 1
          BY <3>3
        <5>2. \A i \in 1 .. Len(r) : (one \o r)[Len(one) + i] = r[i]
          BY TextConcatAt
        <5> QED BY <3>2, <3>3, <5>1, <5>2
      <4>2. \A i \in 1 .. Len(r) : 1 + i \in 1 .. Len(v)
        BY <3>2
      <4> QED BY <3>1, <4>1, <4>2
    <3>5. Replace(r \o t, old, new) = r \o u
      <4>1. Len(r) < Len(v)
        BY <3>2
      <4> QED BY <1>1, <1>2, <3>4, <4>1
    <3>6. PICK y \in Text : y = r \o t /\ v \o t = one \o y
      <4>1. r \o t \in Text /\ (one \o r) \o t = one \o (r \o t)
        BY TextConcat
      <4> QED BY <3>2, <3>3, <4>1
    <3>7. ~IsPrefixAt(old, <<x>> \o y, 1)
      <4>1. SUFFICES ASSUME NEW z \in Text, <<x>> \o y = old \o z PROVE FALSE
        <5>1. <<x>> \o y \in Text
          BY <3>3, TextConcat
        <5> QED BY <5>1, PrefixConcat
      <4>2. (<<x>> \o y)[1] = x
        BY HeadAndTailOf DEF Text
      <4>3. (old \o z)[1] = old[1]
        <5>1. Len(old) \in Nat \ {0}
          BY EmptySeq DEF Text
        <5>2. \A i \in 1 .. Len(old) : (old \o z)[i] = old[i]
          BY TextConcatAt
        <5> QED BY <5>1, <5>2
      <4>4. 1 \in 1 .. Len(v)
        BY <3>2
      <4> QED BY <3>1, <3>2, <4>1, <4>2, <4>3, <4>4
    <3>8. Replace(<<x>> \o y, old, new) = <<x>> \o Replace(y, old, new)
      BY <1>0, <3>7, ReplaceCases
    <3>9. (one \o r) \o u = one \o (r \o u)
      <4>1. Regrouped(one, r, u)
        BY TextAssoc
      <4> QED BY <4>1 DEF Regrouped
    <3> QED BY <3>2, <3>3, <3>5, <3>6, <3>8, <3>9
  <2> HIDE DEF S
  <2> QED BY <2>1, <2>2
<1> HIDE DEF S
<1>3. Text \subseteq S
  BY <1>2, ShorterInduct DEF Text
<1> QED BY <1>0, <1>3 DEF S, new

\* A filler is what plain speech begins with, and dropping a filler makes one
\* plain speech of another.
Begins(f, a)     == IsPrefixAt(Padded(f), Spaced(a), 1)
DropsTo(f, a, b) == Replace(Spaced(a), Padded(f), <<Space>>) = Spaced(b)

LEMMA PaddedAt ==
  ASSUME NEW f \in Text
  PROVE  /\ Padded(f) \in Text /\ Padded(f) # <<>> /\ Len(f) \in Nat /\ Len(Padded(f)) = Len(f) + 2
         /\ Padded(f)[1] = Space
         /\ \A i \in 1 .. Len(f) : Padded(f)[i + 1] = f[i]
         /\ Padded(f)[Len(f) + 2] = Space
<1>1. PICK sp \in Text : sp = <<Space>> /\ Len(sp) = 1 /\ sp[1] = Space
  BY WordListsType
<1>2. PICK g \in Text : g = sp \o f
  BY TextConcat
<1>3. Len(g) = 1 + Len(f) /\ Len(f) \in Nat /\ g[1] = Space /\ \A i \in 1 .. Len(f) : g[1 + i] = f[i]
  BY <1>1, <1>2, TextConcatAt
<1>4. Padded(f) = g \o sp
  BY <1>1, <1>2 DEF Padded
<1>5. /\ Len(g \o sp) = Len(g) + 1 /\ (\A i \in 1 .. Len(g) : (g \o sp)[i] = g[i])
      /\ (g \o sp)[Len(g) + 1] = Space
  BY <1>1, TextConcatAt
<1> DEFINE n == Len(f)
<1>6. n \in Nat /\ Len(g) = 1 + n
  BY <1>3
<1>7. ASSUME NEW i \in 1 .. n PROVE Padded(f)[i + 1] = f[i]
  <2>1. i + 1 \in 1 .. Len(g) /\ i + 1 = 1 + i
    BY <1>6
  <2>2. g[1 + i] = f[i]
    BY <1>3
  <2> QED BY <1>4, <1>5, <2>1, <2>2
<1>8. Len(g) + 1 = n + 2 /\ 1 \in 1 .. Len(g)
  BY <1>6
<1> QED BY <1>3, <1>4, <1>5, <1>7, <1>8, PaddedType

LEMMA DropsNothing ==
  ASSUME NEW f \in Text, f # <<>>
  PROVE  ~Begins(f, <<>>) /\ DropsTo(f, <<>>, <<>>)
<1>1. PICK sp \in Text : sp = <<Space>> /\ Len(sp) = 1
  BY WordListsType
<1>2. Spaced(<<>>) = sp /\ sp \o <<>> = sp
  BY <1>1, WordListsType, TrailingFirst, TextConcatEmpty
<1>3. PICK old \in Text : old = Padded(f) /\ old # <<>> /\ Len(old) = Len(f) + 2 /\ Len(f) \in Nat
  BY PaddedAt
<1>4. ~IsPrefixAt(old, sp, 1)
  BY <1>1, <1>3 DEF IsPrefixAt
<1>5. PICK e \in Text : e = <<>>
  BY WordListsType
<1>6. Replace(sp \o e, old, sp) = sp \o Replace(e, old, sp)
  <2>1. ~IsPrefixAt(old, sp \o e, 1)
    BY <1>2, <1>4, <1>5
  <2>2. PassedOver(sp, e, old, sp)
    BY <1>1, <1>3, <2>1, WordListsType, ReplaceLater
  <2> QED BY <2>2 DEF PassedOver
<1>7. Replace(<<>>, old, sp) = <<>>
  BY <1>1, <1>3, WordListsType, ReplaceCases
<1> QED BY <1>1, <1>2, <1>3, <1>4, <1>5, <1>6, <1>7 DEF Begins, DropsTo

LEMMA DropsLater ==
  ASSUME NEW f \in Text, NEW w \in Word, NEW a \in WordLists, NEW b \in WordLists,
         ~Begins(f, <<w>> \o a), DropsTo(f, a, b)
  PROVE  DropsTo(f, <<w>> \o a, <<w>> \o b)
<1>0. w \in Text /\ a \in Texts /\ b \in Texts
  BY WordListsType DEF Word
<1>1. PICK old \in Text : old = Padded(f) /\ old # <<>> /\ old[1] = Space
  BY PaddedAt
<1>2. PICK t \in Text, v \in Text, sp \in Text : t = Spaced(a) /\ v = Spaced(b) /\ sp = <<Space>>
  BY <1>0, TrailingFirst, WordListsType
<1>3. Spaced(<<w>> \o a) = sp \o (w \o t) /\ Spaced(<<w>> \o b) = sp \o (w \o v)
  BY <1>0, <1>2, TrailingFirst
<1>4. PICK u \in Text : u = w \o t
  BY <1>0, TextConcat
<1>5. Replace(t, old, sp) = v /\ ~IsPrefixAt(old, sp \o u, 1)
  BY <1>1, <1>2, <1>3, <1>4 DEF DropsTo, Begins
<1>6. Replace(w \o t, old, sp) = w \o Replace(t, old, sp)
  <2>1. Replace(w \o t, old, <<Space>>) = w \o Replace(t, old, <<Space>>)
    BY <1>1, ReplacePassesWord, Zenon
  <2> QED BY <1>2, <2>1
<1>7. Replace(sp \o u, old, sp) = sp \o Replace(u, old, sp)
  <2>1. PassedOver(sp, u, old, sp)
    BY <1>1, <1>2, <1>5, WordListsType, ReplaceLater
  <2> QED BY <2>1 DEF PassedOver
<1> QED BY <1>1, <1>2, <1>3, <1>4, <1>5, <1>6, <1>7 DEF DropsTo

LEMMA DropsFirst ==
  ASSUME NEW f \in Text, NEW a \in WordLists, NEW b \in WordLists, NEW c \in WordLists,
         Spaced(c) = <<Space>> \o (f \o Spaced(a)), ~Begins(f, a), DropsTo(f, a, b)
  PROVE  DropsTo(f, c, b)
<1>1. PICK old \in Text : old = Padded(f) /\ old # <<>>
  BY PaddedAt
<1>2. PICK t \in Text, v \in Text, sp \in Text : t = Trailing(a) /\ v = Spaced(b) /\ sp = <<Space>>
  BY WordListsType, TrailingFirst
<1>3. Spaced(a) = sp \o t /\ old = (sp \o f) \o sp /\ Spaced(c) = sp \o (f \o (sp \o t))
  BY <1>1, <1>2 DEF Spaced, Padded
<1>4. sp \o (f \o (sp \o t)) = old \o t
  <2>1. PICK x \in Text, y \in Text : x = sp \o t /\ y = sp \o f
    BY TextConcat
  <2>2. (sp \o f) \o x = sp \o (f \o x)
    <3>1. Regrouped(sp, f, x)
      BY TextAssoc
    <3> QED BY <3>1 DEF Regrouped
  <2>3. (y \o sp) \o t = y \o (sp \o t)
    <3>1. Regrouped(y, sp, t)
      BY TextAssoc
    <3> QED BY <3>1 DEF Regrouped
  <2> QED BY <1>3, <2>1, <2>2, <2>3
<1>5. Replace(sp \o t, old, sp) = v /\ ~IsPrefixAt(old, sp \o t, 1)
  BY <1>1, <1>2, <1>3 DEF DropsTo, Begins
<1>6. Replace(old \o t, old, sp) = sp \o Replace(t, old, sp)
  <2>1. ReplacedHere(t, old, sp)
    BY <1>1, ReplaceHere
  <2> QED BY <2>1 DEF ReplacedHere
<1>7. Replace(sp \o t, old, sp) = sp \o Replace(t, old, sp)
  <2>1. PassedOver(sp, t, old, sp)
    BY <1>1, <1>2, <1>5, WordListsType, ReplaceLater
  <2> QED BY <2>1 DEF PassedOver
<1>8. Replace(Spaced(c), old, sp) = v
  BY <1>3, <1>4, <1>5, <1>6, <1>7
<1> QED BY <1>1, <1>2, <1>8 DEF DropsTo

\* The first token behind the first space is a word if a space follows it.
LEMMA FirstWord ==
  ASSUME NEW w \in Word, NEW a \in WordLists, NEW x,
         LET s == Spaced(<<w>> \o a) IN s[2] = x /\ s[3] = Space
  PROVE  /\ w = <<x>> /\ Spaced(a) \in Text /\ Len(Spaced(<<w>> \o a)) = Len(Spaced(a)) + 2
         /\ \A i \in 1 .. Len(Spaced(a)) : Spaced(<<w>> \o a)[i + 2] = Spaced(a)[i]
<1>1. w \in Text /\ Len(w) \in Nat \ {0} /\ a \in Texts /\ \A i \in 1 .. Len(w) : w[i] # Space
  BY WordListsType, EmptySeq DEF Word, IsRun, Text
<1>2. PICK t \in Text : t = Spaced(a)
  BY <1>1, TrailingFirst
<1>3. PICK u \in Text : u = w \o t /\ Spaced(<<w>> \o a) = <<Space>> \o u
  <2>1. w \o t \in Text
    BY <1>1, TextConcat, Zenon
  <2>2. Spaced(<<w>> \o a) = <<Space>> \o (w \o Spaced(a))
    BY <1>1, TrailingFirst, Zenon
  <2> QED BY <1>2, <2>1, <2>2, Zenon
<1>4. /\ Len(u) = Len(w) + Len(t) /\ Len(t) \in Nat
      /\ \A i \in 1 .. Len(w) : u[i] = w[i]
      /\ \A i \in 1 .. Len(t) : u[Len(w) + i] = t[i]
  BY <1>1, <1>3, TextConcatAt
<1>5. PICK s \in Text : /\ s = Spaced(<<w>> \o a) /\ Len(s) = 1 + Len(u)
                        /\ \A i \in 1 .. Len(u) : s[1 + i] = u[i]
  <2>1. PICK sp \in Text : sp = <<Space>> /\ Len(sp) = 1
    BY WordListsType
  <2>2. /\ sp \o u \in Text /\ Len(sp \o u) = Len(sp) + Len(u)
        /\ \A i \in 1 .. Len(u) : (sp \o u)[Len(sp) + i] = u[i]
    BY TextConcat, TextConcatAt
  <2> QED BY <1>3, <2>1, <2>2
<1>6. s[2] = x /\ s[3] = Space
  BY <1>5
<1>7. Len(w) = 1
  <2>1. SUFFICES ASSUME Len(w) # 1 PROVE FALSE
    OBVIOUS
  <2>2. 2 \in 1 .. Len(w) /\ 2 \in 1 .. Len(u) /\ 1 + 2 = 3
    <3> DEFINE n == Len(w)  m == Len(t)  k == Len(u)
    <3>1. n \in Nat \ {0} /\ n # 1 /\ m \in Nat /\ k = n + m
      BY <1>1, <1>4, <2>1
    <3> HIDE DEF n, m, k
    <3>2. 2 \in 1 .. n /\ 2 \in 1 .. k /\ 1 + 2 = 3
      BY <3>1
    <3> QED BY <3>2 DEF n, k
  <2>3. s[3] = w[2]
    BY <1>4, <1>5, <2>2
  <2> QED BY <1>1, <1>6, <2>2, <2>3
<1>8. w[1] = x
  <2>1. 1 \in 1 .. Len(w) /\ 1 \in 1 .. Len(u) /\ 1 + 1 = 2
    BY <1>1, <1>4
  <2> QED BY <1>4, <1>5, <1>6, <2>1
<1>9. w = <<x>>
  <2> DEFINE y == <<x>>
  <2>1. x \in Token
    BY <1>1, <1>8 DEF Text
  <2>2. y \in Seq(Token) /\ Len(y) = 1 /\ y[1] = x
    BY <2>1
  <2> HIDE DEF y
  <2>3. \A i \in 1 .. Len(w) : w[i] = y[i]
    BY <1>7, <1>8, <2>2
  <2>4. w = y
    BY <1>1, <1>7, <2>2, <2>3, SeqEqual DEF Text
  <2> QED BY <2>4 DEF y
<1>10. ASSUME NEW i \in 1 .. Len(t) PROVE s[i + 2] = t[i]
  <2>1. 1 + i \in 1 .. Len(u) /\ 1 + (1 + i) = i + 2
    BY <1>4, <1>7
  <2>2. u[1 + i] = t[i]
    BY <1>4, <1>7
  <2> QED BY <1>5, <2>1, <2>2
<1>11. Len(s) = Len(t) + 2
  BY <1>4, <1>5, <1>7
<1> QED BY <1>2, <1>5, <1>9, <1>10, <1>11
=============================================================================
