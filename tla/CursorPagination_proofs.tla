---------------------- MODULE CursorPagination_proofs ----------------------
(***************************************************************************)
(* With InMemoryEmbeddingIndex a walk returns every row once: the cursor   *)
(* compares the same rounded score the rows are sorted by, so the rows     *)
(* behind the cursor are those not returned yet, whatever is written in    *)
(* between.  With PgVectorEmbeddingIndex CursorAt(i) # Key(i) and the      *)
(* argument breaks at the first step of CursorIsKey.                       *)
(***************************************************************************)
EXTENDS CursorPagination, TLAPS

ServedAhead ==
  \A i \in Ids : ~finished /\ served[i] > 0 => cursor # NoCursor /\ ~Precedes(cursor, Key(i))

UnservedBehind ==
  \A i \in steady :
    /\ similarity[i] > 0
    /\ ~finished /\ served[i] = 0 => cursor = NoCursor \/ Precedes(cursor, Key(i))

WalkInv == TypeOK /\ ServedOnce /\ NoneSkipped /\ ServedAhead /\ UnservedBehind

LEMMA RoundType == \A s \in Nat : Round(s) \in Nat
<1> SUFFICES ASSUME NEW s \in Nat PROVE Round(s) \in Nat
  OBVIOUS
<1> DEFINE d == 2 * Grain
           n == 2 * s + Grain
<1>1. d \in Nat \ {0} /\ n \in Nat /\ Grain \in Nat
  BY ScoreAssumption
<1> HIDE DEF d, n
<1>2. n \div d \in Nat
  BY <1>1
<1>3. (n \div d) * Grain \in Nat
  BY <1>1, <1>2
<1> QED BY <1>3 DEF Round, d, n

LEMMA CursorIsKey ==
  ASSUME ~PgVector, TypeOK, NEW i \in Ids
  PROVE  CursorAt(i) = Key(i) /\ Key(i) \in Keys
<1>1. similarity[i] \in Nat /\ i \in Nat
  BY IdsAssumption, ScoreAssumption DEF TypeOK
<1> QED BY <1>1, RoundType DEF CursorAt, Key, SortScore, Keys

\* Precedes is a strict order, total on keys.
LEMMA KeysOrdered ==
  ASSUME NEW k \in Keys, NEW l \in Keys, NEW m \in Keys
  PROVE  /\ ~Precedes(k, k)
         /\ Precedes(k, l) => ~Precedes(l, k)
         /\ Precedes(k, l) /\ Precedes(l, m) => Precedes(k, m)
  BY DEF Precedes, Keys

LEMMA WalkInit == Init => WalkInv
<1> SUFFICES ASSUME Init PROVE WalkInv
  OBVIOUS
<1>1. TypeOK
  <2>1. steady \in SUBSET Ids
    BY DEF Init
  <2>2. writes \in 0 .. MaxWrites
    BY WritesAssumption DEF Init
  <2>3. served \in [Ids -> 0 .. 2]
    BY DEF Init
  <2> QED BY <2>1, <2>2, <2>3 DEF Init, TypeOK
<1>2. ServedOnce /\ NoneSkipped
  BY DEF Init, ServedOnce, NoneSkipped
<1>3. ServedAhead
  BY DEF Init, ServedAhead
<1>4. UnservedBehind
  BY DEF Init, UnservedBehind
<1> QED BY <1>1, <1>2, <1>3, <1>4 DEF WalkInv

\* Rows on the next page have not been returned yet.
LEMMA FreshPage ==
  ASSUME WalkInv, ~finished, NEW i \in Matching
  PROVE  i \in Ids /\ served[i] = 0
  BY DEF WalkInv, TypeOK, ServedAhead, Matching

LEMMA FetchWalk ==
  ASSUME ~PgVector, WalkInv, NEW limit \in Limits, Fetch(limit)
  PROVE  WalkInv'
<1>1. PICK page \in SUBSET Matching :
        /\ IsPage(page, Matching, limit)
        /\ served' = [i \in Ids |-> IF i \in page THEN 1 ELSE served[i]]
        /\ \/ /\ page # Matching
              /\ \E i \in Ids : IsLast(i, page) /\ cursor' = CursorAt(i)
              /\ UNCHANGED finished
           \/ /\ page = Matching
              /\ finished' = TRUE
              /\ UNCHANGED cursor
  BY FreshPage DEF Fetch, CountUp
<1>2. ~finished /\ UNCHANGED <<similarity, steady, writes>> /\ \A i \in Ids : Key(i)' = Key(i)
  BY DEF Fetch, Key, SortScore
<1>3. \A i \in page : i \in Ids /\ served[i] = 0
  BY <1>2, FreshPage
<1>4. TypeOK /\ \A i \in Ids : served[i] \in {0, 1}
  BY DEF WalkInv, TypeOK, ServedOnce
<1>5. ServedOnce'
  BY <1>1, <1>3, <1>4 DEF ServedOnce
<1>6. CASE page # Matching
  <2>1. PICK i \in Ids : IsLast(i, page) /\ cursor' = CursorAt(i)
    BY <1>1, <1>6
  <2>2. cursor' = Key(i) /\ Key(i) \in Keys /\ i \in page /\ ~finished'
    BY <1>1, <1>2, <1>4, <1>6, <2>1, CursorIsKey DEF IsLast
  <2>3. TypeOK'
    BY <1>1, <1>2, <1>4, <2>2 DEF TypeOK
  <2>4. ServedAhead'
    <3> SUFFICES ASSUME NEW j \in Ids, served'[j] > 0 PROVE cursor' # NoCursor /\ ~Precedes(cursor', Key(j))
      BY <1>2 DEF ServedAhead
    <3>1. Key(j) \in Keys /\ cursor' # NoCursor
      BY <1>4, <2>2, CursorIsKey, NoCursorAssumption DEF Keys
    <3>2. CASE j \in page
      BY <2>1, <2>2, <3>1, <3>2, KeysOrdered DEF IsLast
    <3>3. CASE j \notin page
      <4>1. served[j] > 0
        BY <1>1, <1>4, <3>3
      <4>2. cursor # NoCursor /\ ~Precedes(cursor, Key(j)) /\ cursor \in Keys
        BY <1>2, <1>4, <4>1 DEF WalkInv, ServedAhead, TypeOK
      <4>3. Precedes(cursor, Key(i))
        BY <1>1, <2>2, <4>2 DEF Matching
      <4> QED BY <2>2, <3>1, <4>2, <4>3, KeysOrdered
    <3> QED BY <3>2, <3>3
  <2>5. UnservedBehind'
    <3> SUFFICES ASSUME NEW j \in steady, served'[j] = 0 PROVE Precedes(cursor', Key(j))
      BY <1>2, <1>4 DEF UnservedBehind, WalkInv, TypeOK
    <3>1. j \in Ids /\ served[j] = 0 /\ j \notin page
      BY <1>1, <1>4 DEF TypeOK
    <3>2. j \in Matching
      BY <1>2, <3>1 DEF WalkInv, UnservedBehind, Matching
    <3> QED BY <1>1, <2>2, <3>1, <3>2 DEF IsPage
  <2> QED BY <1>5, <2>2, <2>3, <2>4, <2>5 DEF WalkInv, NoneSkipped
<1>7. CASE page = Matching
  <2>1. finished' /\ cursor' = cursor
    BY <1>1, <1>7
  <2>2. TypeOK'
    BY <1>1, <1>2, <1>4, <2>1 DEF TypeOK
  <2>3. NoneSkipped'
    <3> SUFFICES ASSUME NEW j \in steady PROVE served'[j] > 0
      BY <1>2 DEF NoneSkipped
    <3>1. j \in Ids /\ similarity[j] > 0
      BY <1>4 DEF WalkInv, UnservedBehind, TypeOK
    <3>2. CASE served[j] = 0
      <4>1. j \in page
        BY <1>2, <1>7, <3>1, <3>2 DEF WalkInv, UnservedBehind, Matching
      <4> QED BY <1>1, <1>4, <3>1, <4>1
    <3>3. CASE served[j] # 0
      BY <1>1, <1>4, <3>1, <3>3
    <3> QED BY <3>2, <3>3
  <2>4. ServedAhead' /\ UnservedBehind'
    BY <1>2, <2>1 DEF ServedAhead, UnservedBehind, WalkInv
  <2> QED BY <1>5, <2>2, <2>3, <2>4 DEF WalkInv
<1> QED BY <1>6, <1>7

LEMMA WriteWalk ==
  ASSUME WalkInv, NEW i \in Ids, Write(i)
  PROVE  WalkInv'
<1>1. PICK s \in 0 .. MaxScore : similarity' = [similarity EXCEPT ![i] = s]
  BY DEF Write
<1>2. TypeOK'
  BY <1>1, WritesAssumption DEF Write, WalkInv, TypeOK
<1>3. \A j \in Ids \ {i} : /\ similarity'[j] = similarity[j] /\ served'[j] = served[j]
                           /\ Key(j)' = Key(j)
  BY <1>1 DEF Write, WalkInv, TypeOK, Key, SortScore
<1>4. served'[i] = 0 /\ steady' = steady \ {i} /\ ~finished /\ UNCHANGED <<cursor, finished>>
  BY DEF Write, WalkInv, TypeOK
<1>5. ServedOnce' /\ ServedAhead'
  BY <1>3, <1>4 DEF WalkInv, ServedOnce, ServedAhead
<1>6. UnservedBehind' /\ NoneSkipped'
  BY <1>3, <1>4 DEF WalkInv, TypeOK, UnservedBehind, NoneSkipped
<1> QED BY <1>2, <1>5, <1>6 DEF WalkInv

LEMMA WalkStep ==
  ASSUME ~PgVector
  PROVE  WalkInv /\ [Next]_vars => WalkInv'
<1> SUFFICES ASSUME WalkInv, [Next]_vars PROVE WalkInv'
  OBVIOUS
<1>1. CASE UNCHANGED vars
  BY <1>1 DEF vars, WalkInv, TypeOK, ServedOnce, NoneSkipped, ServedAhead, UnservedBehind, Key,
              SortScore
<1> QED BY <1>1, FetchWalk, WriteWalk DEF Next

\* With the in-memory index no row is returned twice on one walk, for any rows,
\* scores, precision, page sizes and writes.
THEOREM PagesDisjoint ==
  ASSUME ~PgVector
  PROVE  Spec => []ServedOnce
<1>1. WalkInv => ServedOnce
  BY DEF WalkInv
<1> QED BY <1>1, WalkInit, WalkStep, PTL DEF Spec

\* With the in-memory index a walk that ends has returned every similar row that
\* was there all the time.
THEOREM PagesComplete ==
  ASSUME ~PgVector
  PROVE  Spec => []NoneSkipped
<1>1. WalkInv => NoneSkipped
  BY DEF WalkInv
<1> QED BY <1>1, WalkInit, WalkStep, PTL DEF Spec
=============================================================================
