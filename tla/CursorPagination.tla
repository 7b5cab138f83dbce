-------------------------- MODULE CursorPagination --------------------------
(***************************************************************************)
(* A client walks through search results page by page: the three search    *)
(* endpoints (src/meeting_assistant/api/routes/retrieval.py), QueryService *)
(* and the two embedding indexes behind them.  All three searches - past   *)
(* meetings, chunks, decisions - page in the same way.                     *)
(*                                                                         *)
(* A row is known by its id and its similarity to the query, a number of   *)
(* units finer than those the score is rounded to before it is returned    *)
(* and written into the cursor.  InMemoryEmbeddingIndex sorts and compares *)
(* rounded scores; PgVectorEmbeddingIndex leaves both to the database,     *)
(* which knows only the unrounded distance.  While a client walks, other   *)
(* requests write rows and delete them.                                    *)
(***************************************************************************)
EXTENDS Naturals, FiniteSets

CONSTANTS
  Ids,        \* row ids
  MaxScore,   \* largest similarity; 0 stands for "not similar at all"
  Grain,      \* units of similarity in one unit of a rounded score
  Limits,     \* page sizes a client asks for
  PgVector,   \* TRUE: PgVectorEmbeddingIndex; FALSE: InMemoryEmbeddingIndex
  MaxWrites,  \* bound on the rows written during a walk
  NoCursor    \* no cursor: the first page

ASSUME IdsAssumption == Ids \subseteq Nat
ASSUME ScoreAssumption == MaxScore \in Nat /\ Grain \in Nat \ {0}
ASSUME LimitsAssumption == Limits \subseteq Nat \ {0}
ASSUME IndexAssumption == PgVector \in BOOLEAN
ASSUME WritesAssumption == MaxWrites \in Nat
ASSUME NoCursorAssumption == NoCursor \notin [score : Nat, id : Nat]

VARIABLES
  similarity,  \* similarity of each row, 0 also if there is no such row
  cursor,      \* cursor of the next request
  finished,    \* the last page said has_more = false
  served,      \* pages that held the row as it is now, counted up to 2
  steady,      \* similar rows not written since the walk began
  writes       \* rows written since then

vars == <<similarity, cursor, finished, served, steady, writes>>

\* round(score, 4), the exact half excepted.
Round(s) == ((2 * s + Grain) \div (2 * Grain)) * Grain

\* What the rows are sorted by: ORDER BY distance, or sort by rounded score.
SortScore(i) == IF PgVector THEN similarity[i] ELSE Round(similarity[i])

\* Higher scores come first, and among equal scores higher ids.
Precedes(k, l) == k.score > l.score \/ (k.score = l.score /\ k.id > l.id)

Key(i) == [score |-> SortScore(i), id |-> i]

\* Mutant: the cursor holds the score alone.
CursorAtScore(i) == [score |-> Round(similarity[i]), id |-> 0]

\* The cursor holds the score that was returned with the row.
CursorAt(i) == [score |-> Round(similarity[i]), id |-> i]

Keys == [score : Nat, id : Nat]

TypeOK ==
  /\ similarity \in [Ids -> 0 .. MaxScore]
  /\ cursor \in Keys \cup {NoCursor}
  /\ finished \in BOOLEAN
  /\ served \in [Ids -> 0 .. 2]
  /\ steady \in SUBSET Ids
  /\ writes \in 0 .. MaxWrites

Init ==
  /\ similarity \in [Ids -> 0 .. MaxScore]
  /\ cursor = NoCursor
  /\ finished = FALSE
  /\ served = [i \in Ids |-> 0]
  /\ steady = {i \in Ids : similarity[i] > 0}
  /\ writes = 0

\* Mutant: the row the cursor was taken from matches again.
MatchingFrom ==
  {i \in Ids : similarity[i] > 0 /\ (cursor = NoCursor \/ ~Precedes(Key(i), cursor))}

\* Mutant: the cursor is not looked at.
MatchingAll == {i \in Ids : similarity[i] > 0}

\* Similar rows behind the cursor.
Matching ==
  {i \in Ids : similarity[i] > 0 /\ (cursor = NoCursor \/ Precedes(cursor, Key(i)))}

\* The first rows of a list sorted by key.
IsPage(page, rows, limit) ==
  /\ page \subseteq rows
  /\ Cardinality(page) <= limit
  /\ page # rows => Cardinality(page) = limit
  /\ \A i \in page, j \in rows \ page : Precedes(Key(i), Key(j))

IsLast(i, page) == i \in page /\ \A j \in page \ {i} : Precedes(Key(j), Key(i))

CountUp(n) == IF n < 2 THEN n + 1 ELSE n

Fetch(limit) ==
  /\ ~finished
  /\ \E page \in SUBSET Matching :
       /\ IsPage(page, Matching, limit)
       /\ served' = [i \in Ids |-> IF i \in page THEN CountUp(served[i]) ELSE served[i]]
       /\ \/ /\ page # Matching
             /\ \E i \in Ids : IsLast(i, page) /\ cursor' = CursorAt(i)
             /\ UNCHANGED finished
          \/ /\ page = Matching
             /\ finished' = TRUE
             /\ UNCHANGED cursor
  /\ UNCHANGED <<similarity, steady, writes>>

\* complete_meeting and replace_chunks insert, rewrite and delete rows.  A new
\* row may get the id of a deleted one: SQLite reuses the largest.
Write(i) ==
  /\ ~finished
  /\ writes < MaxWrites
  /\ writes' = writes + 1
  /\ \E s \in 0 .. MaxScore : similarity' = [similarity EXCEPT ![i] = s]
  /\ served' = [served EXCEPT ![i] = 0]
  /\ steady' = steady \ {i}
  /\ UNCHANGED <<cursor, finished>>

Next ==
  \/ \E limit \in Limits : Fetch(limit)
  \/ \E i \in Ids : Write(i)

Spec == Init /\ [][Next]_vars

\* The client asks for the next page until there is none.
FairSpec == Spec /\ WF_vars(\E limit \in Limits : Fetch(limit))

-----------------------------------------------------------------------------

\* No row is returned on two pages, whatever is written between the pages.
ServedOnce == \A i \in Ids : served[i] <= 1

\* When the last page is there, every similar row that was there from the
\* beginning has been returned.
NoneSkipped == finished => \A i \in steady : served[i] > 0

\* A client that follows next_cursor comes to the last page.
WalkEnds == <>finished
=============================================================================
