--------------------------- MODULE TranscriptText ---------------------------
(***************************************************************************)
(* Transcripts as text: TranscriptNormalizer                               *)
(* (src/meeting_assistant/services/normalizer.py) and the sentences that   *)
(* the heuristic planner reads (planner.py:79).                            *)
(*                                                                         *)
(* A text is a sequence of tokens: words, punctuation, and the white space *)
(* between them.  What stands between two spaces is one word for split(),  *)
(* also when it is a word and a full stop.                                 *)
(***************************************************************************)
EXTENDS Naturals, Sequences, SequencesExt

Space      == " "
Newline    == "\n"
FullStop   == "."
WhiteSpace == {Space, Newline}

IsPrefixAt(p, s, i) == i + Len(p) - 1 <= Len(s) /\ SubSeq(s, i, i + Len(p) - 1) = p

\* str.replace: from left to right, an occurrence may not overlap the one
\* before it.
Replace(s, old, new) ==
  LET from[i \in 1 .. Len(s) + 1] ==
        IF i > Len(s) THEN <<>>
        ELSE IF IsPrefixAt(old, s, i) THEN new \o from[i + Len(old)]
        ELSE <<s[i]>> \o from[i + 1]
  IN from[1]

\* The maximal runs of tokens outside a set: str.split.
Runs(s, separators) ==
  LET Continues(i) == i > 1 /\ s[i - 1] \notin separators
      Add(runs, i) ==
        IF s[i] \in separators THEN runs
        ELSE IF Continues(i) THEN [runs EXCEPT ![Len(runs)] = Append(@, s[i])]
        ELSE Append(runs, <<s[i]>>)
  IN FoldLeftDomain(Add, <<>>, s)

Words(s) == Runs(s, WhiteSpace)

\* " ".join
Join(parts) ==
  LET Add(s, part) == s \o <<Space>> \o part
  IN IF parts = <<>> THEN <<>> ELSE FoldLeft(Add, Head(parts), Tail(parts))

\* str.strip
Strip(s) ==
  LET solid == {i \in DOMAIN s : s[i] \notin WhiteSpace} IN
  IF solid = {} THEN <<>>
  ELSE SubSeq(s, CHOOSE i \in solid : \A j \in solid : i <= j,
                 CHOOSE i \in solid : \A j \in solid : i >= j)

-----------------------------------------------------------------------------
(* TranscriptNormalizer.                                                   *)

Fillers == << <<"um">>, <<"uh">>, <<"you", Space, "know">>, <<"like">> >>

Padded(s) == <<Space>> \o s \o <<Space>>

\* Mutant: the text is not padded, so that its ends are never fillers.
NormalizeUnpadded(s) ==
  LET Dropped(t, filler) == Replace(t, Padded(filler), <<Space>>)
  IN Join(Words(FoldLeft(Dropped, Strip(s), Fillers)))

Normalize(s) ==
  LET Dropped(t, filler) == Replace(t, Padded(filler), <<Space>>)
  IN Join(Words(FoldLeft(Dropped, Padded(Strip(s)), Fillers)))

\* Mutant: range(size, len(words), size).
ChunkLate(s, size) ==
  LET words == Words(s)
      count == (Len(words) + size - 1) \div size
      End(i) == IF i * size < Len(words) THEN i * size ELSE Len(words)
  IN IF words = <<>> THEN << <<>> >>
     ELSE [i \in 1 .. count |-> Join(SubSeq(words, (i - 1) * size + 2, End(i)))]

\* chunk: groups of size words, and one empty chunk for an empty text.
Chunk(s, size) ==
  LET words == Words(s)
      count == (Len(words) + size - 1) \div size
      End(i) == IF i * size < Len(words) THEN i * size ELSE Len(words)
  IN IF words = <<>> THEN << <<>> >>
     ELSE [i \in 1 .. count |-> Join(SubSeq(words, (i - 1) * size + 1, End(i)))]

-----------------------------------------------------------------------------
(* HeuristicPlanner.plan reads sentences.                                  *)

Sentences(s) ==
  LET oneLine == [i \in DOMAIN s |-> IF s[i] = Newline THEN Space ELSE s[i]]
      parts   == Runs(oneLine, {FullStop})
      solid   == SelectSeq(parts, LAMBDA part : Strip(part) # <<>>)
  IN [i \in DOMAIN solid |-> Strip(solid[i])]
=============================================================================
