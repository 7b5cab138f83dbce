------------------------- MODULE MCTranscriptQueue --------------------------
(***************************************************************************)
(* Transcripts and consumers for the model checker.                        *)
(***************************************************************************)
EXTENDS TranscriptQueue

CONSTANTS c1, c2

Words1 == {"a", "um", "you", "know", "like"}

\* Up to three words with any white space between them, and four with spaces.
ShortTexts ==
  {<<>>, <<Space>>}
  \cup {<<w>> : w \in Words1}
  \cup {<<v, s, w>> : v, w \in Words1, s \in WhiteSpace}
  \cup {<<u, s, v, t, w>> : u, v, w \in Words1, s, t \in WhiteSpace}
  \cup {<<u, Space, v, Space, v2, Space, w>> : u, v, v2, w \in {"a", "um", "you", "know"}}

Texts(provider, deaths) ==
  [provider |-> provider, texts |-> ShortTexts, size |-> 2, consumers |-> {},
   rounds |-> 0, deaths |-> deaths]

\* Two equal chunks and one other: four operations of one consumer, three of two.
Repeated == <<"x", Space, "y", Space, "x">>

Consumed(provider, consumers, n, deaths) ==
  [provider |-> provider, texts |-> {Repeated}, size |-> 1, consumers |-> consumers,
   rounds |-> n, deaths |-> deaths]

AllScenarios ==
  {Texts("memory", 0), Texts("redis", 1),
   Consumed("memory", {c1}, 4, 0), Consumed("memory", {c1, c2}, 3, 0),
   Consumed("redis", {c1}, 4, 1), Consumed("redis", {c1, c2}, 3, 1)}
=============================================================================
