------------------------ MODULE MCHeuristicWorkflow -------------------------
(***************************************************************************)
(* Meetings for the model checker.                                         *)
(***************************************************************************)
EXTENDS HeuristicWorkflow

CONSTANTS w1, w2, a1, a2

\* Sentences: their words with spaces between them.
Sentence(words) ==
  FlattenSeq([i \in DOMAIN words |-> IF i = 1 THEN <<words[1]>> ELSE <<Space, words[i]>>])

\* Sentences with full stops between them.
Text(sentences) ==
  FlattenSeq([i \in DOMAIN sentences |->
                IF i = 1 THEN Sentence(sentences[1])
                ELSE <<FullStop, Space>> \o Sentence(sentences[i])])

Meetings ==
  {\* One pause, with work before and after it.
   Text(<< <<"email", "bob">>, <<"schedule", "call">>, <<"slack", "ann">> >>),
   \* Fillers in the sentence that pauses the run.
   Text(<< <<"schedule", "um", "call">>, <<"jira", "bug">> >>),
   \* Fillers in a sentence before the pause, and none for the planner to find.
   Text(<< <<"email", "um", "bob">>, <<"schedule", "call">> >>),
   \* Two pauses and one that does not fit into the budget.
   Text(<< <<"schedule", "call">>, <<"calendar", "lunch">>, <<"ticket", "bug">>, <<"email", "bob">> >>),
   \* The same sentence twice but for a filler, and several tools in one.
   Text(<< <<"email", "um", "bob">>, <<"email", "bob">>, <<"email", "ann">> >>) \o <<FullStop>>,
   Text(<< <<"ann:", "todo:", "email", "slack", "schedule">>, <<"we", "decided", "um", "it">> >>) \o <<FullStop>>,
   \* No call.
   Text(<< <<"action:", "read">>, <<"decision:", "yes">> >>),
   <<>>}

AllCalls   == UNION {ToSet(plan[t].calls) : t \in Transcripts}
GatedCalls == {c \in AllCalls : c.tool = "calendar.create_event"}
AllItems   == UNION {plan[t].items : t \in Transcripts}
Symmetry   == Permutations(Workers) \cup Permutations(Approvers)
=============================================================================
