------------------------- MODULE HeuristicWorkflow --------------------------
(***************************************************************************)
(* A workflow run whose planner is HeuristicPlanner                        *)
(* (src/meeting_assistant/services/planner.py:62-129), the default: what   *)
(* MeetingWorkflow leaves to an arbitrary planner is computed from the     *)
(* words of the transcript.                                                *)
(*                                                                         *)
(* The worker plans the transcript that came through the queue, normalised *)
(* (orchestrator.py:90); a resumed run plans the meeting's transcript as   *)
(* it was rendered (approvals.py:77-82).                                   *)
(***************************************************************************)
EXTENDS MeetingWorkflow, TranscriptText

CONSTANTS
  Texts,       \* rendered transcripts
  MaxPlanned   \* the 10 of tool_calls[:10]

VARIABLE text  \* meetings.transcript_text

-----------------------------------------------------------------------------
(* HeuristicPlanner.plan.  A word of the model stands for any that contains *)
(* it: the planner looks for substrings.                                    *)

\* In the order of the tests.
Tools ==
  <<[name |-> "email.send",            words |-> {"email"}],
    [name |-> "calendar.create_event", words |-> {"calendar", "schedule"}],
    [name |-> "slack.notify",          words |-> {"slack"}],
    [name |-> "jira.create_issue",     words |-> {"jira", "ticket"}]>>

TaskWords == {"action:", "todo:"}
Colons    == {"action:", "todo:", "decision:", "ann:"}

Has(s, words) == \E i \in DOMAIN s : s[i] \in words

\* " decided " has a space before it and after it.
IsDecision(s) == s[1] = "decision:" \/ Has(SubSeq(s, 2, Len(s) - 1), {"decided"})

\* sentence.split(":", 1)[1].strip(), or the sentence when it has no colon.
AfterColon(s) ==
  LET colons == {i \in DOMAIN s : s[i] \in Colons}
      first  == CHOOSE i \in colons : \A j \in colons : i <= j
  IN IF colons = {} THEN s ELSE Strip(SubSeq(s, first + 1, Len(s)))

Cut(s, n) == [i \in 1 .. (IF Len(s) < n THEN Len(s) ELSE n) |-> s[i]]

CallOf(tool, s) == [tool |-> tool, sentence |-> s]

CallsOfSentence(s) ==
  LET asked == SelectSeq(Tools, LAMBDA tool : Has(s, tool.words))
  IN [i \in DOMAIN asked |-> CallOf(asked[i].name, s)]

PlannedCalls(t) ==
  LET sentences == Sentences(t)
  IN Cut(FlattenSeq([i \in DOMAIN sentences |-> CallsOfSentence(sentences[i])]),
         MaxPlanned)

Task(s)     == [kind |-> "task", text |-> s]
Decision(s) == [kind |-> "decision", text |-> s]
Review      == Task(<<"review">>)

\* Tasks and decisions; their maps are keyed by their text (agent.py:130-133).
PlannedItems(t) ==
  LET sentences == Sentences(t)
      tasks     == SelectSeq(sentences, LAMBDA s : Has(s, TaskWords))
      decisions == SelectSeq(sentences, IsDecision)
      texts(ss) == {AfterColon(ss[i]) : i \in DOMAIN Cut(ss, MaxPlanned)}
  IN (IF tasks = <<>> /\ sentences # <<>> THEN {Review} ELSE {Task(s) : s \in texts(tasks)})
       \cup {Decision(s) : s \in texts(decisions)}

-----------------------------------------------------------------------------
(* The run.                                                                *)

heuristicVars == <<vars, text>>

\* " ".join(queue.drain()): the normalised transcript, again for every worker
\* that died after it had published.
Assembled(t, copies) == Join([i \in 1 .. copies |-> Normalize(t)])

assembledText == [t \in Texts |-> [copies \in 1 .. MaxCrashes + 1 |-> Assembled(t, copies)]]

Transcripts ==
  Texts \cup UNION {{assembledText[t][copies] : copies \in 1 .. MaxCrashes + 1} : t \in Texts}

\* planner.plan
plan == [s \in Transcripts |-> [calls |-> PlannedCalls(s), items |-> PlannedItems(s)]]

\* The constants of the workflow are large enough for what may be planned.
ASSUME PlannerAssumption ==
  \A s \in Transcripts : plan[s].calls \in Seq(Calls) /\ plan[s].items \subseteq Items
ASSUME PlannedAssumption == MaxPlanned \in Nat

\* Mutant: the stored transcript is planned from the second iteration on.
TranscriptOnce(p) ==
  IF p \in Workers /\ frame[p].iteration = 1 THEN assembledText[text][assembled] ELSE text

\* What planner.plan is given.
Transcript(p) == IF p \in Workers THEN assembledText[text][assembled] ELSE text

\* ToolValidator.validate takes the first calls, then drops repeated ones.
Validated(p) == Cut(plan[Transcript(p)].calls, MaxIterations)

HPlan(p) ==
  LET planned == Validated(p)
      found   == plan[Transcript(p)].items
  IN
  /\ At(p, "plan")
  /\ frame' = [frame EXCEPT ![p].items = @ \cup found,
                            ![p].todo = {planned[i] : i \in DOMAIN planned},
                            ![p].progress = FALSE]
  /\ lastPlan' = found
  /\ Goto(p, "count")
  /\ UNCHANGED <<fate, effects, runVars, iterationCount, toolVars, request,
                 pausedSteps, meetingItems>>

\* Mutant: the last call of the plan comes first.
HPickLast(p) ==
  /\ At(p, "pick")
  /\ \E i \in DOMAIN Validated(p) :
       /\ Validated(p)[i] \in frame[p].todo \ frame[p].seen
       /\ \A j \in i + 1 .. Len(Validated(p)) : Validated(p)[j] \in frame[p].seen
       /\ Lookup(p, Validated(p)[i])
  /\ UNCHANGED <<fate, effects, rowVars>>

\* The first call of the plan that has not been seen.
HPick(p) ==
  /\ At(p, "pick")
  /\ \E i \in DOMAIN Validated(p) :
       /\ Validated(p)[i] \in frame[p].todo \ frame[p].seen
       /\ \A j \in 1 .. i - 1 : Validated(p)[j] \in frame[p].seen
       /\ Lookup(p, Validated(p)[i])
  /\ UNCHANGED <<fate, effects, rowVars>>

HLoopStep(p) ==
  \/ HPlan(p) \/ Count(p) \/ HPick(p) \/ EndIteration(p) \/ Step(p)
  \/ ExecutorStep(p)

HWorkerNext(w) ==
  \/ Deliver(w)
  \/ Transcribe(w) \/ Publish(w) \/ Validate(w) \/ Drain(w) \/ Execute(w)
  \/ (HLoopStep(w) \/ SaveMeeting(w)) /\ UNCHANGED jobVars
  \/ FinishRun(w) \/ FailRun(w)
  \/ ReportExisting(w) \/ Misreport(w) \/ Acknowledge(w)
  \/ DeliverRaises(w) \/ ReportRaises(w) \/ WorkerRaises(w) \/ FailRunRaises(w)
  \/ WorkerCrash(w)

HResolverNext(a) ==
  \/ Open(a)
  \/ CheckRun(a) \/ Inspect(a) \/ DeliverApproved(a) \/ LogAttempt(a)
  \/ Settle(a) \/ Resolve(a) \/ MarkStep(a) \/ Reopen(a) \/ Resume(a)
  \/ (HLoopStep(a) \/ SaveMeeting(a)) /\ UNCHANGED <<jobVars, resolverVars>>
  \/ FinishResolve(a)
  \/ ResolverRaises(a) \/ ResolverCrash(a)

HInit == Init /\ text \in Texts

HNext ==
  /\ \/ Enqueue /\ UNCHANGED resolverVars
     \/ \E w \in Workers : HWorkerNext(w) /\ UNCHANGED resolverVars
     \/ \E a \in Approvers : HResolverNext(a)
  /\ UNCHANGED text

HSpec == HInit /\ [][HNext]_heuristicVars

-----------------------------------------------------------------------------
(* Properties.                                                             *)

\* What the worker plans, once it has drained the queue, and what a resumed run
\* plans.
Heard == plan[assembledText[text][assembled]]
Said  == plan[text]

Asked(planned) == Cut(planned.calls, MaxIterations)

IsSettled(c) == execution[c] \in {"executed", "failed", "skipped"}

\* The plan was carried out: nothing it asks for is open, and what it found is
\* stored.
CarriedOut(planned) ==
  /\ \A c \in ToSet(Asked(planned)) : IsSettled(c)
  /\ planned.items \subseteq meetingItems

\* One resolver at a time: a run that is done has been through the whole of one
\* plan, as far as the budget lets it ask.  The loop cannot end early because one
\* call failed, was rejected or was made before a pause.
NothingForgotten == status = "done" => CarriedOut(Heard) \/ CarriedOut(Said)

InOrder(planned, c) ==
  \E i \in DOMAIN Asked(planned) :
    /\ Asked(planned)[i] = c
    /\ \A j \in 1 .. i - 1 : IsSettled(Asked(planned)[j])

\* One resolver at a time: a call is tried only when all that its plan asks for
\* before it has been answered, across pauses and also when a resumed run plans
\* other sentences.
SpokenOrder ==
  \A c \in Calls : execution[c] # "absent" => InOrder(Heard, c) \/ InOrder(Said, c)

\* One resolver at a time: the planner needs an iteration for each pause, one for
\* what is left and one to find nothing new: a run fails for want of iterations only if it had no
\* more than one and its pauses.
BudgetEnough ==
  status = "failed" /\ ~failureReason =>
    MaxIterations <= 1 + Cardinality({c \in Gated : request[c] # "absent"})

\* One resolver at a time: what the worker did not hear reaches a provider only
\* after an approval was resolved: the resumed run plans the raw sentences, so that an e-mail with a
\* filler in it is sent again under another payload (approvals.py:77-82).
UnheardOnlyByResume ==
  \A c \in Calls : effects[c] > 0 /\ c \notin ToSet(Asked(Heard)) => Resumes > 0
=============================================================================
