---------------------------- MODULE AgentRuntime ----------------------------
(***************************************************************************)
(* AgentRuntime (src/meeting_assistant/services/agent.py): the bounded     *)
(* loop that asks the planner for tool calls, executes those not seen yet, *)
(* and stops when the planner asks for nothing, when nothing new was done, *)
(* when a call needs approval, or when the iteration budget is spent.      *)
(*                                                                         *)
(* The planner is an LLM or a heuristic: it may return any calls and any   *)
(* items.  The loop runs the calls in the order of the plan; as any order  *)
(* may be planned, a plan is a set of calls taken in any order.            *)
(***************************************************************************)
EXTENDS ToolExecutor

CONSTANT MaxIterations   \* max_tool_calls_per_session

ASSUME IterationsAssumption == MaxIterations \in Nat \ {0}

\* The loop is over: the thread goes on to save the meeting.
Conclude(p, f, verdict) ==
  /\ Goto(p, "save")
  /\ frame' = [frame EXCEPT ![p] = [f EXCEPT !.verdict = verdict]]

\* Mutant: range(n, max_iterations).
IterateShort(p, f, n) ==
  IF n < MaxIterations
  THEN /\ Goto(p, "plan")
       /\ frame' = [frame EXCEPT ![p] = [f EXCEPT !.iteration = n]]
  ELSE Conclude(p, f, "failed")

\* "for iteration in range(n, max_iterations + 1)": the else branch of the
\* loop, a failed run, is taken when the range is empty or used up.
Iterate(p, f, n) ==
  IF n <= MaxIterations
  THEN /\ Goto(p, "plan")
       /\ frame' = [frame EXCEPT ![p] = [f EXCEPT !.iteration = n]]
  ELSE Conclude(p, f, "failed")

\* ToolValidator.validate keeps one copy of each of the first MaxIterations
\* calls that were planned.
ValidatedCalls == {calls \in SUBSET Calls : Cardinality(calls) <= MaxIterations}

\* planner.plan, and the planner step it leaves behind.
Plan(p) ==
  /\ At(p, "plan")
  /\ \E calls \in ValidatedCalls, found \in SUBSET Items :
       /\ frame' = [frame EXCEPT ![p].items = @ \cup found, ![p].todo = calls,
                                 ![p].progress = FALSE]
       /\ lastPlan' = found
  /\ Goto(p, "count")
  /\ UNCHANGED <<fate, effects, runVars, iterationCount, toolVars, request,
                 pausedSteps, meetingItems>>

\* update_workflow_iteration_count; a plan without calls ends the loop.
Count(p) ==
  LET f == frame[p] IN
  /\ At(p, "count")
  /\ iterationCount' = f.iteration
  /\ IF f.todo = {} THEN Conclude(p, f, "done") ELSE Goto(p, "pick") /\ UNCHANGED frame
  /\ UNCHANGED <<fate, effects, runVars, lastPlan, toolVars, request,
                 pausedSteps, meetingItems>>

\* The next call of the plan whose signature has not been seen.
Pick(p) ==
  /\ At(p, "pick")
  /\ \E c \in frame[p].todo \ frame[p].seen : Lookup(p, c)
  /\ UNCHANGED <<fate, effects, rowVars>>

\* Every call of the plan has been seen: the loop guard, or another round.
EndIteration(p) ==
  LET f == frame[p] IN
  /\ At(p, "pick")
  /\ f.todo \subseteq f.seen
  /\ IF f.progress THEN Iterate(p, f, f.iteration + 1) ELSE Conclude(p, f, "done")
  /\ UNCHANGED <<fate, effects, rowVars>>

\* Mutant: the loop goes on although the call waits for approval.
StepOn(p) ==
  LET f == [frame[p] EXCEPT !.seen = @ \cup {frame[p].call},
                            !.progress = @ \/ ~frame[p].reused]
  IN
  /\ At(p, "step")
  /\ CreateToolStep(f.call, f.outcome)
  /\ Goto(p, "pick")
  /\ frame' = [frame EXCEPT ![p] = f]
  /\ UNCHANGED <<fate, effects, runVars, historyVars, toolVars, request,
                 meetingItems>>

\* Mutant: the signature is not remembered.
StepUnseen(p) ==
  /\ At(p, "step")
  /\ CreateToolStep(frame[p].call, frame[p].outcome)
  /\ IF frame[p].outcome = "approval_required"
     THEN Conclude(p, frame[p], "awaiting_approval")
     ELSE Goto(p, "pick") /\ frame' = [frame EXCEPT ![p].progress = TRUE]
  /\ UNCHANGED <<fate, effects, runVars, historyVars, toolVars, request,
                 meetingItems>>

\* Mutant: the loop ends with its first call.
StepGivesUp(p) ==
  LET f == [frame[p] EXCEPT !.seen = @ \cup {frame[p].call}] IN
  /\ At(p, "step")
  /\ CreateToolStep(f.call, f.outcome)
  /\ Conclude(p, f, IF f.outcome = "approval_required" THEN "awaiting_approval" ELSE "done")
  /\ UNCHANGED <<fate, effects, runVars, historyVars, toolVars, request,
                 meetingItems>>

\* execute has returned: the tool step is written, and a call that needs
\* approval ends the loop at once, whatever else the plan asks for.
Step(p) ==
  LET f == [frame[p] EXCEPT !.seen = @ \cup {frame[p].call},
                            !.progress = @ \/ ~frame[p].reused]
  IN
  /\ At(p, "step")
  /\ CreateToolStep(f.call, f.outcome)
  /\ \/ /\ f.outcome = "approval_required"
        /\ Conclude(p, f, "awaiting_approval")
     \/ /\ f.outcome # "approval_required"
        /\ Goto(p, "pick")
        /\ frame' = [frame EXCEPT ![p] = f]
  /\ UNCHANGED <<fate, effects, runVars, historyVars, toolVars, request,
                 meetingItems>>

\* run: the loop starts at iteration 1 with nothing known.
StartRun(p) == Iterate(p, NoFrame, 1)

\* Mutant: the newest plan is not restored.
StartResumeBare(p) ==
  Iterate(p, [NoFrame EXCEPT !.seen = {c \in Calls : execution[c] \in Reusable}],
          iterationCount + 1)

\* resume: signatures of failed and unfinished executions are not restored,
\* and of all planner steps only the newest gives its items back.
StartResume(p) ==
  Iterate(p, [NoFrame EXCEPT !.seen = {c \in Calls : execution[c] \in Reusable},
                             !.items = lastPlan],
          iterationCount + 1)

\* complete_meeting with the result of the loop.
SaveMeeting(p) ==
  /\ At(p, "save")
  /\ CompleteMeeting(frame[p].items)
  /\ Goto(p, "finish")
  /\ UNCHANGED <<fate, frame, effects, runVars, historyVars, toolVars, request,
                 pausedSteps>>

LoopStep(p) ==
  \/ Plan(p) \/ Count(p) \/ Pick(p) \/ EndIteration(p) \/ Step(p)
  \/ ExecutorStep(p)
=============================================================================
