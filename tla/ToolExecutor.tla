---------------------------- MODULE ToolExecutor ----------------------------
(***************************************************************************)
(* ToolExecutor.execute (src/meeting_assistant/services/tools/executor.py) *)
(* for the call in a thread's frame: reuse a finished execution, otherwise *)
(* create its row, call the provider up to MaxRetries times, and record    *)
(* the outcome.                                                            *)
(*                                                                         *)
(* A provider is external.  A call that it accepts takes effect; one that  *)
(* fails with a retryable error (a timeout, a 5xx) may or may not have     *)
(* taken effect before the error was seen.  An error that is not retryable *)
(* is raised out of execute, from "invoke" when the call had no effect and *)
(* from "attempt" when it had one: see the Raise actions of the handlers.   *)
(***************************************************************************)
EXTENDS Handlers

CONSTANTS
  Unsupported,  \* calls of a tool no provider is registered for
  MaxRetries    \* tool_execution_max_retries

ASSUME UnsupportedAssumption == Unsupported \subseteq Calls \ Gated
ASSUME RetriesAssumption == MaxRetries \in Nat \ {0}

\* Mutant: a rejected call may be asked for again.
ReusableButSkipped == {"executed", "approval_required"}

\* Statuses of an earlier execution that execute answers from the row.
Reusable == {"executed", "approval_required", "skipped"}

\* get_tool_execution, then the reuse test: a failed or pending row is not
\* reused, the call is tried again under the same row.
Lookup(p, c) ==
  IF execution[c] \in Reusable
  THEN /\ Goto(p, "step")
       /\ frame' = [frame EXCEPT ![p].call = c, ![p].reused = TRUE,
                                 ![p].outcome = execution[c]]
  ELSE /\ Goto(p, "create")
       /\ frame' = [frame EXCEPT ![p].call = c, ![p].reused = FALSE,
                                 ![p].outcome = "none"]

Create(p) ==
  /\ At(p, "create")
  /\ CreateToolExecution(frame[p].call)
  /\ Goto(p, "invoke")
  /\ frame' = [frame EXCEPT ![p].attempt = 1]
  /\ UNCHANGED <<fate, effects, runVars, historyVars, attempts, request,
                 pausedSteps, meetingItems>>

\* The provider's answer is known to the thread and nothing is recorded yet.
Answered(p, outcome) ==
  /\ Goto(p, "attempt")
  /\ frame' = [frame EXCEPT ![p].outcome = outcome]
  /\ UNCHANGED <<fate, rowVars>>

InvokeUnsupported(p) ==
  /\ At(p, "invoke")
  /\ frame[p].call \in Unsupported
  /\ Answered(p, "failed")
  /\ UNCHANGED effects

InvokeGated(p) ==
  /\ At(p, "invoke")
  /\ frame[p].call \in Gated
  /\ Answered(p, "approval_required")
  /\ UNCHANGED effects

InvokeAccepted(p) ==
  LET c == frame[p].call IN
  /\ At(p, "invoke")
  /\ c \notin Gated \cup Unsupported
  /\ effects' = [effects EXCEPT ![c] = @ + 1]
  /\ Answered(p, "executed")

\* Mutant: one retry too many.
InvokeOnceMore(p) ==
  LET c == frame[p].call
      n == frame[p].attempt
  IN
  /\ At(p, "invoke")
  /\ c \notin Gated \cup Unsupported
  /\ \E tookEffect \in {0, 1} :
       effects' = [effects EXCEPT ![c] = @ + tookEffect]
  /\ CreateToolExecutionAttempt(c)
  /\ \/ /\ n <= MaxRetries
        /\ frame' = [frame EXCEPT ![p].attempt = n + 1]
        /\ UNCHANGED pc
     \/ /\ n > MaxRetries
        /\ Goto(p, "exhaust")
        /\ UNCHANGED frame
  /\ UNCHANGED <<fate, runVars, historyVars, execution, request, pausedSteps,
                 meetingItems>>

\* RetryableToolError: the failed attempt is recorded and, unless it was the
\* last one, the call is tried again after the backoff.
InvokeRetryable(p) ==
  LET c == frame[p].call
      n == frame[p].attempt
  IN
  /\ At(p, "invoke")
  /\ c \notin Gated \cup Unsupported
  /\ \E tookEffect \in {0, 1} :
       effects' = [effects EXCEPT ![c] = @ + tookEffect]
  /\ CreateToolExecutionAttempt(c)
  /\ \/ /\ n < MaxRetries
        /\ frame' = [frame EXCEPT ![p].attempt = n + 1]
        /\ UNCHANGED pc
     \/ /\ n >= MaxRetries
        /\ Goto(p, "exhaust")
        /\ UNCHANGED frame
  /\ UNCHANGED <<fate, runVars, historyVars, execution, request, pausedSteps,
                 meetingItems>>

Invoke(p) ==
  InvokeUnsupported(p) \/ InvokeGated(p) \/ InvokeAccepted(p) \/ InvokeRetryable(p)

\* create_tool_execution_attempt, then update_tool_execution: two commits.
Attempt(p) ==
  /\ At(p, "attempt")
  /\ CreateToolExecutionAttempt(frame[p].call)
  /\ Goto(p, "record")
  /\ UNCHANGED <<fate, frame, effects, runVars, historyVars, execution, request,
                 pausedSteps, meetingItems>>

\* Mutant: create_approval_request is never called.
RecordUngated(p) ==
  /\ At(p, "record")
  /\ UpdateToolExecution(frame[p].call, frame[p].outcome)
  /\ Goto(p, "step")
  /\ UNCHANGED <<fate, frame, effects, runVars, historyVars, attempts, request,
                 pausedSteps, meetingItems>>

Record(p) ==
  /\ At(p, "record")
  /\ UpdateToolExecution(frame[p].call, frame[p].outcome)
  /\ Goto(p, IF frame[p].outcome = "approval_required" THEN "gate" ELSE "step")
  /\ UNCHANGED <<fate, frame, effects, runVars, historyVars, attempts, request,
                 pausedSteps, meetingItems>>

Gate(p) ==
  /\ At(p, "gate")
  /\ CreateApprovalRequest(frame[p].call)
  /\ Goto(p, "step")
  /\ UNCHANGED <<fate, frame, effects, runVars, historyVars, toolVars,
                 pausedSteps, meetingItems>>

\* All attempts failed: the dead-letter result.
Exhaust(p) ==
  /\ At(p, "exhaust")
  /\ UpdateToolExecution(frame[p].call, "failed")
  /\ Goto(p, "step")
  /\ frame' = [frame EXCEPT ![p].outcome = "failed"]
  /\ UNCHANGED <<fate, effects, runVars, historyVars, attempts, request,
                 pausedSteps, meetingItems>>

ExecutorStep(p) ==
  \/ Create(p) \/ Invoke(p) \/ Attempt(p)
  \/ Record(p) \/ Gate(p) \/ Exhaust(p)
=============================================================================
