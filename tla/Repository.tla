----------------------------- MODULE Repository -----------------------------
(***************************************************************************)
(* The durable rows of one workflow run, and the repository methods that   *)
(* write them (src/meeting_assistant/repositories.py over db/models.py).   *)
(* Every method opens a session of its own and commits before it returns,  *)
(* so each write below is one atomic step of whoever calls it, and a       *)
(* process that stops keeps everything it has committed.                   *)
(*                                                                         *)
(* A tool call is the pair (tool_name, payload): its idempotency key is a  *)
(* hash of exactly that pair, so one member of Calls stands for the call,  *)
(* its signature, its key, and the only tool_executions row it can have    *)
(* (unique on workflow_run_id, idempotency_key).  Runs do not share rows,  *)
(* so one run is modelled.                                                 *)
(***************************************************************************)
EXTENDS Naturals, Sequences, FiniteSets

CONSTANTS
  Calls,        \* the tool calls a planner may request
  Gated,        \* those whose provider asks for approval: calendar.create_event
  Items         \* tasks and decisions a planner may extract

ASSUME GatedAssumption == Gated \subseteq Calls

VARIABLES
  status,          \* workflow_runs.status
  failureReason,   \* whether workflow_runs.failure_reason is set
  iterationCount,  \* workflow_runs.iteration_count
  execution,       \* tool_executions.status of each call, or "absent"
  attempts,        \* number of tool_execution_attempts rows of each call
  request,         \* approval_requests.status of each call, or "absent"
  pausedSteps,     \* agent_steps still marked approval_required, oldest first
  lastPlan,        \* items of the newest planner step in agent_steps
  meetingItems     \* tasks and decisions rows of the meeting

runVars     == <<status, failureReason>>
toolVars    == <<execution, attempts>>
historyVars == <<iterationCount, lastPlan>>
rowVars     == <<status, failureReason, iterationCount, execution, attempts,
                 request, pausedSteps, lastPlan, meetingItems>>

WorkflowStatus == {"pending", "validated", "executing",
                   "awaiting_approval", "done", "failed"}

ToolExecutionStatus == {"pending", "approval_required", "executed",
                        "failed", "skipped"}

ApprovalRequestStatus == {"pending", "approved", "rejected"}

RowTypeOK ==
  /\ status \in WorkflowStatus
  /\ failureReason \in BOOLEAN
  /\ iterationCount \in Nat
  /\ execution \in [Calls -> ToolExecutionStatus \cup {"absent"}]
  /\ attempts \in [Calls -> Nat]
  /\ request \in [Calls -> ApprovalRequestStatus \cup {"absent"}]
  /\ pausedSteps \in Seq(Calls)
  /\ lastPlan \in SUBSET Items
  /\ meetingItems \in SUBSET Items

\* The rows as create_meeting and create_workflow_run leave them.
RowInit ==
  /\ status = "pending"
  /\ failureReason = FALSE
  /\ iterationCount = 0
  /\ execution = [c \in Calls |-> "absent"]
  /\ attempts = [c \in Calls |-> 0]
  /\ request = [c \in Calls |-> "absent"]
  /\ pausedSteps = <<>>
  /\ lastPlan = {}
  /\ meetingItems = {}

\* failure_reason is overwritten on every call, with None unless one is given.
UpdateWorkflowStatus(s, reason) ==
  /\ status' = s
  /\ failureReason' = reason

\* An existing row is returned as it is, whatever its status.
CreateToolExecution(c) ==
  execution' = [execution EXCEPT ![c] = IF @ = "absent" THEN "pending" ELSE @]

UpdateToolExecution(c, s) == execution' = [execution EXCEPT ![c] = s]

CreateToolExecutionAttempt(c) == attempts' = [attempts EXCEPT ![c] = @ + 1]

CreateApprovalRequest(c) ==
  request' = [request EXCEPT ![c] = IF @ = "absent" THEN "pending" ELSE @]

ResolveApprovalRequest(c, s) == request' = [request EXCEPT ![c] = s]

\* create_agent_step for a tool.  Steps in any other status are only read
\* back as text for the planner, so they are not kept.
CreateToolStep(c, s) ==
  pausedSteps' = IF s = "approval_required" THEN Append(pausedSteps, c)
                                            ELSE pausedSteps

\* Mutant: the step keeps its status.
LeaveAgentStep == UNCHANGED pausedSteps

\* The row is found by tool name, not by payload: every gated call has the
\* same tool name, so the newest paused step is the one rewritten.
UpdateAgentStepForTool ==
  pausedSteps' = SubSeq(pausedSteps, 1, Len(pausedSteps) - 1)

\* The meeting's earlier tasks and decisions are deleted first.
CompleteMeeting(items) == meetingItems' = items
=============================================================================
