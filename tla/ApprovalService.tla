-------------------------- MODULE ApprovalService ---------------------------
(***************************************************************************)
(* ApprovalService._resolve (src/meeting_assistant/services/approvals.py)  *)
(* with ToolExecutor.finalize_approval.  An HTTP request resolves one      *)
(* approval request and then resumes the run in its own thread.            *)
(*                                                                         *)
(* No row is locked: the request, the run and the execution are read one   *)
(* after the other, and the rows are written after the provider has        *)
(* answered.  Nothing catches an exception, so one that is raised leaves   *)
(* every row as it is.                                                     *)
(***************************************************************************)
EXTENDS BatchOrchestrator

CONSTANT ConcurrentResolvers  \* whether two resolvers may be active at once

ASSUME ResolversAssumption == ConcurrentResolvers \in BOOLEAN

VARIABLES
  target,    \* the request each resolver was asked to resolve, by its call
  decision   \* what it was asked to do

resolverVars == <<target, decision>>

Decisions == {"approve", "reject"}

ResolverTypeOK ==
  /\ target \in [Approvers -> Gated \cup {NoCall}]
  /\ decision \in [Approvers -> Decisions \cup {"none"}]

ResolverInit ==
  /\ target = [a \in Approvers |-> NoCall]
  /\ decision = [a \in Approvers |-> "none"]

\* The request's row is read.
Open(a) ==
  /\ At(a, "idle")
  /\ ConcurrentResolvers \/ \A b \in Approvers : ~Active(b)
  /\ \E c \in Gated, d \in Decisions :
       /\ request[c] # "absent"
       /\ target' = [target EXCEPT ![a] = c]
       /\ decision' = [decision EXCEPT ![a] = d]
       /\ IF request[c] = "pending" THEN Goto(a, "check") /\ UNCHANGED <<fate, frame>>
                                    ELSE End(a, "refused")
  /\ UNCHANGED <<effects, rowVars, jobVars>>

\* Mutant: the run's status is not looked at.
CheckRunBlindly(a) ==
  /\ At(a, "check")
  /\ Goto(a, "inspect")
  /\ UNCHANGED <<fate, frame, effects, rowVars, jobVars, resolverVars>>

\* The run's row is read.
CheckRun(a) ==
  /\ At(a, "check")
  /\ IF status = "awaiting_approval"
     THEN Goto(a, "inspect") /\ UNCHANGED <<fate, frame>>
     ELSE End(a, "refused")
  /\ UNCHANGED <<effects, rowVars, jobVars, resolverVars>>

\* Mutant: the execution's status is not looked at.
InspectBlindly(a) ==
  /\ At(a, "inspect")
  /\ Goto(a, IF decision[a] = "approve" THEN "deliver" ELSE "log")
  /\ UNCHANGED <<fate, frame, effects, rowVars, jobVars, resolverVars>>

\* Mutant: a rejected call is delivered all the same.
InspectAndDeliver(a) ==
  /\ At(a, "inspect")
  /\ IF execution[target[a]] = "approval_required"
     THEN Goto(a, "deliver") /\ UNCHANGED <<fate, frame>>
     ELSE End(a, "refused")
  /\ UNCHANGED <<effects, rowVars, jobVars, resolverVars>>

\* finalize_approval reads the execution's row.
Inspect(a) ==
  /\ At(a, "inspect")
  /\ IF execution[target[a]] = "approval_required"
     THEN /\ Goto(a, IF decision[a] = "approve" THEN "deliver" ELSE "log")
          /\ UNCHANGED <<fate, frame>>
     ELSE End(a, "refused")
  /\ UNCHANGED <<effects, rowVars, jobVars, resolverVars>>

\* execute_after_approval: one call, never retried.
DeliverApproved(a) ==
  /\ At(a, "deliver")
  /\ effects' = [effects EXCEPT ![target[a]] = @ + 1]
  /\ Goto(a, "log")
  /\ UNCHANGED <<fate, frame, rowVars, jobVars, resolverVars>>

LogAttempt(a) ==
  /\ At(a, "log")
  /\ CreateToolExecutionAttempt(target[a])
  /\ Goto(a, "settle")
  /\ UNCHANGED <<fate, frame, effects, runVars, historyVars, execution, request,
                 pausedSteps, meetingItems, jobVars, resolverVars>>

\* Mutant: a rejected call counts as executed.
SettleExecuted(a) ==
  /\ At(a, "settle")
  /\ UpdateToolExecution(target[a], "executed")
  /\ Goto(a, "resolve")
  /\ UNCHANGED <<fate, frame, effects, runVars, historyVars, attempts, request,
                 pausedSteps, meetingItems, jobVars, resolverVars>>

Settle(a) ==
  /\ At(a, "settle")
  /\ UpdateToolExecution(target[a],
                         IF decision[a] = "approve" THEN "executed" ELSE "skipped")
  /\ Goto(a, "resolve")
  /\ UNCHANGED <<fate, frame, effects, runVars, historyVars, attempts, request,
                 pausedSteps, meetingItems, jobVars, resolverVars>>

\* Mutant: the request is approved whatever was decided.
ResolveApproved(a) ==
  /\ At(a, "resolve")
  /\ ResolveApprovalRequest(target[a], "approved")
  /\ Goto(a, "mark")
  /\ UNCHANGED <<fate, frame, effects, runVars, historyVars, toolVars,
                 pausedSteps, meetingItems, jobVars, resolverVars>>

Resolve(a) ==
  /\ At(a, "resolve")
  /\ ResolveApprovalRequest(target[a],
                            IF decision[a] = "approve" THEN "approved" ELSE "rejected")
  /\ Goto(a, "mark")
  /\ UNCHANGED <<fate, frame, effects, runVars, historyVars, toolVars,
                 pausedSteps, meetingItems, jobVars, resolverVars>>

MarkStep(a) ==
  /\ At(a, "mark")
  /\ UpdateAgentStepForTool
  /\ Goto(a, "reopen")
  /\ UNCHANGED <<fate, frame, effects, runVars, historyVars, toolVars, request,
                 meetingItems, jobVars, resolverVars>>

\* The status is written whatever it has become since CheckRun.
Reopen(a) ==
  /\ At(a, "reopen")
  /\ UpdateWorkflowStatus("executing", FALSE)
  /\ Goto(a, "resume")
  /\ UNCHANGED <<fate, frame, effects, historyVars, toolVars, request,
                 pausedSteps, meetingItems, jobVars, resolverVars>>

\* agent_runtime.resume rebuilds its state from the rows.
Resume(a) ==
  /\ At(a, "resume")
  /\ StartResume(a)
  /\ UNCHANGED <<fate, effects, rowVars, jobVars, resolverVars>>

FinishResolve(a) ==
  /\ At(a, "finish")
  /\ UpdateWorkflowStatus(frame[a].verdict, FALSE)
  /\ End(a, "returned")
  /\ UNCHANGED <<effects, historyVars, toolVars, request, pausedSteps,
                 meetingItems, jobVars, resolverVars>>

ResolverRaises(a) ==
  /\ Active(a)
  /\ End(a, "raised")
  /\ UNCHANGED <<effects, rowVars, jobVars, resolverVars>>

ResolverCrash(a) ==
  /\ Active(a)
  /\ crashes < MaxCrashes
  /\ crashes' = crashes + 1
  /\ End(a, "crashed")
  /\ UNCHANGED <<effects, rowVars, job, queued, assembled, misreported, resolverVars>>

\* What a resolver does by itself, leaving faults aside.
ResolverStep(a) ==
  \/ CheckRun(a) \/ Inspect(a) \/ DeliverApproved(a) \/ LogAttempt(a)
  \/ Settle(a) \/ Resolve(a) \/ MarkStep(a) \/ Reopen(a) \/ Resume(a)
  \/ (LoopStep(a) \/ SaveMeeting(a)) /\ UNCHANGED <<jobVars, resolverVars>>
  \/ FinishResolve(a)

ResolverNext(a) ==
  Open(a) \/ ResolverStep(a) \/ ResolverRaises(a) \/ ResolverCrash(a)
=============================================================================
