-------------------------- MODULE MeetingWorkflow ---------------------------
(***************************************************************************)
(* One workflow run from submission to its end: the job queue, the worker  *)
(* that executes the run, and the requests that resolve its approvals.     *)
(* Threads share nothing but the rows of the database and interleave at    *)
(* every statement that reads or writes them.                              *)
(***************************************************************************)
EXTENDS ApprovalService

vars == <<threadVars, effects, rowVars, jobVars, resolverVars>>

Init == RowInit /\ ThreadInit /\ JobInit /\ ResolverInit

Next ==
  \/ Enqueue /\ UNCHANGED resolverVars
  \/ \E w \in Workers : WorkerNext(w) /\ UNCHANGED resolverVars
  \/ \E a \in Approvers : ResolverNext(a)

Spec == Init /\ [][Next]_vars

\* A thread that runs goes on to its next statement, the queue hands out the
\* job it holds.  Nobody has to submit, approve, raise or crash.
FairSpec ==
  /\ Spec
  /\ WF_vars(Enqueue /\ UNCHANGED resolverVars)
  /\ \A w \in Workers :
       /\ WF_vars(Deliver(w) /\ UNCHANGED resolverVars)
       /\ WF_vars(WorkerStep(w) /\ UNCHANGED resolverVars)
  /\ \A a \in Approvers : WF_vars(ResolverStep(a))

TypeOK == RowTypeOK /\ ThreadTypeOK /\ JobTypeOK /\ ResolverTypeOK

Settled == status \in {"done", "failed"}

Reported == Settled \/ status = "awaiting_approval"

-----------------------------------------------------------------------------
(* Who may write the run.                                                  *)

LoopLabels ==
  {"plan", "count", "pick", "step", "save", "finish",
   "create", "invoke", "attempt", "record", "exhaust", "gate"}

PendingLabels   == {"transcribe", "publish", "validate"}
ValidatedLabels == {"drain", "execute"}
ResolvingLabels == {"inspect", "deliver", "log", "settle", "resolve", "mark", "reopen"}
ExecutingLabels == {"resume"} \cup LoopLabels

OwningLabels ==
  PendingLabels \cup ValidatedLabels \cup ExecutingLabels \cup ResolvingLabels
    \cup {"fail"}

Owns(p) == fate[p] = "running" /\ pc[p] \in OwningLabels

\* The statuses an owner may find the run in, by what it does next.
StatusFits(label, s) ==
  /\ label \in PendingLabels => s = "pending"
  /\ label \in ValidatedLabels => s = "validated"
  /\ label \in ExecutingLabels => s = "executing"
  /\ label \in ResolvingLabels => s = "awaiting_approval"
  /\ label = "fail" => s \in {"pending", "validated", "executing"}

\* The run is as its owner left it, or was failed while a resolver owned it.
StatusKept(p, label) ==
  \/ StatusFits(label, status)
  \/ p \in Approvers /\ misreported /\ status = "failed"

\* With resolvers that do not overlap, at most one thread works on the run,
\* through crashes and redeliveries, and the status it has read or written
\* itself is still the status of the run: the status column alone hands the run
\* from the worker to a resolver (orchestrator.py:69, approvals.py:55).  Only a
\* redelivery that cannot read the run writes "failed" behind a resolver's back
\* (orchestrator.py:70, 130-132), and that gives the run to nobody else.
SingleOwner ==
  \A p \in Threads : Owns(p) =>
    /\ \A q \in Threads : Owns(q) => q = p
    /\ StatusKept(p, pc[p])

-----------------------------------------------------------------------------
(* Approvals.                                                              *)

\* One resolver at a time: a request that was resolved agrees with what became
\* of its tool call.  It is approved only if the provider accepted the call,
\* rejected only if the call was skipped (approvals.py:58-63).
ResolutionAgrees ==
  \A c \in Gated :
    /\ request[c] = "approved" => execution[c] = "executed" /\ effects[c] > 0
    /\ request[c] = "rejected" => execution[c] = "skipped"

HandingBack(a) == pc[a] \in {"resolve", "mark", "reopen"}

\* One resolver at a time: a run that waits for approval has a request that can
\* be resolved, or is being handed back by a resolver that has settled the
\* execution; unless one stopped there, and then the run waits for ever
\* (approvals.py:58-74).
AwaitingActionable ==
  status = "awaiting_approval" =>
    \/ \E c \in Gated : request[c] = "pending" /\ execution[c] = "approval_required"
    \/ \E a \in Approvers : HandingBack(a) /\ Active(a)
    \/ \E a \in Approvers : HandingBack(a) /\ fate[a] # "running"

\* A gated call reaches the provider at most once for each resolver that
\* approves it, however resolvers overlap (executor.py:174-184).
GatedEffectApproved ==
  \A c \in Gated :
    effects[c] <= Cardinality({a \in Approvers : target[a] = c /\ decision[a] = "approve"})

\* One resolver at a time: the call reaches the provider again only if an
\* earlier one stopped before it had recorded the answer (executor.py:185-197).
GatedEffectOnce ==
  \A c \in Gated :
    effects[c] <= 1 + Cardinality({a \in Approvers :
                                     /\ target[a] = c
                                     /\ decision[a] = "approve"
                                     /\ fate[a] \in {"raised", "crashed"}
                                     /\ pc[a] \in {"log", "settle"}})

\* One resolver at a time: the step history has at most one paused step, and it
\* is the one the resolver rewrites although it looks only for the tool's name
\* (repositories.py:393-408).
PausedStepsMatch ==
  /\ Len(pausedSteps) <= 1
  /\ \A a \in Approvers : At(a, "mark") => pausedSteps = <<target[a]>>
  /\ status = "done" => pausedSteps = <<>>

\* One resolver at a time: a run is not reported as done while a request of it
\* waits for an answer, however often it has paused (agent.py:155-165).
DoneMeansResolved ==
  status = "done" =>
    \A c \in Gated : request[c] # "pending" /\ execution[c] # "approval_required"

-----------------------------------------------------------------------------
(* Tool calls.                                                             *)

Resumes == Cardinality({c \in Gated : request[c] \in {"approved", "rejected"}})

\* One resolver at a time: a call is tried at most MaxRetries times each time
\* the loop is entered, by the worker and once more for every approval that was
\* resolved, because a failed call is forgotten when the loop resumes
\* (agent.py:80-84).
RetryBudget ==
  \A c \in Calls \ Gated :
    /\ effects[c] <= MaxRetries * (1 + Resumes)
    /\ attempts[c] <= MaxRetries * (1 + Resumes)

\* Resolvers that have entered a loop of their own.
Resumed(a) == pc[a] \in LoopLabels

\* However many resolvers resume the same run at once, each loop tries a call at
\* most MaxRetries times: what one loop has seen it does not try again, whatever
\* the others write into its rows (agent.py:152-156, executor.py:134).
LoopRetryBudget ==
  \A c \in Calls \ Gated :
    attempts[c] <= MaxRetries * (1 + Cardinality({a \in Approvers : Resumed(a)}))

\* One resolver at a time: a run that fails without a reason has used up its
\* iterations, however often it has paused (agent.py:202-203).
BudgetFailure ==
  status = "failed" /\ ~failureReason => iterationCount = MaxIterations

\* The planner always sees the transcript, and sees it again only for a worker
\* that died after it had published to a queue that outlived it
\* (orchestrator.py:87-90).
TranscriptAssembled ==
  status \in {"executing", "awaiting_approval", "done"} =>
    /\ assembled > 0
    /\ assembled <= 1 + (IF DurableQueue THEN crashes ELSE 0)

\* One resolver at a time: whatever the last plan found is stored with the
\* meeting once the run pauses or ends, also when a resumed run has no iteration
\* left to plan again.
LastPlanSaved ==
  Reported /\ ~failureReason => lastPlan \subseteq meetingItems

-----------------------------------------------------------------------------
(* What a step may never do.                                               *)

\* One resolver at a time: a run that is done or failed stays so, no later
\* delivery or request changes its status or calls a provider for it.  The one
\* exception is a redelivery that cannot read the run and fails it, whatever it
\* was (orchestrator.py:70, 130-132); done runs call nobody even then.
SettledIsFinal ==
  [][/\ Settled /\ ~misreported' => status' = status
     /\ status = "done" => status' = "done" \/ (status' = "failed" /\ misreported')
     /\ status = "done" \/ (Settled /\ ~misreported) => effects' = effects]_vars

\* One resolver at a time: a call that is executed or skipped is never called
\* again and its row is never rewritten, by the loop, by a resumed loop, after a
\* redelivery or by a resolver.
ExecutedIsFinal ==
  [][\A c \in Calls :
       execution[c] \in {"executed", "skipped"} =>
         (execution'[c] = execution[c] /\ effects'[c] = effects[c])]_vars

\* A run never loses the tasks and decisions that were saved for its meeting
\* when it paused: the loop merges every plan into what it has found
\* (agent.py:130-133), and the history it resumes from is persisted
\* (README.md:21).
ItemsKept == [][meetingItems \subseteq meetingItems']_vars

-----------------------------------------------------------------------------
(* Progress.                                                               *)

\* A submitted job comes to a status a client stops polling at
\* (tests/test_jobs.py:67-76).
RunReported == (job = "queued") ~> Reported

\* Every thread ends: retries, iterations and resumption are all bounded.
HandlersEnd == \A p \in Threads : Active(p) ~> ~Active(p)

\* A run that executes comes to a status a client stops polling at, whoever
\* executes it.
ExecutionReported == (status = "executing") ~> Reported

\* Only one of the requests that approve or reject the same approval succeeds;
\* the others are answered with a conflict (tests/test_approvals.py:115-116).
ResolvedOnce ==
  \A a, b \in Approvers :
    target[a] = target[b] /\ {fate[a], fate[b]} = {"returned"} => a = b

-----------------------------------------------------------------------------
(* The run as its approvers see it.                                        *)

Phase ==
  CASE status = "pending"                    -> "pending"
    [] status \in {"validated", "executing"} -> "running"
    [] status = "awaiting_approval"          -> "paused"
    [] OTHER                                 -> status

AnswerOf ==
  [c \in Gated |-> CASE request[c] = "absent"  -> "none"
                      [] request[c] = "pending" -> "open"
                      [] OTHER                  -> request[c]]

SentCalls == {c \in Gated : effects[c] > 0}

Lifecycle == INSTANCE WorkflowLifecycle WITH
  phase <- Phase, answer <- AnswerOf, sent <- SentCalls

\* The program, with resolvers that do not overlap, with its threads, crashes
\* and redeliveries, also those that fail a run they cannot read, keeps what
\* WorkflowLifecycle promises to the people who approve.
ImplementsLifecycle == Lifecycle!LifecycleSpec
=============================================================================
