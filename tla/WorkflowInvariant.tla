------------------------- MODULE WorkflowInvariant --------------------------
(***************************************************************************)
(* The inductive invariant behind the safety properties of                 *)
(* MeetingWorkflow, for resolvers that do not overlap.  TLC checks it as   *)
(* an invariant, WorkflowApprovals_proofs proves it.                       *)
(***************************************************************************)
EXTENDS MeetingWorkflow

WorkerLabels ==
  {"idle", "fail", "existing", "misreport", "ack"} \cup PendingLabels \cup ValidatedLabels \cup LoopLabels

ResolverLabels == {"idle", "check"} \cup ResolvingLabels \cup ExecutingLabels

\* Labels at which the frame holds a call the executor is working on.
CallLabels == {"create", "invoke", "attempt", "record", "exhaust", "gate", "step"}

\* What a thread knows at a label: the call, its outcome, the verdict.
KnownAt(label, f) ==
  /\ label \in CallLabels => f.call \in Calls
  /\ label \in {"attempt", "record", "gate", "step"} => f.outcome \in ToolExecutionStatus
  /\ label \in {"save", "finish"} => f.verdict \in Verdicts

FrameOK ==
  /\ \A p \in Threads : fate[p] = "running" => KnownAt(pc[p], frame[p])
  /\ \A a \in Approvers : pc[a] # "idle" => target[a] \in Gated /\ decision[a] \in Decisions

TypeInv == TypeOK /\ FrameOK

\* Which thread may be where: one worker per running job, one resolver.
Placement ==
  /\ \A w \in Workers : pc[w] \in WorkerLabels
  /\ \A a \in Approvers : pc[a] \in ResolverLabels
  /\ \A w \in Workers : Active(w) => job = "running"
  /\ \A v, w \in Workers : Active(v) /\ Active(w) => v = w
  /\ \A a, b \in Approvers : Active(a) /\ Active(b) => a = b

\* How the rows of a call belong together.
RowsAgree ==
  /\ \A c \in Calls \ Gated :
       execution[c] # "approval_required" /\ request[c] = "absent"
  /\ \A c \in Gated :
       /\ request[c] = "pending" =>
            execution[c] \in {"approval_required", "executed", "skipped"}
       /\ request[c] = "approved" => execution[c] = "executed" /\ effects[c] > 0
       /\ request[c] = "rejected" => execution[c] = "skipped"

NoneWaiting == \A c \in Gated : execution[c] # "approval_required" /\ request[c] # "pending"

OnlyOpenWaits ==
  \A c \in Gated : execution[c] = "approval_required" => request[c] = "pending"

SomeOpen ==
  \E c \in Gated : request[c] = "pending" /\ execution[c] = "approval_required"

\* At most one request is open, and none before the loop runs or when it is done.
OpenOnce ==
  /\ \A c, d \in Gated : request[c] = "pending" /\ request[d] = "pending" => c = d
  /\ status \in {"pending", "validated", "done"} => NoneWaiting
  /\ status = "awaiting_approval" => OnlyOpenWaits

\* The request a resolver has read is still open when it looks at the run.
CheckOpen == \A a \in Approvers : At(a, "check") => request[target[a]] = "pending"

\* The rows of the call the loop works on.
CallFits(label, f) ==
  /\ label = "create" => execution[f.call] \in {"absent", "pending", "failed"}
  /\ label \in {"invoke", "attempt", "record", "exhaust"} =>
       execution[f.call] \in {"pending", "failed"}
  /\ label \in {"attempt", "record"} =>
       (f.call \in Gated <=> f.outcome = "approval_required")
  /\ label = "exhaust" => f.call \notin Gated
  /\ label = "gate" =>
       /\ f.call \in Gated
       /\ f.outcome = "approval_required"
       /\ execution[f.call] = "approval_required"
       /\ request[f.call] = "absent"

QuietLabels ==
  {"resume", "plan", "count", "pick", "create", "invoke", "attempt", "record",
   "exhaust", "mark", "reopen"}

\* A request is open from the gate until a resolver has answered it, so never
\* while the loop goes on to other calls.
OpenFits(label, f) ==
  /\ label \in QuietLabels => NoneWaiting
  /\ label = "gate" =>
       \A c \in Gated :
         /\ request[c] # "pending"
         /\ execution[c] = "approval_required" => c = f.call
  /\ label = "step" =>
       IF f.outcome = "approval_required" THEN SomeOpen /\ OnlyOpenWaits ELSE NoneWaiting
  /\ label \in {"inspect", "deliver", "log", "settle", "resolve"} => OnlyOpenWaits
  /\ label \in {"save", "finish"} =>
       IF f.verdict = "awaiting_approval" THEN SomeOpen /\ OnlyOpenWaits ELSE NoneWaiting

\* The rows of the call a resolver was asked about.
ResolverFits(a, label) ==
  LET c == target[a] IN
  /\ label \in {"inspect", "deliver", "log", "settle", "resolve"} => request[c] = "pending"
  /\ label = "deliver" => decision[a] = "approve"
  /\ label \in {"deliver", "log", "settle"} => execution[c] = "approval_required"
  /\ label \in {"log", "settle"} /\ decision[a] = "approve" => effects[c] > 0
  /\ label = "resolve" =>
       \/ decision[a] = "approve" /\ execution[c] = "executed" /\ effects[c] > 0
       \/ decision[a] = "reject" /\ execution[c] = "skipped"

Fits(p, label, f) ==
  /\ CallFits(label, f)
  /\ OpenFits(label, f)
  /\ p \in Approvers => ResolverFits(p, label)

\* The owner's picture of the rows is right.
OwnerFits == \A p \in Threads : Owns(p) => Fits(p, pc[p], frame[p])

\* The inductive invariant.
IInv ==
  /\ TypeInv
  /\ Placement
  /\ SingleOwner
  /\ RowsAgree
  /\ OpenOnce
  /\ CheckOpen
  /\ OwnerFits
  /\ AwaitingActionable
=============================================================================
