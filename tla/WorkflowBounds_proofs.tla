----------------------- MODULE WorkflowBounds_proofs -----------------------
(***************************************************************************)
(* What a run may do, counted: copies of its transcript, iterations and    *)
(* paused steps, attempts of a call, sends of an approved call.            *)
(*                                                                         *)
(* None of these properties is inductive: each counts what threads have    *)
(* done before, so each gets an invariant that says what every thread      *)
(* still has to do at the statement it has reached.  They rest on IInv of  *)
(* WorkflowApprovals_proofs, whose core is that one thread owns the run.   *)
(***************************************************************************)
EXTENDS WorkflowApprovals_proofs, FiniteSetTheorems

USE DEF Threads, Goto, At, Active

-----------------------------------------------------------------------------
(* A step is a step of one thread: the others stay where they are.         *)

OthersRest(p) ==
  /\ \A q \in Threads \ {p} : pc'[q] = pc[q] /\ fate'[q] = fate[q] /\ frame'[q] = frame[q]
  /\ \A q \in Approvers \ {p} : target'[q] = target[q] /\ decision'[q] = decision[q]

LEMMA LoopRests ==
  ASSUME TypeInv, NEW p \in Threads, LoopStep(p) \/ SaveMeeting(p), UNCHANGED resolverVars
  PROVE  OthersRest(p)
<1>1. Moves(p)
  BY LoopMoves DEF TypeInv
<1> QED BY <1>1 DEF Moves, OthersRest, resolverVars, TypeInv, TypeOK, ThreadTypeOK

LEMMA WorkerRests ==
  ASSUME TypeInv, NEW w \in Workers, WorkerNext(w), UNCHANGED resolverVars
  PROVE  OthersRest(w)
<1>1. pc \in [Threads -> Labels] /\ fate \in [Threads -> Fates] /\ frame \in [Threads -> Frames]
  BY DEF TypeInv, TypeOK, ThreadTypeOK
<1>2. CASE LoopStep(w) \/ SaveMeeting(w)
  BY <1>2, LoopRests
<1>3. CASE ~(LoopStep(w) \/ SaveMeeting(w))
  BY <1>1, <1>3 DEF WorkerNext, WorkerStep, Deliver, DeliverRaises, Transcribe, Publish, Validate,
     Drain, Execute, StartRun, Iterate, Conclude, FinishRun, WorkerRaises, FailRun, FailRunRaises,
     ReportExisting, ReportRaises, Misreport, Acknowledge, WorkerCrash, End, OthersRest, resolverVars
<1> QED BY <1>2, <1>3

LEMMA ResolverRests ==
  ASSUME TypeInv, NEW a \in Approvers, ResolverNext(a)
  PROVE  OthersRest(a)
<1>1. /\ pc \in [Threads -> Labels] /\ fate \in [Threads -> Fates] /\ frame \in [Threads -> Frames]
      /\ target \in [Approvers -> Gated \cup {NoCall}]
      /\ decision \in [Approvers -> Decisions \cup {"none"}]
  BY DEF TypeInv, TypeOK, ThreadTypeOK, ResolverTypeOK
<1>2. CASE (LoopStep(a) \/ SaveMeeting(a)) /\ UNCHANGED <<jobVars, resolverVars>>
  BY <1>2, LoopRests
<1>3. CASE Open(a)
  BY <1>1, <1>3 DEF Open, End, OthersRest
<1>4. CASE ResolverRaises(a) \/ ResolverCrash(a) \/ CheckRun(a) \/ Inspect(a) \/ FinishResolve(a)
  BY <1>1, <1>4 DEF ResolverRaises, ResolverCrash, CheckRun, Inspect, FinishResolve, End,
                    OthersRest, resolverVars
<1>5. CASE DeliverApproved(a) \/ LogAttempt(a) \/ Settle(a) \/ Resolve(a) \/ MarkStep(a)
           \/ Reopen(a) \/ Resume(a)
  BY <1>1, <1>5 DEF DeliverApproved, LogAttempt, Settle, Resolve, MarkStep, Reopen, Resume,
                    StartResume, Iterate, Conclude, OthersRest, resolverVars
<1> QED BY <1>2, <1>3, <1>4, <1>5 DEF ResolverNext, ResolverStep

\* A resolver comes to own a run only by reading that it waits for an approval.
LEMMA ResolverOwns ==
  ASSUME TypeInv, NEW a \in Approvers, ResolverNext(a), NEW q \in Threads, Owns(q)', ~Owns(q)
  PROVE  q = a /\ status = "awaiting_approval" /\ UNCHANGED rowVars
<1>1. q = a
  BY ResolverRests DEF OthersRest, Owns
<1>2. pc \in [Threads -> Labels] /\ fate \in [Threads -> Fates]
  BY DEF TypeInv, TypeOK, ThreadTypeOK
<1> USE DEF Owns, OwningLabels, PendingLabels, ValidatedLabels, ExecutingLabels, ResolvingLabels, LoopLabels
<1>3. CASE LoopStep(a) \/ SaveMeeting(a)
  BY <1>1, <1>3, LoopStays
<1>4. CASE CheckRun(a)
  BY <1>1, <1>2, <1>4 DEF CheckRun, End
<1>5. CASE ~(LoopStep(a) \/ SaveMeeting(a) \/ CheckRun(a))
  BY <1>1, <1>2, <1>5
  DEF ResolverNext, ResolverStep, Open, Inspect, DeliverApproved, LogAttempt, Settle, Resolve,
      MarkStep, Reopen, Resume, FinishResolve, ResolverRaises, ResolverCrash, End
<1> QED BY <1>1, <1>3, <1>4, <1>5

-----------------------------------------------------------------------------
(* The planner never runs without the transcript, and sees it again only   *)
(* for a worker that died (orchestrator.py:87-90).  How many copies a      *)
(* worker finds depends on who published before it, so QueueInv counts     *)
(* them: as long as the job has no worker, or its worker has not published *)
(* yet, the queue holds at most one copy for each process that died.       *)

Kept == IF DurableQueue THEN crashes ELSE 0

QueueBounds ==
  /\ queued <= 1 + Kept
  /\ assembled <= 1 + Kept
  /\ job \in {"submitted", "queued"} => queued <= Kept

QueueFits(w) ==
  /\ At(w, "transcribe") \/ At(w, "publish") => queued <= Kept
  /\ At(w, "validate") \/ At(w, "drain") => queued > 0
  /\ At(w, "execute") => assembled > 0

Planned == status \in {"executing", "awaiting_approval", "done"}

\* Whoever resolves an approval does it after the worker has drained the queue.
ResolversQueued == \A a \in Approvers : Owns(a) => assembled > 0

QueueInv ==
  /\ QueueBounds
  /\ \A w \in Workers : QueueFits(w)
  /\ Planned => assembled > 0
  /\ ResolversQueued

LEMMA QueueType ==
  ASSUME TypeInv
  PROVE  /\ queued \in Nat /\ assembled \in Nat /\ crashes \in Nat /\ Kept \in Nat
         /\ pc \in [Threads -> Labels] /\ fate \in [Threads -> Fates]
  BY ModeAssumption DEF TypeInv, TypeOK, JobTypeOK, ThreadTypeOK, Kept

\* A step of one worker that leaves the queue alone.
LEMMA WorkerKeeps ==
  ASSUME TypeInv, OwnInv, QueueInv, NEW w \in Workers, Active(w),
         NEW l \in Labels \ {"transcribe", "publish", "validate", "drain", "execute"},
         pc' = [pc EXCEPT ![w] = l], UNCHANGED <<fate, job, queued, assembled, crashes>>,
         Planned' => assembled > 0
  PROVE  QueueInv'
<1>1. QueueBounds'
  BY DEF QueueInv, QueueBounds, Kept
<1>2. ASSUME NEW v \in Workers PROVE QueueFits(v)'
  BY QueueType DEF QueueInv, QueueFits, Kept
<1>3. ASSUME NEW a \in Approvers, Owns(a)' PROVE assembled' > 0
  BY <1>3, QueueType, ThreadAssumption DEF QueueInv, ResolversQueued, Owns
<1> QED BY <1>1, <1>2, <1>3 DEF QueueInv, ResolversQueued

LEMMA QueueInit == Init => QueueInv
  BY ModeAssumption
  DEF Init, RowInit, ThreadInit, JobInit, QueueInv, QueueBounds, QueueFits, Planned, Kept,
      ResolversQueued, Owns, OwningLabels, PendingLabels, ValidatedLabels, ExecutingLabels, ResolvingLabels, LoopLabels

LEMMA WorkerQueue ==
  ASSUME TypeInv, OwnInv, QueueInv, NEW w \in Workers, WorkerNext(w), UNCHANGED resolverVars
  PROVE  QueueInv'
<1> USE QueueType
<1>0. ASSUME assembled' = assembled \/ assembled' > 0 PROVE ResolversQueued'
  <2>1. ASSUME NEW a \in Approvers, Owns(a)' PROVE Owns(a)
    BY <2>1, WorkerRests, ThreadAssumption DEF OthersRest, Owns
  <2> QED BY <1>0, <2>1 DEF QueueInv, ResolversQueued
<1>1. \A v \in Workers \ {w} : Active(w) => ~Active(v)
  BY DEF OwnInv, Placement
<1>2. CASE Deliver(w) \/ DeliverRaises(w)
  <2>1. /\ job = "queued" /\ queued <= Kept
        /\ UNCHANGED <<fate, status, queued, assembled, crashes, Kept>> /\ job' = "running"
    BY <1>2 DEF Deliver, DeliverRaises, rowVars, QueueInv, QueueBounds, Kept
  <2>2. \/ pc' = [pc EXCEPT ![w] = "transcribe"] \/ pc' = [pc EXCEPT ![w] = "existing"]
        \/ pc' = [pc EXCEPT ![w] = "ack"]
    BY <1>2 DEF Deliver, DeliverRaises
  <2>3. QueueBounds'
    BY <2>1 DEF QueueInv, QueueBounds
  <2>4. ASSUME NEW v \in Workers PROVE QueueFits(v)'
    BY <2>1, <2>2 DEF QueueInv, QueueFits
  <2> QED BY <1>0, <2>1, <2>2, <2>3, <2>4 DEF QueueInv, Planned
<1>3. CASE Transcribe(w)
  <2>1. /\ UNCHANGED <<fate, status, job, queued, assembled, crashes, Kept>>
        /\ pc' = [pc EXCEPT ![w] = "publish"] /\ At(w, "transcribe")
    BY <1>3 DEF Transcribe, rowVars, jobVars, Kept
  <2>2. ASSUME NEW v \in Workers PROVE QueueFits(v)'
    BY <2>1 DEF QueueInv, QueueFits
  <2> QED BY <1>0, <2>1, <2>2 DEF QueueInv, QueueBounds, Planned
<1>4. CASE Publish(w)
  <2>1. /\ UNCHANGED <<fate, status, job, assembled, crashes, Kept>> /\ queued' = queued + 1
        /\ pc' = [pc EXCEPT ![w] = "validate"] /\ At(w, "publish") /\ queued <= Kept
    BY <1>4 DEF Publish, rowVars, jobVars, Kept, QueueInv, QueueFits
  <2>2. ASSUME NEW v \in Workers PROVE QueueFits(v)'
    BY <1>1, <2>1 DEF QueueInv, QueueFits
  <2>3. job = "running"
    BY <2>1 DEF OwnInv, Placement
  <2> QED BY <1>0, <2>1, <2>2, <2>3 DEF QueueInv, QueueBounds, Planned
<1>5. CASE Validate(w)
  <2>1. /\ UNCHANGED <<fate, job, queued, assembled, crashes, Kept>> /\ status' = "validated"
        /\ pc' = [pc EXCEPT ![w] = "drain"] /\ At(w, "validate")
    BY <1>5 DEF Validate, UpdateWorkflowStatus, jobVars, Kept
  <2>2. ASSUME NEW v \in Workers PROVE QueueFits(v)'
    BY <2>1 DEF QueueInv, QueueFits
  <2> QED BY <1>0, <2>1, <2>2 DEF QueueInv, QueueBounds, Planned
<1>6. CASE Drain(w)
  <2>1. /\ UNCHANGED <<fate, status, job, crashes, Kept>> /\ assembled' = queued /\ queued' = 0
        /\ pc' = [pc EXCEPT ![w] = "execute"] /\ At(w, "drain") /\ queued > 0
    BY <1>6 DEF Drain, rowVars, Kept, QueueInv, QueueFits
  <2>2. ASSUME NEW v \in Workers PROVE QueueFits(v)'
    BY <1>1, <2>1 DEF QueueInv, QueueFits
  <2> QED BY <1>0, <2>1, <2>2 DEF QueueInv, QueueBounds
<1>7. CASE Execute(w)
  <2>1. UNCHANGED <<fate, job, queued, assembled, crashes>> /\ Active(w) /\ assembled > 0
    BY <1>7 DEF Execute, jobVars, QueueInv, QueueFits
  <2>2. \E l \in {"plan", "save"} : pc' = [pc EXCEPT ![w] = l]
    BY <1>7 DEF Execute, StartRun, Iterate, Conclude
  <2> QED BY <2>1, <2>2, WorkerKeeps DEF Labels
<1>8. CASE (LoopStep(w) \/ SaveMeeting(w)) /\ UNCHANGED jobVars
  <2>1. /\ UNCHANGED <<fate, status, job, queued, assembled, crashes>> /\ Active(w)
        /\ \E l \in LoopLabels : pc' = [pc EXCEPT ![w] = l]
    BY <1>8, LoopStays DEF jobVars, LoopLabels
  <2>2. Planned' => assembled > 0
    BY <2>1 DEF QueueInv, Planned
  <2> QED BY <2>1, <2>2, WorkerKeeps DEF LoopLabels, Labels
<1>9. CASE FinishRun(w)
  <2>1. status = "executing"
    BY <1>9, ThreadAssumption
    DEF FinishRun, OwnInv, SingleOwner, StatusKept, StatusFits, Owns, OwningLabels, ExecutingLabels,
                LoopLabels
  <2>2. UNCHANGED <<fate, job, queued, assembled, crashes>> /\ Active(w) /\ assembled > 0
        /\ pc' = [pc EXCEPT ![w] = "ack"]
    BY <1>9, <2>1 DEF FinishRun, jobVars, QueueInv, Planned
  <2> QED BY <2>2, WorkerKeeps DEF Labels
<1>10. CASE \/ WorkerRaises(w) \/ FailRun(w) \/ FailRunRaises(w)
            \/ ReportExisting(w) \/ ReportRaises(w) \/ Misreport(w)
  <2>1. UNCHANGED <<fate, job, queued, assembled, crashes>> /\ Active(w)
        /\ \E l \in {"fail", "misreport", "ack"} : pc' = [pc EXCEPT ![w] = l]
    BY <1>10 DEF WorkerRaises, FailRun, FailRunRaises, ReportExisting, ReportRaises, Misreport, jobVars
  <2>2. Planned' => assembled > 0
    BY <1>10 DEF WorkerRaises, FailRun, FailRunRaises, ReportExisting, ReportRaises, Misreport,
                 UpdateWorkflowStatus, rowVars, QueueInv, Planned
  <2> QED BY <2>1, <2>2, WorkerKeeps DEF Labels
<1>11. CASE Acknowledge(w)
  <2>1. /\ UNCHANGED <<pc, status, queued, assembled, crashes, Kept>> /\ job' = "finished"
        /\ fate' = [fate EXCEPT ![w] = "returned"]
    BY <1>11 DEF Acknowledge, End, rowVars, Kept
  <2>2. ASSUME NEW v \in Workers PROVE QueueFits(v)'
    BY <2>1 DEF QueueInv, QueueFits
  <2> QED BY <1>0, <2>1, <2>2 DEF QueueInv, QueueBounds, Planned
<1>12. CASE WorkerCrash(w)
  <2>1. /\ UNCHANGED <<pc, status, assembled>> /\ crashes' = crashes + 1 /\ Active(w)
        /\ fate' = [fate EXCEPT ![w] = "crashed"]
        /\ queued' = IF DurableQueue THEN queued ELSE 0
        /\ Kept' = IF DurableQueue THEN Kept + 1 ELSE 0
    BY <1>12 DEF WorkerCrash, End, rowVars, Kept
  <2>2. ASSUME NEW v \in Workers PROVE QueueFits(v)'
    BY <1>1, <2>1 DEF QueueInv, QueueFits
  <2>3. queued' <= Kept' /\ assembled' <= 1 + Kept'
    BY <2>1, ModeAssumption DEF QueueInv, QueueBounds, Kept
  <2> QED BY <1>0, <2>1, <2>2, <2>3 DEF QueueInv, QueueBounds, Planned
<1> QED
  BY <1>2, <1>3, <1>4, <1>5, <1>6, <1>7, <1>8, <1>9, <1>10, <1>11, <1>12
  DEF WorkerNext, WorkerStep

LEMMA ResolverQueue ==
  ASSUME TypeInv, OwnInv, QueueInv, NEW a \in Approvers, ResolverNext(a)
  PROVE  QueueInv'
<1> USE QueueType
<1>1. /\ \A w \in Workers : pc'[w] = pc[w] /\ fate'[w] = fate[w]
      /\ UNCHANGED <<job, queued, assembled>> /\ crashes' \in Nat /\ crashes' >= crashes
  <2>1. \A w \in Workers : w # a
    BY ThreadAssumption
  <2>2. /\ UNCHANGED <<job, queued, assembled>> /\ (crashes' = crashes \/ crashes' = crashes + 1)
    BY DEF ResolverNext, ResolverStep, Open, CheckRun, Inspect, DeliverApproved, LogAttempt, Settle,
           Resolve, MarkStep, Reopen, Resume, FinishResolve, ResolverRaises, ResolverCrash, jobVars
  <2>3. CASE LoopStep(a) \/ SaveMeeting(a)
    BY <2>1, <2>2, <2>3, LoopStays
  <2>4. CASE ~(LoopStep(a) \/ SaveMeeting(a))
    <3>1. /\ pc' = pc \/ \E l \in Labels : pc' = [pc EXCEPT ![a] = l]
          /\ fate' = fate \/ \E how \in Fates : fate' = [fate EXCEPT ![a] = how]
      BY <2>4 DEF ResolverNext, ResolverStep, Open, CheckRun, Inspect, DeliverApproved, LogAttempt,
           Settle, Resolve, MarkStep, Reopen, Resume, StartResume, Iterate, Conclude, FinishResolve,
           ResolverRaises, ResolverCrash, End, Labels, Fates
    <3> QED BY <2>1, <2>2, <3>1
  <2> QED BY <2>3, <2>4
<1>2. Kept' >= Kept /\ Kept' \in Nat /\ queued' = queued /\ assembled' = assembled /\ job' = job
  BY <1>1 DEF Kept
<1>3. QueueBounds'
  BY <1>2 DEF QueueInv, QueueBounds
<1>4. \A w \in Workers : QueueFits(w)'
  BY <1>1, <1>2 DEF QueueInv, QueueFits
<1>5. Planned' => assembled > 0
  <2>1. CASE status' = status
    BY <2>1 DEF Planned, QueueInv
  <2>2. CASE Reopen(a) \/ FinishResolve(a)
    BY <2>2 DEF Reopen, FinishResolve, Owns, OwningLabels, ExecutingLabels, ResolvingLabels,
                LoopLabels, QueueInv, ResolversQueued
  <2>3. \/ status' = status \/ Reopen(a) \/ FinishResolve(a)
    BY LoopStays
    DEF ResolverNext, ResolverStep, Open, CheckRun, Inspect, DeliverApproved, LogAttempt, Settle,
        Resolve, MarkStep, Resume, ResolverRaises, ResolverCrash, rowVars, runVars
  <2> QED BY <2>1, <2>2, <2>3
<1>6. ASSUME NEW b \in Approvers, Owns(b)' PROVE assembled > 0
  <2>1. CASE Owns(b)
    BY <2>1 DEF QueueInv, ResolversQueued
  <2>2. CASE ~Owns(b)
    BY <1>6, <2>2, ResolverOwns DEF QueueInv, Planned
  <2> QED BY <2>1, <2>2
<1> QED BY <1>2, <1>3, <1>4, <1>5, <1>6 DEF QueueInv, ResolversQueued

LEMMA QueueStep == TypeInv /\ OwnInv /\ QueueInv /\ [Next]_vars => QueueInv'
<1> SUFFICES ASSUME TypeInv, OwnInv, QueueInv, [Next]_vars PROVE QueueInv'
  OBVIOUS
<1>1. CASE Enqueue
  <2>1. /\ UNCHANGED <<pc, fate, status, queued, assembled, crashes>> /\ job = "submitted"
    BY <1>1 DEF Enqueue, threadVars, rowVars
  <2> QED BY <2>1 DEF QueueInv, QueueBounds, QueueFits, Planned, Kept, ResolversQueued, Owns
<1>2. CASE UNCHANGED vars
  BY <1>2 DEF vars, threadVars, rowVars, jobVars, QueueInv, QueueBounds, QueueFits, Planned,
              Kept, ResolversQueued, Owns
<1> QED BY <1>1, <1>2, WorkerQueue, ResolverQueue DEF Next

\* With resolvers that do not overlap, whoever plans has the transcript, as often
\* as workers died after they had published to a queue that outlived them, and
\* once more.
THEOREM TranscriptComplete ==
  ASSUME ~ConcurrentResolvers
  PROVE  Spec => []TranscriptAssembled
<1>1. Init => TypeInv /\ OwnInv /\ QueueInv
  BY TypeInit, OwnInit, QueueInit
<1>2. TypeInv /\ OwnInv /\ QueueInv /\ [Next]_vars => (TypeInv /\ OwnInv /\ QueueInv)'
  BY TypeStep, OwnStep, QueueStep
<1>3. QueueInv => TranscriptAssembled
  BY DEF QueueInv, QueueBounds, Planned, Kept, TranscriptAssembled
<1> QED BY <1>1, <1>2, <1>3, PTL DEF Spec

-----------------------------------------------------------------------------
(* The history of the run: iterations, the newest plan, the paused step.   *)

OpenIsPaused == \A c \in Gated : request[c] = "pending" => pausedSteps = <<c>>

HistoryRows ==
  /\ iterationCount <= MaxIterations
  /\ Len(pausedSteps) <= 1
  /\ status \in {"pending", "validated"} => lastPlan = {} /\ pausedSteps = <<>>
  /\ status = "awaiting_approval" => OpenIsPaused
  /\ status = "done" => pausedSteps = <<>>
  /\ BudgetFailure
  /\ LastPlanSaved

UnpausedLabels == {"reopen", "resume", "plan", "count", "pick"} \cup CallLabels

\* What the owner knows of the history at a statement.
HistoryFits(p, label, f) ==
  /\ label \in {"plan", "count"} => f.iteration <= MaxIterations
  /\ label \in {"pick"} \cup CallLabels => f.iteration = iterationCount
  /\ label \in {"save", "finish"} /\ f.verdict = "failed" => iterationCount = MaxIterations
  /\ label \in LoopLabels \ {"finish"} => lastPlan \subseteq f.items
  /\ label = "finish" => lastPlan \subseteq meetingItems
  /\ label \in UnpausedLabels => pausedSteps = <<>>
  /\ label = "step" /\ f.outcome = "approval_required" => request[f.call] = "pending"
  /\ label \in {"save", "finish"} =>
       IF f.verdict = "awaiting_approval" THEN OpenIsPaused ELSE pausedSteps = <<>>
  /\ label \in {"inspect", "deliver", "log", "settle", "resolve"} => OpenIsPaused
  /\ label = "mark" /\ p \in Approvers => pausedSteps = <<target[p]>>

HistoryInv ==
  /\ HistoryRows
  /\ \A p \in Threads : Owns(p) => HistoryFits(p, pc[p], frame[p])

\* A run that was failed behind its owner's back says why.
FailedBehind == status = "failed" /\ (\E p \in Threads : Owns(p)) => failureReason

historyRows ==
  <<status, failureReason, iterationCount, lastPlan, meetingItems, pausedSteps, request>>

\* The owner goes on: nobody else's picture has to be looked at.
LEMMA HistoryMoves ==
  ASSUME OwnInv, NEW p \in Threads, Owns(p), OthersRest(p), HistoryRows',
         Owns(p)' => HistoryFits(p, pc[p], frame[p])'
  PROVE  HistoryInv'
<1>1. ASSUME NEW q \in Threads, Owns(q)' PROVE q = p
  BY <1>1 DEF OwnInv, SingleOwner, Owns, OthersRest
<1> QED BY <1>1 DEF HistoryInv

\* A step that writes no row of the history.
LEMMA HistoryRests ==
  ASSUME HistoryInv, NEW p \in Threads, OthersRest(p), UNCHANGED historyRows,
         Owns(p)' => HistoryFits(p, pc[p], frame[p])'
  PROVE  HistoryInv'
<1> USE DEF historyRows
<1>1. HistoryRows'
  BY DEF HistoryInv, HistoryRows, OpenIsPaused, BudgetFailure, LastPlanSaved, Reported, Settled
<1>2. ASSUME NEW q \in Threads \ {p}, Owns(q)' PROVE HistoryFits(q, pc[q], frame[q])'
  <2>1. Owns(q) /\ HistoryFits(q, pc[q], frame[q])
    BY <1>2 DEF OthersRest, Owns, HistoryInv
  <2>2. pc'[q] = pc[q] /\ frame'[q] = frame[q] /\ (q \in Approvers => target'[q] = target[q])
    BY DEF OthersRest
  <2> QED BY <2>1, <2>2 DEF HistoryFits, OpenIsPaused
<1> QED BY <1>1, <1>2 DEF HistoryInv

\* A thread at a statement with nothing to know of the history.
LEMMA HistoryIgnored ==
  ASSUME NEW p, NEW f,
         NEW l \in {"idle", "transcribe", "publish", "validate", "drain", "execute", "fail", "ack",
                    "existing", "misreport", "check"}
  PROVE  HistoryFits(p, l, f)
  BY DEF HistoryFits, LoopLabels, CallLabels, UnpausedLabels

LEMMA LoopHistory ==
  ASSUME IInv, IInv', HistoryInv, FailedBehind, NEW p \in Threads, LoopStep(p) \/ SaveMeeting(p),
         UNCHANGED resolverVars
  PROVE  HistoryInv'
<1> DEFINE f == frame[p]
           g == frame'[p]
<1>1. /\ TypeInv /\ OwnInv /\ RowInv
      /\ pc \in [Threads -> Labels] /\ fate[p] = "running" /\ pc[p] \in LoopLabels
      /\ OthersRest(p) /\ status' = status /\ failureReason' = failureReason
  BY IInvParts, LoopStays, LoopRests DEF TypeInv, TypeOK, ThreadTypeOK
<1>2. /\ Owns(p) /\ KnownAt(pc[p], f) /\ CallFits(pc[p], f) /\ OpenFits(pc[p], f)
      /\ status = "executing" \/ (status = "failed" /\ failureReason)
  BY <1>1, LoopOwner DEF LeftAs, FailedBehind
<1>3. HistoryFits(p, pc[p], f) /\ HistoryRows
  BY <1>2 DEF HistoryInv
<1>4. /\ frame \in [Threads -> Frames] /\ f \in Frames /\ request \in [Calls -> ApprovalRequestStatus \cup {"absent"}]
      /\ iterationCount \in Nat /\ f.iteration \in Nat /\ pausedSteps \in Seq(Calls)
      /\ MaxIterations \in Nat
  BY <1>1, IterationsAssumption DEF TypeInv, TypeOK, ThreadTypeOK, RowTypeOK, Frames
<1>5. ASSUME HistoryFits(p, pc[p], frame[p])', iterationCount' <= MaxIterations, Len(pausedSteps)' <= 1
      PROVE  HistoryInv'
  <2>1. HistoryRows'
    BY <1>1, <1>2, <1>5 DEF HistoryRows, BudgetFailure, LastPlanSaved, Reported, Settled
  <2> QED BY <1>1, <1>2, <1>5, <2>1, HistoryMoves
<1>6. ASSUME UNCHANGED <<iterationCount, lastPlan, meetingItems, pausedSteps>>,
             HistoryFits(p, pc[p], frame[p])'
      PROVE  HistoryInv'
  BY <1>3, <1>5, <1>6 DEF HistoryRows
<1> USE DEF LoopLabels, CallLabels, UnpausedLabels
<1>7. CASE Plan(p)
  <2>1. /\ pc[p] = "plan" /\ pc'[p] = "count" /\ g.iteration = f.iteration
        /\ lastPlan' \subseteq g.items /\ UNCHANGED <<pausedSteps, iterationCount>>
    BY <1>1, <1>4, <1>7 DEF Plan, Frames
  <2>2. HistoryFits(p, pc[p], frame[p])'
    BY <1>3, <2>1 DEF HistoryFits
  <2> QED BY <1>3, <1>5, <2>1, <2>2 DEF HistoryRows
<1>8. CASE Count(p)
  <2>1. /\ pc[p] = "count" /\ iterationCount' = f.iteration /\ g.items = f.items
        /\ g.iteration = f.iteration /\ UNCHANGED <<lastPlan, pausedSteps>>
        /\ \/ pc'[p] = "save" /\ g.verdict = "done"
           \/ pc'[p] = "pick"
    BY <1>1, <1>4, <1>8 DEF Count, Conclude, Frames
  <2>2. HistoryFits(p, pc[p], frame[p])'
    BY <1>3, <2>1 DEF HistoryFits
  <2> QED BY <1>3, <1>5, <2>1, <2>2 DEF HistoryRows, HistoryFits
<1>9. CASE Pick(p)
  <2>1. PICK c \in f.todo \ f.seen : Lookup(p, c)
    BY <1>9 DEF Pick
  <2>2. c \in Calls /\ execution[c] # "approval_required"
    BY <1>1, <1>2, <1>4, <1>9
    DEF Pick, OpenFits, QuietLabels, NoneWaiting, Frames, RowInv, RowsAgree
  <2>3. /\ pc[p] = "pick" /\ g.items = f.items /\ g.iteration = f.iteration
        /\ pc'[p] \in {"step", "create"} /\ (pc'[p] = "step" => g.outcome = execution[c])
    BY <1>1, <1>4, <1>9, <2>1 DEF Pick, Lookup, Frames
  <2>4. UNCHANGED <<iterationCount, lastPlan, meetingItems, pausedSteps>>
    BY <1>9 DEF Pick, rowVars
  <2>5. HistoryFits(p, pc[p], frame[p])'
    BY <1>3, <2>2, <2>3, <2>4 DEF HistoryFits
  <2> QED BY <1>6, <2>4, <2>5
<1>10. CASE EndIteration(p)
  <2>1. /\ pc[p] = "pick" /\ g.items = f.items
        /\ \/ pc'[p] = "plan" /\ g.iteration <= MaxIterations
           \/ pc'[p] = "save" /\ g.verdict = "failed" /\ f.iteration + 1 > MaxIterations
           \/ pc'[p] = "save" /\ g.verdict = "done"
    BY <1>1, <1>4, <1>10 DEF EndIteration, Iterate, Conclude, Frames
  <2>2. UNCHANGED <<iterationCount, lastPlan, meetingItems, pausedSteps>>
    BY <1>10 DEF EndIteration, rowVars
  <2>3. f.iteration + 1 > MaxIterations => iterationCount = MaxIterations
    BY <1>3, <1>4, <2>1 DEF HistoryFits, HistoryRows
  <2>4. HistoryFits(p, pc[p], frame[p])'
    BY <1>3, <2>1, <2>2, <2>3 DEF HistoryFits
  <2> QED BY <1>6, <2>2, <2>4
<1>11. CASE Step(p)
  <2>1. /\ pc[p] = "step" /\ g.items = f.items /\ g.iteration = f.iteration /\ f.call \in Calls
        /\ UNCHANGED <<iterationCount, lastPlan, meetingItems, request>>
        /\ \/ /\ f.outcome = "approval_required" /\ pausedSteps' = Append(pausedSteps, f.call)
              /\ pc'[p] = "save" /\ g.verdict = "awaiting_approval"
           \/ /\ f.outcome # "approval_required" /\ pausedSteps' = pausedSteps
              /\ pc'[p] = "pick"
    <3> DEFINE h == [f EXCEPT !.seen = @ \cup {f.call}, !.progress = @ \/ ~f.reused]
    <3>1. /\ pc[p] = "step" /\ f.call \in Calls
          /\ UNCHANGED <<iterationCount, lastPlan, meetingItems, request>>
      BY <1>2, <1>11 DEF Step, KnownAt, historyVars
    <3>2. /\ h \in Frames /\ h.items = f.items /\ h.iteration = f.iteration
          /\ h.outcome = f.outcome /\ h.call = f.call
      BY <1>4, <3>1 DEF Frames
    <3> HIDE DEF h
    <3>3. /\ CreateToolStep(h.call, h.outcome)
          /\ \/ /\ h.outcome = "approval_required"
                /\ Conclude(p, h, "awaiting_approval")
             \/ /\ h.outcome # "approval_required"
                /\ Goto(p, "pick")
                /\ frame' = [frame EXCEPT ![p] = h]
      BY <1>11 DEF Step, h
    <3> QED BY <1>1, <1>4, <3>1, <3>2, <3>3 DEF CreateToolStep, Conclude, Frames
  <2>2. pausedSteps = <<>>
    BY <1>3, <2>1 DEF HistoryFits
  <2>3. CASE f.outcome = "approval_required"
    <3>1. pausedSteps' = <<f.call>> /\ request[f.call] = "pending"
      BY <1>3, <2>1, <2>2, <2>3 DEF HistoryFits
    <3>2. f.call \in Gated
      BY <1>1, <2>1, <3>1 DEF RowInv, RowsAgree
    <3>3. OpenIsPaused'
      BY <1>1, <2>1, <3>1, <3>2 DEF RowInv, OpenOnce, OpenIsPaused
    <3>4. HistoryFits(p, pc[p], frame[p])'
      BY <1>3, <2>1, <2>3, <3>3 DEF HistoryFits
    <3> QED BY <1>3, <1>5, <2>1, <3>1, <3>4 DEF HistoryRows
  <2>4. CASE f.outcome # "approval_required"
    <3>1. HistoryFits(p, pc[p], frame[p])'
      BY <1>3, <2>1, <2>2, <2>4 DEF HistoryFits
    <3> QED BY <1>6, <2>1, <2>4, <3>1
  <2> QED BY <2>3, <2>4
<1>12. CASE SaveMeeting(p)
  <2>1. /\ pc[p] = "save" /\ pc'[p] = "finish" /\ g = f /\ meetingItems' = f.items
        /\ UNCHANGED <<iterationCount, lastPlan, pausedSteps, request>>
    BY <1>1, <1>12 DEF SaveMeeting, CompleteMeeting, historyVars
  <2>2. HistoryFits(p, pc[p], frame[p])'
    BY <1>3, <2>1 DEF HistoryFits, OpenIsPaused
  <2> QED BY <1>3, <1>5, <2>1, <2>2 DEF HistoryRows
<1>13. CASE Gate(p)
  <2>1. /\ pc[p] = "gate" /\ pc'[p] = "step" /\ g = f /\ f.call \in Calls
        /\ request'[f.call] = IF request[f.call] = "absent" THEN "pending" ELSE request[f.call]
        /\ UNCHANGED <<iterationCount, lastPlan, meetingItems, pausedSteps>>
    BY <1>1, <1>2, <1>4, <1>13 DEF Gate, CreateApprovalRequest, historyVars, KnownAt
  <2>2. request[f.call] = "absent"
    BY <1>2, <2>1 DEF CallFits
  <2>3. HistoryFits(p, pc[p], frame[p])'
    BY <1>3, <2>1, <2>2 DEF HistoryFits
  <2> QED BY <1>6, <2>1, <2>3
<1>14. CASE Create(p) \/ Invoke(p) \/ Attempt(p) \/ Record(p) \/ Exhaust(p)
  <2>1. /\ pc[p] \in {"create", "invoke", "attempt", "record", "exhaust"}
        /\ g.items = f.items /\ g.iteration = f.iteration
        /\ pc'[p] \in CallLabels
        /\ pc'[p] = "step" => g.outcome # "approval_required"
    BY <1>1, <1>4, <1>14
    DEF Create, Invoke, InvokeUnsupported, InvokeGated, InvokeAccepted, InvokeRetryable, Answered,
        Attempt, Record, Exhaust, Frames
  <2>2. UNCHANGED <<iterationCount, lastPlan, meetingItems, pausedSteps>>
    BY <1>14
    DEF Create, Invoke, InvokeUnsupported, InvokeGated, InvokeAccepted, InvokeRetryable, Answered,
        Attempt, Record, Exhaust, rowVars, historyVars
  <2>3. HistoryFits(p, pc[p], frame[p])'
    BY <1>3, <2>1, <2>2 DEF HistoryFits
  <2> QED BY <1>6, <2>2, <2>3
<1> QED BY <1>7, <1>8, <1>9, <1>10, <1>11, <1>12, <1>13, <1>14 DEF LoopStep, ExecutorStep

LEMMA WorkerHistory ==
  ASSUME IInv, IInv', HistoryInv, FailedBehind, NEW w \in Workers, WorkerNext(w), UNCHANGED resolverVars
  PROVE  HistoryInv'
<1>1. /\ TypeInv /\ OwnInv /\ OthersRest(w) /\ w \notin Approvers
      /\ pc \in [Threads -> Labels] /\ frame \in [Threads -> Frames] /\ fate \in [Threads -> Fates]
  BY IInvParts, WorkerRests, ThreadAssumption DEF TypeInv, TypeOK, ThreadTypeOK
<1>2. HistoryRows /\ (Owns(w) => HistoryFits(w, pc[w], frame[w]))
  BY DEF HistoryInv
<1> DEFINE Early == {"transcribe", "publish", "validate", "drain", "execute", "fail", "existing",
                     "misreport", "ack"}
<1>3. CASE Deliver(w) \/ DeliverRaises(w) \/ Transcribe(w) \/ Publish(w) \/ Drain(w)
             \/ WorkerRaises(w) \/ FailRunRaises(w) \/ ReportExisting(w) \/ ReportRaises(w)
  <2>1. pc'[w] \in Early /\ UNCHANGED historyRows
    BY <1>1, <1>3 DEF Deliver, DeliverRaises, Transcribe, Publish, Drain, WorkerRaises,
                      FailRunRaises, ReportExisting, ReportRaises, rowVars, historyRows
  <2>2. HistoryFits(w, pc[w], frame[w])'
    BY <2>1, HistoryIgnored DEF HistoryFits, LoopLabels, CallLabels, UnpausedLabels
  <2> QED BY <1>1, <2>1, <2>2, HistoryRests
<1>4. CASE Acknowledge(w) \/ WorkerCrash(w)
  <2>1. ~Owns(w)' /\ UNCHANGED historyRows
    BY <1>1, <1>4 DEF Acknowledge, WorkerCrash, End, Owns, rowVars, historyRows
  <2> QED BY <1>1, <2>1, HistoryRests
<1>5. CASE Validate(w) \/ FailRun(w)
  <2>1. /\ Owns(w) /\ StatusFits(pc[w], status)
        /\ \/ pc[w] = "validate" /\ status' = "validated"
           \/ status' = "failed" /\ failureReason'
        /\ pc'[w] \in {"drain", "ack"}
        /\ UNCHANGED <<iterationCount, lastPlan, meetingItems, pausedSteps, request>>
    BY <1>1, <1>5
    DEF Validate, FailRun, UpdateWorkflowStatus, Owns, OwningLabels, PendingLabels, OwnInv,
        SingleOwner, StatusKept, historyVars
  <2>2. HistoryRows'
    BY <1>2, <2>1
    DEF HistoryRows, BudgetFailure, LastPlanSaved, Reported, Settled, StatusFits, PendingLabels
  <2>3. HistoryFits(w, pc[w], frame[w])'
    BY <2>1 DEF HistoryFits, LoopLabels, CallLabels, UnpausedLabels
  <2> QED BY <1>1, <2>1, <2>2, <2>3, HistoryMoves
<1>6. CASE Execute(w)
  <2>1. /\ Owns(w) /\ status = "validated" /\ status' = "executing"
        /\ UNCHANGED <<iterationCount, lastPlan, meetingItems, pausedSteps, request>>
    BY <1>1, <1>6
    DEF Execute, UpdateWorkflowStatus, Owns, OwningLabels, ValidatedLabels, OwnInv,
        SingleOwner, StatusKept, StatusFits, historyVars
  <2>2. pc'[w] = "plan" /\ frame'[w].iteration = 1
    BY <1>1, <1>6, IterationsAssumption DEF Execute, StartRun, Iterate, NoFrame
  <2>3. HistoryRows' /\ lastPlan' = {} /\ pausedSteps' = <<>>
    BY <1>2, <2>1 DEF HistoryRows, BudgetFailure, LastPlanSaved, Reported, Settled
  <2>4. HistoryFits(w, pc[w], frame[w])'
    BY <1>1, <2>2, <2>3, IterationsAssumption DEF HistoryFits, LoopLabels, CallLabels, UnpausedLabels
  <2> QED BY <1>1, <2>1, <2>3, <2>4, HistoryMoves
<1>7. CASE (LoopStep(w) \/ SaveMeeting(w)) /\ UNCHANGED jobVars
  BY <1>7, LoopHistory
<1>9. CASE Misreport(w)
  <2>1. /\ ~Owns(w)' /\ status' = "failed" /\ failureReason'
        /\ UNCHANGED <<iterationCount, lastPlan, meetingItems, pausedSteps, request>>
    BY <1>1, <1>9
    DEF Misreport, UpdateWorkflowStatus, historyVars, Owns, OwningLabels, PendingLabels,
        ValidatedLabels, ExecutingLabels, ResolvingLabels, LoopLabels
  <2>2. HistoryRows'
    BY <1>2, <2>1 DEF HistoryRows, BudgetFailure, LastPlanSaved, Reported, Settled
  <2>3. ASSUME NEW q \in Threads, Owns(q)' PROVE HistoryFits(q, pc[q], frame[q])'
    <3>1. Owns(q) /\ HistoryFits(q, pc[q], frame[q]) /\ q # w
      BY <1>1, <2>1, <2>3 DEF OthersRest, Owns, HistoryInv
    <3>2. pc'[q] = pc[q] /\ frame'[q] = frame[q] /\ (q \in Approvers => target'[q] = target[q])
      BY <1>1, <3>1 DEF OthersRest
    <3> QED BY <2>1, <3>1, <3>2 DEF HistoryFits, OpenIsPaused
  <2> QED BY <2>2, <2>3 DEF HistoryInv
<1>8. CASE FinishRun(w)
  <2>1. /\ Owns(w) /\ pc[w] = "finish" /\ status' = frame[w].verdict /\ pc'[w] = "ack"
        /\ UNCHANGED <<iterationCount, lastPlan, meetingItems, pausedSteps, request>>
    BY <1>1, <1>8
    DEF FinishRun, UpdateWorkflowStatus, Owns, OwningLabels, ExecutingLabels, LoopLabels, historyVars
  <2>2. HistoryRows'
    <3>1. frame[w].verdict \in Verdicts
      BY <1>1, <2>1 DEF TypeInv, FrameOK, KnownAt, Owns
    <3> QED BY <1>2, <2>1, <3>1
      DEF HistoryRows, HistoryFits, BudgetFailure, LastPlanSaved, Verdicts, OpenIsPaused
  <2>3. HistoryFits(w, pc[w], frame[w])'
    BY <2>1 DEF HistoryFits, LoopLabels, CallLabels, UnpausedLabels
  <2> QED BY <1>1, <2>1, <2>2, <2>3, HistoryMoves
<1> QED BY <1>3, <1>4, <1>5, <1>6, <1>7, <1>8, <1>9 DEF WorkerNext, WorkerStep

LEMMA ResolverHistory ==
  ASSUME IInv, IInv', HistoryInv, FailedBehind, NEW a \in Approvers, ResolverNext(a)
  PROVE  HistoryInv'
<1>1. /\ TypeInv /\ OwnInv /\ RowInv /\ OthersRest(a) /\ a \in Threads
      /\ pc \in [Threads -> Labels] /\ frame \in [Threads -> Frames] /\ fate \in [Threads -> Fates]
      /\ target \in [Approvers -> Gated \cup {NoCall}] /\ (pc[a] # "idle" => target[a] \in Gated)
      /\ pausedSteps \in Seq(Calls) /\ iterationCount \in Nat
      /\ request \in [Calls -> ApprovalRequestStatus \cup {"absent"}]
  BY IInvParts, ResolverRests
  DEF TypeInv, TypeOK, ThreadTypeOK, RowTypeOK, ResolverTypeOK, FrameOK
<1>2. HistoryRows /\ (Owns(a) => HistoryFits(a, pc[a], frame[a]) /\ Fits(a, pc[a], frame[a]))
  BY <1>1 DEF HistoryInv, RowInv, OwnerFits
<1>3. /\ \A l \in ResolvingLabels \cup {"resume"} : At(a, l) => Owns(a)
      /\ \A l \in ResolvingLabels : At(a, l) => LeftAs("awaiting_approval")
      /\ Owns(a) /\ status = "failed" => failureReason
  BY <1>1 DEF Owns, OwningLabels, ExecutingLabels, OwnInv, SingleOwner, StatusKept, StatusFits,
              LeftAs, FailedBehind
<1>4. CASE Open(a) \/ CheckRun(a) \/ Inspect(a) \/ DeliverApproved(a) \/ LogAttempt(a) \/ Settle(a)
             \/ ResolverRaises(a) \/ ResolverCrash(a)
  <2>1. UNCHANGED historyRows
    BY <1>4 DEF Open, CheckRun, Inspect, DeliverApproved, LogAttempt, Settle, ResolverRaises,
                ResolverCrash, rowVars, runVars, historyVars, historyRows
  <2>2. \/ fate'[a] # "running"
        \/ pc'[a] \in {"check", "inspect", "deliver", "log", "settle", "resolve"}
    BY <1>1, <1>4 DEF Open, CheckRun, Inspect, DeliverApproved, LogAttempt, Settle, ResolverRaises,
                      ResolverCrash, End
  <2>3. fate'[a] = "running" /\ pc'[a] # "check" => OpenIsPaused
    <3>1. CASE CheckRun(a)
      BY <1>1, <1>2, <3>1 DEF CheckRun, End, HistoryRows
    <3>2. CASE ~CheckRun(a)
      BY <1>1, <1>2, <1>3, <1>4, <3>2
      DEF Open, Inspect, DeliverApproved, LogAttempt, Settle, ResolverRaises, ResolverCrash, End,
          HistoryFits, ResolvingLabels
    <3> QED BY <3>1, <3>2
  <2>4. Owns(a)' => HistoryFits(a, pc[a], frame[a])'
    BY <2>1, <2>2, <2>3 DEF HistoryFits, OpenIsPaused, LoopLabels, CallLabels, UnpausedLabels, Owns,
                            OwningLabels, PendingLabels, ValidatedLabels, ExecutingLabels,
                            ResolvingLabels, historyRows
  <2> QED BY <1>1, <2>1, <2>4, HistoryRests
<1>5. CASE Resolve(a)
  <2>1. /\ Owns(a) /\ pc[a] = "resolve" /\ LeftAs("awaiting_approval")
        /\ request[target[a]] = "pending" /\ target[a] \in Gated
    BY <1>1, <1>2, <1>3, <1>5 DEF Resolve, ResolvingLabels, Fits, ResolverFits
  <2>2. /\ pc'[a] = "mark" /\ target' = target /\ request'[target[a]] # "pending"
        /\ \A c \in Gated : request'[c] = "pending" => request[c] = "pending"
        /\ UNCHANGED <<status, failureReason, iterationCount, lastPlan, meetingItems, pausedSteps>>
    BY <1>1, <1>5, <2>1, GatedAssumption
    DEF Resolve, ResolveApprovalRequest, runVars, historyVars, resolverVars
  <2>3. pausedSteps = <<target[a]>>
    BY <1>2, <2>1 DEF HistoryFits, OpenIsPaused
  <2>4. HistoryRows'
    BY <1>2, <1>3, <2>1, <2>2
    DEF HistoryRows, LeftAs, OpenIsPaused, BudgetFailure, LastPlanSaved, Reported, Settled
  <2>5. HistoryFits(a, pc[a], frame[a])'
    BY <2>2, <2>3 DEF HistoryFits, LoopLabels, CallLabels, UnpausedLabels
  <2> QED BY <1>1, <2>1, <2>4, <2>5, HistoryMoves
<1>6. CASE MarkStep(a)
  <2>1. Owns(a) /\ pc[a] = "mark" /\ LeftAs("awaiting_approval") /\ NoneWaiting
    BY <1>1, <1>2, <1>3, <1>6 DEF MarkStep, ResolvingLabels, Fits, OpenFits, QuietLabels
  <2>2. pausedSteps = <<target[a]>>
    BY <1>2, <2>1 DEF HistoryFits
  <2>3. pausedSteps' = <<>>
    BY <1>6, <2>2 DEF MarkStep, UpdateAgentStepForTool
  <2>4. /\ pc'[a] = "reopen"
        /\ UNCHANGED <<status, failureReason, iterationCount, lastPlan, meetingItems, request>>
    BY <1>1, <1>6 DEF MarkStep, runVars, historyVars
  <2>5. HistoryRows'
    BY <1>2, <1>3, <2>1, <2>3, <2>4
    DEF HistoryRows, LeftAs, OpenIsPaused, NoneWaiting, BudgetFailure, LastPlanSaved, Reported, Settled
  <2>6. HistoryFits(a, pc[a], frame[a])'
    BY <2>3, <2>4 DEF HistoryFits, LoopLabels, CallLabels, UnpausedLabels
  <2> QED BY <1>1, <2>1, <2>5, <2>6, HistoryMoves
<1>7. CASE Reopen(a)
  <2>1. /\ Owns(a) /\ pc[a] = "reopen" /\ pc'[a] = "resume" /\ status' = "executing"
        /\ UNCHANGED <<iterationCount, lastPlan, meetingItems, request, pausedSteps>>
    BY <1>1, <1>3, <1>7 DEF Reopen, UpdateWorkflowStatus, ResolvingLabels, historyVars
  <2>2. HistoryRows'
    BY <1>2, <2>1 DEF HistoryRows, BudgetFailure, LastPlanSaved, Reported, Settled
  <2>3. HistoryFits(a, pc[a], frame[a])'
    BY <1>2, <2>1 DEF HistoryFits, LoopLabels, CallLabels, UnpausedLabels
  <2> QED BY <1>1, <2>1, <2>2, <2>3, HistoryMoves
<1>8. CASE Resume(a)
  <2>1. Owns(a) /\ pc[a] = "resume" /\ UNCHANGED historyRows /\ pausedSteps = <<>>
    BY <1>2, <1>3, <1>8
    DEF Resume, rowVars, runVars, historyVars, historyRows, HistoryFits, UnpausedLabels
  <2>2. /\ frame'[a].items = lastPlan
        /\ \/ pc'[a] = "plan" /\ frame'[a].iteration <= MaxIterations
           \/ /\ pc'[a] = "save" /\ frame'[a].verdict = "failed"
              /\ iterationCount + 1 > MaxIterations
    <3> DEFINE f == [NoFrame EXCEPT !.seen = {c \in Calls : execution[c] \in Reusable},
                                    !.items = lastPlan]
    <3>1. f.items = lastPlan /\ f \in Frames
      BY <1>1 DEF NoFrame, Frames, TypeInv, TypeOK, RowTypeOK
    <3>2. Iterate(a, f, iterationCount + 1)
      BY <1>8 DEF Resume, StartResume
    <3> HIDE DEF f
    <3> QED BY <1>1, <3>1, <3>2, IterationsAssumption DEF Iterate, Conclude, Frames
  <2>3. iterationCount + 1 > MaxIterations => iterationCount = MaxIterations
    BY <1>1, <1>2, IterationsAssumption DEF HistoryRows
  <2>4. HistoryFits(a, pc[a], frame[a])'
    BY <2>1, <2>2, <2>3 DEF HistoryFits, LoopLabels, CallLabels, UnpausedLabels, historyRows
  <2> QED BY <1>1, <2>1, <2>4, HistoryRests
<1>9. CASE (LoopStep(a) \/ SaveMeeting(a)) /\ UNCHANGED <<jobVars, resolverVars>>
  BY <1>1, <1>9, LoopHistory
<1>10. CASE FinishResolve(a)
  <2>1. /\ Owns(a) /\ pc[a] = "finish" /\ status' = frame[a].verdict /\ ~Owns(a)'
        /\ UNCHANGED <<iterationCount, lastPlan, meetingItems, pausedSteps, request>>
    BY <1>1, <1>10
    DEF FinishResolve, UpdateWorkflowStatus, End, Owns, OwningLabels, ExecutingLabels, LoopLabels,
        historyVars
  <2>2. frame[a].verdict \in Verdicts
    BY <1>1, <2>1 DEF TypeInv, FrameOK, KnownAt, Owns
  <2>3. HistoryRows'
    BY <1>2, <2>1, <2>2
    DEF HistoryRows, HistoryFits, BudgetFailure, LastPlanSaved, Verdicts, OpenIsPaused
  <2> QED BY <1>1, <2>1, <2>3, HistoryMoves
<1> QED
  BY <1>4, <1>5, <1>6, <1>7, <1>8, <1>9, <1>10 DEF ResolverNext, ResolverStep

LEMMA FailedBehindStep ==
  ASSUME IInv, IInv', FailedBehind, [Next]_vars
  PROVE  FailedBehind'
<1> SUFFICES ASSUME status' = "failed", NEW q \in Threads, Owns(q)' PROVE failureReason'
  BY DEF FailedBehind
<1>1. TypeInv /\ OwnInv /\ pc \in [Threads -> Labels] /\ fate \in [Threads -> Fates]
  BY IInvParts DEF TypeInv, TypeOK, ThreadTypeOK
<1>0. SingleOwner'
  BY DEF IInv
<1>2. q \in Approvers
  BY <1>0 DEF SingleOwner, StatusKept, StatusFits, Owns, OwningLabels
<1>3. ASSUME Owns(q), UNCHANGED <<status, failureReason>> PROVE failureReason'
  BY <1>3 DEF FailedBehind
<1>4. CASE (Enqueue /\ UNCHANGED resolverVars) \/ UNCHANGED vars
  <2>1. UNCHANGED <<pc, fate, status, failureReason>>
    BY <1>4 DEF Enqueue, vars, threadVars, rowVars, runVars
  <2> QED BY <1>3, <2>1 DEF Owns
<1>5. CASE \E w \in Workers : WorkerNext(w) /\ UNCHANGED resolverVars
  <2>1. PICK w \in Workers : WorkerNext(w) /\ UNCHANGED resolverVars
    BY <1>5
  <2>2. Owns(q) /\ q # w
    BY <1>1, <1>2, <2>1, WorkerRests, ThreadAssumption DEF OthersRest, Owns
  <2>3. ~Owns(w)
    BY <1>1, <2>2 DEF OwnInv, SingleOwner
  <2>4. CASE LoopStep(w) \/ SaveMeeting(w)
    BY <1>1, <1>3, <2>2, <2>4, LoopStays
  <2>5. CASE Misreport(w)
    BY <2>5 DEF Misreport, UpdateWorkflowStatus
  <2>6. CASE ~(LoopStep(w) \/ SaveMeeting(w) \/ Misreport(w))
    <3>1. UNCHANGED <<status, failureReason>>
      BY <2>1, <2>3, <2>6
      DEF WorkerNext, WorkerStep, Deliver, DeliverRaises, Transcribe, Publish, Validate, Drain,
          Execute, FinishRun, WorkerRaises, FailRun, FailRunRaises, ReportExisting, ReportRaises,
          Acknowledge, WorkerCrash, rowVars, runVars, Owns, OwningLabels, PendingLabels,
          ValidatedLabels, ExecutingLabels, LoopLabels
    <3> QED BY <1>3, <2>2, <3>1
  <2> QED BY <2>4, <2>5, <2>6
<1>6. CASE \E a \in Approvers : ResolverNext(a)
  <2>1. PICK a \in Approvers : ResolverNext(a)
    BY <1>6
  <2>2. CASE ~Owns(q)
    <3>1. status' = "awaiting_approval"
      BY <1>1, <2>1, <2>2, ResolverOwns DEF rowVars, runVars
    <3> QED BY <3>1
  <2>3. CASE Owns(q) /\ (Reopen(a) \/ FinishResolve(a))
    <3>1. q = a
      BY <1>1, <2>1, <2>3 DEF OwnInv, SingleOwner, Reopen, FinishResolve, Owns, OwningLabels,
                              ResolvingLabels, ExecutingLabels, LoopLabels
    <3> QED BY <1>1, <2>3, <3>1 DEF Reopen, FinishResolve, UpdateWorkflowStatus, End, Owns
  <2>4. CASE Owns(q) /\ ~Reopen(a) /\ ~FinishResolve(a)
    <3>1. UNCHANGED <<status, failureReason>>
      BY <1>1, <2>1, <2>4, LoopStays
      DEF ResolverNext, ResolverStep, Open, CheckRun, Inspect, DeliverApproved, LogAttempt, Settle,
          Resolve, MarkStep, Resume, ResolverRaises, ResolverCrash, rowVars, runVars
    <3> QED BY <1>3, <2>4, <3>1
  <2> QED BY <2>2, <2>3, <2>4
<1> QED BY <1>4, <1>5, <1>6 DEF Next

LEMMA HistoryInit == Init => HistoryInv /\ FailedBehind
  BY IterationsAssumption
  DEF Init, RowInit, ThreadInit, HistoryInv, FailedBehind, HistoryRows, OpenIsPaused, BudgetFailure,
      LastPlanSaved, Reported, Settled, Owns, OwningLabels, PendingLabels, ValidatedLabels,
      ExecutingLabels, ResolvingLabels, LoopLabels

LEMMA HistoryStep == IInv /\ IInv' /\ HistoryInv /\ FailedBehind /\ [Next]_vars => HistoryInv'
<1> SUFFICES ASSUME IInv, IInv', HistoryInv, FailedBehind, [Next]_vars PROVE HistoryInv'
  OBVIOUS
<1>1. CASE (Enqueue /\ UNCHANGED resolverVars) \/ UNCHANGED vars
  <2>1. UNCHANGED <<pc, fate, frame, rowVars, target>>
    BY <1>1 DEF Enqueue, vars, threadVars, resolverVars
  <2> QED BY <2>1
    DEF rowVars, HistoryInv, HistoryRows, HistoryFits, OpenIsPaused, BudgetFailure, LastPlanSaved,
        Reported, Settled, Owns
<1> QED BY <1>1, WorkerHistory, ResolverHistory DEF Next

\* With resolvers that do not overlap, the rows and the loop's frame agree at every
\* statement between the commits that write them (agent.py:137-203), and a run
\* that a redelivery has failed while a resolver works on it says why.
THEOREM HistoryInvariant ==
  ASSUME ~ConcurrentResolvers
  PROVE  Spec => [](IInv /\ HistoryInv /\ FailedBehind)
<1>1. Init => IInv /\ HistoryInv /\ FailedBehind
  BY IInvInit, HistoryInit
<1>2. (IInv /\ HistoryInv /\ FailedBehind) /\ [Next]_vars => (IInv /\ HistoryInv /\ FailedBehind)'
  BY IInvStep, HistoryStep, FailedBehindStep
<1> QED BY <1>1, <1>2, PTL DEF Spec

\* With resolvers that do not overlap, a run that fails for want of an answer has
\* used up its iterations (agent.py:202-203).
THEOREM BudgetSpent ==
  ASSUME ~ConcurrentResolvers
  PROVE  Spec => []BudgetFailure
<1>1. HistoryInv => BudgetFailure
  BY DEF HistoryInv, HistoryRows
<1> QED BY <1>1, HistoryInvariant, PTL

\* With resolvers that do not overlap, a run that pauses or ends has stored
\* whatever its last plan found, also when a resumed run has no iteration left to
\* plan again (orchestrator.py:99-116, approvals.py:83-99).
THEOREM LastPlanStored ==
  ASSUME ~ConcurrentResolvers
  PROVE  Spec => []LastPlanSaved
<1>1. HistoryInv => LastPlanSaved
  BY DEF HistoryInv, HistoryRows
<1> QED BY <1>1, HistoryInvariant, PTL

\* With resolvers that do not overlap, the step that an approval resumes is the
\* step of the call it gates, however often the run has paused before
\* (repositories.py:393-408).
THEOREM PausedStepRight ==
  ASSUME ~ConcurrentResolvers
  PROVE  Spec => []PausedStepsMatch
<1>1. HistoryInv => PausedStepsMatch
  <2> SUFFICES ASSUME HistoryInv PROVE PausedStepsMatch
    OBVIOUS
  <2>1. \A a \in Approvers : At(a, "mark") => Owns(a)
    BY DEF Owns, OwningLabels, ResolvingLabels
  <2> QED BY <2>1 DEF HistoryInv, HistoryRows, HistoryFits, PausedStepsMatch
<1> QED BY <1>1, HistoryInvariant, PTL

-----------------------------------------------------------------------------
(* How often a call that nobody approves is tried.                         *)

Free == Calls \ Gated

\* What the loops that have ended may have used up of a call's attempts.
Paid == MaxRetries * Resumes

Within(c, n) == effects[c] <= n /\ attempts[c] <= n

RetryRows ==
  /\ \A c \in Free : Within(c, Paid + MaxRetries)
  /\ status \in {"pending", "validated"} => \A c \in Free : Within(c, 0)

\* What the owner knows at a statement: a call is fresh until the loop tries it.
RetryFits(label, f) ==
  /\ label \in {"mark", "reopen", "resume"} => \A c \in Free : Within(c, Paid)
  /\ label \in {"plan", "count", "pick"} => \A c \in Free \ f.seen : Within(c, Paid)
  /\ label \in CallLabels => \A c \in Free \ (f.seen \cup {f.call}) : Within(c, Paid)
  /\ label = "create" /\ f.call \in Free => Within(f.call, Paid)
  /\ label = "invoke" /\ f.call \in Free =>
       f.attempt \in 1 .. MaxRetries /\ Within(f.call, Paid + f.attempt - 1)
  /\ label = "attempt" /\ f.call \in Free => attempts[f.call] <= Paid + MaxRetries - 1

RetryInv ==
  /\ RetryRows
  /\ \A p \in Threads : Owns(p) => RetryFits(pc[p], frame[p])

Answers == {c \in Gated : request[c] \in {"approved", "rejected"}}

LEMMA PaidType ==
  ASSUME IsFiniteSet(Gated)
  PROVE  Resumes \in Nat /\ Paid \in Nat /\ MaxRetries \in Nat
<1>1. IsFiniteSet(Answers)
  BY FS_Subset DEF Answers
<1>2. Resumes \in Nat
  BY <1>1, FS_CardinalityType DEF Resumes, Answers
<1>3. \A m, n \in Nat : m * n \in Nat
  OBVIOUS
<1> QED BY <1>2, <1>3, RetriesAssumption DEF Paid

LEMMA PaidBudget ==
  ASSUME IsFiniteSet(Gated)
  PROVE  MaxRetries * (1 + Resumes) = Paid + MaxRetries
<1>1. \A m, n \in Nat : m * (1 + n) = m * n + m
  OBVIOUS
<1> QED BY <1>1, PaidType DEF Paid

\* A request is answered once, and each answer pays for another round.
LEMMA PaidGrows ==
  ASSUME IsFiniteSet(Gated), NEW c \in Gated, request[c] \notin {"approved", "rejected"},
         request'[c] \in {"approved", "rejected"},
         \A d \in Gated \ {c} : request'[d] = request[d]
  PROVE  Paid' = Paid + MaxRetries
<1>1. Answers' = Answers \cup {c} /\ c \notin Answers
  BY DEF Answers
<1>2. IsFiniteSet(Answers)
  BY FS_Subset DEF Answers
<1>3. Cardinality(Answers') = Cardinality(Answers) + 1
  BY <1>1, <1>2, FS_AddElement
<1>4. Resumes' = 1 + Resumes
  BY <1>3, PaidType DEF Resumes, Answers
<1>5. Paid' = MaxRetries * (1 + Resumes)
  BY <1>4 DEF Paid
<1> QED BY <1>5, PaidBudget

LEMMA PaidSame ==
  ASSUME \A c \in Gated : request'[c] \in {"approved", "rejected"} <=> request[c] \in {"approved", "rejected"}
  PROVE  Paid' = Paid
<1>1. Answers' = Answers
  BY DEF Answers
<1> QED BY <1>1 DEF Paid, Resumes, Answers

LEMMA RetryMoves ==
  ASSUME OwnInv, NEW p \in Threads, Owns(p), OthersRest(p), RetryRows',
         Owns(p)' => RetryFits(pc[p], frame[p])'
  PROVE  RetryInv'
<1>1. ASSUME NEW q \in Threads, Owns(q)' PROVE q = p
  BY <1>1 DEF OwnInv, SingleOwner, Owns, OthersRest
<1> QED BY <1>1 DEF RetryInv

\* A step that calls no provider, logs no attempt and answers no request.
LEMMA RetryRests ==
  ASSUME RetryInv, NEW p \in Threads, OthersRest(p), UNCHANGED <<effects, attempts>>, Paid' = Paid,
         status' \in {"pending", "validated"} => status \in {"pending", "validated"},
         Owns(p)' => RetryFits(pc[p], frame[p])'
  PROVE  RetryInv'
<1>1. RetryRows'
  BY DEF RetryInv, RetryRows, Within
<1>2. ASSUME NEW q \in Threads \ {p}, Owns(q)' PROVE RetryFits(pc[q], frame[q])'
  <2>1. Owns(q) /\ RetryFits(pc[q], frame[q])
    BY <1>2 DEF OthersRest, Owns, RetryInv
  <2>2. pc'[q] = pc[q] /\ frame'[q] = frame[q]
    BY DEF OthersRest
  <2> QED BY <2>1, <2>2 DEF RetryFits, Within
<1> QED BY <1>1, <1>2 DEF RetryInv

LEMMA LoopRetry ==
  ASSUME IsFiniteSet(Gated), IInv, RetryInv, NEW p \in Threads, LoopStep(p) \/ SaveMeeting(p),
         UNCHANGED resolverVars
  PROVE  RetryInv'
<1> DEFINE f == frame[p]
           g == frame'[p]
<1>1. /\ TypeInv /\ OwnInv /\ RowInv
      /\ pc \in [Threads -> Labels] /\ fate[p] = "running" /\ pc[p] \in LoopLabels
      /\ OthersRest(p) /\ status' = status
  BY IInvParts, LoopStays, LoopRests DEF TypeInv, TypeOK, ThreadTypeOK
<1>2. Owns(p) /\ status \notin {"pending", "validated"} /\ KnownAt(pc[p], f) /\ CallFits(pc[p], f)
  BY <1>1, LoopOwner DEF LeftAs
<1>3. RetryFits(pc[p], f) /\ RetryRows
  BY <1>2 DEF RetryInv
<1>4. /\ frame \in [Threads -> Frames] /\ f \in Frames
      /\ f.seen \in SUBSET Calls /\ f.attempt \in Nat
      /\ effects \in [Calls -> Nat] /\ attempts \in [Calls -> Nat]
      /\ Paid \in Nat /\ MaxRetries \in Nat /\ MaxRetries > 0
  BY <1>1, PaidType, RetriesAssumption DEF TypeInv, TypeOK, ThreadTypeOK, RowTypeOK, Frames
<1>5. Paid' = Paid
  <2>1. CASE Gate(p)
    <3>1. f.call \in Gated /\ request[f.call] = "absent"
      BY <1>2, <2>1 DEF Gate, CallFits
    <3>2. request' = [request EXCEPT ![f.call] = "pending"]
      BY <2>1, <3>1 DEF Gate, CreateApprovalRequest
    <3>3. \A c \in Gated : request'[c] \in {"approved", "rejected"} <=> request[c] \in {"approved", "rejected"}
      BY <1>1, <3>1, <3>2, GatedAssumption DEF TypeInv, TypeOK, RowTypeOK
    <3> QED BY <3>3, PaidSame
  <2>2. CASE ~Gate(p)
    <3>1. request' = request
      BY <2>2
      DEF LoopStep, ExecutorStep, Plan, Count, Pick, EndIteration, Step, SaveMeeting, Create, Invoke,
          InvokeUnsupported, InvokeGated, InvokeAccepted, InvokeRetryable, Answered, Attempt, Record,
          Exhaust, rowVars
    <3> QED BY <3>1, PaidSame
  <2> QED BY <2>1, <2>2
<1>6. ASSUME UNCHANGED <<effects, attempts>>, RetryFits(pc[p], frame[p])'
      PROVE  RetryInv'
  BY <1>1, <1>3, <1>5, <1>6, RetryRests
<1>7. ASSUME \A c \in Free \ {f.call} : effects'[c] = effects[c] /\ attempts'[c] = attempts[c],
             f.call \in Free => /\ effects'[f.call] <= Paid + MaxRetries
                                /\ attempts'[f.call] <= Paid + MaxRetries,
             RetryFits(pc[p], frame[p])'
      PROVE  RetryInv'
  <2>1. ASSUME NEW c \in Free PROVE Within(c, Paid + MaxRetries)'
    BY <1>3, <1>5, <1>7 DEF RetryRows, Within
  <2>2. RetryRows'
    BY <1>1, <1>2, <2>1 DEF RetryRows
  <2> QED BY <1>1, <1>2, <1>7, <2>2, RetryMoves
<1> USE DEF LoopLabels, CallLabels
<1>8. CASE Plan(p) \/ Count(p) \/ SaveMeeting(p) \/ EndIteration(p)
  <2>1. /\ pc[p] \in {"plan", "count", "pick", "save"}
        /\ \/ pc'[p] \in {"save", "finish"}
           \/ pc'[p] \in {"plan", "count", "pick"} /\ g.seen = f.seen /\ pc[p] # "save"
    <3>1. CASE Plan(p)
      BY <1>1, <1>4, <3>1 DEF Plan, Frames
    <3>2. CASE Count(p) \/ SaveMeeting(p)
      BY <1>1, <1>4, <3>2 DEF Count, SaveMeeting, Conclude, Frames
    <3>3. CASE EndIteration(p)
      BY <1>1, <1>4, <3>3 DEF EndIteration, Iterate, Conclude, Frames
    <3> QED BY <1>8, <3>1, <3>2, <3>3
  <2>2. UNCHANGED <<effects, attempts>>
    BY <1>8 DEF Plan, Count, SaveMeeting, EndIteration, rowVars, toolVars
  <2>3. RetryFits(pc[p], frame[p])'
    BY <1>3, <1>5, <2>1, <2>2 DEF RetryFits, Within
  <2> QED BY <1>6, <2>2, <2>3
<1>9. CASE Pick(p)
  <2>1. PICK c \in f.todo \ f.seen : Lookup(p, c)
    BY <1>9 DEF Pick
  <2>2. /\ pc[p] = "pick" /\ g.seen = f.seen /\ g.call = c /\ pc'[p] \in {"step", "create"}
        /\ UNCHANGED <<effects, attempts>>
    BY <1>1, <1>4, <1>9, <2>1 DEF Pick, Lookup, Frames, rowVars, toolVars
  <2>3. RetryFits(pc[p], frame[p])'
    BY <1>3, <1>5, <2>1, <2>2 DEF RetryFits, Within
  <2> QED BY <1>6, <2>2, <2>3
<1>10. CASE Step(p)
  <2>1. pc[p] = "step" /\ UNCHANGED <<effects, attempts>>
    BY <1>10 DEF Step, toolVars
  <2>2. pc'[p] = "save" \/ (pc'[p] = "pick" /\ g.seen = f.seen \cup {f.call})
    <3> DEFINE h == [f EXCEPT !.seen = @ \cup {f.call}, !.progress = @ \/ ~f.reused]
    <3>1. h.seen = f.seen \cup {f.call} /\ h \in Frames
      BY <1>2, <1>4, <2>1 DEF Frames, KnownAt
    <3> HIDE DEF h
    <3>2. \/ Conclude(p, h, "awaiting_approval")
          \/ Goto(p, "pick") /\ frame' = [frame EXCEPT ![p] = h]
      BY <1>10 DEF Step, h
    <3> QED BY <1>1, <1>4, <3>1, <3>2 DEF Conclude
  <2>3. RetryFits(pc[p], frame[p])'
    BY <1>3, <1>5, <2>1, <2>2 DEF RetryFits, Within
  <2> QED BY <1>6, <2>1, <2>3
<1>11. CASE Create(p) \/ Record(p) \/ Gate(p) \/ Exhaust(p)
  <2>1. /\ pc[p] \in CallLabels /\ g.seen = f.seen /\ g.call = f.call
        /\ UNCHANGED <<effects, attempts>>
        /\ \/ pc[p] = "create" /\ pc'[p] = "invoke" /\ g.attempt = 1
           \/ pc'[p] \in {"step", "gate"}
    BY <1>1, <1>4, <1>11 DEF Create, Record, Gate, Exhaust, Frames, toolVars
  <2>2. RetryFits(pc[p], frame[p])'
    BY <1>3, <1>4, <1>5, <2>1 DEF RetryFits, Within
  <2> QED BY <1>6, <2>1, <2>2
<1>12. CASE InvokeUnsupported(p) \/ InvokeGated(p) \/ InvokeAccepted(p)
  <2>1. /\ pc[p] = "invoke" /\ pc'[p] = "attempt" /\ g.seen = f.seen /\ g.call = f.call
        /\ f.call \in Calls /\ attempts' = attempts
        /\ \/ effects' = effects
           \/ effects' = [effects EXCEPT ![f.call] = @ + 1]
    BY <1>1, <1>2, <1>4, <1>12
    DEF InvokeUnsupported, InvokeGated, InvokeAccepted, Answered, Frames, KnownAt, rowVars, toolVars
  <2>2. f.call \in Free =>
          /\ effects'[f.call] \in Nat /\ effects'[f.call] <= effects[f.call] + 1
          /\ f.attempt \in 1 .. MaxRetries /\ Within(f.call, Paid + f.attempt - 1)
    BY <1>3, <1>4, <2>1 DEF RetryFits
  <2>3. f.call \in Free => /\ effects'[f.call] <= Paid + MaxRetries
                           /\ attempts'[f.call] <= Paid + MaxRetries - 1
                           /\ attempts'[f.call] <= Paid + MaxRetries
    BY <1>4, <1>5, <2>1, <2>2 DEF Within, Free
  <2>4. RetryFits(pc[p], frame[p])'
    BY <1>3, <1>4, <1>5, <2>1, <2>3 DEF RetryFits, Within, Free
  <2> QED BY <1>4, <1>7, <2>1, <2>3, <2>4 DEF Free
<1>13. CASE InvokeRetryable(p)
  <2>1. PICK n \in {0, 1} : effects' = [effects EXCEPT ![f.call] = @ + n]
    BY <1>13 DEF InvokeRetryable
  <2>2. /\ pc[p] = "invoke" /\ f.call \in Free /\ f.call \in Calls
        /\ attempts' = [attempts EXCEPT ![f.call] = @ + 1]
    BY <1>2, <1>13 DEF InvokeRetryable, CreateToolExecutionAttempt, KnownAt, Free
  <2>3. /\ g.seen = f.seen /\ g.call = f.call
        /\ \/ pc'[p] = "invoke" /\ f.attempt < MaxRetries /\ g.attempt = f.attempt + 1
           \/ pc'[p] = "exhaust"
    BY <1>1, <1>4, <1>13, <2>2 DEF InvokeRetryable, Frames
  <2>4. f.attempt \in 1 .. MaxRetries /\ Within(f.call, Paid + f.attempt - 1)
    BY <1>3, <2>2 DEF RetryFits
  <2>5. /\ effects'[f.call] <= Paid + f.attempt /\ attempts'[f.call] <= Paid + f.attempt
        /\ effects'[f.call] \in Nat /\ attempts'[f.call] \in Nat
    BY <1>4, <2>1, <2>2, <2>4 DEF Within
  <2>6. \A c \in Free \ {f.call} : effects'[c] = effects[c] /\ attempts'[c] = attempts[c]
    BY <1>4, <2>1, <2>2 DEF Free
  <2>7. RetryFits(pc[p], frame[p])'
    <3>1. \A c \in Free \ (f.seen \cup {f.call}) : Within(c, Paid)
      BY <1>3, <2>2 DEF RetryFits
    <3>2. \A c \in Free \ (g.seen \cup {g.call}) : effects'[c] <= Paid' /\ attempts'[c] <= Paid'
      BY <1>5, <2>3, <2>6, <3>1 DEF Within
    <3>3. g.attempt = f.attempt + 1 =>
            Paid' + g.attempt - 1 = Paid + f.attempt /\ (f.attempt < MaxRetries => g.attempt \in 1 .. MaxRetries)
      BY <1>4, <1>5, <2>4
    <3> QED BY <2>3, <2>5, <3>2, <3>3 DEF RetryFits, Within
  <2>8. effects'[f.call] <= Paid + MaxRetries /\ attempts'[f.call] <= Paid + MaxRetries
    BY <1>4, <1>5, <2>4, <2>5 DEF Within
  <2> QED BY <1>7, <2>6, <2>7, <2>8
<1>14. CASE Attempt(p)
  <2>1. /\ pc[p] = "attempt" /\ pc'[p] = "record" /\ g = f /\ f.call \in Calls /\ effects' = effects
        /\ attempts' = [attempts EXCEPT ![f.call] = @ + 1]
    BY <1>1, <1>2, <1>14 DEF Attempt, CreateToolExecutionAttempt, KnownAt
  <2>2. f.call \in Free => /\ effects'[f.call] <= Paid + MaxRetries
                           /\ attempts'[f.call] <= Paid + MaxRetries
    BY <1>3, <1>4, <1>5, <2>1 DEF RetryFits, RetryRows, Within
  <2>3. RetryFits(pc[p], frame[p])'
    BY <1>3, <1>4, <1>5, <2>1 DEF RetryFits, Within, Free
  <2> QED BY <1>4, <1>7, <2>1, <2>2, <2>3 DEF Free
<1> QED
  BY <1>8, <1>9, <1>10, <1>11, <1>12, <1>13, <1>14 DEF LoopStep, ExecutorStep, Invoke

LEMMA WorkerRetry ==
  ASSUME IsFiniteSet(Gated), IInv, RetryInv, NEW w \in Workers, WorkerNext(w), UNCHANGED resolverVars
  PROVE  RetryInv'
<1>1. /\ TypeInv /\ OwnInv /\ OthersRest(w)
      /\ pc \in [Threads -> Labels] /\ frame \in [Threads -> Frames] /\ fate \in [Threads -> Fates]
      /\ effects \in [Calls -> Nat] /\ attempts \in [Calls -> Nat] /\ Paid \in Nat
  BY IInvParts, WorkerRests, PaidType DEF TypeInv, TypeOK, RowTypeOK, ThreadTypeOK
<1>2. CASE LoopStep(w) \/ SaveMeeting(w)
  BY <1>2, LoopRetry
<1>3. CASE ~(LoopStep(w) \/ SaveMeeting(w))
  <2>1. UNCHANGED <<effects, attempts, request>>
    BY <1>3
    DEF WorkerNext, WorkerStep, Deliver, DeliverRaises, Transcribe, Publish, Validate, Drain, Execute,
        FinishRun, WorkerRaises, FailRun, FailRunRaises, ReportExisting, ReportRaises, Misreport,
        Acknowledge, WorkerCrash, rowVars, toolVars
  <2>2. Paid' = Paid
    BY <2>1, PaidSame
  <2>3. CASE Execute(w)
    <3>1. /\ status = "validated" /\ status' = "executing" /\ pc'[w] = "plan"
      BY <1>1, <2>3, IterationsAssumption, ThreadAssumption
      DEF Execute, UpdateWorkflowStatus, StartRun, Iterate, OwnInv, SingleOwner, StatusKept,
          StatusFits, Owns, OwningLabels, ValidatedLabels
    <3>2. \A c \in Free : Within(c, Paid)'
      BY <1>1, <2>1, <2>2, <3>1 DEF RetryInv, RetryRows, Within, Free
    <3>3. RetryFits(pc[w], frame[w])'
      BY <3>1, <3>2 DEF RetryFits, CallLabels
    <3> QED BY <1>1, <2>1, <2>2, <3>1, <3>3, RetryRests
  <2>4. CASE ~Execute(w)
    <3>1. /\ fate'[w] # "running" \/ pc'[w] \in {"transcribe", "publish", "validate", "drain",
                                                 "execute", "fail", "existing", "misreport", "ack"}
      BY <1>1, <1>3, <2>4
      DEF WorkerNext, WorkerStep, Deliver, DeliverRaises, Transcribe, Publish, Validate, Drain,
          FinishRun, WorkerRaises, FailRun, FailRunRaises, ReportExisting,
        ReportRaises, Misreport, Acknowledge, WorkerCrash, End
    <3>2. Owns(w)' => RetryFits(pc[w], frame[w])'
      BY <3>1 DEF RetryFits, CallLabels, Owns
    <3>3. CASE Validate(w)
      <4>1. status = "pending"
        BY <1>1, <3>3, ThreadAssumption
        DEF Validate, OwnInv, SingleOwner, StatusKept, StatusFits, Owns, OwningLabels, PendingLabels
      <4> QED BY <1>1, <2>1, <2>2, <3>2, <4>1, RetryRests
    <3>4. CASE FinishRun(w)
      <4>1. frame[w].verdict \in Verdicts
        BY <1>1, <3>4 DEF FinishRun, TypeInv, FrameOK, KnownAt
      <4>2. status' \notin {"pending", "validated"}
        BY <3>4, <4>1 DEF FinishRun, UpdateWorkflowStatus, Verdicts
      <4> QED BY <1>1, <2>1, <2>2, <3>2, <4>2, RetryRests
    <3>5. CASE ~Validate(w) /\ ~FinishRun(w)
      <4>1. status' = status \/ status' = "failed"
        BY <1>3, <2>4, <3>5
        DEF WorkerNext, WorkerStep, Deliver, DeliverRaises, Transcribe, Publish, Drain, FailRun,
            WorkerRaises, FailRunRaises, ReportExisting, ReportRaises, Misreport, Acknowledge,
            WorkerCrash, UpdateWorkflowStatus, rowVars
      <4> QED BY <1>1, <2>1, <2>2, <3>2, <4>1, RetryRests
    <3> QED BY <3>3, <3>4, <3>5
  <2> QED BY <2>3, <2>4
<1> QED BY <1>2, <1>3

LEMMA ResolverRetry ==
  ASSUME IsFiniteSet(Gated), IInv, RetryInv, NEW a \in Approvers, ResolverNext(a)
  PROVE  RetryInv'
<1>1. /\ TypeInv /\ OwnInv /\ RowInv /\ OthersRest(a) /\ a \in Threads
      /\ pc \in [Threads -> Labels] /\ frame \in [Threads -> Frames] /\ fate \in [Threads -> Fates]
      /\ effects \in [Calls -> Nat] /\ attempts \in [Calls -> Nat] /\ Paid \in Nat
      /\ MaxRetries \in Nat
      /\ request \in [Calls -> ApprovalRequestStatus \cup {"absent"}]
      /\ (pc[a] # "idle" => target[a] \in Gated)
  BY IInvParts, ResolverRests, PaidType DEF TypeInv, TypeOK, RowTypeOK, ThreadTypeOK, FrameOK
<1>2. RetryRows /\ (Owns(a) => RetryFits(pc[a], frame[a]) /\ Fits(a, pc[a], frame[a]))
  BY <1>1 DEF RetryInv, RowInv, OwnerFits
<1>3. /\ \A l \in ResolvingLabels \cup {"resume"} : At(a, l) => Owns(a)
      /\ \A l \in ResolvingLabels : At(a, l) => status \notin {"pending", "validated"}
  BY <1>1 DEF Owns, OwningLabels, ExecutingLabels, OwnInv, SingleOwner, StatusKept, StatusFits
<1>4. CASE (LoopStep(a) \/ SaveMeeting(a)) /\ UNCHANGED <<jobVars, resolverVars>>
  BY <1>1, <1>4, LoopRetry
<1>5. CASE DeliverApproved(a) \/ LogAttempt(a)
  <2>1. /\ Owns(a) /\ pc[a] \in {"deliver", "log"} /\ pc'[a] \in {"log", "settle"}
        /\ target[a] \in Gated /\ UNCHANGED <<request, status>>
    BY <1>1, <1>3, <1>5 DEF DeliverApproved, LogAttempt, ResolvingLabels, rowVars, runVars
  <2>2. \A c \in Free : effects'[c] = effects[c] /\ attempts'[c] = attempts[c]
    BY <1>1, <1>5, <2>1
    DEF DeliverApproved, LogAttempt, CreateToolExecutionAttempt, rowVars, toolVars, Free
  <2>3. Paid' = Paid
    BY <2>1, PaidSame
  <2>4. RetryRows' /\ RetryFits(pc[a], frame[a])'
    BY <1>2, <2>1, <2>2, <2>3 DEF RetryRows, RetryFits, Within, CallLabels
  <2> QED BY <1>1, <2>1, <2>4, RetryMoves
<1>6. CASE Resolve(a)
  <2>1. /\ Owns(a) /\ pc[a] = "resolve" /\ pc'[a] = "mark" /\ status' = status
        /\ status \notin {"pending", "validated"} /\ UNCHANGED <<effects, attempts>>
        /\ target[a] \in Gated /\ request[target[a]] = "pending"
    BY <1>1, <1>2, <1>3, <1>6
    DEF Resolve, ResolvingLabels, Fits, ResolverFits, runVars, toolVars
  <2>2. Paid' = Paid + MaxRetries
    <3>1. /\ request'[target[a]] \in {"approved", "rejected"}
          /\ \A d \in Gated \ {target[a]} : request'[d] = request[d]
      BY <1>1, <1>6, <2>1, GatedAssumption DEF Resolve, ResolveApprovalRequest
    <3> QED BY <2>1, <3>1, PaidGrows
  <2>3. RetryRows' /\ RetryFits(pc[a], frame[a])'
    BY <1>1, <1>2, <2>1, <2>2 DEF RetryRows, RetryFits, Within, CallLabels, Free
  <2> QED BY <1>1, <2>1, <2>3, RetryMoves
<1>7. CASE MarkStep(a) \/ Reopen(a) \/ Resume(a)
  <2>1. /\ Owns(a) /\ pc[a] \in {"mark", "reopen", "resume"}
        /\ pc'[a] \in {"reopen", "resume", "plan", "save"}
        /\ status' \in {status, "executing"} /\ UNCHANGED <<effects, attempts, request>>
    BY <1>1, <1>3, <1>7
    DEF MarkStep, Reopen, Resume, StartResume, Iterate, Conclude, UpdateWorkflowStatus,
        ResolvingLabels, rowVars, runVars, toolVars
  <2>2. Paid' = Paid
    BY <2>1, PaidSame
  <2>3. RetryFits(pc[a], frame[a])'
    BY <1>2, <2>1, <2>2 DEF RetryFits, Within, CallLabels
  <2> QED BY <1>1, <2>1, <2>2, <2>3, RetryRests
<1>8. CASE Open(a) \/ CheckRun(a) \/ Inspect(a) \/ Settle(a) \/ FinishResolve(a)
             \/ ResolverRaises(a) \/ ResolverCrash(a)
  <2>1. UNCHANGED <<effects, attempts, request>>
    BY <1>8 DEF Open, CheckRun, Inspect, Settle, FinishResolve, ResolverRaises, ResolverCrash,
                rowVars, toolVars
  <2>2. \/ fate'[a] # "running"
        \/ pc'[a] \in {"check", "inspect", "deliver", "log", "resolve"}
    BY <1>1, <1>8 DEF Open, CheckRun, Inspect, Settle, FinishResolve, ResolverRaises,
                      ResolverCrash, End
  <2>3. Owns(a)' => RetryFits(pc[a], frame[a])'
    BY <2>2 DEF RetryFits, CallLabels, Owns
  <2>4. status' = status \/ status' \in Verdicts
    BY <1>1, <1>8 DEF Open, CheckRun, Inspect, Settle, FinishResolve, UpdateWorkflowStatus,
                      ResolverRaises, ResolverCrash, rowVars, runVars, TypeInv, FrameOK, KnownAt
  <2>5. Paid' = Paid
    BY <2>1, PaidSame
  <2> QED BY <1>1, <2>1, <2>3, <2>4, <2>5, RetryRests DEF Verdicts
<1> QED BY <1>4, <1>5, <1>6, <1>7, <1>8 DEF ResolverNext, ResolverStep

LEMMA RetryInit ==
  ASSUME IsFiniteSet(Gated)
  PROVE  Init => RetryInv
<1> SUFFICES ASSUME Init PROVE RetryInv
  OBVIOUS
<1>1. \A c \in Free : Within(c, 0)
  BY DEF Init, RowInit, ThreadInit, Free, Within
<1>2. RetryRows
  BY <1>1, PaidType DEF RetryRows, Within, Init, RowInit, ThreadInit, Free
<1> QED BY <1>2
  DEF Init, ThreadInit, RetryInv, Owns, OwningLabels, PendingLabels, ValidatedLabels,
      ExecutingLabels, ResolvingLabels, LoopLabels

LEMMA RetryStep ==
  ASSUME IsFiniteSet(Gated)
  PROVE  IInv /\ RetryInv /\ [Next]_vars => RetryInv'
<1> SUFFICES ASSUME IInv, RetryInv, [Next]_vars PROVE RetryInv'
  OBVIOUS
<1>1. CASE (Enqueue /\ UNCHANGED resolverVars) \/ UNCHANGED vars
  <2>1. UNCHANGED <<pc, fate, frame, status, effects, attempts, request>>
    BY <1>1 DEF Enqueue, vars, threadVars, rowVars
  <2>2. Paid' = Paid
    BY <2>1, PaidSame
  <2> QED BY <2>1, <2>2 DEF RetryInv, RetryRows, RetryFits, Within, Owns
<1> QED BY <1>1, WorkerRetry, ResolverRetry DEF Next

\* With resolvers that do not overlap, each entry of the loop, the worker's and
\* one for every answered approval, tries a call at most MaxRetries times: a
\* failed call is forgotten when the loop resumes (agent.py:80-84).
THEOREM RetriesBounded ==
  ASSUME ~ConcurrentResolvers, IsFiniteSet(Gated)
  PROVE  Spec => []RetryBudget
<1>1. Init => IInv /\ RetryInv
  BY IInvInit, RetryInit
<1>2. (IInv /\ RetryInv) /\ [Next]_vars => (IInv /\ RetryInv)'
  BY IInvStep, RetryStep
<1>3. RetryInv => RetryBudget
  BY PaidBudget DEF RetryInv, RetryRows, RetryBudget, Within, Free
<1> QED BY <1>1, <1>2, <1>3, PTL DEF Spec

-----------------------------------------------------------------------------
(* How often a call that somebody approves is sent, however resolvers      *)
(* overlap: whoever has sent it is past the statement that does.           *)

UnsentLabels == {"idle", "check", "inspect", "deliver"}

Senders(c) ==
  {a \in Approvers : target[a] = c /\ decision[a] = "approve" /\ pc[a] \notin UnsentLabels}

SendInv ==
  /\ \A c \in Gated : effects[c] <= Cardinality(Senders(c))
  /\ \A a \in Approvers : At(a, "deliver") => decision[a] = "approve"

\* Nobody becomes unsent, and nothing is sent.
LEMMA SendRests ==
  ASSUME IsFiniteSet(Approvers), TypeInv, SendInv,
         \A c \in Gated : effects'[c] = effects[c],
         \A a \in Approvers : pc[a] \notin UnsentLabels =>
           pc'[a] \notin UnsentLabels /\ target'[a] = target[a] /\ decision'[a] = decision[a],
         \A a \in Approvers : At(a, "deliver")' => decision'[a] = "approve"
  PROVE  SendInv'
<1>1. ASSUME NEW c \in Gated PROVE effects'[c] <= Cardinality(Senders(c)')
  <2>1. Senders(c) \subseteq Senders(c)' /\ IsFiniteSet(Senders(c)') /\ IsFiniteSet(Senders(c))
    BY FS_Subset DEF Senders
  <2>2. /\ Cardinality(Senders(c)) <= Cardinality(Senders(c)')
        /\ Cardinality(Senders(c)) \in Nat /\ Cardinality(Senders(c)') \in Nat
    BY <2>1, FS_Subset, FS_CardinalityType
  <2>3. effects[c] \in Nat
    BY GatedAssumption DEF TypeInv, TypeOK, ThreadTypeOK
  <2> QED BY <2>2, <2>3 DEF SendInv
<1> QED BY <1>1 DEF SendInv

LEMMA LoopSendsFree ==
  ASSUME TypeInv, NEW p \in Threads, LoopStep(p) \/ SaveMeeting(p), NEW c \in Gated
  PROVE  effects'[c] = effects[c]
<1>1. CASE InvokeAccepted(p) \/ InvokeRetryable(p)
  <2>1. \E n \in {0, 1} : effects' = [effects EXCEPT ![frame[p].call] = @ + n] /\ frame[p].call # c
    BY <1>1 DEF InvokeAccepted, InvokeRetryable
  <2> QED BY <2>1, GatedAssumption DEF TypeInv, TypeOK, ThreadTypeOK
<1>2. CASE ~(InvokeAccepted(p) \/ InvokeRetryable(p))
  BY <1>2 DEF LoopStep, ExecutorStep, Plan, Count, Pick, EndIteration, Step, SaveMeeting, Create, Invoke,
              InvokeUnsupported, InvokeGated, Attempt, Record, Gate, Exhaust
<1> QED BY <1>1, <1>2

LEMMA WorkerSends ==
  ASSUME IsFiniteSet(Approvers), TypeInv, SendInv, NEW w \in Workers, WorkerNext(w),
         UNCHANGED resolverVars
  PROVE  SendInv'
<1>1. \A a \in Approvers : pc'[a] = pc[a] /\ fate'[a] = fate[a] /\ target'[a] = target[a]
                           /\ decision'[a] = decision[a]
  BY WorkerRests, ThreadAssumption DEF OthersRest, resolverVars
<1>2. ASSUME NEW c \in Gated PROVE effects'[c] = effects[c]
  <2>1. CASE LoopStep(w) \/ SaveMeeting(w)
    BY <2>1, LoopSendsFree
  <2>2. CASE ~(LoopStep(w) \/ SaveMeeting(w))
    BY <2>2
    DEF WorkerNext, WorkerStep, Deliver, DeliverRaises, Transcribe, Publish, Validate, Drain, Execute,
        FinishRun, WorkerRaises, FailRun, FailRunRaises, ReportExisting,
        ReportRaises, Misreport, Acknowledge, WorkerCrash
  <2> QED BY <2>1, <2>2
<1> QED BY <1>1, <1>2, SendRests DEF SendInv

LEMMA ResolverSends ==
  ASSUME IsFiniteSet(Approvers), TypeInv, SendInv, NEW a \in Approvers, ResolverNext(a)
  PROVE  SendInv'
<1>1. /\ pc \in [Threads -> Labels] /\ fate \in [Threads -> Fates] /\ a \in Threads
      /\ target \in [Approvers -> Gated \cup {NoCall}]
      /\ decision \in [Approvers -> Decisions \cup {"none"}]
      /\ effects \in [Calls -> Nat] /\ OthersRest(a)
      /\ (pc[a] # "idle" => target[a] \in Gated /\ decision[a] \in Decisions)
  BY ResolverRests DEF TypeInv, TypeOK, ThreadTypeOK, ResolverTypeOK, FrameOK
<1>2. ASSUME \A c \in Gated : effects'[c] = effects[c],
             pc[a] \notin UnsentLabels => /\ pc'[a] \notin UnsentLabels
                                          /\ UNCHANGED <<target, decision>>,
             At(a, "deliver")' => decision'[a] = "approve"
      PROVE  SendInv'
  BY <1>1, <1>2, SendRests DEF OthersRest, SendInv
<1>3. CASE (LoopStep(a) \/ SaveMeeting(a)) /\ UNCHANGED <<jobVars, resolverVars>>
  <2>1. pc'[a] \in LoopLabels
    BY <1>1, <1>3, LoopStays
  <2> QED BY <1>2, <1>3, <2>1, LoopSendsFree DEF LoopLabels, UnsentLabels, resolverVars
<1>4. CASE DeliverApproved(a)
  <2>. PICK c \in Gated : c = target[a]
    BY <1>1, <1>4 DEF DeliverApproved
  <2>1. /\ pc[a] = "deliver" /\ pc' = [pc EXCEPT ![a] = "log"] /\ decision[a] = "approve"
        /\ c \in Gated /\ c \in Calls /\ effects' = [effects EXCEPT ![c] = @ + 1]
        /\ UNCHANGED <<fate, target, decision>>
    BY <1>1, <1>4, GatedAssumption DEF DeliverApproved, SendInv, resolverVars
  <2>2. Senders(c)' = Senders(c) \cup {a} /\ a \notin Senders(c)
    BY <1>1, <2>1 DEF Senders, UnsentLabels
  <2>3. \A d \in Gated \ {c} : Senders(d)' = Senders(d) /\ effects'[d] = effects[d]
    BY <1>1, <2>1, GatedAssumption DEF Senders, UnsentLabels
  <2>4. IsFiniteSet(Senders(c))
    BY FS_Subset DEF Senders
  <2>5. Cardinality(Senders(c)') = Cardinality(Senders(c)) + 1 /\ Cardinality(Senders(c)) \in Nat
    BY <2>2, <2>4, FS_AddElement, FS_CardinalityType
  <2>6. effects'[c] <= Cardinality(Senders(c)')
    BY <1>1, <2>1, <2>5 DEF SendInv
  <2>7. \A d \in Gated : effects'[d] <= Cardinality(Senders(d)')
    BY <2>3, <2>6 DEF SendInv
  <2>8. \A b \in Approvers : At(b, "deliver")' => decision'[b] = "approve"
    BY <1>1, <2>1 DEF SendInv
  <2> QED BY <2>7, <2>8 DEF SendInv
<1>5. CASE Open(a) \/ CheckRun(a) \/ Inspect(a)
  <2>1. effects' = effects /\ pc[a] \in UnsentLabels
    BY <1>5 DEF Open, CheckRun, Inspect, UnsentLabels
  <2>2. At(a, "deliver")' => decision'[a] = "approve"
    BY <1>1, <1>5 DEF Open, CheckRun, Inspect, End, resolverVars
  <2> QED BY <1>2, <2>1, <2>2
<1>6. CASE LogAttempt(a) \/ Settle(a) \/ Resolve(a) \/ MarkStep(a) \/ Reopen(a) \/ Resume(a)
  <2>1. effects' = effects /\ pc'[a] \notin UnsentLabels /\ UNCHANGED <<target, decision>>
    BY <1>1, <1>6 DEF LogAttempt, Settle, Resolve, MarkStep, Reopen, Resume, StartResume, Iterate,
                      Conclude, UnsentLabels, resolverVars
  <2> QED BY <1>2, <2>1 DEF UnsentLabels
<1>7. CASE FinishResolve(a) \/ ResolverRaises(a) \/ ResolverCrash(a)
  <2>1. /\ effects' = effects /\ pc' = pc /\ UNCHANGED <<target, decision>>
        /\ fate'[a] # "running"
    BY <1>1, <1>7 DEF FinishResolve, ResolverRaises, ResolverCrash, End, resolverVars
  <2> QED BY <1>2, <2>1
<1> QED BY <1>3, <1>4, <1>5, <1>6, <1>7 DEF ResolverNext, ResolverStep

LEMMA SendInit ==
  ASSUME IsFiniteSet(Approvers)
  PROVE  Init => SendInv
<1> SUFFICES ASSUME Init PROVE SendInv
  OBVIOUS
<1>1. \A c \in Gated : Cardinality(Senders(c)) \in Nat
  BY FS_Subset, FS_CardinalityType DEF Senders
<1> QED BY <1>1, GatedAssumption DEF Init, ThreadInit, SendInv

LEMMA SendStep ==
  ASSUME IsFiniteSet(Approvers)
  PROVE  TypeInv /\ SendInv /\ [Next]_vars => SendInv'
<1> SUFFICES ASSUME TypeInv, SendInv, [Next]_vars PROVE SendInv'
  OBVIOUS
<1>1. CASE (Enqueue /\ UNCHANGED resolverVars) \/ UNCHANGED vars
  <2>1. UNCHANGED <<pc, fate, effects, target, decision>>
    BY <1>1 DEF Enqueue, vars, threadVars, resolverVars
  <2> QED BY <2>1 DEF SendInv, Senders
<1> QED BY <1>1, WorkerSends, ResolverSends DEF Next

\* Every send of a gated call has an approval of its own, also when any number
\* of requests resolve the same approval at once (executor.py:174-197).
THEOREM SendsApproved ==
  ASSUME IsFiniteSet(Approvers)
  PROVE  Spec => []GatedEffectApproved
<1>1. Init => TypeInv /\ SendInv
  BY TypeInit, SendInit
<1>2. TypeInv /\ SendInv /\ [Next]_vars => (TypeInv /\ SendInv)'
  BY TypeStep, SendStep
<1>3. TypeInv /\ SendInv => GatedEffectApproved
  <2> SUFFICES ASSUME TypeInv, SendInv, NEW c \in Gated
               PROVE  effects[c] <= Cardinality({a \in Approvers :
                                                   target[a] = c /\ decision[a] = "approve"})
    BY DEF GatedEffectApproved
  <2> DEFINE Approving == {a \in Approvers : target[a] = c /\ decision[a] = "approve"}
  <2>1. Senders(c) \subseteq Approving /\ IsFiniteSet(Approving) /\ IsFiniteSet(Senders(c))
    BY FS_Subset DEF Senders
  <2>2. /\ Cardinality(Senders(c)) <= Cardinality(Approving)
        /\ Cardinality(Senders(c)) \in Nat /\ Cardinality(Approving) \in Nat
    BY <2>1, FS_Subset, FS_CardinalityType
  <2>3. effects[c] \in Nat /\ effects[c] <= Cardinality(Senders(c))
    BY GatedAssumption DEF SendInv, TypeInv, TypeOK, ThreadTypeOK
  <2> QED BY <2>2, <2>3
<1> QED BY <1>1, <1>2, <1>3, PTL DEF Spec

-----------------------------------------------------------------------------
(* One resolver at a time sends a call again only if an earlier one        *)
(* stopped before it had recorded the answer.                              *)

\* Those whose answer from the provider was never recorded.
Lost(c) ==
  {a \in Approvers : /\ target[a] = c
                     /\ decision[a] = "approve"
                     /\ fate[a] \in {"raised", "crashed"}
                     /\ pc[a] \in {"log", "settle"}}

\* Somebody has sent the call and is about to record it.
Sending(c) ==
  \E a \in Approvers : /\ target[a] = c
                       /\ decision[a] = "approve"
                       /\ At(a, "log") \/ At(a, "settle")

OnceInv ==
  \A c \in Gated :
    /\ effects[c] <= 1 + Cardinality(Lost(c))
    /\ execution[c] # "executed" /\ ~Sending(c) => effects[c] <= Cardinality(Lost(c))

LEMMA LostType ==
  ASSUME IsFiniteSet(Approvers), NEW c
  PROVE  IsFiniteSet(Lost(c)) /\ Cardinality(Lost(c)) \in Nat
<1>1. IsFiniteSet(Lost(c))
  BY FS_Subset DEF Lost
<1> QED BY <1>1, FS_CardinalityType

\* A step that neither sends the call, nor loses or records an answer.
LEMMA OnceRests ==
  ASSUME OnceInv, \A c \in Gated : /\ effects'[c] = effects[c] /\ Lost(c)' = Lost(c)
                                   /\ Sending(c) => Sending(c)' \/ execution'[c] = "executed"
                                   /\ execution[c] = "executed" => execution'[c] = "executed"
  PROVE  OnceInv'
  BY DEF OnceInv

LEMMA WorkerOnce ==
  ASSUME IInv, OnceInv, NEW w \in Workers, WorkerNext(w), UNCHANGED resolverVars
  PROVE  OnceInv'
<1>1. TypeInv
  BY IInvParts
<1>2. \A a \in Approvers : pc'[a] = pc[a] /\ fate'[a] = fate[a] /\ target'[a] = target[a]
                           /\ decision'[a] = decision[a]
  BY <1>1, WorkerRests, ThreadAssumption DEF OthersRest, resolverVars
<1>3. \A c : Lost(c)' = Lost(c) /\ Sending(c)' = Sending(c)
  BY <1>2 DEF Lost, Sending
<1>4. ASSUME NEW c \in Gated
      PROVE  /\ effects'[c] = effects[c]
             /\ execution[c] = "executed" => execution'[c] = "executed"
  <2>1. CASE LoopStep(w) \/ SaveMeeting(w)
    BY <1>1, <2>1, LoopSendsFree, LoopSparesAnswered, GatedAssumption
  <2>2. CASE ~(LoopStep(w) \/ SaveMeeting(w))
    BY <2>2
    DEF WorkerNext, WorkerStep, Deliver, DeliverRaises, Transcribe, Publish, Validate, Drain, Execute,
        FinishRun, WorkerRaises, FailRun, FailRunRaises, ReportExisting,
        ReportRaises, Misreport, Acknowledge, WorkerCrash, rowVars, toolVars
  <2> QED BY <2>1, <2>2
<1> QED BY <1>3, <1>4, OnceRests

LEMMA ResolverOnce ==
  ASSUME IsFiniteSet(Approvers), IInv, OnceInv, NEW a \in Approvers, ResolverNext(a)
  PROVE  OnceInv'
<1>1. /\ TypeInv /\ OwnInv /\ RowInv /\ OthersRest(a) /\ a \in Threads
      /\ pc \in [Threads -> Labels] /\ fate \in [Threads -> Fates]
      /\ target \in [Approvers -> Gated \cup {NoCall}]
      /\ decision \in [Approvers -> Decisions \cup {"none"}]
      /\ effects \in [Calls -> Nat] /\ execution \in [Calls -> ToolExecutionStatus \cup {"absent"}]
      /\ (pc[a] # "idle" => target[a] \in Gated)
  BY IInvParts, ResolverRests
  DEF TypeInv, TypeOK, ThreadTypeOK, RowTypeOK, ResolverTypeOK, FrameOK
<1>2. Owns(a) => ResolverFits(a, pc[a])
  BY <1>1 DEF RowInv, OwnerFits, Fits
<1>3. \A l \in ResolvingLabels : At(a, l) => Owns(a)
  BY DEF Owns, OwningLabels
<1>4. Owns(a) => \A b \in Approvers \ {a} : ~Owns(b)
  BY <1>1 DEF OwnInv, SingleOwner
<1>5. ASSUME pc[a] \notin {"log", "settle"},
             fate'[a] = "running" => pc'[a] \notin {"log", "settle"},
             fate'[a] # "running" => pc'[a] = pc[a]
      PROVE  \A c : Lost(c)' = Lost(c) /\ (Sending(c) => Sending(c)')
  BY <1>1, <1>5 DEF Lost, Sending, OthersRest
<1>6. CASE (LoopStep(a) \/ SaveMeeting(a)) /\ UNCHANGED <<jobVars, resolverVars>>
  <2>1. pc[a] \in LoopLabels /\ pc'[a] \in LoopLabels /\ fate'[a] = "running"
    BY <1>1, <1>6, LoopStays
  <2>2. \A c : Lost(c)' = Lost(c) /\ (Sending(c) => Sending(c)')
    BY <1>5, <2>1 DEF LoopLabels
  <2> QED BY <1>1, <1>6, <2>2, OnceRests, LoopSendsFree, LoopSparesAnswered, GatedAssumption
<1>7. CASE Open(a) \/ CheckRun(a) \/ FinishResolve(a) \/ Resolve(a) \/ MarkStep(a) \/ Reopen(a)
           \/ Resume(a)
  <2>1. effects' = effects /\ execution' = execution
    BY <1>7 DEF Open, CheckRun, FinishResolve, Resolve, MarkStep, Reopen, Resume, rowVars, toolVars
  <2>2. /\ pc[a] \notin {"log", "settle"}
        /\ fate'[a] = "running" => pc'[a] \notin {"log", "settle"}
        /\ fate'[a] # "running" => pc'[a] = pc[a]
    BY <1>1, <1>7 DEF Open, CheckRun, FinishResolve, Resolve, MarkStep, Reopen, Resume, StartResume,
                      Iterate, Conclude, End
  <2> QED BY <1>5, <2>1, <2>2, OnceRests
<1>8. CASE Inspect(a)
  <2>1. /\ UNCHANGED <<effects, execution, target, decision>> /\ pc[a] = "inspect"
        /\ fate[a] = "running"
        /\ \/ fate'[a] # "running" /\ pc' = pc
           \/ pc'[a] \in {"deliver", "log"} /\ fate' = fate
    BY <1>1, <1>8 DEF Inspect, End, rowVars, toolVars, resolverVars
  <2>2. \A c : Lost(c)' = Lost(c)
    BY <1>1, <2>1 DEF Lost, OthersRest
  <2>3. \A c : Sending(c) => Sending(c)'
    BY <1>1, <2>1 DEF Sending, OthersRest
  <2> QED BY <2>1, <2>2, <2>3, OnceRests
<1>9. CASE DeliverApproved(a)
  <2>. PICK c \in Gated : c = target[a]
    BY <1>1, <1>9 DEF DeliverApproved
  <2>1. /\ Owns(a) /\ pc[a] = "deliver" /\ c \in Gated /\ c \in Calls
        /\ decision[a] = "approve" /\ execution[c] = "approval_required"
    BY <1>1, <1>2, <1>3, <1>9, GatedAssumption DEF DeliverApproved, ResolverFits, ResolvingLabels
  <2>2. /\ pc'[a] = "log" /\ fate' = fate /\ UNCHANGED <<execution, target, decision>>
        /\ effects' = [effects EXCEPT ![c] = @ + 1] /\ fate[a] = "running"
    BY <1>1, <1>9 DEF DeliverApproved, rowVars, toolVars, resolverVars
  <2>3. \A d : Lost(d)' = Lost(d)
    BY <1>1, <2>1, <2>2 DEF Lost, OthersRest
  <2>4. \A d : ~Sending(d)
    BY <1>4, <2>1 DEF Sending, Owns, OwningLabels, ResolvingLabels
  <2>5. Sending(c)'
    BY <2>1, <2>2 DEF Sending
  <2>6. effects[c] <= Cardinality(Lost(c)) /\ Cardinality(Lost(c)) \in Nat
    BY <2>1, <2>4, LostType DEF OnceInv
  <2>7. effects'[c] <= 1 + Cardinality(Lost(c)')
    BY <1>1, <2>1, <2>2, <2>3, <2>6
  <2>8. ASSUME NEW d \in Gated \ {c}
        PROVE  /\ effects'[d] <= 1 + Cardinality(Lost(d)')
               /\ execution'[d] # "executed" => effects'[d] <= Cardinality(Lost(d)')
    <3>1. effects'[d] = effects[d]
      BY <1>1, <2>2, GatedAssumption
    <3> QED BY <2>2, <2>3, <2>4, <3>1 DEF OnceInv
  <2> QED BY <2>5, <2>7, <2>8 DEF OnceInv
<1>10. CASE LogAttempt(a)
  <2>1. /\ UNCHANGED <<effects, execution, target, decision, fate>> /\ pc[a] = "log"
        /\ pc'[a] = "settle" /\ fate[a] = "running"
    BY <1>1, <1>10 DEF LogAttempt, resolverVars
  <2>2. \A c : Lost(c)' = Lost(c) /\ (Sending(c) => Sending(c)')
    BY <1>1, <2>1 DEF Lost, Sending, OthersRest
  <2> QED BY <2>1, <2>2, OnceRests
<1>11. CASE Settle(a)
  <2>. PICK c \in Gated : c = target[a]
    BY <1>1, <1>11 DEF Settle
  <2>1. /\ Owns(a) /\ pc[a] = "settle" /\ c \in Gated /\ c \in Calls /\ fate[a] = "running"
        /\ execution[c] = "approval_required"
    BY <1>1, <1>2, <1>3, <1>11, GatedAssumption DEF Settle, ResolverFits, ResolvingLabels
  <2>2. /\ UNCHANGED <<effects, target, decision, fate>> /\ pc'[a] = "resolve"
        /\ execution' = [execution EXCEPT ![c] = IF decision[a] = "approve" THEN "executed" ELSE "skipped"]
    BY <1>1, <1>11 DEF Settle, UpdateToolExecution, resolverVars
  <2>3. \A d : Lost(d)' = Lost(d)
    BY <1>1, <2>1, <2>2 DEF Lost, OthersRest
  <2>4. ASSUME NEW d \in Gated, Sending(d) PROVE execution'[d] = "executed"
    <3>1. PICK b \in Approvers : /\ target[b] = d /\ decision[b] = "approve"
                                 /\ At(b, "log") \/ At(b, "settle")
      BY <2>4 DEF Sending
    <3>2. b = a
      BY <1>4, <2>1, <3>1 DEF Owns, OwningLabels, ResolvingLabels
    <3> QED BY <1>1, <2>1, <2>2, <3>1, <3>2
  <2>5. \A d \in Gated : execution[d] = "executed" => execution'[d] = "executed"
    BY <1>1, <2>1, <2>2, GatedAssumption
  <2> QED BY <2>2, <2>3, <2>4, <2>5, OnceRests
<1>12. CASE ResolverRaises(a) \/ ResolverCrash(a)
  <2>1. /\ UNCHANGED <<effects, execution, target, decision, pc>> /\ fate[a] = "running"
        /\ fate'[a] \in {"raised", "crashed"}
    BY <1>1, <1>12 DEF ResolverRaises, ResolverCrash, End, rowVars, toolVars, resolverVars
  <2>2. CASE decision[a] = "approve" /\ pc[a] \in {"log", "settle"}
    <3>. PICK c \in Gated : c = target[a]
      BY <1>1, <2>2
    <3>1. Lost(c)' = Lost(c) \cup {a} /\ a \notin Lost(c)
      BY <1>1, <2>1, <2>2 DEF Lost, OthersRest
    <3>2. \A d \in Gated \ {c} : Lost(d)' = Lost(d) /\ (Sending(d) => Sending(d)')
      BY <1>1, <2>1, <2>2 DEF Lost, Sending, OthersRest
    <3>3. Cardinality(Lost(c)') = Cardinality(Lost(c)) + 1
      BY <3>1, LostType, FS_AddElement
    <3>4. effects'[c] <= Cardinality(Lost(c)') /\ effects'[c] <= 1 + Cardinality(Lost(c)')
      <4>1. effects[c] \in Nat /\ effects[c] <= 1 + Cardinality(Lost(c)) /\ Cardinality(Lost(c)) \in Nat
        BY <1>1, LostType, GatedAssumption DEF OnceInv
      <4> QED BY <2>1, <3>3, <4>1
    <3>5. ASSUME NEW d \in Gated \ {c}
          PROVE  /\ effects'[d] <= 1 + Cardinality(Lost(d)')
                 /\ execution'[d] # "executed" /\ ~Sending(d)' => effects'[d] <= Cardinality(Lost(d)')
      BY <2>1, <3>2 DEF OnceInv
    <3> QED BY <3>4, <3>5 DEF OnceInv
  <2>3. CASE ~(decision[a] = "approve" /\ pc[a] \in {"log", "settle"})
    <3>1. \A d : Lost(d)' = Lost(d) /\ (Sending(d) => Sending(d)')
      BY <1>1, <2>1, <2>3 DEF Lost, Sending, OthersRest
    <3> QED BY <2>1, <3>1, OnceRests
  <2> QED BY <2>2, <2>3
<1> QED
  BY <1>6, <1>7, <1>8, <1>9, <1>10, <1>11, <1>12 DEF ResolverNext, ResolverStep

LEMMA OnceInit ==
  ASSUME IsFiniteSet(Approvers)
  PROVE  Init => OnceInv
<1> SUFFICES ASSUME Init PROVE OnceInv
  OBVIOUS
<1>1. \A c \in Gated : effects[c] = 0 /\ Cardinality(Lost(c)) \in Nat
  BY LostType, GatedAssumption DEF Init, ThreadInit
<1> QED BY <1>1 DEF OnceInv

LEMMA OnceStep ==
  ASSUME IsFiniteSet(Approvers)
  PROVE  IInv /\ OnceInv /\ [Next]_vars => OnceInv'
<1> SUFFICES ASSUME IInv, OnceInv, [Next]_vars PROVE OnceInv'
  OBVIOUS
<1>1. CASE (Enqueue /\ UNCHANGED resolverVars) \/ UNCHANGED vars
  <2>1. UNCHANGED <<pc, fate, effects, execution, target, decision>>
    BY <1>1 DEF Enqueue, vars, threadVars, rowVars, resolverVars
  <2> QED BY <2>1 DEF OnceInv, Lost, Sending
<1> QED BY <1>1, WorkerOnce, ResolverOnce DEF Next

\* With resolvers that do not overlap, a gated call is sent once, and once more
\* for each resolver that stopped between the provider's answer and its record
\* (executor.py:174-197).
THEOREM SentOnce ==
  ASSUME ~ConcurrentResolvers, IsFiniteSet(Approvers)
  PROVE  Spec => []GatedEffectOnce
<1>1. Init => IInv /\ OnceInv
  BY IInvInit, OnceInit
<1>2. (IInv /\ OnceInv) /\ [Next]_vars => (IInv /\ OnceInv)'
  BY IInvStep, OnceStep
<1>3. OnceInv => GatedEffectOnce
  BY DEF OnceInv, Lost, GatedEffectOnce
<1> QED BY <1>1, <1>2, <1>3, PTL DEF Spec
=============================================================================
