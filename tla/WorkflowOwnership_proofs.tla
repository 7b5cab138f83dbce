--------------------- MODULE WorkflowOwnership_proofs ----------------------
(***************************************************************************)
(* TypeInv is an invariant of MeetingWorkflow, for any constants and also  *)
(* with resolvers that overlap; and when they do not, so are Placement and *)
(* SingleOwner: only one thread works on the run at any time.              *)
(*                                                                         *)
(* Types.  Every action moves one thread to another statement or ends it.  *)
(* The lemmas ...Moves say, action by action, that the statement a thread  *)
(* goes on to finds in its frame what it needs (KnownAt); MovesType and    *)
(* EndsType conclude from that for all threads.  LoopRows is the same for  *)
(* the rows that the agent loop writes.                                    *)
(*                                                                         *)
(* Owners.  A thread that owns the run may write its status and go on,     *)
(* because nobody else owns it (OwnerMoves); Misreport alone writes behind *)
(* its back.  What is left is how a thread comes to own the run:           *)
(* Deliver and CheckRun do so on the strength of the status alone, and a   *)
(* run that is pending, or that waits for an approval, has no other owner. *)
(***************************************************************************)
EXTENDS WorkflowInvariant, TLAPS

USE DEF Threads, Goto, At, Active

-----------------------------------------------------------------------------
(* Types.                                                                  *)

\* A thread goes on to a statement at which its frame is as it should be.
Moves(p) ==
  \E l \in Labels, f \in Frames :
    /\ KnownAt(l, f)
    /\ pc' = [pc EXCEPT ![p] = l]
    /\ frame' = [frame EXCEPT ![p] = f]
    /\ fate' = fate

Ends(p) == \E how \in Fates \ {"running"} : End(p, how)

LEMMA NoFrameType == NoFrame \in Frames
  BY NoCallAssumption DEF NoFrame, Frames

LEMMA MovesType ==
  ASSUME ThreadTypeOK, FrameOK, NEW p \in Threads, Moves(p), effects' \in [Calls -> Nat],
         target' = target, decision' = decision, pc[p] # "idle"
  PROVE  ThreadTypeOK' /\ FrameOK'
<1>1. PICK l \in Labels, f \in Frames :
        /\ KnownAt(l, f)
        /\ pc' = [pc EXCEPT ![p] = l]
        /\ frame' = [frame EXCEPT ![p] = f]
        /\ fate' = fate
  BY DEF Moves
<1>2. ThreadTypeOK'
  BY <1>1 DEF ThreadTypeOK
<1>3. ASSUME NEW q \in Threads, fate'[q] = "running" PROVE KnownAt(pc'[q], frame'[q])
  <2>1. CASE q = p
    BY <1>1, <2>1 DEF ThreadTypeOK
  <2>2. CASE q # p
    BY <1>1, <1>3, <2>2 DEF ThreadTypeOK, FrameOK
  <2> QED BY <2>1, <2>2
<1>4. ASSUME NEW a \in Approvers, pc'[a] # "idle" 
      PROVE  target'[a] \in Gated /\ decision'[a] \in Decisions
  BY <1>1, <1>4 DEF ThreadTypeOK, FrameOK
<1> QED BY <1>2, <1>3, <1>4 DEF FrameOK, KnownAt

LEMMA EndsType ==
  ASSUME ThreadTypeOK, FrameOK, NEW p \in Threads, Ends(p), effects' \in [Calls -> Nat],
         target' = target, decision' = decision
  PROVE  ThreadTypeOK' /\ FrameOK'
  BY NoFrameType DEF ThreadTypeOK, FrameOK, Ends, End, KnownAt

LEMMA PlanMoves ==
  ASSUME TypeOK, FrameOK, NEW p \in Threads, Plan(p)
  PROVE  Moves(p)
<1>1. PICK calls \in SUBSET Calls, found \in SUBSET Items :
         frame' = [frame EXCEPT ![p].items = @ \cup found, ![p].todo = calls,
                                 ![p].progress = FALSE]
  BY DEF Plan, ValidatedCalls
<1>2. frame[p] \in Frames
  BY DEF TypeOK, ThreadTypeOK
<1> DEFINE f == [frame[p] EXCEPT !.items = @ \cup found, !.todo = calls,
                                 !.progress = FALSE]
<1>3. f \in Frames
  BY <1>2 DEF Frames
<1>4. frame' = [frame EXCEPT ![p] = f]
  BY <1>1, <1>2 DEF TypeOK, ThreadTypeOK, Frames
<1> QED BY <1>3, <1>4 DEF Plan, Moves, KnownAt, CallLabels, Labels

LEMMA PickMoves ==
  ASSUME TypeOK, FrameOK, NEW p \in Threads, Pick(p)
  PROVE  Moves(p)
<1>1. PICK c \in frame[p].todo \ frame[p].seen : Lookup(p, c)
  BY DEF Pick
<1>2. frame[p] \in Frames /\ c \in Calls
  BY DEF TypeOK, ThreadTypeOK, Frames
<1>3. CASE execution[c] \in Reusable
  <2> DEFINE f == [frame[p] EXCEPT !.call = c, !.reused = TRUE, !.outcome = execution[c]]
  <2>1. f \in Frames /\ KnownAt("step", f)
    BY <1>2, <1>3 DEF Frames, Reusable, ToolExecutionStatus, KnownAt
  <2>2. frame' = [frame EXCEPT ![p] = f] /\ Goto(p, "step")
    BY <1>1, <1>2, <1>3 DEF Lookup, TypeOK, ThreadTypeOK
  <2> QED BY <2>1, <2>2 DEF Moves, Pick, Labels
<1>4. CASE execution[c] \notin Reusable
  <2> DEFINE f == [frame[p] EXCEPT !.call = c, !.reused = FALSE, !.outcome = "none"]
  <2>1. f \in Frames /\ KnownAt("create", f)
    BY <1>2, <1>3 DEF Frames, KnownAt
  <2>2. frame' = [frame EXCEPT ![p] = f] /\ Goto(p, "create")
    BY <1>1, <1>2, <1>4 DEF Lookup, TypeOK, ThreadTypeOK
  <2> QED BY <2>1, <2>2 DEF Moves, Pick, Labels
<1> QED BY <1>3, <1>4

LEMMA StayMoves ==
  ASSUME ThreadTypeOK, NEW p \in Threads, NEW l \in Labels, KnownAt(l, frame[p]),
         Goto(p, l), UNCHANGED <<fate, frame>>
  PROVE  Moves(p)
<1>1. frame' = [frame EXCEPT ![p] = frame[p]] /\ frame[p] \in Frames
  BY DEF ThreadTypeOK
<1> QED BY <1>1 DEF Moves

LEMMA ConcludeMoves ==
  ASSUME ThreadTypeOK, NEW p \in Threads, NEW f \in Frames, NEW v \in Verdicts,
         Conclude(p, f, v), fate' = fate
  PROVE  Moves(p)
<1> DEFINE g == [f EXCEPT !.verdict = v]
<1>1. g \in Frames /\ g.verdict = v
  BY DEF Frames
<1>2. KnownAt("save", g) /\ "save" \in Labels
  BY <1>1 DEF KnownAt, Labels, CallLabels
<1> HIDE DEF g
<1>3. Goto(p, "save") /\ frame' = [frame EXCEPT ![p] = g]
  BY DEF Conclude, g
<1> QED BY <1>1, <1>2, <1>3 DEF Moves

LEMMA IterateMoves ==
  ASSUME ThreadTypeOK, NEW p \in Threads, NEW f \in Frames, NEW n \in Nat,
         Iterate(p, f, n), fate' = fate
  PROVE  Moves(p)
<1>1. CASE n <= MaxIterations
  <2> DEFINE g == [f EXCEPT !.iteration = n]
  <2>1. g \in Frames /\ KnownAt("plan", g) /\ "plan" \in Labels
    BY DEF Frames, KnownAt, CallLabels, Labels
  <2> HIDE DEF g
  <2>2. Goto(p, "plan") /\ frame' = [frame EXCEPT ![p] = g]
    BY <1>1 DEF Iterate, g
  <2> QED BY <2>1, <2>2 DEF Moves
<1>2. CASE ~(n <= MaxIterations)
  BY <1>2, ConcludeMoves DEF Iterate, Verdicts
<1> QED BY <1>1, <1>2

LEMMA CountMoves ==
  ASSUME TypeOK, FrameOK, NEW p \in Threads, Count(p)
  PROVE  Moves(p)
<1>1. frame[p] \in Frames /\ ThreadTypeOK
  BY DEF TypeOK, ThreadTypeOK
<1>2. CASE frame[p].todo = {}
  BY <1>1, <1>2, ConcludeMoves DEF Count, Verdicts
<1>3. CASE frame[p].todo # {}
  BY <1>1, <1>3, StayMoves DEF Count, KnownAt, CallLabels, Labels
<1> QED BY <1>2, <1>3

LEMMA EndIterationMoves ==
  ASSUME TypeOK, FrameOK, NEW p \in Threads, EndIteration(p)
  PROVE  Moves(p)
<1>1. frame[p] \in Frames /\ ThreadTypeOK /\ frame[p].iteration + 1 \in Nat
  BY DEF TypeOK, ThreadTypeOK, Frames
<1> QED BY <1>1, ConcludeMoves, IterateMoves DEF EndIteration, Verdicts

LEMMA StepMoves ==
  ASSUME TypeOK, FrameOK, NEW p \in Threads, Step(p)
  PROVE  Moves(p)
<1> DEFINE f == [frame[p] EXCEPT !.seen = @ \cup {frame[p].call},
                                 !.progress = @ \/ ~frame[p].reused]
<1>1. frame[p] \in Frames /\ ThreadTypeOK
  BY DEF TypeOK, ThreadTypeOK
<1>2. frame[p].call \in Calls
  BY DEF FrameOK, KnownAt, Step, CallLabels
<1>3. f \in Frames
  BY <1>1, <1>2 DEF Frames
<1>4. f.outcome = frame[p].outcome
  BY <1>1 DEF Frames
<1> HIDE DEF f
<1>5. CASE f.outcome = "approval_required"
  BY <1>1, <1>3, <1>5, ConcludeMoves DEF Step, f, Verdicts
<1>6. CASE f.outcome # "approval_required"
  <2>1. Goto(p, "pick") /\ frame' = [frame EXCEPT ![p] = f] /\ fate' = fate
    BY <1>6 DEF Step, f
  <2>2. KnownAt("pick", f) /\ "pick" \in Labels
    BY DEF KnownAt, CallLabels, Labels
  <2> QED BY <1>3, <2>1, <2>2 DEF Moves
<1> QED BY <1>5, <1>6

LEMMA SaveMoves ==
  ASSUME TypeOK, FrameOK, NEW p \in Threads, SaveMeeting(p)
  PROVE  Moves(p)
<1>1. KnownAt("finish", frame[p]) /\ "finish" \in Labels
  BY DEF FrameOK, KnownAt, SaveMeeting, CallLabels, Labels
<1> QED BY <1>1, StayMoves DEF SaveMeeting, TypeOK

LEMMA ExecutorMoves ==
  ASSUME TypeOK, FrameOK, NEW p \in Threads, ExecutorStep(p)
  PROVE  Moves(p)
<1>1. frame[p] \in Frames /\ ThreadTypeOK /\ KnownAt(pc[p], frame[p])
  BY DEF TypeOK, ThreadTypeOK, FrameOK, ExecutorStep, Create, Invoke, InvokeUnsupported,
         InvokeGated, InvokeAccepted, InvokeRetryable, Attempt, Record, Gate, Exhaust
<1>2. CASE Create(p)
  <2> DEFINE f == [frame[p] EXCEPT !.attempt = 1]
  <2>1. f \in Frames /\ KnownAt("invoke", f)
    BY <1>1, <1>2 DEF Frames, KnownAt, CallLabels, Create
  <2>2. frame' = [frame EXCEPT ![p] = f] /\ Goto(p, "invoke") /\ fate' = fate
    BY <1>1, <1>2 DEF Create, ThreadTypeOK
  <2> QED BY <2>1, <2>2 DEF Moves, Labels
<1>3. ASSUME NEW o \in ToolExecutionStatus, Answered(p, o), At(p, "invoke") PROVE Moves(p)
  <2> DEFINE f == [frame[p] EXCEPT !.outcome = o]
  <2>1. f \in Frames /\ KnownAt("attempt", f)
    BY <1>1, <1>3 DEF Frames, KnownAt, CallLabels
  <2>2. frame' = [frame EXCEPT ![p] = f] /\ Goto(p, "attempt") /\ fate' = fate
    BY <1>1, <1>3 DEF Answered, ThreadTypeOK
  <2> QED BY <2>1, <2>2 DEF Moves, Labels
<1>4. CASE InvokeUnsupported(p) \/ InvokeGated(p) \/ InvokeAccepted(p)
  BY <1>3, <1>4 DEF InvokeUnsupported, InvokeGated, InvokeAccepted, ToolExecutionStatus
<1>5. CASE InvokeRetryable(p) /\ frame[p].attempt < MaxRetries
  <2> DEFINE f == [frame[p] EXCEPT !.attempt = @ + 1]
  <2>1. f \in Frames /\ KnownAt("invoke", f)
    BY <1>1, <1>5 DEF Frames, KnownAt, CallLabels, InvokeRetryable
  <2>2. frame' = [frame EXCEPT ![p] = f] /\ pc' = pc /\ fate' = fate
    BY <1>1, <1>5, RetriesAssumption DEF InvokeRetryable, Frames, ThreadTypeOK
  <2>3. pc' = [pc EXCEPT ![p] = "invoke"]
    BY <1>5, <2>2 DEF InvokeRetryable, TypeOK, ThreadTypeOK
  <2> QED BY <2>1, <2>2, <2>3 DEF Moves, Labels
<1>6. CASE InvokeRetryable(p) /\ ~(frame[p].attempt < MaxRetries)
  <2>1. KnownAt("exhaust", frame[p])
    BY <1>1, <1>6 DEF KnownAt, CallLabels, InvokeRetryable
  <2> QED BY <1>1, <1>6, <2>1, StayMoves DEF InvokeRetryable, Labels
<1>7. CASE Attempt(p)
  <2>1. KnownAt("record", frame[p])
    BY <1>1, <1>7 DEF KnownAt, CallLabels, Attempt
  <2> QED BY <1>1, <1>7, <2>1, StayMoves DEF Attempt, Labels
<1>8. CASE Record(p)
  <2>1. KnownAt("gate", frame[p]) /\ KnownAt("step", frame[p])
    BY <1>1, <1>8 DEF KnownAt, CallLabels, Record
  <2> QED BY <1>1, <1>8, <2>1, StayMoves DEF Record, Labels
<1>9. CASE Gate(p)
  <2>1. KnownAt("step", frame[p])
    BY <1>1, <1>9 DEF KnownAt, CallLabels, Gate
  <2> QED BY <1>1, <1>9, <2>1, StayMoves DEF Gate, Labels
<1>10. CASE Exhaust(p)
  <2> DEFINE f == [frame[p] EXCEPT !.outcome = "failed"]
  <2>1. f \in Frames /\ KnownAt("step", f)
    BY <1>1, <1>10 DEF Frames, KnownAt, CallLabels, Exhaust, ToolExecutionStatus
  <2>2. frame' = [frame EXCEPT ![p] = f] /\ Goto(p, "step") /\ fate' = fate
    BY <1>1, <1>10 DEF Exhaust, ThreadTypeOK
  <2> QED BY <2>1, <2>2 DEF Moves, Labels
<1> QED BY <1>2, <1>4, <1>5, <1>6, <1>7, <1>8, <1>9, <1>10 DEF ExecutorStep, Invoke

-----------------------------------------------------------------------------
(* The rows.                                                               *)

LEMMA LoopRows ==
  ASSUME TypeOK, FrameOK, NEW p \in Threads, LoopStep(p) \/ SaveMeeting(p)
  PROVE  RowTypeOK' /\ effects' \in [Calls -> Nat]
<1> USE DEF TypeOK, RowTypeOK, rowVars, runVars, toolVars, historyVars
<1>1. effects \in [Calls -> Nat] /\ frame[p] \in Frames
  BY DEF ThreadTypeOK
<1>2. fate[p] = "running" => KnownAt(pc[p], frame[p])
  BY DEF FrameOK
<1>3. CASE Plan(p)
  BY <1>1, <1>3 DEF Plan
<1>4. CASE Count(p)
  BY <1>1, <1>4 DEF Count, Frames
<1>5. CASE Pick(p) \/ EndIteration(p)
  BY <1>1, <1>5 DEF Pick, EndIteration
<1>6. CASE Step(p)
  <2>1. frame[p].call \in Calls
    BY <1>2, <1>6 DEF Step, KnownAt, CallLabels
  <2>2. pausedSteps' \in Seq(Calls)
    BY <1>1, <1>6, <2>1 DEF Step, CreateToolStep, Frames
  <2> QED BY <1>1, <1>6, <2>2 DEF Step
<1>7. CASE SaveMeeting(p)
  BY <1>1, <1>7 DEF SaveMeeting, CompleteMeeting, Frames
<1>8. CASE Create(p)
  BY <1>1, <1>8 DEF Create, CreateToolExecution, ToolExecutionStatus
<1>9. CASE InvokeUnsupported(p) \/ InvokeGated(p) \/ InvokeAccepted(p)
  BY <1>1, <1>9 DEF InvokeUnsupported, InvokeGated, InvokeAccepted, Answered
<1>10. CASE InvokeRetryable(p)
  <2>1. frame[p].call \in Calls
    BY <1>2, <1>10 DEF InvokeRetryable, KnownAt, CallLabels
  <2>2. PICK n \in {0, 1} : effects' = [effects EXCEPT ![frame[p].call] = @ + n]
    BY <1>10 DEF InvokeRetryable
  <2>3. effects' \in [Calls -> Nat]
    BY <1>1, <2>1, <2>2
  <2>4. attempts' \in [Calls -> Nat]
    BY <1>10, <2>1 DEF InvokeRetryable, CreateToolExecutionAttempt
  <2> QED BY <1>10, <2>3, <2>4 DEF InvokeRetryable
<1>11. CASE Attempt(p)
  <2>1. frame[p].call \in Calls
    BY <1>2, <1>11 DEF Attempt, KnownAt, CallLabels
  <2>2. attempts' \in [Calls -> Nat]
    BY <1>11, <2>1 DEF Attempt, CreateToolExecutionAttempt
  <2> QED BY <1>1, <1>11, <2>2 DEF Attempt
<1>12. CASE Record(p)
  BY <1>1, <1>2, <1>12 DEF Record, UpdateToolExecution, KnownAt
<1>13. CASE Gate(p)
  BY <1>1, <1>13 DEF Gate, CreateApprovalRequest, ApprovalRequestStatus
<1>14. CASE Exhaust(p)
  BY <1>1, <1>14 DEF Exhaust, UpdateToolExecution, ToolExecutionStatus
<1> QED
  BY <1>3, <1>4, <1>5, <1>6, <1>7, <1>8, <1>9, <1>10, <1>11, <1>12, <1>13, <1>14
  DEF LoopStep, ExecutorStep, Invoke

LEMMA LoopMoves ==
  ASSUME TypeOK, FrameOK, NEW p \in Threads, LoopStep(p) \/ SaveMeeting(p)
  PROVE  Moves(p) /\ pc[p] # "idle"
<1>1. pc[p] # "idle"
  BY DEF LoopStep, SaveMeeting, ExecutorStep, Plan, Count, Pick, EndIteration, Step,
         Create, Invoke, InvokeUnsupported, InvokeGated, InvokeAccepted,
         InvokeRetryable, Attempt, Record, Gate, Exhaust
<1> QED
  BY <1>1, PlanMoves, CountMoves, PickMoves, EndIterationMoves, StepMoves, SaveMoves,
     ExecutorMoves DEF LoopStep

-----------------------------------------------------------------------------
(* The worker and the resolver.                                            *)

LEMMA WorkerType ==
  ASSUME TypeInv, NEW w \in Workers, WorkerNext(w), UNCHANGED resolverVars
  PROVE  TypeInv'
<1> USE DEF TypeOK, RowTypeOK, rowVars, runVars, toolVars, historyVars, jobVars,
            resolverVars, UpdateWorkflowStatus, WorkflowStatus
<1>1. ThreadTypeOK /\ frame[w] \in Frames /\ effects \in [Calls -> Nat] /\ FrameOK
  BY DEF ThreadTypeOK, TypeInv
<1>2. fate[w] = "running" => KnownAt(pc[w], frame[w])
  BY DEF FrameOK, TypeInv
<1>3. ResolverTypeOK'
  BY DEF ResolverTypeOK, TypeInv
<1>4. ASSUME NEW l \in Labels, KnownAt(l, frame[w]), Goto(w, l), UNCHANGED <<fate, frame, effects>>,
             pc[w] # "idle", RowTypeOK', JobTypeOK'
      PROVE  TypeInv'
  BY <1>1, <1>3, <1>4, StayMoves, MovesType DEF TypeInv
<1>5. \A l \in {"transcribe", "ack", "publish", "validate", "drain", "execute", "fail",
                "existing", "misreport"} :
         l \in Labels /\ KnownAt(l, frame[w])
  BY DEF Labels, KnownAt, CallLabels
<1>6. CASE Deliver(w) \/ DeliverRaises(w)
  <2>1. Moves(w)
    BY <1>1, <1>5, <1>6, StayMoves DEF Deliver, DeliverRaises
  <2>2. RowTypeOK' /\ JobTypeOK' /\ effects' \in [Calls -> Nat]
    BY <1>1, <1>6 DEF Deliver, DeliverRaises, JobTypeOK, JobStates, TypeInv
  <2>3. ThreadTypeOK'
    BY <1>1, <1>6 DEF Deliver, DeliverRaises, ThreadTypeOK, Labels
  <2>4. FrameOK'
    BY <1>1, <1>5, <1>6, ThreadAssumption DEF Deliver, DeliverRaises, ThreadTypeOK, FrameOK
  <2> QED BY <1>3, <2>2, <2>3, <2>4 DEF TypeInv
<1>7. CASE Transcribe(w)
  BY <1>1, <1>4, <1>5, <1>7 DEF Transcribe, TypeInv, JobTypeOK
<1>8. CASE Publish(w)
  <2>1. RowTypeOK' /\ JobTypeOK'
    BY <1>8 DEF Publish, TypeInv, JobTypeOK
  <2> QED BY <1>1, <1>4, <1>5, <1>8, <2>1 DEF Publish
<1>9. CASE Validate(w)
  BY <1>1, <1>4, <1>5, <1>9 DEF Validate, TypeInv, JobTypeOK
<1>10. CASE Drain(w)
  BY <1>1, <1>4, <1>5, <1>10 DEF Drain, TypeInv, JobTypeOK
<1>11. CASE Execute(w)
  <2>1. Moves(w)
    BY <1>1, <1>11, NoFrameType, IterateMoves DEF Execute, StartRun
  <2>2. RowTypeOK' /\ JobTypeOK' /\ effects' \in [Calls -> Nat] /\ pc[w] # "idle"
    BY <1>1, <1>11 DEF Execute, JobTypeOK, TypeInv
  <2> QED BY <1>1, <1>3, <2>1, <2>2, MovesType DEF TypeInv
<1>12. CASE (LoopStep(w) \/ SaveMeeting(w)) /\ UNCHANGED jobVars
  <2>1. JobTypeOK'
    BY <1>12 DEF JobTypeOK, TypeInv
  <2> QED BY <1>1, <1>3, <1>12, <2>1, LoopRows, LoopMoves, MovesType DEF TypeInv
<1>13. CASE FinishRun(w)
  <2>1. frame[w].verdict \in WorkflowStatus
    BY <1>2, <1>13 DEF FinishRun, KnownAt, Verdicts
  <2> QED BY <1>1, <1>4, <1>5, <1>13, <2>1 DEF FinishRun, TypeInv, JobTypeOK
<1>14. CASE WorkerRaises(w) \/ FailRunRaises(w) \/ ReportExisting(w) \/ ReportRaises(w)
  BY <1>1, <1>4, <1>5, <1>14 DEF WorkerRaises, FailRunRaises, ReportExisting, ReportRaises,
                                 TypeInv, JobTypeOK
<1>15. CASE FailRun(w) \/ Misreport(w)
  BY <1>1, <1>4, <1>5, <1>15 DEF FailRun, Misreport, TypeInv, JobTypeOK
<1>16. CASE Acknowledge(w)
  <2>1. RowTypeOK' /\ JobTypeOK' /\ effects' = effects /\ Ends(w)
    BY <1>16 DEF Acknowledge, JobTypeOK, JobStates, TypeInv, Ends, Fates
  <2> QED BY <1>1, <1>3, <2>1, EndsType DEF TypeInv
<1>17. CASE WorkerCrash(w)
  <2>1. RowTypeOK' /\ JobTypeOK' /\ effects' = effects /\ Ends(w)
    BY <1>17, ModeAssumption DEF WorkerCrash, JobTypeOK, JobStates, TypeInv, Ends, Fates
  <2> QED BY <1>1, <1>3, <2>1, EndsType DEF TypeInv
<1> QED
  BY <1>6, <1>7, <1>8, <1>9, <1>10, <1>11, <1>12, <1>13, <1>14, <1>15, <1>16, <1>17
  DEF WorkerNext, WorkerStep

LEMMA ResolverType ==
  ASSUME TypeInv, NEW a \in Approvers, ResolverNext(a)
  PROVE  TypeInv'
<1> USE DEF TypeOK, RowTypeOK, rowVars, runVars, toolVars, historyVars, jobVars,
            resolverVars, UpdateWorkflowStatus, WorkflowStatus
<1>1. ThreadTypeOK /\ frame[a] \in Frames /\ effects \in [Calls -> Nat] /\ FrameOK
  BY DEF ThreadTypeOK, TypeInv
<1>2. fate[a] = "running" => KnownAt(pc[a], frame[a])
  BY DEF FrameOK, TypeInv
<1>3. pc[a] # "idle" => target[a] \in Gated /\ target[a] \in Calls /\ decision[a] \in Decisions
  BY GatedAssumption DEF FrameOK, TypeInv
<1>4. ASSUME NEW l \in Labels, KnownAt(l, frame[a]), Goto(a, l), UNCHANGED <<fate, frame>>,
             pc[a] # "idle", RowTypeOK', effects' \in [Calls -> Nat],
             UNCHANGED <<jobVars, resolverVars>>
      PROVE  TypeInv'
  BY <1>1, <1>4, StayMoves, MovesType DEF TypeInv, JobTypeOK, ResolverTypeOK
<1>5. \A l \in {"check", "inspect", "deliver", "log", "settle", "resolve", "mark", "reopen",
                "resume"} : l \in Labels /\ KnownAt(l, frame[a])
  BY DEF Labels, KnownAt, CallLabels
<1>6. ASSUME Ends(a), UNCHANGED <<effects, rowVars, jobVars, resolverVars>>
      PROVE  TypeInv'
  BY <1>1, <1>6, EndsType DEF TypeInv, JobTypeOK, ResolverTypeOK
<1>7. \A how \in {"returned", "refused", "raised", "crashed"} : End(a, how) => Ends(a)
  BY DEF Ends, Fates
<1>8. CASE Open(a)
  <2>1. PICK c \in Gated, d \in Decisions :
          /\ target' = [target EXCEPT ![a] = c]
          /\ decision' = [decision EXCEPT ![a] = d]
          /\ \/ Goto(a, "check") /\ UNCHANGED <<fate, frame>>
             \/ End(a, "refused")
    BY <1>8 DEF Open
  <2>2. ResolverTypeOK'
    BY <2>1 DEF ResolverTypeOK, TypeInv
  <2>3. RowTypeOK' /\ JobTypeOK' /\ effects' \in [Calls -> Nat]
    BY <1>1, <1>8 DEF Open, JobTypeOK, TypeInv
  <2>4. ThreadTypeOK'
    BY <1>1, <2>1, <2>3, NoFrameType DEF ThreadTypeOK, Labels, End, Fates
  <2>5. \A p \in Threads : fate'[p] = "running" => KnownAt(pc'[p], frame'[p])
    BY <1>1, <1>5, <2>1 DEF ThreadTypeOK, End, FrameOK
  <2>6. \A b \in Approvers : pc'[b] # "idle" => target'[b] \in Gated /\ decision'[b] \in Decisions
    <3> TAKE b \in Approvers
    <3>1. CASE b = a
      BY <2>1, <3>1 DEF ResolverTypeOK, TypeInv
    <3>2. CASE b # a
      BY <1>1, <2>1, <3>2 DEF ResolverTypeOK, TypeInv, ThreadTypeOK, End, FrameOK
    <3> QED BY <3>1, <3>2
  <2> QED BY <2>2, <2>3, <2>4, <2>5, <2>6 DEF TypeInv, FrameOK
<1>9. CASE CheckRun(a)
  BY <1>1, <1>4, <1>5, <1>6, <1>7, <1>9 DEF CheckRun, TypeInv
<1>10. CASE Inspect(a)
  BY <1>1, <1>4, <1>5, <1>6, <1>7, <1>10 DEF Inspect, TypeInv
<1>11. CASE DeliverApproved(a)
  <2>1. RowTypeOK' /\ effects' \in [Calls -> Nat]
    BY <1>1, <1>3, <1>11 DEF DeliverApproved, TypeInv
  <2> QED BY <1>4, <1>5, <1>11, <2>1 DEF DeliverApproved
<1>12. CASE LogAttempt(a)
  <2>1. attempts' \in [Calls -> Nat]
    BY <1>3, <1>12 DEF LogAttempt, CreateToolExecutionAttempt, TypeInv
  <2> QED BY <1>1, <1>4, <1>5, <1>12, <2>1 DEF LogAttempt, TypeInv
<1>13. CASE Settle(a)
  <2>1. execution' \in [Calls -> ToolExecutionStatus \cup {"absent"}]
    BY <1>13 DEF Settle, UpdateToolExecution, TypeInv, ToolExecutionStatus
  <2> QED BY <1>1, <1>4, <1>5, <1>13, <2>1 DEF Settle, TypeInv
<1>14. CASE Resolve(a)
  <2>1. request' \in [Calls -> ApprovalRequestStatus \cup {"absent"}]
    BY <1>14 DEF Resolve, ResolveApprovalRequest, TypeInv, ApprovalRequestStatus
  <2> QED BY <1>1, <1>4, <1>5, <1>14, <2>1 DEF Resolve, TypeInv
<1>15. CASE MarkStep(a)
  <2>1. pausedSteps' \in Seq(Calls)
    BY <1>15 DEF MarkStep, UpdateAgentStepForTool, TypeInv
  <2> QED BY <1>1, <1>4, <1>5, <1>15, <2>1 DEF MarkStep, TypeInv
<1>16. CASE Reopen(a)
  BY <1>1, <1>4, <1>5, <1>16 DEF Reopen, TypeInv
<1>17. CASE Resume(a)
  <2> DEFINE f == [NoFrame EXCEPT !.seen = {c \in Calls : execution[c] \in Reusable},
                                  !.items = lastPlan]
  <2>1. f \in Frames
    BY NoFrameType DEF Frames, TypeInv
  <2>2. iterationCount + 1 \in Nat
    BY DEF TypeInv
  <2>3. Moves(a)
    BY <1>1, <1>17, <2>1, <2>2, IterateMoves DEF Resume, StartResume
  <2>4. RowTypeOK' /\ JobTypeOK' /\ ResolverTypeOK' /\ effects' \in [Calls -> Nat] /\ pc[a] # "idle"
    BY <1>1, <1>17 DEF Resume, TypeInv, JobTypeOK, ResolverTypeOK
  <2>5. target' = target /\ decision' = decision
    BY <1>17 DEF Resume
  <2> QED BY <1>1, <2>3, <2>4, <2>5, MovesType DEF TypeInv
<1>18. CASE (LoopStep(a) \/ SaveMeeting(a)) /\ UNCHANGED <<jobVars, resolverVars>>
  <2>1. JobTypeOK' /\ ResolverTypeOK'
    BY <1>18 DEF JobTypeOK, ResolverTypeOK, TypeInv
  <2> QED BY <1>1, <1>18, <2>1, LoopRows, LoopMoves, MovesType DEF TypeInv
<1>19. CASE FinishResolve(a)
  <2>1. frame[a].verdict \in WorkflowStatus
    BY <1>2, <1>19 DEF FinishResolve, KnownAt, Verdicts
  <2>2. RowTypeOK' /\ JobTypeOK' /\ ResolverTypeOK' /\ effects' = effects
    BY <1>19, <2>1 DEF FinishResolve, TypeInv, JobTypeOK, ResolverTypeOK
  <2>3. Ends(a) /\ target' = target /\ decision' = decision
    BY <1>7, <1>19 DEF FinishResolve
  <2> QED BY <1>1, <2>2, <2>3, EndsType DEF TypeInv
<1>20. CASE ResolverRaises(a)
  BY <1>6, <1>7, <1>20 DEF ResolverRaises
<1>21. CASE ResolverCrash(a)
  <2>1. RowTypeOK' /\ JobTypeOK' /\ ResolverTypeOK' /\ effects' = effects
    BY <1>21, ModeAssumption DEF ResolverCrash, TypeInv, JobTypeOK, ResolverTypeOK
  <2>2. Ends(a) /\ target' = target /\ decision' = decision
    BY <1>7, <1>21 DEF ResolverCrash
  <2> QED BY <1>1, <2>1, <2>2, EndsType DEF TypeInv
<1> QED
  BY <1>8, <1>9, <1>10, <1>11, <1>12, <1>13, <1>14, <1>15, <1>16, <1>17, <1>18, <1>19, <1>20,
     <1>21 DEF ResolverNext, ResolverStep

LEMMA TypeInit == Init => TypeInv
<1> SUFFICES ASSUME Init PROVE TypeInv
  OBVIOUS
<1> USE DEF Init, RowInit, ThreadInit, JobInit, ResolverInit
<1>1. RowTypeOK
  <2>1. pausedSteps \in Seq(Calls)
    OBVIOUS
  <2>2. attempts \in [Calls -> Nat] /\ iterationCount \in Nat
    OBVIOUS
  <2> QED BY <2>1, <2>2 DEF RowTypeOK, WorkflowStatus
<1>2. ThreadTypeOK
  BY NoFrameType DEF ThreadTypeOK, Labels, Fates
<1>3. JobTypeOK /\ ResolverTypeOK
  <2>1. misreported \in BOOLEAN
    OBVIOUS
  <2> QED BY <2>1, ModeAssumption DEF JobTypeOK, JobStates, ResolverTypeOK
<1>4. FrameOK
  BY DEF FrameOK, KnownAt, CallLabels
<1> QED BY <1>1, <1>2, <1>3, <1>4 DEF TypeInv, TypeOK

LEMMA TypeStep == TypeInv /\ [Next]_vars => TypeInv'
<1> SUFFICES ASSUME TypeInv, [Next]_vars PROVE TypeInv'
  OBVIOUS
<1>1. CASE Enqueue /\ UNCHANGED resolverVars
  BY <1>1 DEF Enqueue, TypeInv, TypeOK, FrameOK, RowTypeOK, ThreadTypeOK, JobTypeOK,
              ResolverTypeOK, KnownAt, JobStates, threadVars, rowVars, resolverVars
<1>2. CASE UNCHANGED vars
  BY <1>2 DEF TypeInv, TypeOK, FrameOK, RowTypeOK, ThreadTypeOK, JobTypeOK, ResolverTypeOK,
              KnownAt, vars, threadVars, rowVars, jobVars, resolverVars
<1> QED BY <1>1, <1>2, WorkerType, ResolverType DEF Next

\* Every row, thread and job stays in its type, whether or not resolvers overlap.
THEOREM TypeCorrect == Spec => []TypeOK
<1>1. TypeInv => TypeOK
  BY DEF TypeInv
<1> QED BY <1>1, TypeInit, TypeStep, PTL DEF Spec

-----------------------------------------------------------------------------
(* Owners.                                                                 *)

OwnInv == Placement /\ SingleOwner

LEMMA OwnerMoves ==
  ASSUME TypeInv, OwnInv, NEW p \in Threads, Owns(p), NEW l \in Labels \ {"idle"},
         pc' = [pc EXCEPT ![p] = l], fate' = fate, job' = job,
         p \in Workers => l \in WorkerLabels,
         p \in Approvers => l \in ResolverLabels,
         StatusKept(p, l)'
  PROVE  OwnInv'
<1>1. pc \in [Threads -> Labels] /\ fate \in [Threads -> Fates]
  BY DEF TypeInv, TypeOK, ThreadTypeOK
<1>2. pc[p] # "idle" /\ fate[p] = "running"
  BY DEF Owns, OwningLabels, PendingLabels, ValidatedLabels, ExecutingLabels,
         ResolvingLabels, LoopLabels
<1>3. Placement'
  BY <1>1, <1>2 DEF OwnInv, Placement
<1>4. ASSUME NEW q \in Threads, Owns(q)' PROVE q = p
  BY <1>1, <1>4 DEF OwnInv, SingleOwner, Owns
<1>5. SingleOwner'
  BY <1>1, <1>4 DEF SingleOwner, StatusKept
<1> QED BY <1>3, <1>5 DEF OwnInv

LEMMA OwnerEnds ==
  ASSUME TypeInv, OwnInv, NEW p \in Threads, Active(p), NEW how \in Fates \ {"running"},
         End(p, how),
         p \in Approvers => job' = job,
         status' = status \/ Owns(p), misreported' = misreported
  PROVE  OwnInv'
<1>1. pc \in [Threads -> Labels] /\ fate \in [Threads -> Fates]
  BY DEF TypeInv, TypeOK, ThreadTypeOK
<1>2. Placement'
  BY <1>1, ThreadAssumption DEF OwnInv, Placement, End
<1>3. ASSUME NEW q \in Threads, Owns(q)' PROVE q # p /\ Owns(q)
  BY <1>1, <1>3 DEF Owns, End
<1>4. SingleOwner'
  BY <1>1, <1>3 DEF OwnInv, SingleOwner, StatusKept, End
<1> QED BY <1>2, <1>4 DEF OwnInv

LEMMA LoopStays ==
  ASSUME TypeInv, NEW p \in Threads, LoopStep(p) \/ SaveMeeting(p)
  PROVE  /\ fate[p] = "running" /\ pc[p] \in LoopLabels
         /\ \E l \in LoopLabels : pc' = [pc EXCEPT ![p] = l]
         /\ UNCHANGED <<fate, status, failureReason>>
<1>1. pc \in [Threads -> Labels]
  BY DEF TypeInv, TypeOK, ThreadTypeOK
<1>2. CASE ExecutorStep(p)
  BY <1>1, <1>2 DEF ExecutorStep, Create, Invoke, InvokeUnsupported, InvokeGated, InvokeAccepted,
         InvokeRetryable, Answered, Attempt, Record, Gate, Exhaust, LoopLabels, runVars, rowVars
<1>3. CASE Plan(p) \/ Pick(p)
  BY <1>1, <1>3 DEF Plan, Pick, Lookup, LoopLabels, runVars, rowVars
<1>4. CASE Count(p)
  BY <1>4 DEF Count, Conclude, LoopLabels, runVars, rowVars
<1>5. CASE EndIteration(p)
  BY <1>5 DEF EndIteration, Iterate, Conclude, LoopLabels, runVars, rowVars
<1>6. CASE Step(p) \/ SaveMeeting(p)
  BY <1>6 DEF Step, SaveMeeting, Conclude, LoopLabels, runVars, rowVars
<1> QED BY <1>2, <1>3, <1>4, <1>5, <1>6 DEF LoopStep

LEMMA OwnInit == Init => OwnInv
  BY DEF Init, ThreadInit, JobInit, OwnInv, Placement, SingleOwner, Owns, OwningLabels,
         PendingLabels, ValidatedLabels, ExecutingLabels, ResolvingLabels, LoopLabels,
         WorkerLabels, ResolverLabels

LEMMA WorkerOwn ==
  ASSUME TypeInv, OwnInv, NEW w \in Workers, WorkerNext(w)
  PROVE  OwnInv'
<1> USE DEF OwningLabels, PendingLabels, ValidatedLabels, ExecutingLabels, ResolvingLabels,
            LoopLabels
<1>1. pc \in [Threads -> Labels] /\ fate \in [Threads -> Fates]
  BY DEF TypeInv, TypeOK, ThreadTypeOK
<1>2. ASSUME NEW l \in WorkerLabels \ {"idle"}, Owns(w), pc' = [pc EXCEPT ![w] = l],
             fate' = fate, job' = job, StatusKept(w, l)'
      PROVE  OwnInv'
  BY <1>2, OwnerMoves, ThreadAssumption DEF WorkerLabels, Labels
<1>3. CASE Deliver(w) \/ DeliverRaises(w)
  <2>1. \A v \in Workers : ~Active(v)
    BY <1>3 DEF Deliver, DeliverRaises, OwnInv, Placement
  <2>2. status = "pending" => \A q \in Threads : ~Owns(q)
    BY <2>1 DEF OwnInv, SingleOwner, StatusKept, StatusFits, Placement, Owns, ResolverLabels
  <2>3. Placement'
    BY <1>1, <1>3, <2>1, ThreadAssumption DEF Deliver, DeliverRaises, OwnInv, Placement, WorkerLabels
  <2>4. \A q \in Threads : q # w => (Owns(q)' <=> Owns(q)) /\ pc'[q] = pc[q]
    BY <1>1, <1>3 DEF Deliver, DeliverRaises, Owns
  <2>5. /\ status' = status /\ misreported' = misreported
        /\ pc'[w] \in {"transcribe", "existing", "ack"}
        /\ pc'[w] = "transcribe" => status = "pending"
    BY <1>1, <1>3 DEF Deliver, DeliverRaises, rowVars
  <2>6. SingleOwner'
    BY <2>2, <2>4, <2>5 DEF OwnInv, SingleOwner, StatusKept, StatusFits, Owns
  <2> QED BY <2>3, <2>6 DEF OwnInv
<1>4. CASE Transcribe(w)
  BY <1>1, <1>2, <1>4 DEF Transcribe, OwnInv, SingleOwner, StatusKept, StatusFits, Owns, WorkerLabels, rowVars, jobVars
<1>5. CASE Publish(w)
  BY <1>1, <1>2, <1>5 DEF Publish, OwnInv, SingleOwner, StatusKept, StatusFits, Owns, WorkerLabels, rowVars
<1>6. CASE Validate(w)
  BY <1>1, <1>2, <1>6 DEF Validate, UpdateWorkflowStatus, StatusKept, StatusFits, Owns, WorkerLabels, jobVars
<1>7. CASE Drain(w)
  BY <1>1, <1>2, <1>7 DEF Drain, OwnInv, SingleOwner, StatusKept, StatusFits, Owns, WorkerLabels, rowVars
<1>8. CASE Execute(w)
  BY <1>1, <1>2, <1>8 DEF Execute, UpdateWorkflowStatus, StartRun, Iterate, Conclude,
                          StatusKept, StatusFits, Owns, WorkerLabels, jobVars
<1>9. CASE (LoopStep(w) \/ SaveMeeting(w)) /\ UNCHANGED jobVars
  <2>1. PICK l \in LoopLabels : pc' = [pc EXCEPT ![w] = l]
    BY <1>9, LoopStays
  <2>2. Owns(w) /\ StatusKept(w, l)'
    BY <1>9, LoopStays DEF Owns, OwnInv, SingleOwner, StatusKept, StatusFits, jobVars
  <2> QED BY <1>2, <1>9, <2>1, <2>2, LoopStays DEF WorkerLabels, jobVars
<1>10. CASE FinishRun(w)
  BY <1>1, <1>2, <1>10 DEF FinishRun, StatusKept, StatusFits, Owns, WorkerLabels, jobVars
<1>11. CASE WorkerRaises(w)
  <2>1. Owns(w) /\ StatusKept(w, "fail")'
    BY <1>11 DEF WorkerRaises, Owns, OwnInv, SingleOwner, StatusKept, StatusFits, Placement,
                 WorkerLabels, rowVars, jobVars
  <2> QED BY <1>2, <1>11, <2>1 DEF WorkerRaises, WorkerLabels, jobVars
<1>12. CASE FailRun(w) \/ (FailRunRaises(w) /\ At(w, "fail"))
  BY <1>1, <1>2, <1>12 DEF FailRun, FailRunRaises, StatusKept, StatusFits, Owns, WorkerLabels,
                           jobVars
<1>15. CASE \/ ReportExisting(w) \/ ReportRaises(w) \/ Misreport(w)
            \/ FailRunRaises(w) /\ At(w, "misreport")
  <2>1. /\ At(w, "existing") \/ At(w, "misreport")
        /\ \E l \in {"misreport", "ack"} : pc' = [pc EXCEPT ![w] = l]
        /\ fate' = fate /\ job' = job
    BY <1>15 DEF ReportExisting, ReportRaises, Misreport, FailRunRaises, jobVars
  <2>2. \/ status' = status /\ misreported' = misreported
        \/ status' = "failed" /\ misreported'
        \/ status' = status /\ status = "failed" /\ (misreported => misreported')
    BY <1>15 DEF ReportExisting, ReportRaises, Misreport, FailRunRaises, UpdateWorkflowStatus,
                 rowVars, runVars, jobVars
  <2>3. Placement'
    BY <1>1, <2>1, ThreadAssumption DEF OwnInv, Placement, WorkerLabels
  <2>4. \A q \in Threads : Owns(q)' => q # w /\ Owns(q) /\ pc'[q] = pc[q]
    BY <1>1, <2>1 DEF Owns
  <2>5. \A q \in Threads : Owns(q) => StatusKept(q, pc[q]) /\ (q # w => q \in Approvers)
    BY <1>15 DEF OwnInv, SingleOwner, Placement, Owns, ReportExisting, ReportRaises, Misreport,
                 FailRunRaises
  <2>6. ASSUME NEW q \in Threads, Owns(q)' PROVE StatusKept(q, pc[q])'
    <3>1. Owns(q) /\ pc'[q] = pc[q] /\ StatusKept(q, pc[q]) /\ q \in Approvers
      BY <2>4, <2>5, <2>6
    <3>2. CASE status' = status /\ misreported' = misreported
      BY <3>1, <3>2 DEF StatusKept
    <3>3. CASE status' = "failed" /\ misreported'
      BY <3>1, <3>3 DEF StatusKept
    <3>4. CASE status' = status /\ status = "failed" /\ (misreported => misreported')
      <4>1. ~StatusFits(pc[q], "failed")
        BY <3>1 DEF StatusFits, Owns
      <4> QED BY <3>1, <3>4, <4>1 DEF StatusKept
    <3> QED BY <2>2, <3>2, <3>3, <3>4
  <2>7. SingleOwner'
    BY <2>4, <2>6 DEF OwnInv, SingleOwner
  <2> QED BY <2>3, <2>7 DEF OwnInv
<1>13. CASE Acknowledge(w)
  BY <1>13, OwnerEnds, ThreadAssumption DEF Acknowledge, Fates, rowVars
<1>14. CASE WorkerCrash(w)
  BY <1>14, OwnerEnds, ThreadAssumption DEF WorkerCrash, Fates, rowVars
<1> QED
  BY <1>3, <1>4, <1>5, <1>6, <1>7, <1>8, <1>9, <1>10, <1>11, <1>12, <1>13, <1>14, <1>15
  DEF WorkerNext, WorkerStep, FailRunRaises

LEMMA ResolverOwn ==
  ASSUME ~ConcurrentResolvers, TypeInv, OwnInv, NEW a \in Approvers, ResolverNext(a)
  PROVE  OwnInv'
<1> USE DEF OwningLabels, PendingLabels, ValidatedLabels, ExecutingLabels, ResolvingLabels,
            LoopLabels
<1>1. pc \in [Threads -> Labels] /\ fate \in [Threads -> Fates]
  BY DEF TypeInv, TypeOK, ThreadTypeOK
<1>2. ASSUME NEW l \in ResolverLabels \ {"idle"}, Owns(a), pc' = [pc EXCEPT ![a] = l],
             fate' = fate, job' = job, StatusKept(a, l)'
      PROVE  OwnInv'
  BY <1>2, OwnerMoves, ThreadAssumption DEF ResolverLabels, Labels
<1>3. ASSUME NEW how \in Fates \ {"running"}, Active(a), End(a, how), job' = job,
             status' = status \/ Owns(a), misreported' = misreported
      PROVE  OwnInv'
  BY <1>3, OwnerEnds
<1>4. CASE Open(a)
  <2>1. \A b \in Approvers : ~Active(b)
    BY <1>4 DEF Open
  <2>2. status' = status /\ job' = job /\ misreported' = misreported
    BY <1>4 DEF Open, rowVars, jobVars
  <2>3. \/ fate' = fate /\ pc' = [pc EXCEPT ![a] = "check"]
        \/ pc' = pc /\ fate' = [fate EXCEPT ![a] = "refused"]
    BY <1>4 DEF Open, End
  <2>4. \A q \in Threads : Owns(q)' => Owns(q) /\ pc'[q] = pc[q]
    BY <1>1, <2>3 DEF Owns
  <2>5. Placement'
    BY <1>1, <2>1, <2>2, <2>3, ThreadAssumption DEF OwnInv, Placement, ResolverLabels
  <2> QED BY <2>2, <2>4, <2>5 DEF OwnInv, SingleOwner, StatusKept
<1>5. CASE CheckRun(a) /\ status # "awaiting_approval"
  BY <1>3, <1>5 DEF CheckRun, Fates, rowVars, jobVars
<1>6. CASE CheckRun(a) /\ status = "awaiting_approval"
  <2>1. \A q \in Threads : ~Owns(q)
    BY <1>6 DEF CheckRun, OwnInv, SingleOwner, StatusKept, StatusFits, Placement, Owns, WorkerLabels
  <2>2. pc' = [pc EXCEPT ![a] = "inspect"] /\ fate' = fate /\ status' = status /\ job' = job
    BY <1>6 DEF CheckRun, rowVars, jobVars
  <2>3. Placement'
    BY <1>1, <1>6, <2>2, ThreadAssumption DEF CheckRun, OwnInv, Placement, ResolverLabels
  <2>4. SingleOwner'
    BY <1>1, <1>6, <2>1, <2>2 DEF SingleOwner, StatusKept, StatusFits, Owns
  <2> QED BY <2>3, <2>4 DEF OwnInv
<1>7. CASE Inspect(a)
  BY <1>1, <1>2, <1>3, <1>7 DEF Inspect, Fates, OwnInv, SingleOwner, StatusKept, StatusFits, Owns,
                                ResolverLabels, rowVars, jobVars
<1>8. CASE DeliverApproved(a) \/ LogAttempt(a) \/ Settle(a) \/ Resolve(a) \/ MarkStep(a)
  <2>1. Owns(a) /\ status' = status /\ job' = job /\ fate' = fate /\ StatusKept(a, "log")'
    BY <1>8 DEF DeliverApproved, LogAttempt, Settle, Resolve, MarkStep, Owns, OwnInv,
                SingleOwner, StatusKept, StatusFits, rowVars, runVars, jobVars
  <2>2. \E l \in {"log", "settle", "resolve", "mark", "reopen"} : pc' = [pc EXCEPT ![a] = l]
    BY <1>8 DEF DeliverApproved, LogAttempt, Settle, Resolve, MarkStep
  <2> QED BY <1>2, <2>1, <2>2 DEF StatusKept, StatusFits, ResolverLabels
<1>9. CASE Reopen(a)
  BY <1>1, <1>2, <1>9 DEF Reopen, UpdateWorkflowStatus, StatusKept, StatusFits, Owns, ResolverLabels, jobVars
<1>10. CASE Resume(a)
  <2>1. Owns(a) /\ status' = status /\ job' = job /\ fate' = fate /\ StatusKept(a, "plan")'
    BY <1>10 DEF Resume, Owns, OwnInv, SingleOwner, StatusKept, StatusFits, rowVars, jobVars
  <2>2. \E l \in {"plan", "save"} : pc' = [pc EXCEPT ![a] = l]
    BY <1>10 DEF Resume, StartResume, Iterate, Conclude
  <2> QED BY <1>2, <2>1, <2>2 DEF StatusKept, StatusFits, ResolverLabels
<1>11. CASE (LoopStep(a) \/ SaveMeeting(a)) /\ UNCHANGED <<jobVars, resolverVars>>
  <2>1. PICK l \in LoopLabels : pc' = [pc EXCEPT ![a] = l]
    BY <1>11, LoopStays
  <2>2. Owns(a) /\ StatusKept(a, l)'
    BY <1>11, LoopStays DEF Owns, OwnInv, SingleOwner, StatusKept, StatusFits, jobVars
  <2> QED BY <1>2, <1>11, <2>1, <2>2, LoopStays DEF ResolverLabels, jobVars
<1>12. CASE FinishResolve(a)
  BY <1>3, <1>12 DEF FinishResolve, Fates, Owns, jobVars
<1>13. CASE ResolverRaises(a) \/ ResolverCrash(a)
  BY <1>3, <1>13 DEF ResolverRaises, ResolverCrash, Fates, rowVars, jobVars
<1> QED
  BY <1>4, <1>5, <1>6, <1>7, <1>8, <1>9, <1>10, <1>11, <1>12, <1>13
  DEF ResolverNext, ResolverStep

LEMMA OwnStep ==
  ASSUME ~ConcurrentResolvers
  PROVE  TypeInv /\ OwnInv /\ [Next]_vars => OwnInv'
<1> SUFFICES ASSUME TypeInv, OwnInv, [Next]_vars PROVE OwnInv'
  OBVIOUS
<1>1. CASE Enqueue
  <2>1. \A w \in Workers : ~Active(w)
    BY <1>1 DEF Enqueue, OwnInv, Placement
  <2> QED BY <1>1, <2>1 DEF Enqueue, OwnInv, Placement, SingleOwner, StatusKept, Owns, threadVars, rowVars
<1>2. CASE UNCHANGED vars
  BY <1>2 DEF OwnInv, Placement, SingleOwner, StatusKept, Owns, vars, threadVars, rowVars, jobVars
<1> QED BY <1>1, <1>2, WorkerOwn, ResolverOwn DEF Next

\* With resolvers that do not overlap, one thread at a time works on a run and
\* finds its status as it left it, although nothing but the status hands the run
\* over; or finds it failed by a redelivery that could not read it.
THEOREM OneOwner ==
  ASSUME ~ConcurrentResolvers
  PROVE  Spec => []SingleOwner
<1>1. Init => TypeInv /\ OwnInv
  BY TypeInit, OwnInit
<1>2. TypeInv /\ OwnInv /\ [Next]_vars => (TypeInv /\ OwnInv)'
  BY TypeStep, OwnStep
<1>3. TypeInv /\ OwnInv => SingleOwner
  BY DEF OwnInv
<1> QED BY <1>1, <1>2, <1>3, PTL DEF Spec

-----------------------------------------------------------------------------
(* But for Misreport only the owner of a run writes its status or calls a  *)
(* provider for it, and a run that is done has no owner, nor has one that  *)
(* failed by itself.                                                       *)

LEMMA OnlyOwnersWrite ==
  ASSUME TypeInv, [Next]_vars, status' # status \/ effects' # effects
  PROVE  \/ \E p \in Threads : Owns(p)
         \/ \E w \in Workers : Misreport(w)
<1> USE DEF rowVars, runVars, Owns, OwningLabels, PendingLabels, ValidatedLabels,
            ExecutingLabels, ResolvingLabels, LoopLabels
<1>1. ASSUME NEW p \in Threads, LoopStep(p) \/ SaveMeeting(p) PROVE Owns(p)
  BY <1>1, LoopStays
<1>2. ASSUME NEW w \in Workers, WorkerNext(w) PROVE Owns(w) \/ Misreport(w)
  <2>1. CASE LoopStep(w) \/ SaveMeeting(w)
    BY <1>1, <2>1
  <2>2. CASE Validate(w) \/ Execute(w) \/ FinishRun(w) \/ FailRun(w)
    BY <2>2 DEF Validate, Execute, FinishRun, FailRun
  <2>3. CASE Deliver(w) \/ DeliverRaises(w) \/ Transcribe(w) \/ Publish(w) \/ Drain(w)
               \/ WorkerRaises(w) \/ FailRunRaises(w) \/ Acknowledge(w) \/ WorkerCrash(w)
               \/ ReportExisting(w) \/ ReportRaises(w)
    BY <2>3 DEF Deliver, DeliverRaises, Transcribe, Publish, Drain, WorkerRaises, FailRunRaises,
                Acknowledge, WorkerCrash, ReportExisting, ReportRaises
  <2> QED BY <1>2, <2>1, <2>2, <2>3 DEF WorkerNext, WorkerStep
<1>3. ASSUME NEW a \in Approvers, ResolverNext(a) PROVE Owns(a)
  <2>1. CASE LoopStep(a) \/ SaveMeeting(a)
    BY <1>1, <2>1
  <2>2. CASE DeliverApproved(a) \/ Reopen(a) \/ FinishResolve(a)
    BY <2>2 DEF DeliverApproved, Reopen, FinishResolve
  <2>3. CASE Open(a) \/ CheckRun(a) \/ Inspect(a) \/ LogAttempt(a) \/ Settle(a) \/ Resolve(a)
               \/ MarkStep(a) \/ Resume(a) \/ ResolverRaises(a) \/ ResolverCrash(a)
    BY <2>3 DEF Open, CheckRun, Inspect, LogAttempt, Settle, Resolve, MarkStep, Resume,
                ResolverRaises, ResolverCrash
  <2> QED BY <1>3, <2>1, <2>2, <2>3 DEF ResolverNext, ResolverStep
<1>4. CASE Enqueue
  BY <1>4 DEF Enqueue
<1>5. CASE UNCHANGED vars
  BY <1>5 DEF vars
<1> QED BY <1>2, <1>3, <1>4, <1>5 DEF Next

LEMMA MisreportKept == [Next]_vars /\ misreported => misreported'
<1> SUFFICES ASSUME [Next]_vars, misreported PROVE misreported'
  OBVIOUS
<1> USE DEF jobVars
<1>1. ASSUME NEW w \in Workers, WorkerNext(w) PROVE misreported'
  BY <1>1 DEF WorkerNext, WorkerStep, Deliver, DeliverRaises, Transcribe, Publish, Drain, Validate,
              Execute, FinishRun, FailRun, WorkerRaises, FailRunRaises, Acknowledge, WorkerCrash,
              ReportExisting, ReportRaises, Misreport
<1>2. ASSUME NEW a \in Approvers, ResolverNext(a) PROVE misreported'
  BY <1>2 DEF ResolverNext, ResolverStep, Open, CheckRun, Inspect, DeliverApproved, LogAttempt,
              Settle, Resolve, MarkStep, Reopen, Resume, FinishResolve, ResolverRaises, ResolverCrash
<1> QED BY <1>1, <1>2 DEF Next, Enqueue, vars

\* With resolvers that do not overlap, a run that is done or failed stays as it
\* is and no provider is called for it, unless a redelivery that cannot read it
\* writes "failed" over it; for a run that is done nobody is called even then.
THEOREM SettledFinal ==
  ASSUME ~ConcurrentResolvers
  PROVE  Spec => SettledIsFinal
<1> DEFINE
  Final == /\ Settled /\ ~misreported' => status' = status
           /\ status = "done" => status' = "done" \/ (status' = "failed" /\ misreported')
           /\ status = "done" \/ (Settled /\ ~misreported) => effects' = effects
<1>1. Init => TypeInv /\ OwnInv
  BY TypeInit, OwnInit
<1>2. TypeInv /\ OwnInv /\ [Next]_vars => (TypeInv /\ OwnInv)'
  BY TypeStep, OwnStep
<1>3. TypeInv /\ OwnInv /\ [Next]_vars => [Final]_vars
  <2> SUFFICES ASSUME TypeInv, OwnInv, [Next]_vars PROVE Final
    OBVIOUS
  <2>1. status = "done" \/ (Settled /\ ~misreported) => \A p \in Threads : ~Owns(p)
    BY DEF OwnInv, SingleOwner, StatusKept, StatusFits, Settled, Owns, OwningLabels
  <2>2. ASSUME NEW w \in Workers, Misreport(w) PROVE Final
    BY <2>2 DEF Misreport, UpdateWorkflowStatus, Settled
  <2> QED BY <2>1, <2>2, OnlyOwnersWrite, MisreportKept DEF Settled
<1> QED BY <1>1, <1>2, <1>3, PTL DEF Spec, SettledIsFinal
=============================================================================
