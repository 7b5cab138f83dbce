---------------------- MODULE HeuristicWorkflow_proofs ---------------------
(***************************************************************************)
(* A run with the heuristic planner is a run of MeetingWorkflow, so that   *)
(* everything proved of an arbitrary planner holds of this one.            *)
(*                                                                         *)
(* What has to be shown is that the calls it plans are calls the workflow  *)
(* allows, and never more than its budget.  That needs TranscriptAssembled *)
(* of the run itself: the plan of a worker is known only if the worker has *)
(* drained the transcript, and no more copies of it than processes died.   *)
(*                                                                         *)
(* What this planner adds is that a thread always makes the same plan.     *)
(* OrderInv says how far along its plan each thread is, BudgetInv what an  *)
(* iteration was spent on, HeardInv whose plan a call comes from; each has *)
(* one line for the rows and one for what the owner of the run knows at    *)
(* the statement it has reached.                                           *)
(***************************************************************************)
EXTENDS HeuristicWorkflow, WorkflowBounds_proofs

USE DEF Threads, Goto, At, Active

\* What is cut off a sequence is a set of its elements, and small enough.
LEMMA CutSmall ==
  ASSUME NEW S, NEW s \in Seq(S), NEW n \in Nat
  PROVE  LET cut == Cut(s, n)
             taken == {cut[i] : i \in DOMAIN cut}
         IN taken \subseteq S /\ Cardinality(taken) <= n
<1> DEFINE m == IF Len(s) < n THEN Len(s) ELSE n
           cut == Cut(s, n)
           taken == {cut[i] : i \in DOMAIN cut}
<1>1. m \in Nat /\ m <= n /\ m <= Len(s) /\ Len(s) \in Nat
  OBVIOUS
<1>2. DOMAIN cut = 1 .. m /\ \A i \in 1 .. m : cut[i] = s[i]
  BY DEF Cut
<1>3. taken \subseteq S
  BY <1>1, <1>2
<1>4. IsFiniteSet(1 .. m) /\ Cardinality(1 .. m) = m
  <2> HIDE DEF m
  <2> QED BY <1>1, FS_Interval
<1>5. taken = {cut[i] : i \in 1 .. m}
  BY <1>2
<1>6. IsFiniteSet(taken) /\ Cardinality(taken) <= Cardinality(1 .. m)
  <2>1. cut = [i \in 1 .. m |-> cut[i]]
    BY DEF Cut
  <2> HIDE DEF cut, m
  <2>2. cut \in Surjection(1 .. m, taken)
    BY <1>5, <2>1 DEF Surjection
  <2> QED BY <1>4, <2>2, FS_Surjection DEF ExistsSurjection
<1>7. Cardinality(taken) \in Nat
  BY <1>6, FS_CardinalityType
<1> QED BY <1>1, <1>3, <1>4, <1>6, <1>7

\* The planner is asked only by a thread that has a transcript.
PlannerReady == \A w \in Workers : At(w, "plan") => assembled \in 1 .. MaxCrashes + 1

LEMMA Ready ==
  ASSUME TypeInv, OwnInv, QueueInv
  PROVE  PlannerReady
<1>1. ASSUME NEW w \in Workers, At(w, "plan") PROVE status = "executing"
  BY <1>1, ThreadAssumption
  DEF OwnInv, SingleOwner, StatusKept, StatusFits, Owns, OwningLabels, ExecutingLabels, LoopLabels
<1>2. crashes \in 0 .. MaxCrashes /\ assembled \in Nat
  BY DEF TypeInv, TypeOK, JobTypeOK
<1> QED BY <1>1, <1>2, ModeAssumption DEF QueueInv, QueueBounds, Planned, Kept, PlannerReady

LEMMA PlanRefines ==
  ASSUME text \in Texts, PlannerReady, NEW p \in Threads, HPlan(p)
  PROVE  Plan(p)
<1> DEFINE planned == Validated(p)
           calls == {planned[i] : i \in DOMAIN planned}
           found == plan[Transcript(p)].items
<1>1. Transcript(p) \in Transcripts
  <2>1. At(p, "plan")
    BY DEF HPlan
  <2>2. CASE p \in Workers
    <3>1. assembled \in 1 .. MaxCrashes + 1
      BY <2>1, <2>2 DEF PlannerReady
    <3>2. Transcript(p) = assembledText[text][assembled]
      BY <2>2 DEF Transcript
    <3> QED BY <3>1, <3>2 DEF Transcripts
  <2>3. CASE p \notin Workers
    <3>1. Transcript(p) = text
      BY <2>3 DEF Transcript
    <3> QED BY <3>1 DEF Transcripts
  <2> QED BY <2>2, <2>3
<1>2. plan[Transcript(p)].calls \in Seq(Calls) /\ found \subseteq Items
  BY <1>1, PlannerAssumption
<1>3. MaxIterations \in Nat
  BY IterationsAssumption
<1>4. calls \in ValidatedCalls
  <2>1. calls \subseteq Calls /\ Cardinality(calls) <= MaxIterations
    BY <1>2, <1>3, CutSmall DEF Validated
  <2> QED BY <2>1 DEF ValidatedCalls
<1> QED BY <1>2, <1>4 DEF HPlan, Plan

LEMMA PickRefines ==
  ASSUME NEW p \in Threads, HPick(p)
  PROVE  Pick(p)
  BY DEF HPick, Pick

LEMMA LoopRefines ==
  ASSUME text \in Texts, TypeInv, OwnInv, QueueInv, NEW p \in Threads, HLoopStep(p)
  PROVE  LoopStep(p)
  BY Ready, PlanRefines, PickRefines DEF HLoopStep, LoopStep

LEMMA NextRefines ==
  ASSUME text \in Texts, TypeInv, OwnInv, QueueInv, [HNext]_heuristicVars
  PROVE  [Next]_vars /\ text' = text
<1>1. ASSUME NEW p \in Threads, HLoopStep(p) PROVE LoopStep(p)
  BY <1>1, LoopRefines
<1>2. ASSUME NEW w \in Workers, HWorkerNext(w) PROVE WorkerNext(w)
  BY <1>1, <1>2 DEF HWorkerNext, WorkerNext, WorkerStep
<1>3. ASSUME NEW a \in Approvers, HResolverNext(a) PROVE ResolverNext(a)
  BY <1>1, <1>3 DEF HResolverNext, ResolverNext, ResolverStep
<1>4. CASE HNext
  BY <1>2, <1>3, <1>4 DEF HNext, Next
<1>5. CASE UNCHANGED heuristicVars
  BY <1>5 DEF heuristicVars
<1> QED BY <1>4, <1>5

\* Every run with the heuristic planner is one that MeetingWorkflow allows.
THEOREM HeuristicIsWorkflow ==
  ASSUME ~ConcurrentResolvers
  PROVE  HSpec => Spec
<1> DEFINE I == text \in Texts /\ TypeInv /\ OwnInv /\ QueueInv
<1>1. HInit => Init /\ I
  BY TypeInit, OwnInit, QueueInit DEF HInit
<1>2. I /\ [HNext]_heuristicVars => [Next]_vars /\ I'
  BY NextRefines, TypeStep, OwnStep, QueueStep
<1> QED BY <1>1, <1>2, PTL DEF HSpec, Spec

\* With resolvers that do not overlap, what is proved of the workflow holds when
\* the heuristic planner drives it: answers to approvals agree with what was done,
\* a run that is done waits for nobody, what was planned last is stored, a call
\* that was answered is not made again, a failed one only as often as its budget
\* says, only a redelivery that cannot read the run rewrites its verdict, and the
\* promise to the approvers is kept (planner.py:62-129 under approvals.py:46-99).
THEOREM HeuristicKeepsPromises ==
  ASSUME ~ConcurrentResolvers, IsFiniteSet(Gated), IsFiniteSet(Approvers)
  PROVE  HSpec => /\ []ResolutionAgrees /\ []DoneMeansResolved /\ []TranscriptAssembled
                  /\ []BudgetFailure /\ []LastPlanSaved /\ []PausedStepsMatch
                  /\ []RetryBudget /\ []GatedEffectOnce
                  /\ SettledIsFinal /\ ExecutedIsFinal /\ ImplementsLifecycle
  BY HeuristicIsWorkflow, ResolutionsAgree, DoneResolved, TranscriptComplete, BudgetSpent,
     LastPlanStored, PausedStepRight, RetriesBounded, SentOnce, SettledFinal, ExecutedFinal,
     Implements

-----------------------------------------------------------------------------
(* Along the plan: what has been tried, what is left, what was found.      *)

\* The plan a thread makes, every time it asks the planner.
OwnPlan(p) == plan[Transcript(p)]

OrderRows ==
  /\ status \in {"pending", "validated"} => \A c \in Calls : execution[c] = "absent"
  /\ \A c \in Gated : execution[c] # "failed"
  /\ SpokenOrder
  /\ NothingForgotten

\* What the owner knows of its plan at a statement.
OrderFits(planned, label, f) ==
  /\ label \in {"plan", "count", "pick"} \cup CallLabels => \A c \in f.seen : IsSettled(c)
  /\ label \in {"count", "pick"} \cup CallLabels =>
       /\ f.todo = ToSet(Asked(planned))
       /\ planned.items \subseteq f.items
  /\ label \in CallLabels => InOrder(planned, f.call)
  /\ label \in {"attempt", "record"} => f.outcome \in {"executed", "failed", "approval_required"}
  /\ label = "step" /\ f.outcome # "approval_required" => IsSettled(f.call)
  /\ label \in {"save", "finish"} /\ f.verdict = "done" =>
       /\ \A c \in ToSet(Asked(planned)) : IsSettled(c)
       /\ planned.items \subseteq IF label = "save" THEN f.items ELSE meetingItems

OrderInv ==
  /\ OrderRows
  /\ \A p \in Threads : Owns(p) => OrderFits(OwnPlan(p), pc[p], frame[p])

\* What is asked for is a call of the workflow, and what comes before it too.
LEMMA AskedType ==
  ASSUME NEW planned, planned.calls \in Seq(Calls)
  PROVE  /\ ToSet(Asked(planned)) \subseteq Calls
         /\ \A i \in DOMAIN Asked(planned) :
              \A j \in 1 .. i - 1 : j \in DOMAIN Asked(planned) /\ Asked(planned)[j] \in Calls
<1> DEFINE m == IF Len(planned.calls) < MaxIterations THEN Len(planned.calls) ELSE MaxIterations
<1>1. m \in Nat /\ m <= Len(planned.calls)
  BY IterationsAssumption
<1>2. DOMAIN Asked(planned) = 1 .. m /\ \A i \in 1 .. m : Asked(planned)[i] = planned.calls[i]
  BY DEF Asked, Cut
<1> HIDE DEF m
<1>3. \A i \in 1 .. m : Asked(planned)[i] \in Calls
  BY <1>1, <1>2
<1>4. \A i \in 1 .. m : \A j \in 1 .. i - 1 : j \in 1 .. m
  BY <1>1
<1> QED BY <1>2, <1>3, <1>4 DEF ToSet

\* Both plans are known once there is a transcript.
LEMMA PlansKnown ==
  ASSUME text \in Texts, TypeInv, QueueInv, assembled > 0
  PROVE  Heard.calls \in Seq(Calls) /\ Said.calls \in Seq(Calls)
<1>1. assembled \in 1 .. MaxCrashes + 1
  <2>1. crashes \in 0 .. MaxCrashes /\ assembled \in Nat
    BY DEF TypeInv, TypeOK, JobTypeOK
  <2> QED BY <2>1, ModeAssumption DEF QueueInv, QueueBounds, Kept
<1>2. assembledText[text][assembled] \in Transcripts /\ text \in Transcripts
  <2>1. assembledText[text][assembled] \in Transcripts
    BY <1>1 DEF Transcripts
  <2> QED BY <2>1 DEF Transcripts
<1> QED BY <1>2, PlannerAssumption DEF Heard, Said

\* Whoever plans has a transcript, also a resolver whose run was failed.
LEMMA LoopQueued ==
  ASSUME TypeInv, OwnInv, QueueInv, NEW p \in Threads, fate[p] = "running", pc[p] \in LoopLabels
  PROVE  assembled > 0
<1>1. Owns(p)
  BY DEF Owns, OwningLabels, ExecutingLabels
<1>2. CASE p \in Approvers
  BY <1>1, <1>2 DEF QueueInv, ResolversQueued
<1>3. CASE p \notin Approvers
  BY <1>1, <1>3
  DEF OwnInv, SingleOwner, StatusKept, StatusFits, ExecutingLabels, QueueInv, Planned
<1> QED BY <1>2, <1>3

\* A call stays in its place while what was answered stays answered.
LEMMA OrderKept ==
  ASSUME NEW planned, planned.calls \in Seq(Calls),
         \A d \in Calls : IsSettled(d) => IsSettled(d)',
         NEW c, InOrder(planned, c)
  PROVE  InOrder(planned, c)'
<1>1. PICK i \in DOMAIN Asked(planned) :
        Asked(planned)[i] = c /\ \A j \in 1 .. i - 1 : IsSettled(Asked(planned)[j])
  BY DEF InOrder
<1>2. \A j \in 1 .. i - 1 : IsSettled(Asked(planned)[j])'
  BY <1>1, AskedType
<1> QED BY <1>1, <1>2 DEF InOrder

\* The order is kept if what was answered stays so and a call that is new has
\* its place in the plan of the run or of the resumed one.
LEMMA SpokenKept ==
  ASSUME text \in Texts, TypeInv, QueueInv, assembled > 0, SpokenOrder, UNCHANGED <<text, assembled>>,
         \A d \in Calls : IsSettled(d) => IsSettled(d)',
         NEW own \in {Heard, Said},
         \A c \in Calls : execution'[c] # "absent" =>
           execution[c] # "absent" \/ InOrder(own, c)
  PROVE  SpokenOrder'
<1>1. PICK heard, said : heard = Heard /\ said = Said
  OBVIOUS
<1>2. heard = Heard' /\ said = Said' /\ own \in {heard, said}
  BY <1>1 DEF Heard, Said
<1>3. heard.calls \in Seq(Calls) /\ said.calls \in Seq(Calls)
  BY <1>1, PlansKnown
<1>4. ASSUME NEW c \in Calls, execution'[c] # "absent"
      PROVE  InOrder(heard, c)' \/ InOrder(said, c)'
  <2>1. InOrder(heard, c) \/ InOrder(said, c)
    BY <1>1, <1>2, <1>4 DEF SpokenOrder
  <2> QED BY <1>3, <2>1, OrderKept
<1> QED BY <1>2, <1>4 DEF SpokenOrder


LEMMA OrderMoves ==
  ASSUME OwnInv, NEW p \in Threads, Owns(p), OthersRest(p), OrderRows',
         Owns(p)' => OrderFits(OwnPlan(p), pc[p], frame[p])'
  PROVE  OrderInv'
<1>1. ASSUME NEW q \in Threads, Owns(q)' PROVE q = p
  BY <1>1 DEF OwnInv, SingleOwner, Owns, OthersRest
<1> QED BY <1>1 DEF OrderInv

LEMMA LoopOrder ==
  ASSUME text \in Texts, IInv, QueueInv, OrderInv, NEW p \in Threads,
         HLoopStep(p) \/ SaveMeeting(p), UNCHANGED <<jobVars, resolverVars, text>>
  PROVE  OrderInv'
<1> DEFINE f == frame[p]
           g == frame'[p]
<1>1. /\ TypeInv /\ OwnInv /\ RowInv /\ (LoopStep(p) \/ SaveMeeting(p))
      /\ UNCHANGED <<text, assembled>>
  BY IInvParts, LoopRefines DEF jobVars, IInv, OwnInv, RowInv
<1>2. /\ pc \in [Threads -> Labels] /\ fate[p] = "running" /\ pc[p] \in LoopLabels
      /\ OthersRest(p) /\ status' = status
  BY <1>1, LoopStays, LoopRests DEF TypeInv, TypeOK, ThreadTypeOK
<1>3. /\ Owns(p) /\ assembled > 0 /\ status \notin {"pending", "validated", "done"}
      /\ KnownAt(pc[p], f) /\ CallFits(pc[p], f) /\ OpenFits(pc[p], f)
  BY <1>1, <1>2, LoopOwner, LoopQueued DEF LeftAs
<1>4. /\ frame \in [Threads -> Frames] /\ f \in Frames /\ f.seen \subseteq Calls
      /\ execution \in [Calls -> ToolExecutionStatus \cup {"absent"}]
  BY <1>1 DEF TypeInv, TypeOK, ThreadTypeOK, RowTypeOK, Frames
<1>5. PICK own \in {Heard, Said} : own = OwnPlan(p)
  BY DEF OwnPlan, Transcript, Heard, Said
<1>6. own = OwnPlan(p)'
  BY <1>1, <1>5 DEF OwnPlan, Transcript
<1>7. OrderFits(own, pc[p], f) /\ OrderRows
  BY <1>3, <1>5 DEF OrderInv
<1>8. own.calls \in Seq(Calls)
  BY <1>1, <1>3, PlansKnown
<1>9. Asked(own) = Validated(p)
  BY <1>5 DEF OwnPlan, Asked, Validated
<1>10. ASSUME \A c \in Calls : IsSettled(c) => IsSettled(c)',
              \A c \in Calls : execution'[c] # "absent" => execution[c] # "absent" \/ InOrder(own, c),
              \A c \in Gated : execution'[c] # "failed",
              OrderFits(own, pc[p], frame[p])'
       PROVE  OrderInv'
  <2>1. SpokenOrder'
    BY <1>1, <1>3, <1>7, <1>10, SpokenKept DEF OrderRows
  <2>2. OrderRows'
    BY <1>2, <1>3, <1>10, <2>1 DEF OrderRows, NothingForgotten
  <2>3. OrderFits(OwnPlan(p), pc[p], frame[p])'
    BY <1>6, <1>10
  <2> QED BY <1>1, <1>2, <1>3, <2>2, <2>3, OrderMoves
<1>11. ASSUME execution' = execution, OrderFits(own, pc[p], frame[p])'
       PROVE  OrderInv'
  <2>1. \A c \in Calls : IsSettled(c) => IsSettled(c)'
    BY <1>11 DEF IsSettled
  <2> QED BY <1>7, <1>10, <1>11, <2>1 DEF OrderRows
<1> USE DEF CallLabels
\* The executor writes the row of its call, or none.
<1>12. ASSUME \A c \in Calls : IsSettled(c) => IsSettled(c)',
              pc[p] \in CallLabels, pc'[p] \in CallLabels,
              g.seen = f.seen, g.todo = f.todo, g.items = f.items, g.call = f.call,
              pc'[p] \in {"attempt", "record"} =>
                g.outcome \in {"executed", "failed", "approval_required"},
              pc'[p] = "step" /\ g.outcome # "approval_required" => IsSettled(f.call)'
       PROVE  OrderFits(own, pc[p], frame[p])'
  <2>1. InOrder(own, f.call)'
    BY <1>7, <1>8, <1>12, OrderKept DEF OrderFits
  <2>2. \A c \in f.seen : IsSettled(c)'
    BY <1>4, <1>7, <1>12 DEF OrderFits
  <2>3. InOrder(own, frame[p].call)'
    BY <2>1, <1>12 DEF InOrder, IsSettled
  <2> QED BY <1>7, <1>12, <2>2, <2>3 DEF OrderFits
<1>13. ASSUME NEW v \in ToolExecutionStatus, pc[p] \in CallLabels, f.call \in Calls,
              execution' = [execution EXCEPT ![f.call] = v],
              IsSettled(f.call) => v \in {"executed", "failed", "skipped"},
              f.call \in Gated => v # "failed",
              OrderFits(own, pc[p], frame[p])'
       PROVE  OrderInv'
  <2>1. \A c \in Calls : IsSettled(c) => IsSettled(c)'
    BY <1>4, <1>13 DEF IsSettled
  <2>2. InOrder(own, f.call)
    BY <1>7, <1>13 DEF OrderFits
  <2>3. \A c \in Calls : execution'[c] # "absent" => execution[c] # "absent" \/ InOrder(own, c)
    BY <1>4, <1>13, <2>2
  <2>4. \A c \in Gated : execution'[c] # "failed"
    BY <1>4, <1>7, <1>13, GatedAssumption DEF OrderRows
  <2> QED BY <1>10, <1>13, <2>1, <2>3, <2>4
<1>14. CASE HPlan(p)
  <2> DEFINE todo == {Validated(p)[i] : i \in DOMAIN Validated(p)}
  <2>1. /\ pc[p] = "plan" /\ pc'[p] = "count" /\ execution' = execution
        /\ g.seen = f.seen /\ g.todo = todo /\ g.items = f.items \cup own.items
    BY <1>2, <1>4, <1>5, <1>14 DEF HPlan, OwnPlan, Frames, toolVars
  <2>2. todo = ToSet(Asked(own))
    BY <1>9 DEF ToSet
  <2>3. OrderFits(own, pc[p], frame[p])'
    BY <1>7, <2>1, <2>2 DEF OrderFits, IsSettled
  <2> QED BY <1>11, <2>1, <2>3
<1>15. CASE Count(p)
  <2>1. /\ pc[p] = "count" /\ execution' = execution /\ g.items = f.items
        /\ \/ pc'[p] = "save" /\ f.todo = {}
           \/ pc'[p] = "pick" /\ g.seen = f.seen /\ g.todo = f.todo
    BY <1>2, <1>4, <1>15 DEF Count, Conclude, Frames, toolVars
  <2>2. OrderFits(own, pc[p], frame[p])'
    BY <1>7, <2>1 DEF OrderFits, IsSettled
  <2> QED BY <1>11, <2>1, <2>2
<1>16. CASE HPick(p)
  <2>1. PICK i \in DOMAIN Asked(own) :
          /\ Asked(own)[i] \in f.todo \ f.seen
          /\ \A j \in 1 .. i - 1 : Asked(own)[j] \in f.seen
          /\ Lookup(p, Asked(own)[i])
    BY <1>9, <1>16 DEF HPick
  <2> DEFINE c == Asked(own)[i]
  <2>2. c \in Calls /\ execution[c] # "approval_required"
    <3>1. c \in Calls
      BY <1>8, <2>1, AskedType DEF ToSet
    <3>2. NoneWaiting
      BY <1>3, <1>16 DEF HPick, OpenFits, QuietLabels
    <3> QED BY <1>1, <3>1, <3>2 DEF NoneWaiting, RowInv, RowsAgree
  <2>3. InOrder(own, c)
    BY <1>7, <1>16, <2>1 DEF InOrder, OrderFits, HPick
  <2> HIDE DEF c
  <2>4. Lookup(p, c)
    BY <2>1 DEF c
  <2>5. /\ pc[p] = "pick" /\ execution' = execution
        /\ g.seen = f.seen /\ g.todo = f.todo /\ g.items = f.items /\ g.call = c
        /\ \/ pc'[p] = "create"
           \/ pc'[p] = "step" /\ g.outcome = execution[c] /\ execution[c] \in Reusable
    BY <1>2, <1>4, <1>16, <2>2, <2>4 DEF HPick, Lookup, Frames, rowVars
  <2>6. pc'[p] = "step" => IsSettled(c)
    BY <2>2, <2>5 DEF Reusable, IsSettled
  <2>7. OrderFits(own, pc[p], frame[p])'
    BY <1>7, <2>3, <2>5, <2>6 DEF OrderFits, IsSettled, InOrder
  <2> QED BY <1>11, <2>5, <2>7
<1>17. CASE EndIteration(p)
  <2>1. /\ pc[p] = "pick" /\ execution' = execution /\ f.todo \subseteq f.seen /\ g.items = f.items
        /\ \/ pc'[p] = "plan" /\ g.seen = f.seen
           \/ pc'[p] = "save"
    BY <1>2, <1>4, <1>17 DEF EndIteration, Iterate, Conclude, Frames, rowVars
  <2>2. OrderFits(own, pc[p], frame[p])'
    BY <1>7, <2>1 DEF OrderFits, IsSettled
  <2> QED BY <1>11, <2>1, <2>2
<1>18. CASE Step(p)
  <2> DEFINE h == [f EXCEPT !.seen = @ \cup {f.call}, !.progress = @ \/ ~f.reused]
  <2>1. /\ pc[p] = "step" /\ execution' = execution /\ f.call \in Calls
    BY <1>3, <1>18 DEF Step, toolVars, KnownAt
  <2>2. /\ h \in Frames /\ h.seen = f.seen \cup {f.call} /\ h.outcome = f.outcome
        /\ h.todo = f.todo /\ h.items = f.items
    BY <1>4, <2>1 DEF Frames
  <2> HIDE DEF h
  <2>3. \/ h.outcome = "approval_required" /\ Conclude(p, h, "awaiting_approval")
        \/ h.outcome # "approval_required" /\ Goto(p, "pick") /\ frame' = [frame EXCEPT ![p] = h]
    BY <1>18 DEF Step, h
  <2>4. \/ pc'[p] = "save" /\ g.verdict = "awaiting_approval"
        \/ pc'[p] = "pick" /\ g = h /\ f.outcome # "approval_required"
    BY <1>2, <1>4, <2>2, <2>3 DEF Conclude, Frames
  <2>5. OrderFits(own, pc[p], frame[p])'
    BY <1>7, <2>1, <2>2, <2>4 DEF OrderFits, IsSettled
  <2> QED BY <1>11, <2>1, <2>5
<1>19. CASE SaveMeeting(p)
  <2>1. /\ pc[p] = "save" /\ pc'[p] = "finish" /\ g = f /\ meetingItems' = f.items
        /\ execution' = execution
    BY <1>2, <1>19 DEF SaveMeeting, CompleteMeeting, toolVars
  <2>2. OrderFits(own, pc[p], frame[p])'
    BY <1>7, <2>1 DEF OrderFits, IsSettled
  <2> QED BY <1>11, <2>1, <2>2
<1>20. CASE Invoke(p) \/ Attempt(p) \/ Gate(p)
  <2>1. /\ pc[p] \in CallLabels /\ pc'[p] \in {"invoke", "attempt", "record", "exhaust", "step"}
        /\ execution' = execution
        /\ g.seen = f.seen /\ g.todo = f.todo /\ g.items = f.items /\ g.call = f.call
        /\ pc'[p] = "attempt" => g.outcome \in {"executed", "failed", "approval_required"}
        /\ pc'[p] = "record" => pc[p] = "attempt" /\ g.outcome = f.outcome
        /\ pc'[p] = "step" => pc[p] = "gate" /\ g.outcome = f.outcome
    BY <1>2, <1>4, <1>20
    DEF Invoke, InvokeUnsupported, InvokeGated, InvokeAccepted, InvokeRetryable, Answered, Attempt,
        Gate, Frames, rowVars, toolVars
  <2>2. \A c \in Calls : IsSettled(c) => IsSettled(c)'
    BY <2>1 DEF IsSettled
  <2>3. pc'[p] = "step" => g.outcome = "approval_required"
    BY <1>3, <2>1 DEF CallFits
  <2>4. OrderFits(own, pc[p], frame[p])'
    BY <1>7, <1>12, <2>1, <2>2, <2>3 DEF OrderFits
  <2> QED BY <1>11, <2>1, <2>4
<1>21. CASE Create(p)
  <2>1. /\ pc[p] = "create" /\ pc'[p] = "invoke" /\ f.call \in Calls
        /\ execution[f.call] \in {"absent", "pending", "failed"}
        /\ g.seen = f.seen /\ g.todo = f.todo /\ g.items = f.items /\ g.call = f.call
        /\ execution' = [execution EXCEPT ![f.call] = IF @ = "absent" THEN "pending" ELSE @]
    BY <1>2, <1>3, <1>4, <1>21 DEF Create, CreateToolExecution, CallFits, KnownAt, Frames
  <2>2. \A c \in Calls : IsSettled(c) => IsSettled(c)'
    BY <1>4, <2>1 DEF IsSettled
  <2>3. OrderFits(own, pc[p], frame[p])'
    BY <1>12, <2>1, <2>2
  <2>4. CASE execution[f.call] = "absent"
    <3>1. execution' = [execution EXCEPT ![f.call] = "pending"]
      BY <2>1, <2>4
    <3> QED BY <1>13, <2>1, <2>3, <2>4, <3>1 DEF IsSettled, ToolExecutionStatus
  <2>5. CASE execution[f.call] # "absent"
    <3>1. execution' = execution
      BY <1>4, <2>1, <2>5
    <3> QED BY <1>11, <2>3, <3>1
  <2> QED BY <2>4, <2>5
<1>22. CASE Record(p) \/ Exhaust(p)
  <2>1. /\ pc[p] \in {"record", "exhaust"} /\ pc'[p] \in {"step", "gate"}
        /\ f.call \in Calls /\ execution[f.call] \in {"pending", "failed"}
        /\ g.seen = f.seen /\ g.todo = f.todo /\ g.items = f.items /\ g.call = f.call
        /\ execution' = [execution EXCEPT ![f.call] = g.outcome]
        /\ \/ g.outcome = f.outcome /\ pc[p] = "record"
           \/ g.outcome = "failed" /\ pc[p] = "exhaust"
    BY <1>2, <1>3, <1>4, <1>22
    DEF Record, Exhaust, UpdateToolExecution, CallFits, KnownAt, Frames
  <2>2. /\ g.outcome \in {"executed", "failed", "approval_required"}
        /\ f.call \in Gated <=> g.outcome = "approval_required"
    BY <1>3, <1>7, <2>1 DEF CallFits, OrderFits
  <2>3. IsSettled(f.call) => g.outcome \in {"executed", "failed", "skipped"}
    BY <1>7, <2>1, <2>2 DEF IsSettled, OrderRows
  <2>4. \A c \in Calls : IsSettled(c) => IsSettled(c)'
    BY <1>4, <2>1, <2>3 DEF IsSettled
  <2>5. pc'[p] = "step" /\ g.outcome # "approval_required" => IsSettled(f.call)'
    BY <1>4, <2>1, <2>2 DEF IsSettled
  <2>6. OrderFits(own, pc[p], frame[p])'
    BY <1>12, <2>1, <2>4, <2>5
  <2>7. g.outcome \in ToolExecutionStatus
    BY <2>2 DEF ToolExecutionStatus
  <2> HIDE DEF g
  <2> QED BY <1>13, <2>1, <2>2, <2>3, <2>6, <2>7
<1> QED
  BY <1>14, <1>15, <1>16, <1>17, <1>18, <1>19, <1>20, <1>21, <1>22 DEF HLoopStep, ExecutorStep

orderRows == <<status, execution, meetingItems, text, assembled>>

\* A step that writes none of these rows.
\* A step that writes no row the order is about, but may fail the run.
LEMMA OrderFails ==
  ASSUME OrderInv, NEW p \in Threads, OthersRest(p), UNCHANGED <<execution, meetingItems, text, assembled>>, status' \in {status, "failed"},
         Owns(p)' => OrderFits(OwnPlan(p), pc[p], frame[p])'
  PROVE  OrderInv'
<1>1. PICK heard, said : heard = Heard /\ said = Said
  OBVIOUS
<1>2. heard = Heard' /\ said = Said'
  BY <1>1 DEF Heard, Said
<1>3. OrderRows'
  BY <1>1, <1>2
  DEF OrderInv, OrderRows, SpokenOrder, NothingForgotten, CarriedOut, InOrder, IsSettled
<1>4. ASSUME NEW q \in Threads \ {p}, Owns(q)' PROVE OrderFits(OwnPlan(q), pc[q], frame[q])'
  <2>1. PICK own : own = OwnPlan(q)
    OBVIOUS
  <2>2. own = OwnPlan(q)'
    BY <2>1 DEF OwnPlan, Transcript
  <2>3. pc'[q] = pc[q] /\ frame'[q] = frame[q] /\ Owns(q)
    BY <1>4 DEF OthersRest, Owns
  <2>4. OrderFits(own, pc[q], frame[q])
    BY <2>1, <2>3 DEF OrderInv
  <2>5. OrderFits(own, pc[q], frame[q])'
    BY <2>3, <2>4 DEF OrderFits, InOrder, IsSettled
  <2> QED BY <2>2, <2>5
<1> QED BY <1>3, <1>4 DEF OrderInv

LEMMA OrderRests ==
  ASSUME OrderInv, NEW p \in Threads, OthersRest(p), UNCHANGED orderRows,
         Owns(p)' => OrderFits(OwnPlan(p), pc[p], frame[p])'
  PROVE  OrderInv'
  BY OrderFails DEF orderRows

LEMMA OrderIgnored ==
  ASSUME NEW planned, NEW f,
         NEW l \in {"idle", "transcribe", "publish", "validate", "drain", "execute", "fail",
                    "existing", "misreport", "ack", "check", "inspect", "deliver", "log", "settle",
                    "resolve", "mark", "reopen", "resume"}
  PROVE  OrderFits(planned, l, f)
  BY DEF OrderFits, CallLabels

\* The run ends, or pauses, with the verdict of its loop.
LEMMA OrderFinish ==
  ASSUME OrderInv, NEW p \in Threads, At(p, "finish"), Owns(p), frame[p].verdict \in Verdicts,
         status' = frame[p].verdict, UNCHANGED <<execution, meetingItems, text, assembled>>
  PROVE  OrderRows'
<1>1. PICK own \in {Heard, Said} : own = OwnPlan(p)
  BY DEF OwnPlan, Transcript, Heard, Said
<1>2. OrderFits(own, "finish", frame[p]) /\ OrderRows
  BY <1>1 DEF OrderInv
<1>3. frame[p].verdict = "done" => CarriedOut(own)
  BY <1>2 DEF OrderFits, CarriedOut
<1>4. PICK heard, said : heard = Heard /\ said = Said
  OBVIOUS
<1>5. heard = Heard' /\ said = Said' /\ own \in {heard, said}
  BY <1>1, <1>4 DEF Heard, Said
<1>6. NothingForgotten'
  BY <1>3, <1>5 DEF NothingForgotten, CarriedOut, IsSettled
<1>7. SpokenOrder'
  BY <1>2, <1>4, <1>5 DEF OrderRows, SpokenOrder, InOrder, IsSettled
<1> QED BY <1>2, <1>6, <1>7 DEF OrderRows, Verdicts

LEMMA WorkerOrder ==
  ASSUME text \in Texts, IInv, QueueInv, OrderInv, NEW w \in Workers, HWorkerNext(w),
         UNCHANGED <<resolverVars, text>>
  PROVE  OrderInv'
<1>1. /\ TypeInv /\ OwnInv /\ w \in Threads /\ OrderRows
      /\ pc \in [Threads -> Labels] /\ frame \in [Threads -> Frames] /\ fate \in [Threads -> Fates]
  BY IInvParts DEF TypeInv, TypeOK, ThreadTypeOK, OrderInv
<1>2. OthersRest(w)
  <2>1. WorkerNext(w)
    BY <1>1, LoopRefines DEF HWorkerNext, WorkerNext, WorkerStep
  <2> QED BY <1>1, <2>1, WorkerRests
<1> DEFINE Early == {"transcribe", "publish", "validate", "drain", "execute", "fail", "existing",
                     "misreport", "ack"}
<1>3. ASSUME pc'[w] \in Early PROVE OrderFits(OwnPlan(w), pc[w], frame[w])'
  BY <1>3, OrderIgnored DEF OrderFits, CallLabels
<1>4. CASE Deliver(w) \/ DeliverRaises(w) \/ Transcribe(w) \/ Publish(w)
             \/ WorkerRaises(w) \/ FailRunRaises(w) \/ ReportExisting(w) \/ ReportRaises(w)
  <2>1. pc'[w] \in Early /\ UNCHANGED orderRows
    BY <1>1, <1>4 DEF Deliver, DeliverRaises, Transcribe, Publish, WorkerRaises,
                      FailRunRaises, ReportExisting, ReportRaises, rowVars, jobVars, orderRows
  <2> QED BY <1>1, <1>2, <1>3, <2>1, OrderRests
<1>5. CASE Acknowledge(w) \/ WorkerCrash(w)
  <2>1. ~Owns(w)' /\ UNCHANGED orderRows
    BY <1>1, <1>5 DEF Acknowledge, WorkerCrash, End, Owns, rowVars, orderRows
  <2> QED BY <1>1, <1>2, <2>1, OrderRests
<1>6. CASE Drain(w)
  <2>1. /\ Owns(w) /\ status = "validated" /\ pc'[w] = "execute" /\ UNCHANGED <<status, execution>>
    BY <1>1, <1>6, ThreadAssumption
    DEF Drain, Owns, OwningLabels, ValidatedLabels, OwnInv, SingleOwner, StatusKept, StatusFits,
        rowVars
  <2>2. \A c \in Calls : execution[c] = "absent"
    BY <1>1, <2>1 DEF OrderRows
  <2>3. OrderRows'
    BY <1>1, <2>1, <2>2 DEF OrderRows, SpokenOrder, NothingForgotten
  <2> QED BY <1>1, <1>2, <1>3, <2>1, <2>3, OrderMoves
<1>7. CASE Validate(w) \/ FailRun(w) \/ Execute(w)
  <2>1. /\ Owns(w) /\ UNCHANGED <<execution, meetingItems, text, assembled>>
        /\ \/ status = "pending" /\ status' = "validated"
           \/ status' \in {"executing", "failed"}
    BY <1>1, <1>7, ThreadAssumption
    DEF Validate, FailRun, Execute, UpdateWorkflowStatus, Owns, OwningLabels, PendingLabels,
        ValidatedLabels, OwnInv, SingleOwner, StatusKept, StatusFits, toolVars, jobVars
  <2>2. PICK heard, said : heard = Heard /\ said = Said
    OBVIOUS
  <2>3. heard = Heard' /\ said = Said'
    BY <2>1, <2>2 DEF Heard, Said
  <2>4. OrderRows'
    BY <1>1, <2>1, <2>2, <2>3 DEF OrderRows, NothingForgotten, SpokenOrder, InOrder, IsSettled
  <2>5. \/ pc'[w] \in Early
        \/ pc'[w] = "plan" /\ frame'[w].seen = {}
    <3>1. CASE Validate(w) \/ FailRun(w)
      BY <1>1, <3>1 DEF Validate, FailRun
    <3>2. CASE Execute(w)
      BY <1>1, <3>2, IterationsAssumption DEF Execute, StartRun, Iterate, NoFrame
    <3> QED BY <1>7, <3>1, <3>2
  <2>6. OrderFits(OwnPlan(w), pc[w], frame[w])'
    BY <1>3, <2>5 DEF OrderFits, CallLabels
  <2> QED BY <1>1, <1>2, <2>1, <2>4, <2>6, OrderMoves
<1>8. CASE (HLoopStep(w) \/ SaveMeeting(w)) /\ UNCHANGED jobVars
  BY <1>1, <1>8, LoopOrder
<1>9. CASE FinishRun(w)
  <2>1. /\ Owns(w) /\ At(w, "finish") /\ status' = frame[w].verdict /\ pc'[w] = "ack"
        /\ UNCHANGED <<execution, meetingItems, text, assembled>>
    BY <1>1, <1>9
    DEF FinishRun, UpdateWorkflowStatus, Owns, OwningLabels, ExecutingLabels, LoopLabels, toolVars,
        jobVars
  <2>2. frame[w].verdict \in Verdicts
    BY <1>1, <2>1 DEF TypeInv, FrameOK, KnownAt
  <2>3. OrderRows'
    BY <1>1, <2>1, <2>2, OrderFinish
  <2> QED BY <1>1, <1>2, <1>3, <2>1, <2>3, OrderMoves
<1>10. CASE Misreport(w)
  <2>1. /\ pc'[w] = "ack" /\ status' = "failed"
        /\ UNCHANGED <<execution, meetingItems, text, assembled>>
    BY <1>1, <1>10 DEF Misreport, UpdateWorkflowStatus, toolVars
  <2> QED BY <1>1, <1>2, <1>3, <2>1, OrderFails
<1> QED BY <1>4, <1>5, <1>6, <1>7, <1>8, <1>9, <1>10 DEF HWorkerNext

LEMMA ResolverOrder ==
  ASSUME text \in Texts, IInv, QueueInv, OrderInv, NEW a \in Approvers, HResolverNext(a),
         UNCHANGED text
  PROVE  OrderInv'
<1>1. /\ TypeInv /\ OwnInv /\ RowInv /\ a \in Threads /\ OrderRows
      /\ pc \in [Threads -> Labels] /\ frame \in [Threads -> Frames] /\ fate \in [Threads -> Fates]
      /\ execution \in [Calls -> ToolExecutionStatus \cup {"absent"}]
      /\ (pc[a] # "idle" => target[a] \in Gated)
  BY IInvParts DEF TypeInv, TypeOK, ThreadTypeOK, RowTypeOK, FrameOK, OrderInv
<1>2. OthersRest(a)
  <2>1. ResolverNext(a)
    BY <1>1, LoopRefines DEF HResolverNext, ResolverNext, ResolverStep
  <2> QED BY <1>1, <2>1, ResolverRests
<1>3. /\ \A l \in ResolvingLabels \cup {"resume", "finish"} :
           At(a, l) => Owns(a) /\ Fits(a, l, frame[a])
      /\ \A l \in ResolvingLabels : At(a, l) => LeftAs("awaiting_approval") /\ assembled > 0
  BY <1>1
  DEF Owns, OwningLabels, ExecutingLabels, LoopLabels, OwnInv, SingleOwner, StatusKept, StatusFits,
      LeftAs, RowInv, OwnerFits, QueueInv, ResolversQueued
<1> DEFINE Early == {"check", "inspect", "deliver", "log", "settle", "resolve", "mark", "reopen",
                     "resume"}
<1>4. ASSUME pc'[a] \in Early PROVE OrderFits(OwnPlan(a), pc[a], frame[a])'
  BY <1>4, OrderIgnored DEF OrderFits, CallLabels
<1>5. CASE Open(a) \/ CheckRun(a) \/ Inspect(a) \/ DeliverApproved(a) \/ LogAttempt(a) \/ Resolve(a)
             \/ MarkStep(a) \/ ResolverRaises(a) \/ ResolverCrash(a)
  <2>1. UNCHANGED orderRows
    BY <1>5 DEF Open, CheckRun, Inspect, DeliverApproved, LogAttempt, Resolve, MarkStep,
                ResolverRaises, ResolverCrash, rowVars, runVars, toolVars, jobVars, orderRows
  <2>2. fate'[a] # "running" \/ pc'[a] \in Early
    BY <1>1, <1>5 DEF Open, CheckRun, Inspect, DeliverApproved, LogAttempt, Resolve, MarkStep,
                      ResolverRaises, ResolverCrash, End
  <2>3. Owns(a)' => OrderFits(OwnPlan(a), pc[a], frame[a])'
    BY <1>4, <2>2 DEF Owns
  <2> QED BY <1>1, <1>2, <2>1, <2>3, OrderRests
<1>6. CASE Settle(a)
  <2>1. /\ Owns(a) /\ status \in {"awaiting_approval", "failed"} /\ assembled > 0
        /\ pc'[a] = "resolve" /\ target[a] \in Gated
        /\ execution[target[a]] = "approval_required"
        /\ UNCHANGED <<status, meetingItems, text, assembled>>
    BY <1>1, <1>3, <1>6
    DEF Settle, ResolvingLabels, LeftAs, Fits, ResolverFits, runVars, jobVars
  <2>2. PICK c \in Gated : c = target[a]
    BY <2>1
  <2>3. PICK v \in {"executed", "skipped"} : execution' = [execution EXCEPT ![c] = v]
    BY <1>6, <2>2 DEF Settle, UpdateToolExecution
  <2>4. \A d \in Calls : IsSettled(d) => IsSettled(d)'
    BY <1>1, <2>3 DEF IsSettled
  <2>5. \A d \in Calls : execution'[d] # "absent" => execution[d] # "absent"
    BY <1>1, <2>1, <2>2, <2>3
  <2>6. SpokenOrder'
    BY <1>1, <2>1, <2>4, <2>5, SpokenKept DEF OrderRows
  <2>7. \A d \in Gated : execution'[d] # "failed"
    BY <1>1, <2>3, GatedAssumption DEF OrderRows
  <2>8. OrderRows'
    BY <2>1, <2>6, <2>7 DEF OrderRows, NothingForgotten
  <2> QED BY <1>1, <1>2, <1>4, <2>1, <2>8, OrderMoves
<1>7. CASE Reopen(a)
  <2>1. /\ Owns(a) /\ status' = "executing" /\ pc'[a] = "resume"
        /\ UNCHANGED <<execution, meetingItems, text, assembled>>
    BY <1>1, <1>3, <1>7 DEF Reopen, UpdateWorkflowStatus, ResolvingLabels, toolVars, jobVars
  <2>2. PICK heard, said : heard = Heard /\ said = Said
    OBVIOUS
  <2>3. heard = Heard' /\ said = Said'
    BY <2>1, <2>2 DEF Heard, Said
  <2>4. OrderRows'
    BY <1>1, <2>1, <2>2, <2>3 DEF OrderRows, NothingForgotten, SpokenOrder, InOrder, IsSettled
  <2> QED BY <1>1, <1>2, <1>4, <2>1, <2>4, OrderMoves
<1>8. CASE Resume(a)
  <2>1. UNCHANGED orderRows /\ NoneWaiting
    BY <1>1, <1>3, <1>8 DEF Resume, rowVars, jobVars, orderRows, Fits, OpenFits, QuietLabels
  <2> DEFINE seen == {c \in Calls : execution[c] \in Reusable}
             f == [NoFrame EXCEPT !.seen = seen, !.items = lastPlan]
  <2>2. \A c \in seen : IsSettled(c)
    BY <1>1, <2>1 DEF NoneWaiting, RowInv, RowsAgree, Reusable, IsSettled
  <2>3. f \in Frames /\ f.seen = seen
    BY <1>1 DEF NoFrame, Frames, TypeInv, TypeOK, RowTypeOK
  <2>4. Iterate(a, f, iterationCount + 1)
    BY <1>8 DEF Resume, StartResume
  <2> HIDE DEF f
  <2>5. \/ pc'[a] = "plan" /\ frame'[a].seen = seen
        \/ pc'[a] = "save" /\ frame'[a].verdict = "failed"
    BY <1>1, <2>3, <2>4 DEF Iterate, Conclude, Frames
  <2>6. \A c \in seen : IsSettled(c)'
    BY <2>1, <2>2 DEF IsSettled, orderRows
  <2> HIDE DEF seen
  <2>7. OrderFits(OwnPlan(a), pc[a], frame[a])'
    BY <2>5, <2>6 DEF OrderFits, CallLabels
  <2> QED BY <1>1, <1>2, <2>1, <2>7, OrderRests
<1>9. CASE (HLoopStep(a) \/ SaveMeeting(a)) /\ UNCHANGED <<jobVars, resolverVars>>
  BY <1>1, <1>9, LoopOrder
<1>10. CASE FinishResolve(a)
  <2>1. /\ Owns(a) /\ At(a, "finish") /\ status' = frame[a].verdict /\ ~Owns(a)'
        /\ UNCHANGED <<execution, meetingItems, text, assembled>>
    BY <1>1, <1>3, <1>10
    DEF FinishResolve, UpdateWorkflowStatus, End, Owns, toolVars, jobVars
  <2>2. frame[a].verdict \in Verdicts
    BY <1>1, <2>1 DEF TypeInv, FrameOK, KnownAt
  <2>3. OrderRows'
    BY <1>1, <2>1, <2>2, OrderFinish
  <2> QED BY <1>1, <1>2, <2>1, <2>3, OrderMoves
<1> QED BY <1>5, <1>6, <1>7, <1>8, <1>9, <1>10 DEF HResolverNext

LEMMA OrderInit == HInit => OrderInv
  BY GatedAssumption
  DEF HInit, Init, RowInit, ThreadInit, OrderInv, OrderRows, SpokenOrder, NothingForgotten, Owns,
      OwningLabels, PendingLabels, ValidatedLabels, ExecutingLabels, ResolvingLabels, LoopLabels

LEMMA OrderStep ==
  text \in Texts /\ IInv /\ QueueInv /\ OrderInv /\ [HNext]_heuristicVars => OrderInv'
<1> SUFFICES ASSUME text \in Texts, IInv, QueueInv, OrderInv, [HNext]_heuristicVars PROVE OrderInv'
  OBVIOUS
<1>1. CASE (Enqueue /\ UNCHANGED resolverVars /\ UNCHANGED text) \/ UNCHANGED heuristicVars
  <2>1. UNCHANGED <<pc, fate, frame, orderRows>>
    BY <1>1 DEF Enqueue, heuristicVars, vars, threadVars, rowVars, jobVars, orderRows
  <2>2. PICK heard, said : heard = Heard /\ said = Said
    OBVIOUS
  <2>3. heard = Heard' /\ said = Said' /\ \A p \in Threads : OwnPlan(p)' = OwnPlan(p)
    BY <2>1, <2>2 DEF Heard, Said, OwnPlan, Transcript, orderRows
  <2>4. OrderRows'
    BY <2>1, <2>2, <2>3
    DEF OrderInv, OrderRows, SpokenOrder, NothingForgotten, CarriedOut, InOrder, IsSettled, orderRows
  <2>5. ASSUME NEW p \in Threads, Owns(p)' PROVE OrderFits(OwnPlan(p), pc[p], frame[p])'
    <3>1. PICK own : own = OwnPlan(p) /\ own = OwnPlan(p)'
      BY <2>3
    <3>2. OrderFits(own, pc[p], frame[p])
      BY <2>1, <2>5, <3>1 DEF OrderInv, Owns
    <3>3. OrderFits(own, pc[p], frame[p])'
      BY <2>1, <3>2 DEF OrderFits, InOrder, IsSettled, orderRows
    <3> QED BY <3>1, <3>3
  <2> QED BY <2>4, <2>5 DEF OrderInv
<1> QED BY <1>1, WorkerOrder, ResolverOrder DEF HNext

-----------------------------------------------------------------------------
(* The budget: a loop spends its first iteration on what is left of its    *)
(* plan, which may end in a pause, and a second one only to find nothing.  *)

\* The calls a run has paused for.
Waited == {c \in Gated : request[c] # "absent"}

Pauses == Cardinality(Waited)

BudgetRows ==
  /\ status \in {"pending", "validated"} => Waited = {}
  /\ status = "awaiting_approval" => iterationCount = Pauses
  /\ BudgetEnough

BudgetFits(planned, label, f) ==
  /\ label \in {"resume"} \cup ResolvingLabels => iterationCount = Pauses
  /\ label \in {"plan", "count", "pick"} =>
       \/ f.iteration = Pauses + 1
       \/ /\ f.iteration = Pauses + 2
          /\ ToSet(Asked(planned)) \subseteq f.seen
          /\ label = "plan" \/ ~f.progress
  /\ label \in CallLabels =>
       f.iteration = IF label = "step" /\ f.outcome = "approval_required" THEN Pauses
                                                                          ELSE Pauses + 1
  /\ label \in {"save", "finish"} =>
       /\ f.verdict = "awaiting_approval" => iterationCount = Pauses
       /\ f.verdict = "failed" => MaxIterations <= 1 + Pauses

BudgetInv ==
  /\ BudgetRows
  /\ \A p \in Threads : Owns(p) => BudgetFits(OwnPlan(p), pc[p], frame[p])

budgetRows == <<status, failureReason, iterationCount, text, assembled>>

LEMMA PausesSame ==
  ASSUME \A c \in Gated : request'[c] = "absent" <=> request[c] = "absent"
  PROVE  Waited' = Waited /\ Pauses' = Pauses
<1>1. Waited' = Waited
  BY DEF Waited
<1> QED BY <1>1 DEF Pauses

LEMMA PausesType ==
  ASSUME IsFiniteSet(Gated)
  PROVE  Pauses \in Nat /\ (Waited = {} => Pauses = 0)
<1>1. IsFiniteSet(Waited)
  BY FS_Subset DEF Waited
<1> QED BY <1>1, FS_CardinalityType, FS_EmptySet DEF Pauses

LEMMA PausesGrow ==
  ASSUME IsFiniteSet(Gated), NEW c \in Gated, request[c] = "absent", request'[c] # "absent",
         \A d \in Gated \ {c} : request'[d] = request[d]
  PROVE  Pauses' = Pauses + 1
<1>1. Waited' = Waited \cup {c} /\ c \notin Waited
  BY DEF Waited
<1>2. IsFiniteSet(Waited)
  BY FS_Subset DEF Waited
<1> QED BY <1>1, <1>2, FS_AddElement DEF Pauses

LEMMA BudgetMoves ==
  ASSUME OwnInv, NEW p \in Threads, Owns(p), OthersRest(p), BudgetRows',
         Owns(p)' => BudgetFits(OwnPlan(p), pc[p], frame[p])'
  PROVE  BudgetInv'
<1>1. ASSUME NEW q \in Threads, Owns(q)' PROVE q = p
  BY <1>1 DEF OwnInv, SingleOwner, Owns, OthersRest
<1> QED BY <1>1 DEF BudgetInv

\* A step that writes no row the budget is about, but may fail the run.
LEMMA BudgetFails ==
  ASSUME BudgetInv, NEW p \in Threads, OthersRest(p), UNCHANGED <<iterationCount, text, assembled>>,
         UNCHANGED <<status, failureReason>> \/ (status' = "failed" /\ failureReason'),
         Waited' = Waited, Owns(p)' => BudgetFits(OwnPlan(p), pc[p], frame[p])'
  PROVE  BudgetInv'
<1>1. Pauses' = Pauses
  BY DEF Pauses
<1>2. BudgetRows'
  BY <1>1 DEF BudgetInv, BudgetRows, BudgetEnough, Pauses, Waited
<1>3. ASSUME NEW q \in Threads \ {p}, Owns(q)' PROVE BudgetFits(OwnPlan(q), pc[q], frame[q])'
  <2>1. PICK own : own = OwnPlan(q)
    OBVIOUS
  <2>2. own = OwnPlan(q)'
    BY <2>1 DEF OwnPlan, Transcript
  <2>3. pc'[q] = pc[q] /\ frame'[q] = frame[q] /\ Owns(q)
    BY <1>3 DEF OthersRest, Owns
  <2>4. BudgetFits(own, pc[q], frame[q])
    BY <2>1, <2>3 DEF BudgetInv
  <2>5. BudgetFits(own, pc[q], frame[q])'
    BY <1>1, <2>3, <2>4 DEF BudgetFits
  <2> QED BY <2>2, <2>5
<1> QED BY <1>2, <1>3 DEF BudgetInv

LEMMA BudgetRests ==
  ASSUME BudgetInv, NEW p \in Threads, OthersRest(p), UNCHANGED budgetRows,
         Waited' = Waited, Owns(p)' => BudgetFits(OwnPlan(p), pc[p], frame[p])'
  PROVE  BudgetInv'
  BY BudgetFails DEF budgetRows

LEMMA BudgetIgnored ==
  ASSUME NEW planned, NEW f,
         NEW l \in {"idle", "transcribe", "publish", "validate", "drain", "execute", "fail",
                    "existing", "misreport", "ack", "check"}
  PROVE  BudgetFits(planned, l, f)
  BY DEF BudgetFits, CallLabels, ResolvingLabels

LEMMA LoopBudget ==
  ASSUME IsFiniteSet(Gated), text \in Texts, IInv, QueueInv, HistoryInv, FailedBehind,
         OrderInv, BudgetInv, NEW p \in Threads, HLoopStep(p) \/ SaveMeeting(p),
         UNCHANGED <<jobVars, resolverVars, text>>
  PROVE  BudgetInv'
<1> DEFINE f == frame[p]
           g == frame'[p]
<1>1. /\ TypeInv /\ OwnInv /\ RowInv /\ (LoopStep(p) \/ SaveMeeting(p))
      /\ UNCHANGED <<text, assembled>>
  BY IInvParts, LoopRefines DEF jobVars, IInv, OwnInv, RowInv
<1>2. /\ pc \in [Threads -> Labels] /\ fate[p] = "running" /\ pc[p] \in LoopLabels
      /\ OthersRest(p) /\ status' = status /\ failureReason' = failureReason
  BY <1>1, LoopStays, LoopRests DEF TypeInv, TypeOK, ThreadTypeOK
<1>3. /\ Owns(p) /\ KnownAt(pc[p], f) /\ CallFits(pc[p], f) /\ OpenFits(pc[p], f)
      /\ status = "executing" \/ (status = "failed" /\ failureReason)
  BY <1>1, <1>2, LoopOwner DEF LeftAs, FailedBehind
<1>4. /\ frame \in [Threads -> Frames] /\ f \in Frames /\ f.seen \subseteq Calls
      /\ f.iteration \in Nat /\ iterationCount \in Nat /\ Pauses \in Nat /\ MaxIterations \in Nat
      /\ request \in [Calls -> ApprovalRequestStatus \cup {"absent"}]
  BY <1>1, PausesType, IterationsAssumption
  DEF TypeInv, TypeOK, ThreadTypeOK, RowTypeOK, Frames
<1>5. PICK own : own = OwnPlan(p)
  OBVIOUS
<1>6. own = OwnPlan(p)'
  BY <1>1, <1>5 DEF OwnPlan, Transcript
<1>7. OrderFits(own, pc[p], f) /\ BudgetFits(own, pc[p], f) /\ HistoryFits(p, pc[p], f)
  BY <1>3, <1>5 DEF OrderInv, BudgetInv, HistoryInv
<1>8. Asked(own) = Validated(p)
  BY <1>5 DEF OwnPlan, Asked, Validated
<1>9. ASSUME BudgetFits(own, pc[p], frame[p])' PROVE BudgetInv'
  <2>1. BudgetRows'
    BY <1>2, <1>3 DEF BudgetRows, BudgetEnough
  <2>2. BudgetFits(OwnPlan(p), pc[p], frame[p])'
    BY <1>6, <1>9
  <2> QED BY <1>1, <1>2, <1>3, <2>1, <2>2, BudgetMoves
<1>10. ASSUME request' = request PROVE Pauses' = Pauses
  BY <1>10, PausesSame
<1> USE DEF CallLabels, ResolvingLabels
<1>11. CASE HPlan(p)
  <2>1. /\ pc[p] = "plan" /\ pc'[p] = "count" /\ Pauses' = Pauses
        /\ g.seen = f.seen /\ g.iteration = f.iteration /\ g.progress = FALSE
    BY <1>2, <1>4, <1>10, <1>11 DEF HPlan, Frames
  <2>2. BudgetFits(own, pc[p], frame[p])'
    BY <1>7, <2>1 DEF BudgetFits
  <2> QED BY <1>9, <2>2
<1>12. CASE Count(p)
  <2>1. /\ pc[p] = "count" /\ Pauses' = Pauses
        /\ \/ pc'[p] = "save" /\ g.verdict = "done"
           \/ pc'[p] = "pick" /\ g = f
    BY <1>2, <1>4, <1>10, <1>12 DEF Count, Conclude, Frames
  <2>2. BudgetFits(own, pc[p], frame[p])'
    BY <1>7, <2>1 DEF BudgetFits
  <2> QED BY <1>9, <2>2
<1>13. CASE HPick(p)
  <2>1. PICK i \in DOMAIN Asked(own) : Asked(own)[i] \in f.todo \ f.seen /\ Lookup(p, Asked(own)[i])
    BY <1>8, <1>13 DEF HPick
  <2>2. PICK c : c = Asked(own)[i]
    OBVIOUS
  <2>3. pc[p] = "pick" /\ Pauses' = Pauses /\ c \in ToSet(Asked(own)) /\ c \notin f.seen
    BY <1>10, <1>13, <2>1, <2>2 DEF HPick, rowVars, ToSet
  <2>4. f.iteration = Pauses + 1
    BY <1>7, <2>3 DEF BudgetFits
  <2>5. execution[c] # "approval_required"
    <3>1. NoneWaiting
      BY <1>3, <2>3 DEF OpenFits, QuietLabels
    <3>2. c \in Calls
      BY <1>4, <2>1, <2>2 DEF Frames
    <3> QED BY <1>1, <3>1, <3>2 DEF NoneWaiting, RowInv, RowsAgree
  <2>6. /\ g.iteration = f.iteration
        /\ \/ pc'[p] = "create"
           \/ pc'[p] = "step" /\ g.outcome = execution[c]
    BY <1>2, <1>4, <2>1, <2>2 DEF Lookup, Frames
  <2>7. BudgetFits(own, pc[p], frame[p])'
    BY <2>3, <2>4, <2>5, <2>6 DEF BudgetFits
  <2> QED BY <1>9, <2>7
<1>14. CASE EndIteration(p)
  <2>1. /\ pc[p] = "pick" /\ Pauses' = Pauses /\ ToSet(Asked(own)) \subseteq f.seen
    BY <1>7, <1>10, <1>14 DEF EndIteration, rowVars, OrderFits
  <2>2. CASE f.progress
    <3>1. f.iteration = Pauses + 1
      BY <1>7, <2>1, <2>2 DEF BudgetFits
    <3>2. Iterate(p, f, f.iteration + 1)
      BY <1>14, <2>2 DEF EndIteration
    <3>3. \/ pc'[p] = "plan" /\ g.iteration = f.iteration + 1 /\ g.seen = f.seen
          \/ pc'[p] = "save" /\ g.verdict = "failed" /\ f.iteration + 1 > MaxIterations
      BY <1>2, <1>4, <3>2 DEF Iterate, Conclude, Frames
    <3>4. BudgetFits(own, pc[p], frame[p])'
      BY <1>4, <2>1, <3>1, <3>3 DEF BudgetFits
    <3> QED BY <1>9, <3>4
  <2>3. CASE ~f.progress
    <3>1. pc'[p] = "save" /\ g.verdict = "done"
      BY <1>2, <1>4, <1>14, <2>3 DEF EndIteration, Conclude, Frames
    <3>2. BudgetFits(own, pc[p], frame[p])'
      BY <3>1 DEF BudgetFits
    <3> QED BY <1>9, <3>2
  <2> QED BY <2>2, <2>3
<1>15. CASE Step(p)
  <2> DEFINE h == [f EXCEPT !.seen = @ \cup {f.call}, !.progress = @ \/ ~f.reused]
  <2>1. /\ pc[p] = "step" /\ Pauses' = Pauses /\ f.call \in Calls /\ f.iteration = iterationCount
        /\ iterationCount' = iterationCount
    BY <1>3, <1>7, <1>10, <1>15 DEF Step, KnownAt, HistoryFits, historyVars
  <2>2. h \in Frames /\ h.iteration = f.iteration /\ h.outcome = f.outcome
    BY <1>4, <2>1 DEF Frames
  <2> HIDE DEF h
  <2>3. \/ h.outcome = "approval_required" /\ Conclude(p, h, "awaiting_approval")
        \/ h.outcome # "approval_required" /\ Goto(p, "pick") /\ frame' = [frame EXCEPT ![p] = h]
    BY <1>15 DEF Step, h
  <2>4. \/ pc'[p] = "save" /\ g.verdict = "awaiting_approval" /\ f.outcome = "approval_required"
        \/ pc'[p] = "pick" /\ g = h /\ f.outcome # "approval_required"
    BY <1>2, <1>4, <2>2, <2>3 DEF Conclude, Frames
  <2>5. BudgetFits(own, pc[p], frame[p])'
    BY <1>7, <2>1, <2>2, <2>4 DEF BudgetFits
  <2> QED BY <1>9, <2>5
<1>16. CASE SaveMeeting(p)
  <2>1. pc[p] = "save" /\ pc'[p] = "finish" /\ g = f /\ Pauses' = Pauses /\ iterationCount' = iterationCount
    BY <1>2, <1>10, <1>16 DEF SaveMeeting, historyVars
  <2>2. BudgetFits(own, pc[p], frame[p])'
    BY <1>7, <2>1 DEF BudgetFits
  <2> QED BY <1>9, <2>2
<1>17. CASE Gate(p)
  <2>1. /\ pc[p] = "gate" /\ pc'[p] = "step" /\ g = f
        /\ f.call \in Gated /\ request[f.call] = "absent" /\ f.outcome = "approval_required"
    BY <1>2, <1>3, <1>17 DEF Gate, CallFits
  <2>2. PICK c \in Gated : c = f.call
    BY <2>1
  <2>3. request' = [request EXCEPT ![c] = "pending"]
    BY <1>4, <1>17, <2>1, <2>2 DEF Gate, CreateApprovalRequest
  <2>4. Pauses' = Pauses + 1
    BY <1>4, <2>1, <2>2, <2>3, GatedAssumption, PausesGrow
  <2>5. BudgetFits(own, pc[p], frame[p])'
    BY <1>7, <2>1, <2>4 DEF BudgetFits
  <2> QED BY <1>9, <2>5
<1>18. CASE Create(p) \/ Invoke(p) \/ Attempt(p) \/ Record(p) \/ Exhaust(p)
  <2>1. /\ pc[p] \in CallLabels \ {"step"} /\ g.iteration = f.iteration /\ request' = request
        /\ pc'[p] \in CallLabels
        /\ pc'[p] = "step" => g.outcome # "approval_required"
    BY <1>2, <1>4, <1>18
    DEF Create, Invoke, InvokeUnsupported, InvokeGated, InvokeAccepted, InvokeRetryable, Answered,
        Attempt, Record, Exhaust, Frames, rowVars
  <2>2. BudgetFits(own, pc[p], frame[p])'
    BY <1>7, <1>10, <2>1 DEF BudgetFits
  <2> QED BY <1>9, <2>2
<1> QED
  BY <1>11, <1>12, <1>13, <1>14, <1>15, <1>16, <1>17, <1>18 DEF HLoopStep, ExecutorStep

\* The run ends, or pauses, with the verdict of its loop.
LEMMA BudgetFinish ==
  ASSUME BudgetInv, NEW p \in Threads, At(p, "finish"), Owns(p), frame[p].verdict \in Verdicts,
         status' = frame[p].verdict, UNCHANGED <<iterationCount, request>>
  PROVE  BudgetRows'
<1>1. PICK own : own = OwnPlan(p)
  OBVIOUS
<1>2. BudgetFits(own, "finish", frame[p])
  BY <1>1 DEF BudgetInv
<1>3. Pauses' = Pauses
  BY PausesSame
<1> QED BY <1>2, <1>3 DEF BudgetFits, BudgetRows, BudgetEnough, Verdicts, Pauses, Waited

LEMMA WorkerBudget ==
  ASSUME IsFiniteSet(Gated), text \in Texts, IInv, QueueInv, HistoryInv, FailedBehind,
         OrderInv, BudgetInv, NEW w \in Workers, HWorkerNext(w), UNCHANGED <<resolverVars, text>>
  PROVE  BudgetInv'
<1>1. /\ TypeInv /\ OwnInv /\ w \in Threads /\ BudgetRows
      /\ pc \in [Threads -> Labels] /\ frame \in [Threads -> Frames] /\ fate \in [Threads -> Fates]
  BY IInvParts DEF TypeInv, TypeOK, ThreadTypeOK, BudgetInv
<1>2. OthersRest(w)
  <2>1. WorkerNext(w)
    BY <1>1, LoopRefines DEF HWorkerNext, WorkerNext, WorkerStep
  <2> QED BY <1>1, <2>1, WorkerRests
<1> DEFINE Early == {"transcribe", "publish", "validate", "drain", "execute", "fail", "existing",
                     "misreport", "ack"}
<1>3. ASSUME pc'[w] \in Early PROVE BudgetFits(OwnPlan(w), pc[w], frame[w])'
  BY <1>3, BudgetIgnored DEF BudgetFits, CallLabels, ResolvingLabels
<1>4. ASSUME request' = request PROVE Waited' = Waited /\ Pauses' = Pauses
  BY <1>4, PausesSame
<1>5. CASE Deliver(w) \/ DeliverRaises(w) \/ Transcribe(w) \/ Publish(w)
             \/ WorkerRaises(w) \/ FailRunRaises(w) \/ ReportExisting(w) \/ ReportRaises(w)
  <2>1. pc'[w] \in Early /\ UNCHANGED budgetRows /\ request' = request
    BY <1>1, <1>5 DEF Deliver, DeliverRaises, Transcribe, Publish, WorkerRaises,
                      FailRunRaises, ReportExisting, ReportRaises, rowVars, jobVars, budgetRows
  <2> QED BY <1>1, <1>2, <1>3, <1>4, <2>1, BudgetRests
<1>6. CASE Acknowledge(w) \/ WorkerCrash(w)
  <2>1. ~Owns(w)' /\ UNCHANGED budgetRows /\ request' = request
    BY <1>1, <1>6 DEF Acknowledge, WorkerCrash, End, Owns, rowVars, budgetRows
  <2> QED BY <1>1, <1>2, <1>4, <2>1, BudgetRests
<1>7. CASE Drain(w) \/ Validate(w) \/ FailRun(w)
  <2>1. /\ Owns(w) /\ pc'[w] \in Early /\ request' = request
        /\ \/ status = "validated" /\ status' = "validated"
           \/ status = "pending" /\ status' = "validated"
           \/ status' = "failed" /\ failureReason'
    BY <1>1, <1>7, ThreadAssumption
    DEF Drain, Validate, FailRun, UpdateWorkflowStatus, Owns, OwningLabels, PendingLabels,
        ValidatedLabels, OwnInv, SingleOwner, StatusKept, StatusFits, rowVars
  <2>2. BudgetRows'
    BY <1>1, <1>4, <2>1 DEF BudgetRows, BudgetEnough
  <2> QED BY <1>1, <1>2, <1>3, <2>1, <2>2, BudgetMoves
<1>8. CASE Execute(w)
  <2>1. /\ Owns(w) /\ status = "validated" /\ status' = "executing" /\ request' = request
        /\ pc'[w] = "plan" /\ frame'[w].iteration = 1
    BY <1>1, <1>8, IterationsAssumption, ThreadAssumption
    DEF Execute, UpdateWorkflowStatus, StartRun, Iterate, NoFrame, Owns, OwningLabels,
        ValidatedLabels, OwnInv, SingleOwner, StatusKept, StatusFits
  <2>2. Pauses' = 0
    BY <1>1, <1>4, <2>1, PausesType DEF BudgetRows
  <2>3. BudgetRows'
    BY <2>1 DEF BudgetRows, BudgetEnough
  <2>4. BudgetFits(OwnPlan(w), pc[w], frame[w])'
    BY <2>1, <2>2 DEF BudgetFits, CallLabels, ResolvingLabels
  <2> QED BY <1>1, <1>2, <2>1, <2>3, <2>4, BudgetMoves
<1>9. CASE (HLoopStep(w) \/ SaveMeeting(w)) /\ UNCHANGED jobVars
  BY <1>1, <1>9, LoopBudget
<1>10. CASE FinishRun(w)
  <2>1. /\ Owns(w) /\ At(w, "finish") /\ status' = frame[w].verdict /\ pc'[w] = "ack"
        /\ UNCHANGED <<iterationCount, request>>
    BY <1>1, <1>10
    DEF FinishRun, UpdateWorkflowStatus, Owns, OwningLabels, ExecutingLabels, LoopLabels, historyVars
  <2>2. frame[w].verdict \in Verdicts
    BY <1>1, <2>1 DEF TypeInv, FrameOK, KnownAt
  <2>3. BudgetRows'
    BY <1>1, <2>1, <2>2, BudgetFinish
  <2> QED BY <1>1, <1>2, <1>3, <2>1, <2>3, BudgetMoves
<1>11. CASE Misreport(w)
  <2>1. /\ pc'[w] = "ack" /\ status' = "failed" /\ failureReason'
        /\ UNCHANGED <<iterationCount, text, assembled, request>>
    BY <1>1, <1>11 DEF Misreport, UpdateWorkflowStatus, historyVars
  <2> QED BY <1>1, <1>2, <1>3, <1>4, <2>1, BudgetFails
<1> QED BY <1>5, <1>6, <1>7, <1>8, <1>9, <1>10, <1>11 DEF HWorkerNext

LEMMA ResolverBudget ==
  ASSUME IsFiniteSet(Gated), text \in Texts, IInv, QueueInv, HistoryInv, FailedBehind,
         OrderInv, BudgetInv, NEW a \in Approvers, HResolverNext(a), UNCHANGED text
  PROVE  BudgetInv'
<1>1. /\ TypeInv /\ OwnInv /\ RowInv /\ a \in Threads /\ BudgetRows
      /\ pc \in [Threads -> Labels] /\ frame \in [Threads -> Frames] /\ fate \in [Threads -> Fates]
      /\ request \in [Calls -> ApprovalRequestStatus \cup {"absent"}]
      /\ (pc[a] # "idle" => target[a] \in Gated)
      /\ iterationCount \in Nat /\ Pauses \in Nat /\ MaxIterations \in Nat
  BY IInvParts, PausesType, IterationsAssumption
  DEF TypeInv, TypeOK, ThreadTypeOK, RowTypeOK, FrameOK, BudgetInv
<1>2. OthersRest(a)
  <2>1. ResolverNext(a)
    BY <1>1, LoopRefines DEF HResolverNext, ResolverNext, ResolverStep
  <2> QED BY <1>1, <2>1, ResolverRests
<1>3. \A l \in ResolvingLabels \cup {"resume", "finish"} :
        At(a, l) => /\ Owns(a) /\ Fits(a, l, frame[a])
                    /\ l # "finish" => iterationCount = Pauses
  BY <1>1
  DEF Owns, OwningLabels, ExecutingLabels, LoopLabels, RowInv, OwnerFits, BudgetInv, BudgetFits,
      ResolvingLabels
<1> DEFINE Early == {"inspect", "deliver", "log", "settle", "resolve", "mark", "reopen"}
<1>4. ASSUME pc'[a] \in Early, iterationCount' = Pauses'
      PROVE  BudgetFits(OwnPlan(a), pc[a], frame[a])'
  BY <1>4 DEF BudgetFits, CallLabels, ResolvingLabels
<1>5. ASSUME request' = request PROVE Waited' = Waited /\ Pauses' = Pauses
  BY <1>5, PausesSame
<1>6. CASE Open(a) \/ CheckRun(a) \/ Inspect(a) \/ DeliverApproved(a) \/ LogAttempt(a) \/ Settle(a)
             \/ MarkStep(a) \/ ResolverRaises(a) \/ ResolverCrash(a)
  <2>1. UNCHANGED budgetRows /\ request' = request
    BY <1>6 DEF Open, CheckRun, Inspect, DeliverApproved, LogAttempt, Settle, MarkStep,
                ResolverRaises, ResolverCrash, rowVars, runVars, historyVars, jobVars, budgetRows
  <2>2. \/ fate'[a] # "running" \/ pc'[a] = "check"
        \/ pc'[a] \in Early /\ iterationCount = Pauses
    <3>1. CASE CheckRun(a)
      BY <1>1, <3>1 DEF CheckRun, End, BudgetRows
    <3>2. CASE ~CheckRun(a)
      BY <1>1, <1>3, <1>6, <3>2
      DEF Open, Inspect, DeliverApproved, LogAttempt, Settle, MarkStep, ResolverRaises,
          ResolverCrash, End, ResolvingLabels
    <3> QED BY <3>1, <3>2
  <2>3. Owns(a)' => BudgetFits(OwnPlan(a), pc[a], frame[a])'
    BY <1>4, <1>5, <2>1, <2>2
    DEF Owns, OwningLabels, PendingLabels, ValidatedLabels, ExecutingLabels, ResolvingLabels,
        LoopLabels, budgetRows
  <2> QED BY <1>1, <1>2, <1>5, <2>1, <2>3, BudgetRests
<1>7. CASE Resolve(a)
  <2>1. /\ UNCHANGED budgetRows /\ target[a] \in Gated /\ request[target[a]] = "pending"
        /\ pc'[a] = "mark"
    BY <1>1, <1>3, <1>7
    DEF Resolve, ResolvingLabels, Fits, ResolverFits, runVars, historyVars, jobVars, budgetRows
  <2>2. PICK c \in Gated : c = target[a]
    BY <2>1
  <2>3. PICK v \in {"approved", "rejected"} : request' = [request EXCEPT ![c] = v]
    BY <1>7, <2>2 DEF Resolve, ResolveApprovalRequest
  <2>4. \A d \in Gated : request'[d] = "absent" <=> request[d] = "absent"
    BY <1>1, <2>1, <2>2, <2>3, GatedAssumption
  <2>5. Waited' = Waited /\ Pauses' = Pauses
    BY <2>4, PausesSame
  <2>6. iterationCount' = Pauses'
    BY <1>3, <1>7, <2>1, <2>5 DEF Resolve, ResolvingLabels, budgetRows
  <2> QED BY <1>1, <1>2, <1>4, <2>1, <2>5, <2>6, BudgetRests
<1>8. CASE Reopen(a)
  <2>1. /\ Owns(a) /\ iterationCount = Pauses /\ status' = "executing" /\ pc'[a] = "resume"
        /\ UNCHANGED <<iterationCount, request>>
    BY <1>1, <1>3, <1>8
    DEF Reopen, UpdateWorkflowStatus, ResolvingLabels, historyVars
  <2>2. BudgetRows'
    BY <2>1 DEF BudgetRows, BudgetEnough
  <2>3. BudgetFits(OwnPlan(a), pc[a], frame[a])'
    BY <1>5, <2>1 DEF BudgetFits, CallLabels, ResolvingLabels
  <2> QED BY <1>1, <1>2, <2>1, <2>2, <2>3, BudgetMoves
<1>9. CASE Resume(a)
  <2>1. /\ UNCHANGED budgetRows /\ request' = request /\ Owns(a) /\ pc[a] = "resume"
    BY <1>3, <1>9 DEF Resume, rowVars, jobVars, budgetRows
  <2>2. iterationCount = Pauses
    BY <2>1 DEF BudgetInv, BudgetFits
  <2> DEFINE f == [NoFrame EXCEPT !.seen = {c \in Calls : execution[c] \in Reusable}, !.items = lastPlan]
  <2>3. f \in Frames
    BY <1>1 DEF NoFrame, Frames, TypeInv, TypeOK, RowTypeOK
  <2>4. Iterate(a, f, iterationCount + 1)
    BY <1>9 DEF Resume, StartResume
  <2> HIDE DEF f
  <2>5. \/ pc'[a] = "plan" /\ frame'[a].iteration = iterationCount + 1
        \/ pc'[a] = "save" /\ frame'[a].verdict = "failed" /\ iterationCount + 1 > MaxIterations
    BY <1>1, <2>3, <2>4 DEF Iterate, Conclude, Frames
  <2>6. BudgetFits(OwnPlan(a), pc[a], frame[a])'
    BY <1>1, <1>5, <2>1, <2>2, <2>5 DEF BudgetFits, CallLabels, ResolvingLabels
  <2> QED BY <1>1, <1>2, <1>5, <2>1, <2>6, BudgetRests
<1>10. CASE (HLoopStep(a) \/ SaveMeeting(a)) /\ UNCHANGED <<jobVars, resolverVars>>
  BY <1>1, <1>10, LoopBudget
<1>11. CASE FinishResolve(a)
  <2>1. /\ Owns(a) /\ At(a, "finish") /\ status' = frame[a].verdict /\ ~Owns(a)'
        /\ UNCHANGED <<iterationCount, request>>
    BY <1>1, <1>3, <1>11
    DEF FinishResolve, UpdateWorkflowStatus, End, Owns, historyVars
  <2>2. frame[a].verdict \in Verdicts
    BY <1>1, <2>1 DEF TypeInv, FrameOK, KnownAt
  <2>3. BudgetRows'
    BY <1>1, <2>1, <2>2, BudgetFinish
  <2> QED BY <1>1, <1>2, <2>1, <2>3, BudgetMoves
<1> QED BY <1>6, <1>7, <1>8, <1>9, <1>10, <1>11 DEF HResolverNext

LEMMA BudgetInit == HInit => BudgetInv
  BY GatedAssumption
  DEF HInit, Init, RowInit, ThreadInit, BudgetInv, BudgetRows, BudgetEnough, Waited, Owns,
      OwningLabels, PendingLabels, ValidatedLabels, ExecutingLabels, ResolvingLabels, LoopLabels

LEMMA BudgetStep ==
  ASSUME IsFiniteSet(Gated)
  PROVE  text \in Texts /\ IInv /\ QueueInv /\ HistoryInv /\ FailedBehind /\ OrderInv /\ BudgetInv
           /\ [HNext]_heuristicVars => BudgetInv'
<1> SUFFICES ASSUME text \in Texts, IInv, QueueInv, HistoryInv, FailedBehind, OrderInv, BudgetInv,
                    [HNext]_heuristicVars
             PROVE  BudgetInv'
  OBVIOUS
<1>1. CASE (Enqueue /\ UNCHANGED resolverVars /\ UNCHANGED text) \/ UNCHANGED heuristicVars
  <2>1. UNCHANGED <<pc, fate, frame, request, budgetRows>>
    BY <1>1 DEF Enqueue, heuristicVars, vars, threadVars, rowVars, jobVars, budgetRows
  <2>2. Pauses' = Pauses /\ Waited' = Waited
    BY <2>1, PausesSame
  <2>3. BudgetRows'
    BY <2>1, <2>2 DEF BudgetInv, BudgetRows, BudgetEnough, budgetRows, Pauses, Waited
  <2>4. ASSUME NEW p \in Threads, Owns(p)' PROVE BudgetFits(OwnPlan(p), pc[p], frame[p])'
    <3>1. PICK own : own = OwnPlan(p)
      OBVIOUS
    <3>2. own = OwnPlan(p)'
      BY <2>1, <3>1 DEF OwnPlan, Transcript, budgetRows
    <3>3. BudgetFits(own, pc[p], frame[p])
      BY <2>1, <2>4, <3>1 DEF BudgetInv, Owns
    <3>4. BudgetFits(own, pc[p], frame[p])'
      BY <2>1, <2>2, <3>3 DEF BudgetFits, budgetRows
    <3> QED BY <3>2, <3>4
  <2> QED BY <2>3, <2>4 DEF BudgetInv
<1> QED BY <1>1, WorkerBudget, ResolverBudget DEF HNext

-----------------------------------------------------------------------------
(* Whose plan a call comes from.                                           *)

\* Where a resolver is once it has answered its request.
ResumedLabels == {"mark", "reopen", "resume"} \cup LoopLabels

HeardInv ==
  /\ \A c \in Calls : effects[c] > 0 => execution[c] # "absent"
  /\ \A c \in Calls : execution[c] # "absent" => c \in ToSet(Asked(Heard)) \/ Resumes > 0
  /\ \A a \in Approvers : Owns(a) /\ pc[a] \in ResumedLabels => Resumes > 0

LEMMA ResumesSame ==
  ASSUME \A c \in Gated : request'[c] \in {"approved", "rejected"} <=> request[c] \in {"approved", "rejected"}
  PROVE  Resumes' = Resumes
<1>1. Answers' = Answers
  BY DEF Answers
<1> QED BY <1>1 DEF Resumes, Answers

LEMMA ResumesPositive ==
  ASSUME IsFiniteSet(Gated), NEW c \in Gated, request'[c] \in {"approved", "rejected"}
  PROVE  Resumes' > 0
<1>1. IsFiniteSet(Answers') /\ c \in Answers'
  BY FS_Subset DEF Answers
<1>2. Cardinality(Answers') # 0 /\ Cardinality(Answers') \in Nat
  BY <1>1, FS_EmptySet, FS_CardinalityType
<1> QED BY <1>2 DEF Resumes, Answers

\* A step that answers no request.
LEMMA HeardMoves ==
  ASSUME HeardInv, NEW p \in Threads, OthersRest(p), UNCHANGED <<text, assembled>>,
         Resumes' = Resumes,
         \A c \in Calls : effects'[c] > 0 => effects[c] > 0 \/ execution[c] # "absent",
         \A c \in Calls : execution[c] # "absent" => execution'[c] # "absent",
         \A c \in Calls : execution'[c] # "absent" =>
           execution[c] # "absent" \/ c \in ToSet(Asked(Heard)) \/ Resumes > 0,
         p \in Approvers /\ Owns(p)' /\ pc'[p] \in ResumedLabels => Resumes > 0
  PROVE  HeardInv'
<1>1. PICK heard : heard = Heard
  OBVIOUS
<1>2. heard = Heard'
  BY <1>1 DEF Heard
<1>3. \A a \in Approvers : Owns(a)' /\ pc'[a] \in ResumedLabels => Resumes > 0
  BY DEF HeardInv, OthersRest, Owns
<1>4. \A c \in Calls : execution'[c] # "absent" => c \in ToSet(Asked(heard)) \/ Resumes > 0
  BY <1>1 DEF HeardInv
<1> QED BY <1>2, <1>3, <1>4 DEF HeardInv

LEMMA HeardRests ==
  ASSUME HeardInv, NEW p \in Threads, OthersRest(p),
         UNCHANGED <<text, assembled, effects, execution, request>>,
         p \in Approvers /\ Owns(p)' /\ pc'[p] \in ResumedLabels => Resumes > 0
  PROVE  HeardInv'
<1>1. Resumes' = Resumes
  BY ResumesSame
<1> QED BY <1>1, HeardMoves

LEMMA LoopHeard ==
  ASSUME text \in Texts, IInv, QueueInv, OrderInv, HeardInv, NEW p \in Threads,
         HLoopStep(p) \/ SaveMeeting(p), UNCHANGED <<jobVars, resolverVars, text>>
  PROVE  HeardInv'
<1> DEFINE f == frame[p]
<1>1. /\ TypeInv /\ OwnInv /\ RowInv /\ (LoopStep(p) \/ SaveMeeting(p))
      /\ UNCHANGED <<text, assembled>>
  BY IInvParts, LoopRefines DEF jobVars, IInv, OwnInv, RowInv
<1>2. /\ pc \in [Threads -> Labels] /\ fate[p] = "running" /\ pc[p] \in LoopLabels
      /\ OthersRest(p)
  BY <1>1, LoopStays, LoopRests DEF TypeInv, TypeOK, ThreadTypeOK
<1>3. Owns(p) /\ CallFits(pc[p], f) /\ KnownAt(pc[p], f)
  BY <1>1, <1>2, LoopOwner
<1>4. p \in Approvers => Resumes > 0
  BY <1>2, <1>3 DEF HeardInv, ResumedLabels
<1>5. /\ execution \in [Calls -> ToolExecutionStatus \cup {"absent"}]
      /\ effects \in [Calls -> Nat]
      /\ request \in [Calls -> ApprovalRequestStatus \cup {"absent"}]
  BY <1>1 DEF TypeInv, TypeOK, ThreadTypeOK, RowTypeOK
<1>6. CASE Create(p)
  <2>1. /\ f.call \in Calls /\ UNCHANGED <<effects, request>> /\ pc[p] = "create"
        /\ execution' = [execution EXCEPT ![f.call] = IF @ = "absent" THEN "pending" ELSE @]
    BY <1>3, <1>6 DEF Create, CreateToolExecution, KnownAt, CallLabels
  <2>2. f.call \in ToSet(Asked(Heard)) \/ Resumes > 0
    <3>1. CASE p \in Workers
      <4>1. InOrder(OwnPlan(p), f.call)
        BY <1>3, <2>1 DEF OrderInv, OrderFits, CallLabels
      <4>2. OwnPlan(p) = Heard
        BY <3>1 DEF OwnPlan, Transcript, Heard
      <4> QED BY <4>1, <4>2 DEF InOrder, ToSet
    <3> QED BY <1>4, <3>1
  <2>3. Resumes' = Resumes
    BY <2>1, ResumesSame
  <2>4. \A c \in Calls : execution[c] # "absent" => execution'[c] # "absent"
    BY <1>5, <2>1
  <2>5. \A c \in Calls : execution'[c] # "absent" =>
          execution[c] # "absent" \/ c \in ToSet(Asked(Heard)) \/ Resumes > 0
    BY <1>5, <2>1, <2>2
  <2> QED BY <1>1, <1>2, <1>4, <2>1, <2>3, <2>4, <2>5, HeardMoves
<1>7. CASE Invoke(p)
  <2>1. /\ f.call \in Calls /\ UNCHANGED <<execution, request>> /\ execution[f.call] # "absent"
        /\ \A c \in Calls \ {f.call} : effects'[c] = effects[c]
    BY <1>3, <1>5, <1>7
    DEF Invoke, InvokeUnsupported, InvokeGated, InvokeAccepted, InvokeRetryable, Answered, KnownAt,
        CallFits, CallLabels, rowVars
  <2>2. Resumes' = Resumes
    BY <2>1, ResumesSame
  <2> QED BY <1>1, <1>2, <1>4, <2>1, <2>2, HeardMoves
<1>8. CASE Record(p) \/ Exhaust(p)
  <2>1. /\ f.call \in Calls /\ UNCHANGED <<effects, request>> /\ execution[f.call] # "absent"
        /\ \E v \in ToolExecutionStatus : execution' = [execution EXCEPT ![f.call] = v]
    BY <1>3, <1>8
    DEF Record, Exhaust, UpdateToolExecution, KnownAt, CallFits, CallLabels, ToolExecutionStatus
  <2>2. \A c \in Calls : execution[c] # "absent" <=> execution'[c] # "absent"
    BY <1>5, <2>1 DEF ToolExecutionStatus
  <2>3. Resumes' = Resumes
    BY <2>1, ResumesSame
  <2> QED BY <1>1, <1>2, <1>4, <2>1, <2>2, <2>3, HeardMoves
<1>9. CASE Gate(p)
  <2>1. f.call \in Gated /\ request[f.call] = "absent" /\ UNCHANGED <<effects, execution>>
    BY <1>3, <1>9 DEF Gate, CallFits, toolVars
  <2>2. request' = [request EXCEPT ![f.call] = "pending"]
    BY <1>9, <2>1 DEF Gate, CreateApprovalRequest
  <2>3. \A c \in Gated : request'[c] \in {"approved", "rejected"} <=> request[c] \in {"approved", "rejected"}
    BY <1>5, <2>1, <2>2, GatedAssumption
  <2>4. Resumes' = Resumes
    BY <2>3, ResumesSame
  <2> QED BY <1>1, <1>2, <1>4, <2>1, <2>4, HeardMoves
<1>10. CASE HPlan(p) \/ Count(p) \/ HPick(p) \/ EndIteration(p) \/ Step(p) \/ SaveMeeting(p)
            \/ Attempt(p)
  <2>1. UNCHANGED <<effects, execution, request>>
    BY <1>10 DEF HPlan, Count, HPick, EndIteration, Step, SaveMeeting, Attempt, rowVars, toolVars
  <2> QED BY <1>1, <1>2, <1>4, <2>1, HeardRests
<1> QED BY <1>6, <1>7, <1>8, <1>9, <1>10 DEF HLoopStep, ExecutorStep

LEMMA WorkerHeard ==
  ASSUME text \in Texts, IInv, QueueInv, OrderInv, HeardInv, NEW w \in Workers, HWorkerNext(w),
         UNCHANGED <<resolverVars, text>>
  PROVE  HeardInv'
<1>1. TypeInv /\ OwnInv /\ w \in Threads /\ w \notin Approvers
  BY IInvParts, ThreadAssumption
<1>2. OthersRest(w)
  <2>1. WorkerNext(w)
    BY <1>1, IInvParts, LoopRefines DEF HWorkerNext, WorkerNext, WorkerStep
  <2> QED BY <1>1, <2>1, WorkerRests
<1>3. CASE (HLoopStep(w) \/ SaveMeeting(w)) /\ UNCHANGED jobVars
  BY <1>1, <1>3, LoopHeard
<1>4. CASE Drain(w)
  <2>1. status = "validated" /\ UNCHANGED <<effects, execution, request>>
    BY <1>1, <1>4
    DEF Drain, Owns, OwningLabels, ValidatedLabels, OwnInv, SingleOwner, StatusKept, StatusFits,
        rowVars
  <2>2. \A c \in Calls : execution[c] = "absent"
    BY <2>1 DEF OrderInv, OrderRows
  <2>3. Resumes' = Resumes
    BY <2>1, ResumesSame
  <2>4. \A a \in Approvers : Owns(a)' /\ pc'[a] \in ResumedLabels => Resumes > 0
    BY <1>1, <1>2 DEF HeardInv, OthersRest, Owns
  <2> QED BY <2>1, <2>2, <2>3, <2>4 DEF HeardInv
<1>5. CASE Deliver(w) \/ DeliverRaises(w) \/ Transcribe(w) \/ Publish(w) \/ Validate(w)
             \/ Execute(w) \/ FinishRun(w) \/ FailRun(w) \/ WorkerRaises(w) \/ FailRunRaises(w)
             \/ ReportExisting(w) \/ ReportRaises(w) \/ Misreport(w)
             \/ Acknowledge(w) \/ WorkerCrash(w)
  <2>1. UNCHANGED <<text, assembled, effects, execution, request>>
    BY <1>5 DEF Deliver, DeliverRaises, Transcribe, Publish, Validate, Execute, FinishRun,
                FailRun, WorkerRaises, FailRunRaises, ReportExisting, ReportRaises, Misreport, Acknowledge, WorkerCrash, rowVars, toolVars,
                jobVars
  <2> QED BY <1>1, <1>2, <2>1, HeardRests
<1> QED BY <1>3, <1>4, <1>5 DEF HWorkerNext

LEMMA ResolverHeard ==
  ASSUME IsFiniteSet(Gated), text \in Texts, IInv, QueueInv, OrderInv, HeardInv,
         NEW a \in Approvers, HResolverNext(a), UNCHANGED text
  PROVE  HeardInv'
<1>1. /\ TypeInv /\ OwnInv /\ RowInv /\ a \in Threads
      /\ pc \in [Threads -> Labels] /\ fate \in [Threads -> Fates]
      /\ (pc[a] # "idle" => target[a] \in Gated)
      /\ execution \in [Calls -> ToolExecutionStatus \cup {"absent"}]
      /\ effects \in [Calls -> Nat]
      /\ request \in [Calls -> ApprovalRequestStatus \cup {"absent"}]
  BY IInvParts DEF TypeInv, TypeOK, ThreadTypeOK, RowTypeOK, FrameOK
<1>2. OthersRest(a)
  <2>1. ResolverNext(a)
    BY <1>1, LoopRefines DEF HResolverNext, ResolverNext, ResolverStep
  <2> QED BY <1>1, <2>1, ResolverRests
<1>3. \A l \in ResolvingLabels \cup {"resume", "finish"} :
        At(a, l) => Owns(a) /\ Fits(a, l, frame[a])
  BY <1>1
  DEF Owns, OwningLabels, ExecutingLabels, LoopLabels, RowInv, OwnerFits
<1>4. CASE (HLoopStep(a) \/ SaveMeeting(a)) /\ UNCHANGED <<jobVars, resolverVars>>
  BY <1>1, <1>4, LoopHeard
<1>5. CASE Open(a) \/ CheckRun(a) \/ Inspect(a) \/ LogAttempt(a) \/ ResolverRaises(a)
             \/ ResolverCrash(a) \/ FinishResolve(a)
  <2>1. UNCHANGED <<text, assembled, effects, execution, request>>
    BY <1>5 DEF Open, CheckRun, Inspect, LogAttempt, ResolverRaises, ResolverCrash, FinishResolve,
                rowVars, toolVars, jobVars
  <2>2. fate'[a] # "running" \/ pc'[a] \in {"check", "inspect", "deliver", "log", "settle"}
    BY <1>1, <1>5 DEF Open, CheckRun, Inspect, LogAttempt, ResolverRaises, ResolverCrash,
                      FinishResolve, End
  <2>3. ~(Owns(a)' /\ pc'[a] \in ResumedLabels)
    BY <2>2 DEF Owns, ResumedLabels, LoopLabels
  <2> QED BY <1>1, <1>2, <2>1, <2>3, HeardRests
<1>6. CASE MarkStep(a) \/ Reopen(a) \/ Resume(a)
  <2>1. /\ UNCHANGED <<text, assembled, effects, execution, request>>
        /\ Owns(a) /\ pc[a] \in ResumedLabels
    BY <1>3, <1>6 DEF MarkStep, Reopen, Resume, ResolvingLabels, ResumedLabels, rowVars, toolVars,
                      jobVars
  <2>2. Resumes > 0
    BY <2>1 DEF HeardInv
  <2> QED BY <1>1, <1>2, <2>1, <2>2, HeardRests
<1>7. CASE DeliverApproved(a)
  <2>1. /\ UNCHANGED <<text, assembled, execution, request>> /\ pc'[a] = "log"
        /\ target[a] \in Gated /\ execution[target[a]] = "approval_required"
    BY <1>1, <1>3, <1>7 DEF DeliverApproved, ResolvingLabels, Fits, ResolverFits, rowVars, jobVars
  <2>2. PICK c \in Gated : c = target[a]
    BY <2>1
  <2>3. \A d \in Calls \ {c} : effects'[d] = effects[d]
    BY <1>1, <1>7, <2>2 DEF DeliverApproved
  <2>4. Resumes' = Resumes
    BY <2>1, ResumesSame
  <2>5. pc'[a] \notin ResumedLabels
    BY <2>1 DEF ResumedLabels, LoopLabels
  <2>6. \A d \in Calls : effects'[d] > 0 => effects[d] > 0 \/ execution[d] # "absent"
    BY <2>1, <2>2, <2>3
  <2> QED BY <1>1, <1>2, <2>1, <2>4, <2>5, <2>6, HeardMoves
<1>8. CASE Settle(a)
  <2>1. /\ UNCHANGED <<text, assembled, effects, request>> /\ pc'[a] = "resolve"
        /\ target[a] \in Gated /\ execution[target[a]] = "approval_required"
    BY <1>1, <1>3, <1>8 DEF Settle, ResolvingLabels, Fits, ResolverFits, runVars, jobVars
  <2>2. PICK c \in Gated : c = target[a]
    BY <2>1
  <2>3. PICK v \in {"executed", "skipped"} : execution' = [execution EXCEPT ![c] = v]
    BY <1>8, <2>2 DEF Settle, UpdateToolExecution
  <2>4. \A d \in Calls : execution'[d] # "absent" <=> execution[d] # "absent"
    BY <1>1, <2>1, <2>2, <2>3
  <2>5. Resumes' = Resumes
    BY <2>1, ResumesSame
  <2>6. pc'[a] \notin ResumedLabels
    BY <2>1 DEF ResumedLabels, LoopLabels
  <2> QED BY <1>1, <1>2, <2>1, <2>4, <2>5, <2>6, HeardMoves
<1>9. CASE Resolve(a)
  <2>1. /\ UNCHANGED <<text, assembled, effects, execution>> /\ target[a] \in Gated
    BY <1>1, <1>9 DEF Resolve, toolVars, jobVars
  <2>2. PICK c \in Gated : c = target[a]
    BY <2>1
  <2>3. PICK v \in {"approved", "rejected"} : request' = [request EXCEPT ![c] = v]
    BY <1>9, <2>2 DEF Resolve, ResolveApprovalRequest
  <2>4. request'[c] \in {"approved", "rejected"}
    BY <1>1, <2>3, GatedAssumption
  <2>5. Resumes' > 0
    BY <2>4, ResumesPositive
  <2> QED BY <2>1, <2>5 DEF HeardInv
<1> QED BY <1>4, <1>5, <1>6, <1>7, <1>8, <1>9 DEF HResolverNext

LEMMA HeardInit == HInit => HeardInv
  BY DEF HInit, Init, RowInit, ThreadInit, HeardInv, Owns,
      OwningLabels, PendingLabels, ValidatedLabels, ExecutingLabels, ResolvingLabels, LoopLabels

LEMMA HeardStep ==
  ASSUME IsFiniteSet(Gated)
  PROVE  text \in Texts /\ IInv /\ QueueInv /\ OrderInv /\ HeardInv
           /\ [HNext]_heuristicVars => HeardInv'
<1> SUFFICES ASSUME text \in Texts, IInv, QueueInv, OrderInv, HeardInv, [HNext]_heuristicVars
             PROVE  HeardInv'
  OBVIOUS
<1>1. CASE (Enqueue /\ UNCHANGED resolverVars /\ UNCHANGED text) \/ UNCHANGED heuristicVars
  <2>1. UNCHANGED <<pc, fate, request, effects, execution, text, assembled>>
    BY <1>1 DEF Enqueue, heuristicVars, vars, threadVars, rowVars, jobVars
  <2>2. Resumes' = Resumes
    BY <2>1, ResumesSame
  <2>3. PICK heard : heard = Heard
    OBVIOUS
  <2>4. heard = Heard'
    BY <2>1, <2>3 DEF Heard
  <2> QED BY <2>1, <2>2, <2>3, <2>4 DEF HeardInv, Owns
<1> QED BY <1>1, WorkerHeard, ResolverHeard DEF HNext

-----------------------------------------------------------------------------

LEMMA RestsStep ==
  ASSUME ~ConcurrentResolvers
  PROVE  text \in Texts /\ IInv /\ QueueInv /\ HistoryInv /\ FailedBehind /\ [HNext]_heuristicVars
           => (text \in Texts /\ IInv /\ QueueInv /\ HistoryInv /\ FailedBehind)'
<1> SUFFICES ASSUME text \in Texts, IInv, QueueInv, HistoryInv, FailedBehind, [HNext]_heuristicVars
             PROVE  (text \in Texts /\ IInv /\ QueueInv /\ HistoryInv /\ FailedBehind)'
  OBVIOUS
<1>1. TypeInv /\ OwnInv
  BY IInvParts
<1>2. [Next]_vars /\ text' = text
  BY <1>1, NextRefines
<1>3. IInv' /\ QueueInv'
  BY <1>1, <1>2, IInvStep, QueueStep
<1>4. HistoryInv' /\ FailedBehind'
  BY <1>2, <1>3, HistoryStep, FailedBehindStep
<1> QED BY <1>2, <1>3, <1>4

\* With resolvers that do not overlap, where every thread is in its plan: what it
\* has seen is answered, the call it works on is the next one, and a loop that
\* concludes has nothing left.
THEOREM OrderInvariant ==
  ASSUME ~ConcurrentResolvers
  PROVE  HSpec => [](text \in Texts /\ IInv /\ QueueInv /\ HistoryInv /\ FailedBehind /\ OrderInv)
<1>1. HInit => text \in Texts /\ IInv /\ QueueInv /\ HistoryInv /\ FailedBehind /\ OrderInv
  BY IInvInit, QueueInit, HistoryInit, OrderInit DEF HInit
<1>2. text \in Texts /\ IInv /\ QueueInv /\ HistoryInv /\ FailedBehind /\ OrderInv /\ [HNext]_heuristicVars
        => (text \in Texts /\ IInv /\ QueueInv /\ HistoryInv /\ FailedBehind /\ OrderInv)'
  BY RestsStep, OrderStep
<1> QED BY <1>1, <1>2, PTL DEF HSpec

\* With resolvers that do not overlap, a run that is done has been through the
\* whole of one plan: the worker's or the one its resumed loop made
\* (agent.py:137-203).
THEOREM PlanCarriedOut ==
  ASSUME ~ConcurrentResolvers
  PROVE  HSpec => []NothingForgotten
<1>1. OrderInv => NothingForgotten
  BY DEF OrderInv, OrderRows
<1> QED BY <1>1, OrderInvariant, PTL

\* With resolvers that do not overlap, a call is tried only when all that its plan
\* asks for before it has been answered (agent.py:137-170).
THEOREM SpokenOrderKept ==
  ASSUME ~ConcurrentResolvers
  PROVE  HSpec => []SpokenOrder
<1>1. OrderInv => SpokenOrder
  BY DEF OrderInv, OrderRows
<1> QED BY <1>1, OrderInvariant, PTL

\* With resolvers that do not overlap, a run fails for want of iterations only if
\* it had no more than one and its pauses: whatever is planned, the loop never
\* spends one in vain.
THEOREM BudgetSuffices ==
  ASSUME ~ConcurrentResolvers, IsFiniteSet(Gated)
  PROVE  HSpec => []BudgetEnough
<1>1. HInit => BudgetInv
  BY BudgetInit
<1>2. text \in Texts /\ IInv /\ QueueInv /\ HistoryInv /\ FailedBehind /\ OrderInv /\ BudgetInv
        /\ [HNext]_heuristicVars => BudgetInv'
  BY BudgetStep
<1>3. BudgetInv => BudgetEnough
  BY DEF BudgetInv, BudgetRows
<1> QED BY <1>1, <1>2, <1>3, OrderInvariant, PTL DEF HSpec

\* With resolvers that do not overlap, what the worker did not hear reaches a
\* provider only after an approval was resolved (approvals.py:77-82).
THEOREM UnheardResumed ==
  ASSUME ~ConcurrentResolvers, IsFiniteSet(Gated)
  PROVE  HSpec => []UnheardOnlyByResume
<1>1. HInit => HeardInv
  BY HeardInit
<1>2. text \in Texts /\ IInv /\ QueueInv /\ OrderInv /\ HeardInv
        /\ [HNext]_heuristicVars => HeardInv'
  BY HeardStep
<1>3. HeardInv => UnheardOnlyByResume
  BY DEF HeardInv, UnheardOnlyByResume
<1> QED BY <1>1, <1>2, <1>3, OrderInvariant, PTL DEF HSpec
=============================================================================
