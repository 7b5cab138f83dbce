--------------------- MODULE WorkflowApprovals_proofs ----------------------
(***************************************************************************)
(* IInv is an invariant of MeetingWorkflow when resolvers do not overlap,  *)
(* and with it the properties that relate the run, its tool calls and      *)
(* their approvals; and MeetingWorkflow then implements WorkflowLifecycle. *)
(*                                                                         *)
(* RowInv speaks of the owner's picture of the rows (OwnerFits).  An action *)
(* that writes no row the picture depends on is covered by QuietStep; one  *)
(* that does is proved by OwnerStep, part by part.  Nobody else's picture  *)
(* has to be looked at, because nobody else owns the run.                  *)
(*                                                                         *)
(* In the refinement every step of a thread is a step of the run as its    *)
(* approvers see it, or none at all.  The inductive invariant supplies what *)
(* the code never checks at the statement in question, for example that no *)
(* request is open when a loop finishes.                                   *)
(***************************************************************************)
EXTENDS WorkflowOwnership_proofs

USE DEF Threads, Goto, At, Active

RowInv == RowsAgree /\ OpenOnce /\ CheckOpen /\ OwnerFits /\ AwaitingActionable

Handing == {"resolve", "mark", "reopen"}

\* The status of the run as its owner left it, or failed behind its back.
LeftAs(s) == status = s \/ (misreported /\ status = "failed")

LEMMA OwnerStep ==
  ASSUME TypeInv, OwnInv, OwnInv', NEW p \in Threads, Owns(p),
         NEW l \in Labels, NEW f \in Frames,
         pc' = [pc EXCEPT ![p] = l], frame' = [frame EXCEPT ![p] = f], fate' = fate,
         Fits(p, l, f)', RowsAgree', OpenOnce', CheckOpen', AwaitingActionable'
  PROVE  RowInv'
<1>1. pc \in [Threads -> Labels] /\ fate \in [Threads -> Fates] /\ frame \in [Threads -> Frames]
  BY DEF TypeInv, TypeOK, ThreadTypeOK
<1>2. ASSUME NEW q \in Threads, Owns(q)' PROVE q = p
  BY <1>1, <1>2 DEF Owns, OwnInv, SingleOwner
<1>3. OwnerFits'
  BY <1>1, <1>2 DEF OwnerFits
<1> QED BY <1>3 DEF RowInv

\* A thread goes on and writes no row that a picture depends on.
LEMMA QuietStep ==
  ASSUME TypeInv, RowInv, NEW p \in Threads, NEW l \in Labels \ {"check"}, NEW f \in Frames,
         pc' = [pc EXCEPT ![p] = l], frame' = [frame EXCEPT ![p] = f], fate' = fate,
         UNCHANGED <<execution, request, effects, status, target, decision>>,
         Fits(p, l, f), pc[p] \in Handing => l \in Handing
  PROVE  RowInv'
<1>1. pc \in [Threads -> Labels] /\ frame \in [Threads -> Frames]
  BY DEF TypeInv, TypeOK, ThreadTypeOK
<1>2. RowsAgree' /\ OpenOnce'
  BY DEF RowInv, RowsAgree, OpenOnce, NoneWaiting, OnlyOpenWaits
<1>3. CheckOpen'
  BY <1>1 DEF RowInv, CheckOpen
<1>4. AwaitingActionable'
  BY <1>1 DEF RowInv, AwaitingActionable, HandingBack, Handing
<1>5. ASSUME NEW q \in Threads, Owns(q)' PROVE Fits(q, pc[q], frame[q])'
  <2>1. Fits(q, pc'[q], frame'[q])
    BY <1>1, <1>5 DEF RowInv, OwnerFits, Owns
  <2> QED BY <2>1 DEF Fits, CallFits, OpenFits, ResolverFits, NoneWaiting, OnlyOpenWaits, SomeOpen
<1> QED BY <1>2, <1>3, <1>4, <1>5 DEF RowInv, OwnerFits

\* The owner writes the status of the run and nothing else.
LEMMA StatusStep ==
  ASSUME TypeInv, OwnInv, OwnInv', RowInv, NEW p \in Threads, Owns(p),
         NEW l \in Labels \ {"check"}, NEW f \in Frames,
         pc' = [pc EXCEPT ![p] = l], frame' = [frame EXCEPT ![p] = f], fate' = fate,
         UNCHANGED <<execution, request, effects, target, decision>>,
         Fits(p, l, f),
         status' \in {"pending", "validated", "done"} => NoneWaiting,
         status' = "awaiting_approval" => SomeOpen /\ OnlyOpenWaits
  PROVE  RowInv'
<1>1. pc \in [Threads -> Labels]
  BY DEF TypeInv, TypeOK, ThreadTypeOK
<1>2. RowsAgree' /\ OpenOnce'
  BY DEF RowInv, RowsAgree, OpenOnce, NoneWaiting, OnlyOpenWaits
<1>3. CheckOpen'
  BY <1>1 DEF RowInv, CheckOpen
<1>4. AwaitingActionable'
  BY DEF AwaitingActionable, SomeOpen
<1>5. Fits(p, l, f)'
  BY DEF Fits, CallFits, OpenFits, ResolverFits, NoneWaiting, OnlyOpenWaits, SomeOpen
<1> QED BY <1>2, <1>3, <1>4, <1>5, OwnerStep

LEMMA EndStep ==
  ASSUME TypeInv, RowInv, NEW p \in Threads, NEW how \in Fates \ {"running"}, End(p, how),
         UNCHANGED <<execution, request, effects, status, target, decision>>
  PROVE  RowInv'
<1>1. pc \in [Threads -> Labels] /\ fate \in [Threads -> Fates] /\ frame \in [Threads -> Frames]
  BY DEF TypeInv, TypeOK, ThreadTypeOK
<1>2. RowsAgree' /\ OpenOnce'
  BY DEF RowInv, RowsAgree, OpenOnce, NoneWaiting, OnlyOpenWaits
<1>3. CheckOpen' /\ AwaitingActionable'
  BY <1>1 DEF RowInv, CheckOpen, AwaitingActionable, HandingBack, End
<1>4. ASSUME NEW q \in Threads, Owns(q)' PROVE Fits(q, pc[q], frame[q])' 
  <2>1. q # p /\ Owns(q) /\ pc'[q] = pc[q] /\ frame'[q] = frame[q]
    BY <1>1, <1>4 DEF Owns, End
  <2>2. Fits(q, pc[q], frame[q])
    BY <2>1 DEF RowInv, OwnerFits
  <2> QED BY <2>1, <2>2 DEF Fits, CallFits, OpenFits, ResolverFits, NoneWaiting, OnlyOpenWaits, SomeOpen
<1> QED BY <1>2, <1>3, <1>4 DEF RowInv, OwnerFits

-----------------------------------------------------------------------------
(* The agent loop.                                                         *)

LEMMA LoopOwner ==
  ASSUME TypeInv, OwnInv, RowInv, NEW p \in Threads, fate[p] = "running", pc[p] \in LoopLabels
  PROVE  /\ Owns(p) /\ LeftAs("executing") /\ frame[p] \in Frames /\ pc[p] \notin Handing
         /\ CallFits(pc[p], frame[p]) /\ OpenFits(pc[p], frame[p])
         /\ KnownAt(pc[p], frame[p])
         /\ \A q \in Approvers, l \in LoopLabels : ResolverFits(q, l)
<1>1. Owns(p)
  BY DEF Owns, OwningLabels, ExecutingLabels
<1>2. LeftAs("executing")
  BY <1>1 DEF OwnInv, SingleOwner, StatusKept, StatusFits, ExecutingLabels, LeftAs
<1>3. frame[p] \in Frames /\ KnownAt(pc[p], frame[p])
  BY DEF TypeInv, TypeOK, ThreadTypeOK, FrameOK
<1>4. CallFits(pc[p], frame[p]) /\ OpenFits(pc[p], frame[p])
  BY <1>1 DEF RowInv, OwnerFits, Fits
<1>5. \A q \in Approvers, l \in LoopLabels : ResolverFits(q, l)
  BY DEF ResolverFits, LoopLabels
<1> QED BY <1>1, <1>2, <1>3, <1>4, <1>5 DEF Handing, LoopLabels

LEMMA LoopLabelsType == LoopLabels \subseteq Labels \ {"check"}
  BY DEF LoopLabels, Labels

\* The steps of the loop that write no execution, request or effect.
LEMMA QuietLoopStep ==
  ASSUME TypeInv, RowInv, UNCHANGED resolverVars,
         NEW p \in Threads, pc[p] \in LoopLabels \cup {"resume"},
         NEW l \in LoopLabels, NEW f \in Frames,
         pc' = [pc EXCEPT ![p] = l], frame' = [frame EXCEPT ![p] = f], fate' = fate,
         UNCHANGED <<execution, request, effects, status>>,
         CallFits(l, f), OpenFits(l, f)
  PROVE  RowInv'
<1>1. pc[p] \notin Handing /\ Fits(p, l, f)
  BY DEF Fits, ResolverFits, Handing, LoopLabels
<1>2. UNCHANGED <<execution, request, effects, status, target, decision>>
  BY DEF resolverVars
<1>3. l \in Labels \ {"check"}
  BY LoopLabelsType
<1> HIDE DEF Handing
<1> QED BY <1>1, <1>2, <1>3, QuietStep

LEMMA ConcludeRow ==
  ASSUME TypeInv, RowInv, UNCHANGED resolverVars,
         NEW p \in Threads, pc[p] \in LoopLabels \cup {"resume"},
         NEW f \in Frames, NEW v \in Verdicts, Conclude(p, f, v), fate' = fate,
         UNCHANGED <<execution, request, effects, status>>,
         IF v = "awaiting_approval" THEN SomeOpen /\ OnlyOpenWaits ELSE NoneWaiting
  PROVE  RowInv'
<1> DEFINE g == [f EXCEPT !.verdict = v]
<1>1. g \in Frames /\ g.verdict = v
  BY DEF Frames
<1>2. Goto(p, "save") /\ frame' = [frame EXCEPT ![p] = g]
  BY DEF Conclude
<1> HIDE DEF g
<1>3. CallFits("save", g) /\ OpenFits("save", g) /\ "save" \in LoopLabels
  BY <1>1 DEF CallFits, OpenFits, QuietLabels, LoopLabels
<1> QED BY <1>1, <1>2, <1>3, QuietLoopStep

LEMMA IterateRow ==
  ASSUME TypeInv, RowInv, UNCHANGED resolverVars,
         NEW p \in Threads, pc[p] \in LoopLabels \cup {"resume"},
         NEW f \in Frames, NEW n \in Nat, Iterate(p, f, n), fate' = fate,
         UNCHANGED <<execution, request, effects, status>>,
         NoneWaiting
  PROVE  RowInv'
<1>1. CASE n <= MaxIterations
  <2> DEFINE g == [f EXCEPT !.iteration = n]
  <2>1. g \in Frames
    BY DEF Frames
  <2>2. Goto(p, "plan") /\ frame' = [frame EXCEPT ![p] = g]
    BY <1>1 DEF Iterate
  <2> HIDE DEF g
  <2>3. CallFits("plan", g) /\ OpenFits("plan", g) /\ "plan" \in LoopLabels
    BY DEF CallFits, OpenFits, LoopLabels
  <2> QED BY <2>1, <2>2, <2>3, QuietLoopStep
<1>2. CASE ~(n <= MaxIterations)
  BY <1>2, ConcludeRow DEF Iterate, Verdicts
<1> QED BY <1>1, <1>2

LEMMA PlanRow ==
  ASSUME TypeInv, OwnInv, OwnInv', RowInv, UNCHANGED resolverVars, NEW p \in Threads, Plan(p)
  PROVE  RowInv'
<1>1. PICK calls \in SUBSET Calls, found \in SUBSET Items :
         frame' = [frame EXCEPT ![p].items = @ \cup found, ![p].todo = calls,
                                 ![p].progress = FALSE]
  BY DEF Plan, ValidatedCalls
<1> DEFINE f == [frame[p] EXCEPT !.items = @ \cup found, !.todo = calls,
                                 !.progress = FALSE]
<1>2. fate[p] = "running" /\ pc[p] = "plan" /\ "plan" \in LoopLabels /\ "count" \in LoopLabels
  BY DEF Plan, LoopLabels
<1>3. frame[p] \in Frames /\ OpenFits("plan", frame[p]) 
  BY <1>2, LoopOwner
<1>4. f \in Frames
  BY <1>3 DEF Frames
<1>5. frame' = [frame EXCEPT ![p] = f] /\ pc' = [pc EXCEPT ![p] = "count"] /\ fate' = fate
  BY <1>1, <1>3 DEF Plan, TypeInv, TypeOK, ThreadTypeOK, Frames
<1> HIDE DEF f
<1>6. CallFits("count", f) /\ OpenFits("count", f)
  BY <1>3 DEF CallFits, OpenFits, QuietLabels
<1>7. UNCHANGED <<execution, request, effects, status>>
  BY DEF Plan, toolVars, runVars
<1> QED BY <1>2, <1>4, <1>5, <1>6, <1>7, QuietLoopStep

LEMMA CountRow ==
  ASSUME TypeInv, OwnInv, OwnInv', RowInv, UNCHANGED resolverVars, NEW p \in Threads, Count(p)
  PROVE  RowInv'
<1>1. fate[p] = "running" /\ pc[p] = "count" /\ "count" \in LoopLabels /\ "pick" \in LoopLabels
  BY DEF Count, LoopLabels
<1>2. frame[p] \in Frames /\ OpenFits("count", frame[p])
  BY <1>1, LoopOwner
<1>3. NoneWaiting
  BY <1>2 DEF OpenFits, QuietLabels
<1>4. UNCHANGED <<fate, execution, request, effects, status>>
  BY DEF Count, toolVars, runVars
<1>5. CASE frame[p].todo = {}
  BY <1>1, <1>2, <1>3, <1>4, <1>5, ConcludeRow DEF Count, Verdicts
<1>6. CASE frame[p].todo # {}
  <2>1. Goto(p, "pick") /\ frame' = [frame EXCEPT ![p] = frame[p]]
    BY <1>6 DEF Count, TypeInv, TypeOK, ThreadTypeOK
  <2>2. CallFits("pick", frame[p]) /\ OpenFits("pick", frame[p])
    BY <1>3 DEF CallFits, OpenFits
  <2> QED BY <1>1, <1>2, <1>4, <2>1, <2>2, QuietLoopStep
<1> QED BY <1>5, <1>6

LEMMA PickRow ==
  ASSUME TypeInv, OwnInv, OwnInv', RowInv, UNCHANGED resolverVars, NEW p \in Threads, Pick(p)
  PROVE  RowInv'
<1>1. PICK c \in frame[p].todo \ frame[p].seen : Lookup(p, c)
  BY DEF Pick
<1>2. fate[p] = "running" /\ pc[p] = "pick" /\ "pick" \in LoopLabels
  BY DEF Pick, LoopLabels
<1>3. frame[p] \in Frames /\ OpenFits("pick", frame[p])
  BY <1>2, LoopOwner
<1>4. NoneWaiting /\ c \in Calls
  BY <1>3 DEF OpenFits, QuietLabels, Frames
<1>5. UNCHANGED <<fate, execution, request, effects, status>>
  BY DEF Pick, rowVars
<1>6. execution[c] # "approval_required"
  BY <1>4 DEF NoneWaiting, RowInv, RowsAgree
<1>7. CASE execution[c] \in Reusable
  <2> DEFINE f == [frame[p] EXCEPT !.call = c, !.reused = TRUE, !.outcome = execution[c]]
  <2>1. f \in Frames /\ f.outcome = execution[c]
    BY <1>3, <1>4, <1>7 DEF Frames, Reusable, ToolExecutionStatus
  <2>2. frame' = [frame EXCEPT ![p] = f] /\ Goto(p, "step")
    BY <1>1, <1>3, <1>7 DEF Lookup, TypeInv, TypeOK, ThreadTypeOK
  <2> HIDE DEF f
  <2>3. CallFits("step", f) /\ OpenFits("step", f) /\ "step" \in LoopLabels
    BY <1>4, <1>6, <2>1 DEF CallFits, OpenFits, QuietLabels, LoopLabels
  <2> QED BY <1>2, <1>5, <2>1, <2>2, <2>3, QuietLoopStep
<1>8. CASE execution[c] \notin Reusable
  <2> DEFINE f == [frame[p] EXCEPT !.call = c, !.reused = FALSE, !.outcome = "none"]
  <2>1. f \in Frames /\ f.call = c
    BY <1>3, <1>4 DEF Frames
  <2>2. frame' = [frame EXCEPT ![p] = f] /\ Goto(p, "create")
    BY <1>1, <1>3, <1>8 DEF Lookup, TypeInv, TypeOK, ThreadTypeOK
  <2> HIDE DEF f
  <2>3. execution[c] \in {"absent", "pending", "failed"}
    BY <1>4, <1>8 DEF TypeInv, TypeOK, RowTypeOK, ToolExecutionStatus, Reusable
  <2>4. CallFits("create", f) /\ OpenFits("create", f) /\ "create" \in LoopLabels
    BY <1>4, <2>1, <2>3 DEF CallFits, OpenFits, LoopLabels
  <2> QED BY <1>2, <1>5, <2>1, <2>2, <2>4, QuietLoopStep
<1> QED BY <1>7, <1>8

LEMMA EndIterationRow ==
  ASSUME TypeInv, OwnInv, OwnInv', RowInv, UNCHANGED resolverVars, NEW p \in Threads,
         EndIteration(p)
  PROVE  RowInv'
<1>1. fate[p] = "running" /\ pc[p] = "pick" /\ "pick" \in LoopLabels
  BY DEF EndIteration, LoopLabels
<1>2. frame[p] \in Frames /\ OpenFits("pick", frame[p])
  BY <1>1, LoopOwner
<1>3. NoneWaiting /\ frame[p].iteration + 1 \in Nat
  BY <1>2 DEF OpenFits, QuietLabels, Frames
<1>4. UNCHANGED <<fate, execution, request, effects, status>>
  BY DEF EndIteration, rowVars
<1> QED BY <1>1, <1>2, <1>3, <1>4, ConcludeRow, IterateRow DEF EndIteration, Verdicts

LEMMA StepRow ==
  ASSUME TypeInv, OwnInv, OwnInv', RowInv, UNCHANGED resolverVars, NEW p \in Threads, Step(p)
  PROVE  RowInv'
<1> DEFINE f == [frame[p] EXCEPT !.seen = @ \cup {frame[p].call},
                                 !.progress = @ \/ ~frame[p].reused]
<1>1. fate[p] = "running" /\ pc[p] = "step" /\ "step" \in LoopLabels
  BY DEF Step, LoopLabels
<1>2. frame[p] \in Frames /\ OpenFits("step", frame[p]) /\ frame[p].call \in Calls
  BY <1>1, LoopOwner DEF KnownAt, CallLabels
<1>3. f \in Frames /\ f.outcome = frame[p].outcome
  BY <1>2 DEF Frames
<1>4. UNCHANGED <<fate, execution, request, effects, status>>
  BY DEF Step, runVars, toolVars
<1> HIDE DEF f
<1>5. CASE f.outcome = "approval_required"
  <2>1. SomeOpen /\ OnlyOpenWaits
    BY <1>2, <1>3, <1>5 DEF OpenFits
  <2>2. Conclude(p, f, "awaiting_approval")
    BY <1>5 DEF Step, f
  <2> QED BY <1>1, <1>3, <1>4, <2>1, <2>2, ConcludeRow DEF Verdicts
<1>6. CASE f.outcome # "approval_required"
  <2>1. NoneWaiting
    BY <1>2, <1>3, <1>6 DEF OpenFits
  <2>2. Goto(p, "pick") /\ frame' = [frame EXCEPT ![p] = f]
    BY <1>6 DEF Step, f
  <2>3. CallFits("pick", f) /\ OpenFits("pick", f) /\ "pick" \in LoopLabels
    BY <2>1 DEF CallFits, OpenFits, LoopLabels
  <2> QED BY <1>1, <1>3, <1>4, <2>2, <2>3, QuietLoopStep
<1> QED BY <1>5, <1>6

LEMMA SaveRow ==
  ASSUME TypeInv, OwnInv, OwnInv', RowInv, UNCHANGED resolverVars, NEW p \in Threads,
         SaveMeeting(p)
  PROVE  RowInv'
<1>1. fate[p] = "running" /\ pc[p] = "save" /\ "save" \in LoopLabels /\ "finish" \in LoopLabels
  BY DEF SaveMeeting, LoopLabels
<1>2. frame[p] \in Frames /\ OpenFits("save", frame[p])
  BY <1>1, LoopOwner
<1>3. CallFits("finish", frame[p]) /\ OpenFits("finish", frame[p])
  BY <1>2 DEF CallFits, OpenFits, QuietLabels
<1>4. UNCHANGED <<fate, execution, request, effects, status>>
  BY DEF SaveMeeting, runVars, toolVars
<1>5. Goto(p, "finish") /\ frame' = [frame EXCEPT ![p] = frame[p]]
  BY DEF SaveMeeting, TypeInv, TypeOK, ThreadTypeOK
<1> QED BY <1>1, <1>2, <1>3, <1>4, <1>5, QuietLoopStep

-----------------------------------------------------------------------------
(* The executor.                                                           *)

LEMMA ExecutorWrite ==
  ASSUME TypeInv, OwnInv, OwnInv', RowInv, UNCHANGED resolverVars,
         NEW p \in Threads, fate[p] = "running", pc[p] \in LoopLabels,
         NEW l \in LoopLabels, NEW f \in Frames,
         pc' = [pc EXCEPT ![p] = l], frame' = [frame EXCEPT ![p] = f], fate' = fate,
         status' = status, RowsAgree', CheckOpen',
         \A c, d \in Gated : request'[c] = "pending" /\ request'[d] = "pending" => c = d,
         CallFits(l, f)', OpenFits(l, f)'
  PROVE  RowInv'
<1>1. Owns(p) /\ LeftAs("executing")
  BY LoopOwner
<1>2. OpenOnce' /\ AwaitingActionable'
  BY <1>1 DEF LeftAs, OpenOnce, AwaitingActionable
<1>3. Fits(p, l, f)'
  BY DEF Fits, ResolverFits, LoopLabels
<1>4. l \in Labels
  BY LoopLabelsType
<1> QED BY <1>1, <1>2, <1>3, <1>4, OwnerStep

\* A step of the executor that leaves the request rows alone.
LEMMA SameRequests ==
  ASSUME TypeInv, RowInv, UNCHANGED <<request, resolverVars, fate>>, NEW p \in Threads,
         pc[p] \in LoopLabels, NEW l \in LoopLabels, pc' = [pc EXCEPT ![p] = l]
  PROVE  /\ CheckOpen'
         /\ \A c, d \in Gated : request'[c] = "pending" /\ request'[d] = "pending" => c = d
<1>1. pc \in [Threads -> Labels]
  BY DEF TypeInv, TypeOK, ThreadTypeOK
<1>2. CheckOpen'
  BY <1>1 DEF RowInv, CheckOpen, LoopLabels, resolverVars
<1> QED BY <1>2 DEF RowInv, OpenOnce

LEMMA CreateRow ==
  ASSUME TypeInv, OwnInv, OwnInv', RowInv, UNCHANGED resolverVars, NEW p \in Threads, Create(p)
  PROVE  RowInv'
<1> DEFINE c == frame[p].call
<1>1. fate[p] = "running" /\ pc[p] = "create" /\ "create" \in LoopLabels /\ "invoke" \in LoopLabels
  BY DEF Create, LoopLabels
<1>2. frame[p] \in Frames /\ OpenFits("create", frame[p]) /\ CallFits("create", frame[p])
      /\ c \in Calls
  BY <1>1, LoopOwner DEF KnownAt, CallLabels
<1>3. PICK f \in Frames : f = [frame[p] EXCEPT !.attempt = 1] /\ f.call = c
  <2> DEFINE g == [frame[p] EXCEPT !.attempt = 1]
  <2>1. g \in Frames /\ g.call = c
    BY <1>2 DEF Frames
  <2> QED BY <2>1
<1>4. pc' = [pc EXCEPT ![p] = "invoke"] /\ frame' = [frame EXCEPT ![p] = f]
      /\ UNCHANGED <<fate, request, effects, status>>
  BY <1>2, <1>3 DEF Create, TypeInv, TypeOK, ThreadTypeOK, runVars
<1>5. NoneWaiting /\ execution[c] \in {"absent", "pending", "failed"}
  BY <1>2 DEF OpenFits, CallFits, QuietLabels
<1>6. execution'[c] \in {"pending", "failed"} /\ \A d \in Calls \ {c} : execution'[d] = execution[d]
  BY <1>2, <1>5 DEF Create, CreateToolExecution, TypeInv, TypeOK, RowTypeOK
<1>7. RowsAgree' /\ NoneWaiting'
  BY <1>2, <1>4, <1>5, <1>6, GatedAssumption DEF RowInv, RowsAgree, NoneWaiting
<1>8. CallFits("invoke", f)' /\ OpenFits("invoke", f)'
  BY <1>3, <1>6, <1>7 DEF CallFits, OpenFits
<1> QED BY <1>1, <1>3, <1>4, <1>7, <1>8, SameRequests, ExecutorWrite

LEMMA InvokeRow ==
  ASSUME TypeInv, TypeInv', OwnInv, OwnInv', RowInv, UNCHANGED resolverVars, NEW p \in Threads, Invoke(p)
  PROVE  RowInv'
<1> DEFINE c == frame[p].call
<1>1. fate[p] = "running" /\ pc[p] = "invoke" /\ "invoke" \in LoopLabels /\ "attempt" \in LoopLabels
      /\ "exhaust" \in LoopLabels
  BY DEF Invoke, InvokeUnsupported, InvokeGated, InvokeAccepted, InvokeRetryable, LoopLabels
<1>2. frame[p] \in Frames /\ OpenFits("invoke", frame[p]) /\ CallFits("invoke", frame[p])
      /\ c \in Calls
  BY <1>1, LoopOwner DEF KnownAt, CallLabels
<1>3. UNCHANGED <<fate, request, execution, status>>
  BY DEF Invoke, InvokeUnsupported, InvokeGated, InvokeAccepted, InvokeRetryable, Answered,
         rowVars, runVars
<1>4. NoneWaiting /\ execution[c] \in {"pending", "failed"} /\ NoneWaiting'
  BY <1>2, <1>3 DEF OpenFits, CallFits, QuietLabels, NoneWaiting
<1>5. \A d \in Calls : effects'[d] \in Nat /\ effects'[d] >= effects[d] /\ effects[d] \in Nat
  <2>1. effects \in [Calls -> Nat] /\ effects' \in [Calls -> Nat]
    BY DEF TypeInv, TypeOK, ThreadTypeOK
  <2>2. CASE InvokeRetryable(p)
    <3>1. PICK n \in {0, 1} : effects' = [effects EXCEPT ![frame[p].call] = @ + n]
      BY <2>2 DEF InvokeRetryable
    <3> QED BY <1>2, <2>1, <3>1
  <2>3. CASE InvokeAccepted(p)
    <3>1. effects' = [effects EXCEPT ![frame[p].call] = @ + 1]
      BY <2>3 DEF InvokeAccepted
    <3> QED BY <1>2, <2>1, <3>1
  <2>4. CASE effects' = effects
    BY <2>1, <2>4
  <2> QED BY <2>2, <2>3, <2>4 DEF Invoke, InvokeUnsupported, InvokeGated
<1>6. RowsAgree'
  BY <1>3, <1>5, GatedAssumption DEF RowInv, RowsAgree
<1>7. ASSUME NEW o \in ToolExecutionStatus, Answered(p, o), c \in Gated <=> o = "approval_required"
      PROVE  RowInv'
  <2>1. PICK f \in Frames :
          f = [frame[p] EXCEPT !.outcome = o] /\ f.outcome = o /\ f.call = c
    <3> DEFINE g == [frame[p] EXCEPT !.outcome = o]
    <3>1. g \in Frames /\ g.outcome = o /\ g.call = c
      BY <1>2 DEF Frames
    <3> QED BY <3>1
  <2>2. pc' = [pc EXCEPT ![p] = "attempt"] /\ frame' = [frame EXCEPT ![p] = f]
    BY <1>2, <1>7, <2>1 DEF Answered, TypeInv, TypeOK, ThreadTypeOK
  <2>3. CallFits("attempt", f)' /\ OpenFits("attempt", f)'
    BY <1>3, <1>4, <1>7, <2>1 DEF CallFits, OpenFits
  <2> QED BY <1>1, <1>3, <1>6, <2>1, <2>2, <2>3, SameRequests, ExecutorWrite
<1>8. CASE InvokeUnsupported(p) \/ InvokeGated(p) \/ InvokeAccepted(p)
  BY <1>7, <1>8, UnsupportedAssumption
  DEF InvokeUnsupported, InvokeGated, InvokeAccepted, ToolExecutionStatus
<1>9. CASE InvokeRetryable(p) /\ frame[p].attempt < MaxRetries
  <2>1. PICK f \in Frames : f = [frame[p] EXCEPT !.attempt = @ + 1] /\ f.call = c
    <3> DEFINE g == [frame[p] EXCEPT !.attempt = @ + 1]
    <3>1. g \in Frames /\ g.call = c
      BY <1>2 DEF Frames
    <3> QED BY <3>1
  <2>2. frame' = [frame EXCEPT ![p] = f] /\ pc' = pc
    BY <1>2, <1>9, <2>1, RetriesAssumption DEF InvokeRetryable, Frames, TypeInv, TypeOK, ThreadTypeOK
  <2>3. pc' = [pc EXCEPT ![p] = "invoke"]
    BY <1>1, <2>2 DEF TypeInv, TypeOK, ThreadTypeOK
  <2>4. CallFits("invoke", f)' /\ OpenFits("invoke", f)'
    BY <1>3, <1>4, <2>1 DEF CallFits, OpenFits
  <2> QED BY <1>1, <1>3, <1>6, <2>1, <2>2, <2>3, <2>4, SameRequests, ExecutorWrite
<1>10. CASE InvokeRetryable(p) /\ ~(frame[p].attempt < MaxRetries)
  <2>1. PICK f \in Frames : f = frame[p]
    BY <1>2
  <2>2. frame' = [frame EXCEPT ![p] = f] /\ pc' = [pc EXCEPT ![p] = "exhaust"]
    BY <1>2, <1>10, <2>1 DEF InvokeRetryable, TypeInv, TypeOK, ThreadTypeOK
  <2>3. CallFits("exhaust", f)' /\ OpenFits("exhaust", f)'
    BY <1>3, <1>4, <1>10, <2>1 DEF CallFits, OpenFits, InvokeRetryable
  <2> QED BY <1>1, <1>3, <1>6, <2>2, <2>3, SameRequests, ExecutorWrite
<1> QED BY <1>8, <1>9, <1>10 DEF Invoke

LEMMA AttemptRow ==
  ASSUME TypeInv, OwnInv, OwnInv', RowInv, UNCHANGED resolverVars, NEW p \in Threads, Attempt(p)
  PROVE  RowInv'
<1>1. fate[p] = "running" /\ pc[p] = "attempt" /\ "attempt" \in LoopLabels /\ "record" \in LoopLabels
  BY DEF Attempt, LoopLabels
<1>2. frame[p] \in Frames /\ OpenFits("attempt", frame[p]) /\ CallFits("attempt", frame[p])
  BY <1>1, LoopOwner
<1>3. CallFits("record", frame[p]) /\ OpenFits("record", frame[p])
  BY <1>2 DEF CallFits, OpenFits, QuietLabels
<1>4. UNCHANGED <<fate, execution, request, effects, status>>
  BY DEF Attempt, runVars
<1>5. Goto(p, "record") /\ frame' = [frame EXCEPT ![p] = frame[p]]
  BY DEF Attempt, TypeInv, TypeOK, ThreadTypeOK
<1> QED BY <1>1, <1>2, <1>3, <1>4, <1>5, QuietLoopStep

LEMMA RecordRow ==
  ASSUME TypeInv, OwnInv, OwnInv', RowInv, UNCHANGED resolverVars, NEW p \in Threads, Record(p)
  PROVE  RowInv'
<1>1. fate[p] = "running" /\ pc[p] = "record" /\ {"record", "gate", "step"} \subseteq LoopLabels
  BY DEF Record, LoopLabels
<1>2. PICK f \in Frames : f = frame[p]
  BY <1>1, LoopOwner
<1> DEFINE c == f.call
<1>3. OpenFits("record", f) /\ CallFits("record", f) /\ c \in Calls /\ f.outcome \in ToolExecutionStatus
  BY <1>1, <1>2, LoopOwner DEF KnownAt, CallLabels
<1>4. NoneWaiting /\ execution[c] \in {"pending", "failed"}
      /\ (c \in Gated <=> f.outcome = "approval_required")
  BY <1>3 DEF OpenFits, CallFits, QuietLabels
<1>5. frame' = [frame EXCEPT ![p] = f] /\ UNCHANGED <<fate, request, effects, status>>
  BY <1>2 DEF Record, TypeInv, TypeOK, ThreadTypeOK, runVars
<1>6. execution'[c] = f.outcome /\ \A d \in Calls \ {c} : execution'[d] = execution[d]
  BY <1>2, <1>3 DEF Record, UpdateToolExecution, TypeInv, TypeOK, RowTypeOK
<1>7. c \in Gated => request[c] = "absent"
  BY <1>3, <1>4, GatedAssumption
  DEF RowInv, RowsAgree, TypeInv, TypeOK, RowTypeOK, ApprovalRequestStatus
<1>8. RowsAgree'
  BY <1>3, <1>4, <1>5, <1>6, <1>7, GatedAssumption DEF RowInv, RowsAgree
<1>9. CASE f.outcome = "approval_required"
  <2>1. pc' = [pc EXCEPT ![p] = "gate"]
    BY <1>2, <1>9 DEF Record
  <2>2. CallFits("gate", f)' /\ OpenFits("gate", f)'
    BY <1>4, <1>5, <1>6, <1>7, <1>9, GatedAssumption DEF CallFits, OpenFits, NoneWaiting, QuietLabels
  <2> QED BY <1>1, <1>5, <1>8, <2>1, <2>2, SameRequests, ExecutorWrite
<1>10. CASE f.outcome # "approval_required"
  <2>1. pc' = [pc EXCEPT ![p] = "step"]
    BY <1>2, <1>10 DEF Record
  <2>2. CallFits("step", f)' /\ OpenFits("step", f)'
    BY <1>4, <1>5, <1>6, <1>10, GatedAssumption DEF CallFits, OpenFits, NoneWaiting, QuietLabels
  <2> QED BY <1>1, <1>5, <1>8, <2>1, <2>2, SameRequests, ExecutorWrite
<1> QED BY <1>9, <1>10

LEMMA GateRow ==
  ASSUME TypeInv, OwnInv, OwnInv', RowInv, UNCHANGED resolverVars, NEW p \in Threads, Gate(p)
  PROVE  RowInv'
<1>1. fate[p] = "running" /\ pc[p] = "gate" /\ {"gate", "step"} \subseteq LoopLabels
  BY DEF Gate, LoopLabels
<1>2. PICK f \in Frames : f = frame[p]
  BY <1>1, LoopOwner
<1> DEFINE c == f.call
<1>3. OpenFits("gate", f) /\ CallFits("gate", f)
  BY <1>1, <1>2, LoopOwner
<1>4. /\ c \in Gated /\ f.outcome = "approval_required" /\ execution[c] = "approval_required"
      /\ request[c] = "absent"
      /\ \A d \in Gated : request[d] # "pending" /\ (execution[d] = "approval_required" => d = c)
  BY <1>3 DEF OpenFits, CallFits, QuietLabels
<1>5. /\ frame' = [frame EXCEPT ![p] = f] /\ UNCHANGED <<fate, execution, effects, status>>
      /\ pc' = [pc EXCEPT ![p] = "step"]
  BY <1>2 DEF Gate, TypeInv, TypeOK, ThreadTypeOK, runVars, toolVars
<1>6. request'[c] = "pending" /\ \A d \in Calls \ {c} : request'[d] = request[d]
  BY <1>2, <1>4, GatedAssumption DEF Gate, CreateApprovalRequest, TypeInv, TypeOK, RowTypeOK
<1>7. RowsAgree'
  BY <1>4, <1>5, <1>6, GatedAssumption DEF RowInv, RowsAgree
<1>8. \A d, e \in Gated : request'[d] = "pending" /\ request'[e] = "pending" => d = e
  BY <1>4, <1>6, GatedAssumption
<1>9. CheckOpen'
  <2>1. \A a \in Approvers : pc'[a] = "check" => pc[a] = "check" /\ target[a] \in Gated
    BY <1>5 DEF TypeInv, TypeOK, ThreadTypeOK, FrameOK
  <2>2. \A d \in Gated : request[d] = "pending" => request'[d] = "pending"
    BY <1>4, <1>6, GatedAssumption
  <2> QED BY <1>5, <2>1, <2>2 DEF RowInv, CheckOpen, resolverVars
<1>10. CallFits("step", f)' /\ OpenFits("step", f)'
  BY <1>4, <1>5, <1>6, GatedAssumption DEF CallFits, OpenFits, SomeOpen, OnlyOpenWaits, QuietLabels
<1> QED BY <1>1, <1>5, <1>7, <1>8, <1>9, <1>10, ExecutorWrite

LEMMA ExhaustRow ==
  ASSUME TypeInv, OwnInv, OwnInv', RowInv, UNCHANGED resolverVars, NEW p \in Threads, Exhaust(p)
  PROVE  RowInv'
<1>1. fate[p] = "running" /\ pc[p] = "exhaust" /\ {"exhaust", "step"} \subseteq LoopLabels
  BY DEF Exhaust, LoopLabels
<1> DEFINE c == frame[p].call
<1>2. frame[p] \in Frames /\ OpenFits("exhaust", frame[p]) /\ CallFits("exhaust", frame[p])
      /\ c \in Calls
  BY <1>1, LoopOwner DEF KnownAt, CallLabels
<1>3. NoneWaiting /\ c \notin Gated
  BY <1>2 DEF OpenFits, CallFits, QuietLabels
<1>4. PICK f \in Frames : f = [frame[p] EXCEPT !.outcome = "failed"] /\ f.outcome = "failed"
  <2> DEFINE g == [frame[p] EXCEPT !.outcome = "failed"]
  <2>1. g \in Frames /\ g.outcome = "failed"
    BY <1>2 DEF Frames, ToolExecutionStatus
  <2> QED BY <2>1
<1>5. /\ frame' = [frame EXCEPT ![p] = f] /\ UNCHANGED <<fate, request, effects, status>>
      /\ pc' = [pc EXCEPT ![p] = "step"]
  BY <1>2, <1>4 DEF Exhaust, TypeInv, TypeOK, ThreadTypeOK, runVars
<1>6. execution'[c] = "failed" /\ \A d \in Calls \ {c} : execution'[d] = execution[d]
  BY <1>2 DEF Exhaust, UpdateToolExecution, TypeInv, TypeOK, RowTypeOK
<1>7. RowsAgree' /\ NoneWaiting'
  BY <1>2, <1>3, <1>5, <1>6, GatedAssumption DEF RowInv, RowsAgree, NoneWaiting
<1>8. CallFits("step", f)' /\ OpenFits("step", f)'
  BY <1>4, <1>7 DEF CallFits, OpenFits, QuietLabels
<1> QED BY <1>1, <1>4, <1>5, <1>7, <1>8, SameRequests, ExecutorWrite

LEMMA LoopRow ==
  ASSUME TypeInv, TypeInv', OwnInv, OwnInv', RowInv, UNCHANGED resolverVars, NEW p \in Threads,
         LoopStep(p) \/ SaveMeeting(p)
  PROVE  RowInv'
  BY PlanRow, CountRow, PickRow, EndIterationRow, StepRow, SaveRow, CreateRow, InvokeRow,
     AttemptRow, RecordRow, GateRow, ExhaustRow DEF LoopStep, ExecutorStep
-----------------------------------------------------------------------------
(* The worker.                                                             *)

LEMMA RowsInit == Init => RowInv
  BY GatedAssumption
  DEF Init, RowInit, ThreadInit, RowInv, RowsAgree, OpenOnce, NoneWaiting, OnlyOpenWaits,
      CheckOpen, OwnerFits, Owns, OwningLabels, PendingLabels, ValidatedLabels,
      ExecutingLabels, ResolvingLabels, LoopLabels, AwaitingActionable

LEMMA WorkerRow ==
  ASSUME TypeInv, TypeInv', OwnInv, OwnInv', RowInv, NEW w \in Workers, WorkerNext(w),
         UNCHANGED resolverVars
  PROVE  RowInv'
<1>1. /\ pc \in [Threads -> Labels] /\ fate \in [Threads -> Fates]
      /\ frame \in [Threads -> Frames] /\ frame[w] \in Frames
      /\ w \in Threads /\ w \notin Approvers /\ frame = [frame EXCEPT ![w] = frame[w]]
  BY ThreadAssumption DEF TypeInv, TypeOK, ThreadTypeOK
<1>2. target' = target /\ decision' = decision
  BY DEF resolverVars
<1> DEFINE ToTranscript == {"transcribe", "publish", "validate", "drain", "execute", "fail", "ack",
                        "existing", "misreport"}
<1>3. \A l \in ToTranscript, f \in Frames : Fits(w, l, f) /\ l \in Labels \ {"check"}
  BY <1>1 DEF Fits, CallFits, OpenFits, QuietLabels, Labels
<1>4. pc[w] \notin Handing
  BY DEF OwnInv, Placement, WorkerLabels, PendingLabels, ValidatedLabels, LoopLabels, Handing
<1> HIDE DEF Handing
<1>5. ASSUME NEW l \in ToTranscript, Goto(w, l), UNCHANGED <<frame, fate, rowVars, effects>>
      PROVE  RowInv'
  BY <1>1, <1>2, <1>3, <1>4, <1>5, QuietStep DEF rowVars, runVars, toolVars
<1>6. ASSUME NEW l \in ToTranscript, Goto(w, l), Owns(w),
             UNCHANGED <<frame, fate, execution, request, effects>>,
             status' \in {"pending", "validated", "done"} => NoneWaiting,
             status' = "awaiting_approval" => SomeOpen /\ OnlyOpenWaits
      PROVE  RowInv'
  BY <1>1, <1>2, <1>3, <1>6, StatusStep
<1>7. CASE Deliver(w) \/ DeliverRaises(w) \/ Transcribe(w) \/ Publish(w) \/ Drain(w)
             \/ WorkerRaises(w) \/ FailRunRaises(w) \/ ReportExisting(w) \/ ReportRaises(w)
  BY <1>5, <1>7 DEF Deliver, DeliverRaises, Transcribe, Publish, Drain, WorkerRaises, FailRunRaises,
                    ReportExisting, ReportRaises
<1>8. CASE Validate(w)
  <2>1. Owns(w) /\ NoneWaiting
    BY <1>1, <1>8 DEF Validate, Owns, OwningLabels, PendingLabels, OwnInv, SingleOwner, StatusKept,
                      StatusFits, RowInv, OpenOnce
  <2> QED BY <1>6, <1>8, <2>1 DEF Validate, UpdateWorkflowStatus, toolVars
<1>9. CASE Execute(w)
  <2>1. Owns(w) /\ NoneWaiting
    BY <1>1, <1>9 DEF Execute, Owns, OwningLabels, ValidatedLabels, OwnInv, SingleOwner, StatusKept,
                      StatusFits, RowInv, OpenOnce
  <2>2. /\ status' = "executing" /\ UNCHANGED <<fate, execution, request, effects>>
        /\ Goto(w, "plan") /\ frame' = [frame EXCEPT ![w] = [NoFrame EXCEPT !.iteration = 1]]
    BY <1>9, IterationsAssumption DEF Execute, UpdateWorkflowStatus, StartRun, Iterate, toolVars
  <2>3. [NoFrame EXCEPT !.iteration = 1] \in Frames
    BY DEF NoFrame, Frames
  <2>4. \A f \in Frames : Fits(w, "plan", f)
    BY <1>1, <2>1 DEF Fits, CallFits, OpenFits
  <2>5. "plan" \in Labels \ {"check"}
    BY DEF Labels
  <2> QED BY <1>1, <1>2, <2>1, <2>2, <2>3, <2>4, <2>5, StatusStep
<1>10. CASE (LoopStep(w) \/ SaveMeeting(w)) /\ UNCHANGED jobVars
  BY <1>1, <1>10, LoopRow
<1>11. CASE FinishRun(w)
  <2>1. fate[w] = "running" /\ pc[w] = "finish" /\ "finish" \in LoopLabels
    BY <1>11 DEF FinishRun, LoopLabels
  <2>2. Owns(w) /\ OpenFits("finish", frame[w])
    BY <1>1, <2>1, LoopOwner
  <2> QED BY <1>6, <1>11, <2>2 DEF FinishRun, UpdateWorkflowStatus, OpenFits, toolVars
<1>12. CASE FailRun(w)
  BY <1>6, <1>12 DEF FailRun, UpdateWorkflowStatus, Owns, OwningLabels, toolVars
<1>13. CASE Acknowledge(w) \/ WorkerCrash(w)
  BY <1>1, <1>2, <1>13, EndStep DEF Acknowledge, WorkerCrash, Fates, rowVars, toolVars
<1>14. CASE Misreport(w)
  <2>1. /\ pc' = [pc EXCEPT ![w] = "ack"] /\ status' = "failed"
        /\ UNCHANGED <<frame, fate, execution, request, effects>>
    BY <1>14 DEF Misreport, UpdateWorkflowStatus, toolVars
  <2>2. RowsAgree' /\ OpenOnce' /\ CheckOpen' /\ AwaitingActionable'
    BY <1>1, <1>2, <2>1 DEF RowInv, RowsAgree, OpenOnce, CheckOpen, AwaitingActionable
  <2>3. ASSUME NEW q \in Threads, Owns(q)' PROVE Fits(q, pc[q], frame[q])'
    <3>1. Owns(q) /\ pc'[q] = pc[q]
      BY <1>1, <2>1, <2>3 DEF Owns, OwningLabels, PendingLabels, ValidatedLabels,
                              ExecutingLabels, ResolvingLabels, LoopLabels
    <3>2. Fits(q, pc[q], frame[q])
      BY <3>1 DEF RowInv, OwnerFits
    <3> QED BY <1>2, <2>1, <3>1, <3>2 DEF Fits, CallFits, OpenFits, ResolverFits, NoneWaiting,
                                          OnlyOpenWaits, SomeOpen
  <2> QED BY <2>2, <2>3 DEF RowInv, OwnerFits
<1> QED BY <1>7, <1>8, <1>9, <1>10, <1>11, <1>12, <1>13, <1>14 DEF WorkerNext, WorkerStep

-----------------------------------------------------------------------------
(* The resolver.                                                           *)

\* A row of the call being resolved is written while the run waits.
LEMMA ResolverWrite ==
  ASSUME TypeInv, OwnInv, OwnInv', RowInv, UNCHANGED resolverVars,
         NEW a \in Approvers, At(a, "settle") \/ At(a, "resolve"),
         NEW l \in {"resolve", "mark"}, pc' = [pc EXCEPT ![a] = l],
         UNCHANGED <<fate, frame, effects, status>>,
         RowsAgree', Fits(a, l, frame[a])', CheckOpen',
         \A c, d \in Gated : request'[c] = "pending" /\ request'[d] = "pending" => c = d,
         OnlyOpenWaits'
  PROVE  RowInv'
<1>1. /\ pc \in [Threads -> Labels] /\ frame \in [Threads -> Frames] /\ frame[a] \in Frames
      /\ frame' = [frame EXCEPT ![a] = frame[a]] /\ l \in Labels
  BY DEF TypeInv, TypeOK, ThreadTypeOK, Labels
<1>2. Owns(a) /\ LeftAs("awaiting_approval")
  BY DEF Owns, OwningLabels, ResolvingLabels, OwnInv, SingleOwner, StatusKept, StatusFits, LeftAs
<1>3. OpenOnce'
  BY <1>2 DEF LeftAs, OpenOnce, OnlyOpenWaits
<1>4. AwaitingActionable'
  BY <1>1 DEF AwaitingActionable, HandingBack
<1>5. \E f \in Frames : f = frame[a]
  BY <1>1
<1>6. PICK f \in Frames : f = frame[a]
  BY <1>5
<1>7. Fits(a, l, f)'
  BY <1>1, <1>6 DEF Fits, CallFits, OpenFits
<1> QED BY <1>1, <1>2, <1>3, <1>4, <1>6, <1>7, OwnerStep

LEMMA ResolverRow ==
  ASSUME TypeInv, TypeInv', OwnInv, OwnInv', RowInv, NEW a \in Approvers, ResolverNext(a)
  PROVE  RowInv'
<1>1. /\ pc \in [Threads -> Labels] /\ fate \in [Threads -> Fates]
      /\ frame \in [Threads -> Frames] /\ frame[a] \in Frames
      /\ a \in Threads /\ frame = [frame EXCEPT ![a] = frame[a]]
  BY DEF TypeInv, TypeOK, ThreadTypeOK
<1>2. \A l \in ResolvingLabels \cup {"resume"}, f \in Frames :
        CallFits(l, f) /\ l \in Labels \ {"check"} /\ (At(a, l) => Owns(a))
  BY DEF CallFits, ResolvingLabels, Labels, Owns, OwningLabels, ExecutingLabels
<1>3. pc[a] # "idle" => target[a] \in Gated /\ decision[a] \in Decisions
  BY DEF TypeInv, FrameOK
<1>4. Owns(a) => Fits(a, pc[a], frame[a])
  BY <1>1 DEF RowInv, OwnerFits
<1>5. ASSUME NEW how \in Fates \ {"running"}, End(a, how),
             UNCHANGED <<rowVars, effects, resolverVars>>
      PROVE  RowInv'
  BY <1>1, <1>5, EndStep DEF rowVars, runVars, toolVars, resolverVars
<1>6. ASSUME NEW l \in ResolvingLabels \cup {"resume"}, Goto(a, l), UNCHANGED <<fate, frame>>,
             UNCHANGED <<execution, request, effects, status, resolverVars>>,
             OpenFits(l, frame[a]), ResolverFits(a, l), pc[a] \in Handing => l \in Handing
      PROVE  RowInv'
  <2>1. Fits(a, l, frame[a])
    BY <1>1, <1>2, <1>6 DEF Fits
  <2> QED BY <1>1, <1>2, <1>6, <2>1, QuietStep DEF resolverVars
<1>7. CASE Open(a)
  <2>1. PICK c \in Gated, d \in Decisions :
          /\ target' = [target EXCEPT ![a] = c] /\ decision' = [decision EXCEPT ![a] = d]
          /\ IF request[c] = "pending" THEN Goto(a, "check") /\ UNCHANGED <<fate, frame>>
                                       ELSE End(a, "refused")
    BY <1>7 DEF Open
  <2>2. pc[a] = "idle" /\ UNCHANGED <<execution, request, effects, status>>
    BY <1>7 DEF Open, rowVars, runVars, toolVars
  <2>3. /\ target \in [Approvers -> Gated \cup {NoCall}]
        /\ decision \in [Approvers -> Decisions \cup {"none"}]
    BY DEF TypeInv, TypeOK, ResolverTypeOK
  <2>4. RowsAgree' /\ OpenOnce'
    BY <2>2 DEF RowInv, RowsAgree, OpenOnce, NoneWaiting, OnlyOpenWaits
  <2>5. CheckOpen'
    BY <1>1, <2>1, <2>2, <2>3 DEF RowInv, CheckOpen, End
  <2>6. AwaitingActionable'
    <3>1. \A b \in Approvers : pc[b] \in {"resolve", "mark", "reopen"} => pc'[b] = pc[b]
      BY <1>1, <2>1, <2>2 DEF End
    <3> QED BY <2>2, <3>1 DEF RowInv, AwaitingActionable, HandingBack
  <2>7. ASSUME NEW q \in Threads, Owns(q)' PROVE Fits(q, pc[q], frame[q])'
    <3>1. q # a /\ Owns(q) /\ pc'[q] = pc[q] /\ frame'[q] = frame[q]
      BY <1>1, <2>1, <2>2, <2>7 DEF End, Owns, OwningLabels, PendingLabels, ValidatedLabels,
                                    ExecutingLabels, ResolvingLabels, LoopLabels
    <3>2. Fits(q, pc[q], frame[q])
      BY <3>1 DEF RowInv, OwnerFits
    <3>3. q \in Approvers => target'[q] = target[q] /\ decision'[q] = decision[q]
      BY <2>1, <2>3, <3>1
    <3> QED BY <2>2, <3>1, <3>2, <3>3 DEF Fits, CallFits, OpenFits, ResolverFits, NoneWaiting,
                                          OnlyOpenWaits, SomeOpen
  <2> QED BY <2>4, <2>5, <2>6, <2>7 DEF RowInv, OwnerFits
<1>8. CASE CheckRun(a)
  <2>1. CASE status = "awaiting_approval"
    <3>1. OpenFits("inspect", frame[a]) /\ ResolverFits(a, "inspect") /\ pc[a] \notin Handing
      BY <1>8, <2>1 DEF CheckRun, RowInv, CheckOpen, OpenOnce, OpenFits, QuietLabels, ResolverFits, Handing
    <3> QED BY <1>6, <1>8, <2>1, <3>1 DEF CheckRun, ResolvingLabels, rowVars, runVars, toolVars
  <2>2. CASE status # "awaiting_approval"
    BY <1>5, <1>8, <2>2 DEF CheckRun, Fates
  <2> QED BY <2>1, <2>2
<1>9. CASE Inspect(a)
  <2> DEFINE next == IF decision[a] = "approve" THEN "deliver" ELSE "log"
  <2>1. Owns(a) /\ pc[a] = "inspect" /\ pc[a] \notin Handing /\ next \in ResolvingLabels
    BY <1>1, <1>2, <1>9 DEF Inspect, ResolvingLabels, Handing
  <2>2. request[target[a]] = "pending" /\ OnlyOpenWaits
    BY <1>4, <2>1 DEF Fits, ResolverFits, OpenFits
  <2>3. CASE execution[target[a]] = "approval_required"
    <3>1. OpenFits(next, frame[a]) /\ ResolverFits(a, next)
      BY <2>2, <2>3 DEF OpenFits, QuietLabels, ResolverFits
    <3> QED BY <1>6, <1>9, <2>1, <2>3, <3>1 DEF Inspect, rowVars, runVars, toolVars
  <2>4. CASE execution[target[a]] # "approval_required"
    BY <1>5, <1>9, <2>4 DEF Inspect, Fates
  <2> QED BY <2>3, <2>4
<1>10. CASE DeliverApproved(a)
  <2>1. Owns(a) /\ target[a] \in Gated /\ pc[a] = "deliver"
    BY <1>1, <1>2, <1>3, <1>10 DEF DeliverApproved, ResolvingLabels
  <2>2. /\ request[target[a]] = "pending" /\ execution[target[a]] = "approval_required"
        /\ decision[a] = "approve" /\ OnlyOpenWaits
    BY <1>4, <2>1 DEF Fits, ResolverFits, OpenFits
  <2>3. /\ pc' = [pc EXCEPT ![a] = "log"] /\ fate' = fate /\ frame' = frame
        /\ UNCHANGED <<execution, request, status, target, decision>>
    BY <1>10 DEF DeliverApproved, rowVars, runVars, toolVars, resolverVars
  <2>4. \A d \in Calls : effects'[d] >= effects[d] /\ effects[d] \in Nat /\ effects'[d] \in Nat
    BY <1>10 DEF DeliverApproved, TypeInv, TypeOK, ThreadTypeOK
  <2>5. effects'[target[a]] > 0
    BY <1>10, <2>1, GatedAssumption DEF DeliverApproved, TypeInv, TypeOK, ThreadTypeOK
  <2>6. RowsAgree' /\ OpenOnce'
    BY <2>3, <2>4, GatedAssumption
    DEF RowInv, RowsAgree, OpenOnce, NoneWaiting, OnlyOpenWaits
  <2>7. CheckOpen' /\ AwaitingActionable'
    BY <1>1, <2>1, <2>3 DEF RowInv, CheckOpen, AwaitingActionable, HandingBack
  <2>8. PICK f \in Frames : f = frame[a]
    BY <1>1
  <2>9. Fits(a, "log", f)'
    BY <2>2, <2>3, <2>5 DEF Fits, CallFits, OpenFits, QuietLabels, ResolverFits, OnlyOpenWaits
  <2> QED BY <1>1, <1>2, <2>1, <2>3, <2>6, <2>7, <2>8, <2>9, OwnerStep DEF Labels
<1>11. CASE LogAttempt(a)
  <2>1. Owns(a) /\ pc[a] = "log" /\ "settle" \in ResolvingLabels /\ pc[a] \notin Handing
    BY <1>1, <1>2, <1>11 DEF LogAttempt, ResolvingLabels, Handing
  <2>2. OpenFits("settle", frame[a]) /\ ResolverFits(a, "settle")
    BY <1>4, <2>1 DEF Fits, OpenFits, QuietLabels, ResolverFits
  <2> QED BY <1>6, <1>11, <2>1, <2>2 DEF LogAttempt, runVars
<1>12. CASE Settle(a)
  <2> DEFINE c == target[a]
             s == IF decision[a] = "approve" THEN "executed" ELSE "skipped"
  <2>1. Owns(a) /\ c \in Gated /\ pc[a] = "settle" /\ decision[a] \in Decisions
    BY <1>1, <1>2, <1>3, <1>12 DEF Settle, ResolvingLabels
  <2>2. request[c] = "pending" /\ OnlyOpenWaits /\ (decision[a] = "approve" => effects[c] > 0)
    BY <1>4, <2>1 DEF Fits, ResolverFits, OpenFits
  <2>3. /\ pc' = [pc EXCEPT ![a] = "resolve"] /\ fate' = fate /\ frame' = frame
        /\ UNCHANGED <<request, effects, status, resolverVars>>
    BY <1>12 DEF Settle, runVars
  <2>4. execution'[c] = s /\ \A d \in Calls \ {c} : execution'[d] = execution[d]
    BY <1>12, <2>1, GatedAssumption
    DEF Settle, UpdateToolExecution, TypeInv, TypeOK, RowTypeOK
  <2>5. RowsAgree'
    BY <2>1, <2>2, <2>3, <2>4, GatedAssumption DEF RowInv, RowsAgree, Decisions
  <2>6. OnlyOpenWaits' /\ \A d, e \in Gated : request'[d] = "pending" /\ request'[e] = "pending" => d = e
    BY <2>1, <2>2, <2>3, <2>4, GatedAssumption DEF RowInv, OpenOnce, OnlyOpenWaits
  <2>7. CheckOpen'
    BY <1>1, <2>3 DEF RowInv, CheckOpen, resolverVars
  <2>8. Fits(a, "resolve", frame[a])'
    BY <2>1, <2>2, <2>3, <2>4, <2>6 DEF Fits, CallFits, OpenFits, QuietLabels, ResolverFits,
                                        resolverVars, Decisions
  <2> QED BY <1>12, <2>3, <2>5, <2>6, <2>7, <2>8, ResolverWrite DEF Settle
<1>13. CASE Resolve(a)
  <2> DEFINE c == target[a]
             s == IF decision[a] = "approve" THEN "approved" ELSE "rejected"
  <2>1. Owns(a) /\ c \in Gated /\ pc[a] = "resolve"
    BY <1>1, <1>2, <1>3, <1>13 DEF Resolve, ResolvingLabels
  <2>2. /\ request[c] = "pending" /\ OnlyOpenWaits
        /\ \/ decision[a] = "approve" /\ execution[c] = "executed" /\ effects[c] > 0
           \/ decision[a] = "reject" /\ execution[c] = "skipped"
    BY <1>4, <2>1 DEF Fits, ResolverFits, OpenFits
  <2>3. /\ pc' = [pc EXCEPT ![a] = "mark"] /\ fate' = fate /\ frame' = frame
        /\ UNCHANGED <<execution, effects, status, resolverVars>>
    BY <1>13 DEF Resolve, runVars, toolVars
  <2>4. request'[c] = s /\ \A d \in Calls \ {c} : request'[d] = request[d]
    BY <1>13, <2>1, GatedAssumption
    DEF Resolve, ResolveApprovalRequest, TypeInv, TypeOK, RowTypeOK
  <2>5. RowsAgree'
    BY <2>1, <2>2, <2>3, <2>4, GatedAssumption DEF RowInv, RowsAgree
  <2>6. NoneWaiting'
    BY <2>1, <2>2, <2>3, <2>4, GatedAssumption DEF RowInv, OpenOnce, OnlyOpenWaits, NoneWaiting
  <2>7. OnlyOpenWaits' /\ \A d, e \in Gated : request'[d] = "pending" /\ request'[e] = "pending" => d = e
    BY <2>6 DEF NoneWaiting, OnlyOpenWaits
  <2>8. CheckOpen'
    BY <1>1, <2>1, <2>3 DEF OwnInv, Placement, Owns, OwningLabels, CheckOpen
  <2>9. Fits(a, "mark", frame[a])'
    BY <2>6 DEF Fits, CallFits, OpenFits, QuietLabels, ResolverFits
  <2> QED BY <1>13, <2>3, <2>5, <2>7, <2>8, <2>9, ResolverWrite DEF Resolve
<1>14. CASE MarkStep(a)
  <2>1. Owns(a) /\ pc[a] = "mark" /\ "reopen" \in ResolvingLabels /\ "reopen" \in Handing
    BY <1>1, <1>2, <1>14 DEF MarkStep, ResolvingLabels, Handing
  <2>2. OpenFits("reopen", frame[a]) /\ ResolverFits(a, "reopen")
    BY <1>4, <2>1 DEF Fits, OpenFits, QuietLabels, ResolverFits
  <2> QED BY <1>6, <1>14, <2>1, <2>2 DEF MarkStep, runVars, toolVars
<1>15. CASE Reopen(a)
  <2>1. Owns(a) /\ pc[a] = "reopen"
    BY <1>1, <1>2, <1>15 DEF Reopen, ResolvingLabels
  <2>2. OpenFits("resume", frame[a]) /\ ResolverFits(a, "resume")
    BY <1>4, <2>1 DEF Fits, OpenFits, QuietLabels, ResolverFits
  <2>3. /\ pc' = [pc EXCEPT ![a] = "resume"] /\ fate' = fate /\ frame' = frame
        /\ status' = "executing"
        /\ UNCHANGED <<execution, request, effects, target, decision>>
    BY <1>15 DEF Reopen, UpdateWorkflowStatus, toolVars, resolverVars
  <2>4. Fits(a, "resume", frame[a]) /\ "resume" \in Labels \ {"check"}
    BY <1>1, <1>2, <2>2 DEF Fits
  <2> QED BY <1>1, <2>1, <2>3, <2>4, StatusStep
<1>16. CASE Resume(a)
  <2>1. Owns(a) /\ pc[a] = "resume"
    BY <1>1, <1>2, <1>16 DEF Resume
  <2>2. NoneWaiting
    BY <1>4, <2>1 DEF Fits, OpenFits, QuietLabels
  <2>3. UNCHANGED <<resolverVars, fate, execution, request, effects, status>>
    BY <1>16 DEF Resume, rowVars, runVars, toolVars
  <2>4. PICK f \in Frames : Iterate(a, f, iterationCount + 1)
    <3> DEFINE f == [NoFrame EXCEPT !.seen = {c \in Calls : execution[c] \in Reusable},
                                    !.items = lastPlan]
    <3>1. f \in Frames
      BY DEF NoFrame, Frames, TypeInv, TypeOK, RowTypeOK
    <3> QED BY <1>16, <3>1 DEF Resume, StartResume
  <2>5. iterationCount + 1 \in Nat
    BY DEF TypeInv, TypeOK, RowTypeOK
  <2> QED BY <1>1, <2>1, <2>2, <2>3, <2>4, <2>5, IterateRow
<1>17. CASE (LoopStep(a) \/ SaveMeeting(a)) /\ UNCHANGED <<jobVars, resolverVars>>
  BY <1>1, <1>17, LoopRow
<1>18. CASE FinishResolve(a)
  <2>1. fate[a] = "running" /\ pc[a] = "finish" /\ "finish" \in LoopLabels
    BY <1>18 DEF FinishResolve, LoopLabels
  <2>2. Owns(a) /\ OpenFits("finish", frame[a]) /\ frame[a].verdict \in Verdicts
    BY <1>1, <2>1, LoopOwner DEF KnownAt
  <2>3. /\ status' = frame[a].verdict /\ pc' = pc /\ End(a, "returned")
        /\ UNCHANGED <<execution, request, effects, resolverVars>>
    BY <1>18 DEF FinishResolve, UpdateWorkflowStatus, End, toolVars
  <2>4. RowsAgree' /\ OpenOnce' /\ AwaitingActionable'
    BY <2>2, <2>3 DEF OpenFits, RowInv, RowsAgree, OpenOnce, NoneWaiting, OnlyOpenWaits, SomeOpen,
                      AwaitingActionable, Verdicts
  <2>5. CheckOpen'
    BY <1>1, <2>3 DEF RowInv, CheckOpen, End, resolverVars
  <2>6. \A q \in Threads : ~Owns(q)'
    BY <1>1, <2>2, <2>3 DEF OwnInv, SingleOwner, Owns, End
  <2> QED BY <2>4, <2>5, <2>6 DEF RowInv, OwnerFits
<1>19. CASE ResolverRaises(a) \/ ResolverCrash(a)
  BY <1>5, <1>19 DEF ResolverRaises, ResolverCrash, Fates
<1> QED
  BY <1>7, <1>8, <1>9, <1>10, <1>11, <1>12, <1>13, <1>14, <1>15, <1>16, <1>17, <1>18, <1>19
  DEF ResolverNext, ResolverStep

-----------------------------------------------------------------------------
(* The inductive invariant, and what follows from it.                      *)

LEMMA RowStep == TypeInv /\ TypeInv' /\ OwnInv /\ OwnInv' /\ RowInv /\ [Next]_vars => RowInv'
<1> SUFFICES ASSUME TypeInv, TypeInv', OwnInv, OwnInv', RowInv, [Next]_vars PROVE RowInv'
  OBVIOUS
<1>1. CASE Enqueue /\ UNCHANGED resolverVars
  BY <1>1 DEF Enqueue, threadVars, rowVars, runVars, toolVars, resolverVars, RowInv, RowsAgree,
              OpenOnce, NoneWaiting, OnlyOpenWaits, CheckOpen, OwnerFits, Owns, Fits, CallFits,
              OpenFits, SomeOpen, ResolverFits, AwaitingActionable, HandingBack
<1>2. CASE UNCHANGED vars
  BY <1>2 DEF vars, threadVars, rowVars, runVars, toolVars, resolverVars, RowInv, RowsAgree,
              OpenOnce, NoneWaiting, OnlyOpenWaits, CheckOpen, OwnerFits, Owns, Fits, CallFits,
              OpenFits, SomeOpen, ResolverFits, AwaitingActionable, HandingBack
<1> QED BY <1>1, <1>2, WorkerRow, ResolverRow DEF Next

LEMMA IInvParts == IInv <=> TypeInv /\ OwnInv /\ RowInv
  BY DEF IInv, OwnInv, RowInv

LEMMA IInvInit == Init => IInv
  BY TypeInit, OwnInit, RowsInit, IInvParts

LEMMA IInvStep ==
  ASSUME ~ConcurrentResolvers
  PROVE  IInv /\ [Next]_vars => IInv'
<1>1. TypeInv /\ [Next]_vars => TypeInv'
  BY TypeStep
<1>2. TypeInv /\ OwnInv /\ [Next]_vars => OwnInv'
  BY OwnStep
<1>3. (IInv <=> TypeInv /\ OwnInv /\ RowInv) /\ (IInv' <=> TypeInv' /\ OwnInv' /\ RowInv')
  BY DEF IInv, OwnInv, RowInv
<1> QED BY <1>1, <1>2, <1>3, RowStep

\* With resolvers that do not overlap, the inductive invariant holds for any
\* number of calls, workers, resolvers, retries, iterations and crashes.
THEOREM Invariance ==
  ASSUME ~ConcurrentResolvers
  PROVE  Spec => []IInv
  BY IInvInit, IInvStep, PTL DEF Spec

\* With resolvers that do not overlap, a request that is approved belongs to a
\* call its provider accepted, one that is rejected to a call that was skipped.
THEOREM ResolutionsAgree ==
  ASSUME ~ConcurrentResolvers
  PROVE  Spec => []ResolutionAgrees
<1>1. IInv => ResolutionAgrees
  BY DEF IInv, RowsAgree, ResolutionAgrees
<1> QED BY <1>1, Invariance, PTL

\* With resolvers that do not overlap, a run that waits for approval can be
\* approved, or a resolver is between its answer and the run; one that stopped
\* there has left the run waiting for good.
THEOREM WaitingActionable ==
  ASSUME ~ConcurrentResolvers
  PROVE  Spec => []AwaitingActionable
<1>1. IInv => AwaitingActionable
  BY DEF IInv
<1> QED BY <1>1, Invariance, PTL

\* With resolvers that do not overlap, a run is never reported as done over an
\* open approval.
THEOREM DoneResolved ==
  ASSUME ~ConcurrentResolvers
  PROVE  Spec => []DoneMeansResolved
<1>1. IInv => DoneMeansResolved
  BY DEF IInv, OpenOnce, NoneWaiting, DoneMeansResolved
<1> QED BY <1>1, Invariance, PTL

-----------------------------------------------------------------------------
(* An execution that was answered is never touched again: whoever writes   *)
(* the row of a call, or calls its provider, found it unanswered.          *)

LEMMA LoopSparesAnswered ==
  ASSUME IInv, NEW p \in Threads, LoopStep(p) \/ SaveMeeting(p), NEW c \in Calls,
         execution[c] \in {"executed", "skipped"}
  PROVE  execution'[c] = execution[c] /\ effects'[c] = effects[c]
<1> DEFINE d == frame[p].call
<1>1. TypeInv /\ OwnInv /\ RowInv
  BY IInvParts
<1>2. execution \in [Calls -> ToolExecutionStatus \cup {"absent"}] /\ effects \in [Calls -> Nat]
  BY <1>1 DEF TypeInv, TypeOK, RowTypeOK, ThreadTypeOK
<1>3. fate[p] = "running" /\ pc[p] \in LoopLabels
  BY <1>1, LoopStays
<1>4. CallFits(pc[p], frame[p]) /\ KnownAt(pc[p], frame[p])
  BY <1>1, <1>3, LoopOwner
<1>5. CASE Create(p)
  BY <1>2, <1>4, <1>5 DEF Create, CreateToolExecution, CallFits
<1>6. CASE Invoke(p)
  <2>1. pc[p] = "invoke" /\ execution' = execution
    BY <1>6 DEF Invoke, InvokeUnsupported, InvokeGated, InvokeAccepted, InvokeRetryable,
                Answered, rowVars
  <2>2. c # d /\ d \in Calls
    BY <1>4, <2>1 DEF CallFits, KnownAt, CallLabels
  <2>3. \/ effects' = effects
        \/ \E n \in {0, 1} : effects' = [effects EXCEPT ![d] = @ + n]
    BY <1>6 DEF Invoke, InvokeUnsupported, InvokeGated, InvokeAccepted, InvokeRetryable
  <2> QED BY <1>2, <2>1, <2>2, <2>3
<1>7. CASE Record(p) \/ Exhaust(p)
  BY <1>2, <1>4, <1>7 DEF Record, Exhaust, UpdateToolExecution, CallFits
<1>8. CASE Attempt(p) \/ Gate(p) \/ Plan(p) \/ Count(p) \/ Pick(p) \/ EndIteration(p) \/ Step(p)
             \/ SaveMeeting(p)
  BY <1>8 DEF Attempt, Gate, Plan, Count, Pick, EndIteration, Step, SaveMeeting, toolVars, rowVars
<1> QED BY <1>5, <1>6, <1>7, <1>8 DEF LoopStep, ExecutorStep

LEMMA ResolverSparesAnswered ==
  ASSUME IInv, NEW a \in Approvers, DeliverApproved(a) \/ Settle(a), NEW c \in Calls,
         execution[c] \in {"executed", "skipped"}
  PROVE  execution'[c] = execution[c] /\ effects'[c] = effects[c]
<1>1. execution \in [Calls -> ToolExecutionStatus \cup {"absent"}] /\ effects \in [Calls -> Nat]
  BY DEF IInv, TypeInv, TypeOK, RowTypeOK, ThreadTypeOK
<1>2. Owns(a) /\ pc[a] \in {"deliver", "settle"}
  BY DEF DeliverApproved, Settle, Owns, OwningLabels, ResolvingLabels
<1>3. execution[target[a]] = "approval_required"
  BY <1>2 DEF IInv, OwnerFits, Fits, ResolverFits
<1> QED BY <1>1, <1>3 DEF DeliverApproved, Settle, UpdateToolExecution, rowVars, toolVars

\* With resolvers that do not overlap, a call that was executed or skipped is
\* never made again and its row is never rewritten.
THEOREM ExecutedFinal ==
  ASSUME ~ConcurrentResolvers
  PROVE  Spec => ExecutedIsFinal
<1>1. IInv /\ [Next]_vars =>
        [\A c \in Calls : execution[c] \in {"executed", "skipped"} =>
           (execution'[c] = execution[c] /\ effects'[c] = effects[c])]_vars
  <2> SUFFICES ASSUME IInv, [Next]_vars, NEW c \in Calls, execution[c] \in {"executed", "skipped"}
               PROVE  execution'[c] = execution[c] /\ effects'[c] = effects[c]
    OBVIOUS
  <2>1. CASE Enqueue \/ UNCHANGED vars
    BY <2>1 DEF Enqueue, vars, rowVars
  <2>2. ASSUME NEW w \in Workers, WorkerNext(w)
        PROVE  execution'[c] = execution[c] /\ effects'[c] = effects[c]
    <3>1. CASE LoopStep(w) \/ SaveMeeting(w)
      BY <3>1, LoopSparesAnswered
    <3>2. CASE ~(LoopStep(w) \/ SaveMeeting(w))
      BY <2>2, <3>2 DEF WorkerNext, WorkerStep, Deliver, DeliverRaises, Transcribe, Publish,
           Validate, Drain, Execute, FinishRun, WorkerRaises, FailRun, FailRunRaises, Acknowledge,
           WorkerCrash, ReportExisting, ReportRaises, Misreport, rowVars, toolVars
    <3> QED BY <3>1, <3>2
  <2>3. ASSUME NEW a \in Approvers, ResolverNext(a)
        PROVE  execution'[c] = execution[c] /\ effects'[c] = effects[c]
    <3>1. CASE LoopStep(a) \/ SaveMeeting(a)
      BY <3>1, LoopSparesAnswered
    <3>2. CASE DeliverApproved(a) \/ Settle(a)
      BY <3>2, ResolverSparesAnswered
    <3>3. CASE Open(a) \/ CheckRun(a) \/ Inspect(a) \/ LogAttempt(a) \/ Resolve(a) \/ MarkStep(a)
                 \/ Reopen(a) \/ Resume(a) \/ FinishResolve(a) \/ ResolverRaises(a)
                 \/ ResolverCrash(a)
      BY <3>3 DEF Open, CheckRun, Inspect, LogAttempt, Resolve, MarkStep, Reopen, Resume,
                  FinishResolve, ResolverRaises, ResolverCrash, rowVars, toolVars
    <3> QED BY <2>3, <3>1, <3>2, <3>3 DEF ResolverNext, ResolverStep
  <2> QED BY <2>1, <2>2, <2>3 DEF Next
<1> QED BY <1>1, Invariance, PTL DEF Spec, ExecutedIsFinal

-----------------------------------------------------------------------------
(* The refinement.                                                         *)

\* The refinement mapping, status by status and request by request.
LEMMA MapRows ==
  ASSUME IInv
  PROVE  /\ status = "pending" => Phase = "pending"
         /\ status \in {"validated", "executing"} => Phase = "running"
         /\ status = "awaiting_approval" => Phase = "paused"
         /\ status = "done" => Phase = "done"
         /\ status = "failed" => Phase = "failed"
         /\ \A c \in Gated : /\ (AnswerOf[c] = "open") <=> (request[c] = "pending")
                             /\ request[c] = "absent" => AnswerOf[c] = "none"
         /\ NoneWaiting => Lifecycle!Open = {}
         /\ SomeOpen => Lifecycle!Open # {}
         /\ LeftAs("executing") => Lifecycle!In("running")
         /\ LeftAs("awaiting_approval") => Lifecycle!In("paused")
<1>1. \A c \in Gated : request[c] \in ApprovalRequestStatus \cup {"absent"}
  BY GatedAssumption DEF IInv, TypeInv, TypeOK, RowTypeOK
<1>2. \A c \in Gated : /\ (AnswerOf[c] = "open") <=> (request[c] = "pending")
                       /\ request[c] = "absent" => AnswerOf[c] = "none"
  BY <1>1 DEF AnswerOf, ApprovalRequestStatus
<1>3. (NoneWaiting => Lifecycle!Open = {}) /\ (SomeOpen => Lifecycle!Open # {})
  BY <1>2 DEF NoneWaiting, SomeOpen, Lifecycle!Open
<1>4. /\ LeftAs("executing") => Lifecycle!In("running")
      /\ LeftAs("awaiting_approval") => Lifecycle!In("paused")
  BY DEF LeftAs, Lifecycle!In, Phase
<1> QED BY <1>2, <1>3, <1>4 DEF Phase

LEMMA Stutters ==
  ASSUME UNCHANGED <<Phase, request, misreported>>, \A c \in Gated : effects'[c] = effects[c]
  PROVE  UNCHANGED Lifecycle!lifecycleVars
  BY DEF Lifecycle!lifecycleVars, AnswerOf, SentCalls

LEMMA LoopMaps ==
  ASSUME IInv, IInv', NEW p \in Threads, LoopStep(p) \/ SaveMeeting(p),
         misreported' = misreported
  PROVE  [Lifecycle!LifecycleNext]_Lifecycle!lifecycleVars
<1>1. TypeInv /\ OwnInv /\ RowInv
  BY IInvParts
<1>2. fate[p] = "running" /\ pc[p] \in LoopLabels /\ status' = status
  BY <1>1, LoopStays
<1>3. /\ LeftAs("executing") /\ CallFits(pc[p], frame[p]) /\ OpenFits(pc[p], frame[p])
      /\ KnownAt(pc[p], frame[p])
  BY <1>1, <1>2, LoopOwner
<1>4. Phase' = Phase
  BY <1>2 DEF Phase
<1>5. effects \in [Calls -> Nat]
  BY <1>1 DEF TypeInv, TypeOK, ThreadTypeOK
<1>6. CASE Gate(p)
  <2> DEFINE c == frame[p].call
  <2>1. /\ c \in Gated /\ request[c] = "absent" /\ effects' = effects
        /\ \A d \in Gated : request[d] # "pending"
    BY <1>3, <1>6 DEF Gate, CallFits, OpenFits
  <2>2. request'[c] = "pending" /\ \A d \in Calls \ {c} : request'[d] = request[d]
    BY <1>1, <1>6, <2>1, GatedAssumption
    DEF Gate, CreateApprovalRequest, TypeInv, TypeOK, RowTypeOK
  <2>3. AnswerOf' = [AnswerOf EXCEPT ![c] = "open"]
    BY <2>1, <2>2, GatedAssumption DEF AnswerOf
  <2>4. Lifecycle!Open = {} /\ AnswerOf[c] = "none" /\ Lifecycle!In("running")
    BY <1>3, <2>1, MapRows DEF Lifecycle!Open
  <2>5. SentCalls' = SentCalls
    BY <2>1 DEF SentCalls
  <2>6. Lifecycle!Ask(c)
    BY <1>4, <2>3, <2>4, <2>5 DEF Lifecycle!Ask
  <2> QED BY <2>1, <2>6 DEF Lifecycle!LifecycleNext
<1>7. CASE Invoke(p)
  <2>1. request' = request
    BY <1>7 DEF Invoke, InvokeUnsupported, InvokeGated, InvokeAccepted, InvokeRetryable,
                Answered, rowVars
  <2>2. \A c \in Gated : effects'[c] = effects[c]
    <3>1. \/ effects' = effects
          \/ /\ frame[p].call \notin Gated
             /\ \E n \in {0, 1} : effects' = [effects EXCEPT ![frame[p].call] = @ + n]
      BY <1>7 DEF Invoke, InvokeUnsupported, InvokeGated, InvokeAccepted, InvokeRetryable
    <3> QED BY <1>5, <3>1, GatedAssumption
  <2> QED BY <1>4, <2>1, <2>2, Stutters
<1>8. CASE ~Gate(p) /\ ~Invoke(p)
  <2>1. request' = request /\ effects' = effects
    BY <1>8 DEF LoopStep, ExecutorStep, SaveMeeting, Create, Attempt, Record, Exhaust, Plan,
                Count, Pick, EndIteration, Step, rowVars
  <2> QED BY <1>4, <2>1, Stutters
<1> QED BY <1>6, <1>7, <1>8

\* The end of a loop, in either handler.
LEMMA FinishMaps ==
  ASSUME IInv, IInv', NEW p \in Threads, At(p, "finish"), status' = frame[p].verdict,
         UNCHANGED <<request, effects, misreported>>
  PROVE  [Lifecycle!LifecycleNext]_Lifecycle!lifecycleVars
<1>1. pc[p] \in LoopLabels /\ TypeInv /\ OwnInv /\ RowInv
  BY IInvParts DEF LoopLabels
<1>2. LeftAs("executing") /\ OpenFits("finish", frame[p]) /\ frame[p].verdict \in Verdicts
  BY <1>1, LoopOwner DEF KnownAt
<1>3. Lifecycle!In("running") /\ UNCHANGED <<AnswerOf, SentCalls>>
  BY <1>2, MapRows DEF AnswerOf, SentCalls
<1>4. CASE frame[p].verdict = "awaiting_approval"
  <2>1. Lifecycle!Open # {} /\ Phase' = "paused"
    BY <1>2, <1>4, MapRows DEF OpenFits, Phase
  <2> QED BY <1>3, <2>1 DEF Lifecycle!LifecycleNext, Lifecycle!Pause
<1>5. CASE frame[p].verdict # "awaiting_approval"
  <2>1. Lifecycle!Open = {} /\ Phase' \in {"done", "failed"}
    BY <1>2, <1>5, MapRows DEF OpenFits, Phase, Verdicts
  <2> QED BY <1>3, <2>1 DEF Lifecycle!LifecycleNext, Lifecycle!Finish
<1> QED BY <1>4, <1>5

LEMMA WorkerMaps ==
  ASSUME IInv, IInv', NEW w \in Workers, WorkerNext(w)
  PROVE  [Lifecycle!LifecycleNext]_Lifecycle!lifecycleVars
<1>1. CASE Validate(w)
  <2>1. status = "pending"
    BY <1>1, ThreadAssumption
    DEF Validate, IInv, SingleOwner, StatusKept, StatusFits, Owns, OwningLabels, PendingLabels
  <2>2. Phase = "pending" /\ Phase' = "running" /\ UNCHANGED <<AnswerOf, SentCalls, misreported>>
    BY <1>1, <2>1 DEF Validate, UpdateWorkflowStatus, Phase, AnswerOf, SentCalls, jobVars
  <2> QED BY <2>2 DEF Lifecycle!LifecycleNext, Lifecycle!Start
<1>2. CASE Execute(w)
  <2>1. status = "validated"
    BY <1>2, ThreadAssumption
    DEF Execute, IInv, SingleOwner, StatusKept, StatusFits, Owns, OwningLabels, ValidatedLabels
  <2>2. Phase' = Phase /\ UNCHANGED <<request, effects, misreported>>
    BY <1>2, <2>1 DEF Execute, UpdateWorkflowStatus, Phase, jobVars
  <2> QED BY <2>2, Stutters
<1>3. CASE (LoopStep(w) \/ SaveMeeting(w)) /\ UNCHANGED jobVars
  BY <1>3, LoopMaps DEF jobVars
<1>4. CASE FinishRun(w)
  BY <1>4, FinishMaps DEF FinishRun, UpdateWorkflowStatus, jobVars
<1>5. CASE FailRun(w)
  <2>1. status \in {"pending", "validated", "executing"}
    BY <1>5, ThreadAssumption
    DEF FailRun, IInv, SingleOwner, StatusKept, StatusFits, Owns, OwningLabels
  <2>2. /\ Phase \in {"pending", "running"} /\ Phase' = "failed"
        /\ UNCHANGED <<AnswerOf, SentCalls, misreported>>
    BY <1>5, <2>1 DEF FailRun, UpdateWorkflowStatus, Phase, AnswerOf, SentCalls, jobVars
  <2> QED BY <2>2 DEF Lifecycle!LifecycleNext, Lifecycle!Abort
<1>6. CASE Deliver(w) \/ DeliverRaises(w) \/ Transcribe(w) \/ Publish(w) \/ Drain(w)
             \/ WorkerRaises(w) \/ FailRunRaises(w) \/ Acknowledge(w) \/ WorkerCrash(w)
             \/ ReportExisting(w) \/ ReportRaises(w)
  <2>1. Phase' = Phase /\ UNCHANGED <<request, effects, misreported>>
    BY <1>6 DEF Deliver, DeliverRaises, Transcribe, Publish, Drain, WorkerRaises, FailRunRaises,
                Acknowledge, WorkerCrash, ReportExisting, ReportRaises, Phase, rowVars, jobVars
  <2> QED BY <2>1, Stutters
<1>7. CASE Misreport(w)
  <2>1. /\ status' = "failed" /\ Phase' = "failed" /\ UNCHANGED <<request, effects>>
        /\ AnswerOf' = AnswerOf /\ SentCalls' = SentCalls
    BY <1>7 DEF Misreport, UpdateWorkflowStatus, Phase, AnswerOf, SentCalls
  <2>2. CASE status # "failed"
    <3>1. misreported' = TRUE
      BY <1>7, <2>2 DEF Misreport
    <3> QED BY <2>1, <3>1 DEF Lifecycle!LifecycleNext, Lifecycle!Misreport
  <2>3. CASE status = "failed"
    <3>1. misreported \in BOOLEAN
      BY DEF IInv, TypeInv, TypeOK, JobTypeOK
    <3>2. misreported' = misreported
      BY <1>7, <2>3, <3>1 DEF Misreport
    <3>3. Phase' = Phase
      BY <2>1, <2>3 DEF Phase
    <3> QED BY <2>1, <3>2, <3>3, Stutters
  <2> QED BY <2>2, <2>3
<1> QED BY <1>1, <1>2, <1>3, <1>4, <1>5, <1>6, <1>7 DEF WorkerNext, WorkerStep

LEMMA ResolverMaps ==
  ASSUME IInv, IInv', NEW a \in Approvers, ResolverNext(a)
  PROVE  [Lifecycle!LifecycleNext]_Lifecycle!lifecycleVars
<1> DEFINE c == target[a]
<1>1. \A l \in ResolvingLabels : At(a, l) =>
        /\ LeftAs("awaiting_approval") /\ c \in Gated
        /\ ResolverFits(a, l) /\ OpenFits(l, frame[a])
  BY DEF IInv, TypeInv, FrameOK, SingleOwner, StatusKept, StatusFits, OwnerFits, Fits, Owns,
         OwningLabels, ResolvingLabels, LeftAs
<1>2. effects \in [Calls -> Nat] /\ request \in [Calls -> ApprovalRequestStatus \cup {"absent"}]
  BY DEF IInv, TypeInv, TypeOK, ThreadTypeOK, RowTypeOK
<1>3. CASE DeliverApproved(a)
  <2>1. LeftAs("awaiting_approval") /\ c \in Gated /\ request[c] = "pending"
    BY <1>1, <1>3 DEF DeliverApproved, ResolvingLabels, ResolverFits
  <2>2. Lifecycle!In("paused") /\ AnswerOf[c] = "open"
    BY <2>1, MapRows
  <2>3. UNCHANGED <<Phase, AnswerOf, misreported>>
    BY <1>3 DEF DeliverApproved, Phase, AnswerOf, rowVars, jobVars
  <2>4. effects'[c] > 0 /\ \A d \in Calls \ {c} : effects'[d] = effects[d]
    BY <1>2, <1>3, <2>1, GatedAssumption DEF DeliverApproved
  <2>5. SentCalls' = SentCalls \cup {c}
    BY <2>1, <2>4, GatedAssumption DEF SentCalls
  <2>6. Lifecycle!Send(c)
    BY <2>2, <2>3, <2>5 DEF Lifecycle!Send
  <2> QED BY <2>1, <2>6 DEF Lifecycle!LifecycleNext
<1>4. CASE Resolve(a)
  <2> DEFINE r == IF decision[a] = "approve" THEN "approved" ELSE "rejected"
  <2>1. /\ LeftAs("awaiting_approval") /\ c \in Gated /\ request[c] = "pending"
        /\ decision[a] = "approve" => effects[c] > 0
    BY <1>1, <1>4 DEF Resolve, ResolvingLabels, ResolverFits
  <2>2. Lifecycle!In("paused") /\ AnswerOf[c] = "open"
    BY <2>1, MapRows
  <2>3. UNCHANGED <<Phase, SentCalls, misreported>>
    BY <1>4 DEF Resolve, Phase, SentCalls, runVars, jobVars
  <2>4. request'[c] = r /\ \A d \in Calls \ {c} : request'[d] = request[d]
    BY <1>2, <1>4, <2>1, GatedAssumption DEF Resolve, ResolveApprovalRequest
  <2>5. AnswerOf' = [AnswerOf EXCEPT ![c] = r]
    BY <2>1, <2>4, GatedAssumption DEF AnswerOf
  <2>6. r = "approved" => c \in SentCalls
    BY <2>1 DEF SentCalls
  <2>7. Lifecycle!Answer(c)
    BY <2>2, <2>3, <2>5, <2>6 DEF Lifecycle!Answer
  <2> QED BY <2>1, <2>7 DEF Lifecycle!LifecycleNext
<1>5. CASE Reopen(a)
  <2>1. LeftAs("awaiting_approval") /\ NoneWaiting
    BY <1>1, <1>5 DEF Reopen, ResolvingLabels, OpenFits, QuietLabels
  <2>2. Lifecycle!In("paused") /\ Lifecycle!Open = {}
    BY <2>1, MapRows
  <2>3. Phase' = "running" /\ UNCHANGED <<AnswerOf, SentCalls, misreported>>
    BY <1>5 DEF Reopen, UpdateWorkflowStatus, Phase, AnswerOf, SentCalls, jobVars
  <2> QED BY <2>2, <2>3 DEF Lifecycle!LifecycleNext, Lifecycle!Continue
<1>6. CASE (LoopStep(a) \/ SaveMeeting(a)) /\ UNCHANGED <<jobVars, resolverVars>>
  BY <1>6, LoopMaps DEF jobVars
<1>7. CASE FinishResolve(a)
  BY <1>7, FinishMaps DEF FinishResolve, UpdateWorkflowStatus, jobVars
<1>8. CASE Open(a) \/ CheckRun(a) \/ Inspect(a) \/ LogAttempt(a) \/ Settle(a) \/ MarkStep(a)
             \/ Resume(a) \/ ResolverRaises(a) \/ ResolverCrash(a)
  <2>1. Phase' = Phase /\ UNCHANGED <<request, effects, misreported>>
    BY <1>8 DEF Open, CheckRun, Inspect, LogAttempt, Settle, MarkStep, Resume, ResolverRaises,
                ResolverCrash, Phase, rowVars, runVars, jobVars
  <2> QED BY <2>1, Stutters
<1> QED BY <1>3, <1>4, <1>5, <1>6, <1>7, <1>8 DEF ResolverNext, ResolverStep

LEMMA InitMaps == Init => Lifecycle!LifecycleInit
  BY GatedAssumption
  DEF Init, RowInit, ThreadInit, JobInit, Lifecycle!LifecycleInit, Phase, AnswerOf, SentCalls

LEMMA StepMaps ==
  IInv /\ IInv' /\ [Next]_vars => [Lifecycle!LifecycleNext]_Lifecycle!lifecycleVars
<1> SUFFICES ASSUME IInv, IInv', [Next]_vars
             PROVE  [Lifecycle!LifecycleNext]_Lifecycle!lifecycleVars
  OBVIOUS
<1>1. CASE Enqueue \/ UNCHANGED vars
  <2>1. Phase' = Phase /\ UNCHANGED <<request, effects, misreported>>
    BY <1>1 DEF Enqueue, vars, rowVars, jobVars, Phase
  <2> QED BY <2>1, Stutters
<1> QED BY <1>1, WorkerMaps, ResolverMaps DEF Next

\* With resolvers that do not overlap, threads, crashes, redeliveries and retries
\* never break the promise the run makes to the people who approve its calls,
\* which is void, as to its phase, once a redelivery has failed it unread.
THEOREM Implements ==
  ASSUME ~ConcurrentResolvers
  PROVE  Spec => ImplementsLifecycle
<1>1. Init => IInv
  BY IInvInit
<1>2. IInv /\ [Next]_vars => IInv'
  BY IInvStep
<1> QED BY <1>1, <1>2, InitMaps, StepMaps, PTL DEF Spec, ImplementsLifecycle, Lifecycle!LifecycleSpec
=============================================================================
