------------------------- MODULE BatchOrchestrator --------------------------
(***************************************************************************)
(* BatchOrchestrator (src/meeting_assistant/services/orchestrator.py) and  *)
(* the job queue that calls it (services/jobs.py, worker.py), for one run. *)
(*                                                                         *)
(* submit_batch_meeting creates the row and enqueues a job; a worker takes *)
(* the job and executes run_batch_workflow.  The synchronous mode, where   *)
(* the request itself runs the workflow, is the case of a job that is      *)
(* taken at once and never delivered again.                                *)
(*                                                                         *)
(* The job queue is external when it is ARQ: it gives a job whose worker   *)
(* process died to another worker, and drops a job whose function raised.  *)
(* A thread or a request of the application itself is never restarted.     *)
(***************************************************************************)
EXTENDS AgentRuntime

CONSTANTS
  Redelivers,    \* TRUE: ARQ; FALSE: InProcessBatchJobQueue or inline
  DurableQueue,  \* TRUE: RedisTranscriptQueue; FALSE: InMemoryTranscriptQueue
  StoreFails,    \* whether the database may fail where no handler catches it
  MaxCrashes     \* bound on the process crashes considered

ASSUME ModeAssumption ==
  /\ Redelivers \in BOOLEAN
  /\ DurableQueue \in BOOLEAN
  /\ StoreFails \in BOOLEAN
  /\ MaxCrashes \in Nat

VARIABLES
  job,        \* the batch job of the run
  queued,     \* copies of the transcript in the meeting's chunk queue
  assembled,  \* copies of the transcript in assembled_transcript
  crashes,    \* processes crashed so far
  misreported \* whether a delivery has failed a run that was not its own

jobVars == <<job, queued, assembled, crashes, misreported>>

JobStates == {"submitted", "queued", "running", "finished", "lost"}

JobTypeOK ==
  /\ job \in JobStates
  /\ queued \in Nat
  /\ assembled \in Nat
  /\ crashes \in 0 .. MaxCrashes
  /\ misreported \in BOOLEAN

JobInit ==
  /\ job = "submitted"
  /\ queued = 0 /\ assembled = 0
  /\ crashes = 0 /\ misreported = FALSE

\* enqueue_batch, which may raise: the row stays PENDING with no job.
Enqueue ==
  /\ job = "submitted"
  /\ job' \in {"queued", "lost"}
  /\ UNCHANGED <<threadVars, effects, rowVars, queued, assembled, crashes, misreported>>

\* Mutant: a run that was started before is started again.
DeliverAgain(w) ==
  /\ At(w, "idle")
  /\ job = "queued"
  /\ job' = "running"
  /\ Goto(w, IF status \in {"pending", "validated"} THEN "transcribe" ELSE "existing")
  /\ UNCHANGED <<fate, frame, effects, rowVars, queued, assembled, crashes, misreported>>

\* The job function starts and reads the run's status.
Deliver(w) ==
  /\ At(w, "idle")
  /\ job = "queued"
  /\ job' = "running"
  /\ Goto(w, IF status = "pending" THEN "transcribe" ELSE "existing")
  /\ UNCHANGED <<fate, frame, effects, rowVars, queued, assembled, crashes, misreported>>

\* The status cannot be read: there is no row in hand to write the failure to.
DeliverRaises(w) ==
  /\ StoreFails
  /\ At(w, "idle")
  /\ job = "queued"
  /\ job' = "running"
  /\ Goto(w, "ack")
  /\ UNCHANGED <<fate, frame, effects, rowVars, queued, assembled, crashes, misreported>>

\* _transcribe, update_meeting_transcript, save_transcript_artifact and
\* replace_chunks, each of which replaces what an earlier delivery wrote.
Transcribe(w) ==
  /\ At(w, "transcribe")
  /\ Goto(w, "publish")
  /\ UNCHANGED <<fate, frame, effects, rowVars, jobVars>>

\* Mutant: the transcript is published twice.
PublishTwice(w) ==
  /\ At(w, "publish")
  /\ queued' = queued + 2
  /\ Goto(w, "validate")
  /\ UNCHANGED <<fate, frame, effects, rowVars, job, assembled, crashes, misreported>>

\* queue.publish appends to whatever the queue still holds.
Publish(w) ==
  /\ At(w, "publish")
  /\ queued' = queued + 1
  /\ Goto(w, "validate")
  /\ UNCHANGED <<fate, frame, effects, rowVars, job, assembled, crashes, misreported>>

Validate(w) ==
  /\ At(w, "validate")
  /\ UpdateWorkflowStatus("validated", FALSE)
  /\ Goto(w, "drain")
  /\ UNCHANGED <<fate, frame, effects, historyVars, toolVars, request,
                 pausedSteps, meetingItems, jobVars>>

Drain(w) ==
  /\ At(w, "drain")
  /\ assembled' = queued
  /\ queued' = 0
  /\ Goto(w, "execute")
  /\ UNCHANGED <<fate, frame, effects, rowVars, job, crashes, misreported>>

\* The status is written, then agent_runtime.run is entered.
Execute(w) ==
  /\ At(w, "execute")
  /\ UpdateWorkflowStatus("executing", FALSE)
  /\ StartRun(w)
  /\ UNCHANGED <<fate, effects, historyVars, toolVars, request, pausedSteps,
                 meetingItems, jobVars>>

\* Mutant: the status of the last call is taken for that of the run.
FinishRunWithOutcome(w) ==
  /\ At(w, "finish")
  /\ UpdateWorkflowStatus(frame[w].outcome, FALSE)
  /\ Goto(w, "ack")
  /\ UNCHANGED <<fate, frame, effects, historyVars, toolVars, request,
                 pausedSteps, meetingItems, jobVars>>

FinishRun(w) ==
  /\ At(w, "finish")
  /\ UpdateWorkflowStatus(frame[w].verdict, FALSE)
  /\ Goto(w, "ack")
  /\ UNCHANGED <<fate, frame, effects, historyVars, toolVars, request,
                 pausedSteps, meetingItems, jobVars>>

\* _result_from_existing_workflow: a run that is not pending any more is read
\* again, with its meeting and its calls, and returned as it is.
ReportExisting(w) ==
  /\ At(w, "existing")
  /\ Goto(w, "ack")
  /\ UNCHANGED <<fate, frame, effects, rowVars, jobVars>>

\* One of these reads raises, inside the same try block.
ReportRaises(w) ==
  /\ StoreFails
  /\ At(w, "existing")
  /\ Goto(w, "misreport")
  /\ UNCHANGED <<fate, frame, effects, rowVars, jobVars>>

\* Mutant: the exception is not caught.
WorkerRaisesUncaught(w) ==
  /\ Active(w)
  /\ pc[w] \notin {"fail", "existing", "misreport", "ack"}
  /\ Goto(w, "ack")
  /\ UNCHANGED <<fate, frame, effects, rowVars, jobVars>>

\* Any statement of the try block may raise: the speech service, the planner,
\* the embedder, a provider, the database.
WorkerRaises(w) ==
  /\ Active(w)
  /\ pc[w] \notin {"fail", "existing", "misreport", "ack"}
  /\ Goto(w, "fail")
  /\ UNCHANGED <<fate, frame, effects, rowVars, jobVars>>

\* "except ASRError" and "except Exception" write the same two columns.
FailRun(w) ==
  /\ At(w, "fail")
  /\ UpdateWorkflowStatus("failed", TRUE)
  /\ Goto(w, "ack")
  /\ UNCHANGED <<fate, frame, effects, historyVars, toolVars, request,
                 pausedSteps, meetingItems, jobVars>>

\* "except Exception" does not ask whose run it is: one that is executing,
\* waits for an approval or is done is written over.
Misreport(w) ==
  /\ At(w, "misreport")
  /\ UpdateWorkflowStatus("failed", TRUE)
  /\ misreported' = (misreported \/ status # "failed")
  /\ Goto(w, "ack")
  /\ UNCHANGED <<fate, frame, effects, historyVars, toolVars, request,
                 pausedSteps, meetingItems, job, queued, assembled, crashes>>

\* The failure cannot be written either.
FailRunRaises(w) ==
  /\ StoreFails
  /\ At(w, "fail") \/ At(w, "misreport")
  /\ Goto(w, "ack")
  /\ UNCHANGED <<fate, frame, effects, rowVars, jobVars>>

\* The job function returned or raised: either way the job is over.
Acknowledge(w) ==
  /\ At(w, "ack")
  /\ job' = "finished"
  /\ End(w, "returned")
  /\ UNCHANGED <<effects, rowVars, queued, assembled, crashes, misreported>>

WorkerCrash(w) ==
  /\ Active(w)
  /\ crashes < MaxCrashes
  /\ crashes' = crashes + 1
  /\ job' = IF Redelivers THEN "queued" ELSE "lost"
  /\ queued' = IF DurableQueue THEN queued ELSE 0
  /\ End(w, "crashed")
  /\ UNCHANGED <<effects, rowVars, assembled, misreported>>

\* What a worker does by itself, leaving faults aside.
WorkerStep(w) ==
  \/ Transcribe(w) \/ Publish(w) \/ Validate(w) \/ Drain(w) \/ Execute(w)
  \/ (LoopStep(w) \/ SaveMeeting(w)) /\ UNCHANGED jobVars
  \/ FinishRun(w) \/ FailRun(w)
  \/ ReportExisting(w) \/ Misreport(w) \/ Acknowledge(w)

WorkerNext(w) ==
  \/ Deliver(w) \/ WorkerStep(w)
  \/ DeliverRaises(w) \/ ReportRaises(w) \/ WorkerRaises(w) \/ FailRunRaises(w)
  \/ WorkerCrash(w)
=============================================================================
