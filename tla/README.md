# Meeting Assistant: a verification project

TLA+ models of how the meeting assistant takes in a meeting, carries its transcript
to the agent loop, works on it with a planner, tools and human approvals, and
searches the results page by page; the TLC configurations that check them, and TLAPS
proofs of what matters most for every size of the system. Paths below are relative
to `src/meeting_assistant/` unless they name another directory.

## 1. The system

A client submits a meeting (a transcript, or audio to be transcribed). A batch
job assembles the transcript and runs an *agent loop*: a planner (an LLM or a
heuristic) proposes a summary, tasks, decisions and tool calls; the tool calls
are executed; the loop repeats until nothing new is asked for. A calendar call
needs a human: the run pauses, and an HTTP request that approves or rejects it
finishes the call and resumes the loop in its own thread. Meetings, chunks and
decisions can be searched by similarity, page by page.

| Part | State it keeps | Operations | Talks to | Hard because |
| --- | --- | --- | --- | --- |
| Workflow rows (`repositories.py`, `db/models.py`) | run status and reason, iteration count, tool executions and attempts, approval requests, agent steps, tasks, decisions | one short transaction per method | everybody | every method commits by itself; select-then-insert |
| Agent loop (`services/agent.py`) | local variables of the loop | `run`, `resume` | planner, executor, rows | termination, state rebuilt from rows |
| Tool executor (`services/tools/executor.py`) | none | `execute`, `finalize_approval` | providers, rows | retries of calls that may have acted, three commits per call |
| Orchestrator and jobs (`services/orchestrator.py`, `services/jobs.py`, `worker.py`) | the job | `submit_batch_meeting`, `run_batch_workflow` | job queue, transcript queue, agent loop | crash and redelivery, failing database |
| Approval service (`services/approvals.py`) | none | `approve`, `reject` | executor, agent loop, rows | no lock, overlapping requests, no exception handler |
| Submission (`api/routes/batch.py`, `repositories.py`, `services/jobs.py`) | users, meetings, runs, the job | `ingest_batch_meeting`, `ingest_batch_meeting_upload`, `_submit_batch`, `get_or_create_user`, `create_meeting` | upload store, job queue, orchestrator | select-then-insert, uploads that keep the event loop, a job that a restart takes along |
| Recordings (`services/audio_storage.py`, `services/asr.py`) | files | `validate_upload`, `store`, `resolve` of every scheme, `transcribe` | S3, GCS, HTTP hosts, speech service | names that are quoted and types that are guessed, errors mapped to codes |
| Transcript queue (`services/queue.py`) | chunks, pending chunks | `publish`, `consume`, `ack`, `nack`, `drain` | orchestrator | outlives a worker in Redis, several commands per operation |
| Normaliser (`services/normalizer.py`) | none | `normalize`, `chunk` | orchestrator | replacements that share their spaces |
| Planner (`services/planner.py`) | none | `plan` of the heuristic, the LLM and the router | LLM | what it asks for decides whether the loop ends |
| Retrieval (`services/query.py`, `services/embeddings.py`, `services/retrieval_pagination.py`) | none, a cursor in the client | three searches | rows | rounding, ties, rows written between two pages |
| Query answerer, Slack/e-mail/Jira providers, auth, rate limit, admin page, readiness, telemetry, migrations | none that a workflow reads | | | I/O, wiring, libraries |

What makes the parts correct:

- *rows*: what the columns of one call and of the run say agrees at every moment;
- *agent loop*: it ends, respects its budget, and forgets nothing when it resumes;
- *executor*: a finished call is never repeated, retries are bounded, a call that
  needs approval reaches its provider only after it was approved;
- *orchestrator*: a run is started once however often its job is delivered, ends
  in a status a client stops polling at, and keeps it, unless a redelivery fails a
  run that it cannot read;
- *approvals*: an answer agrees with what was done, is given once, and a run that
  waits can be answered;
- *submission*: what a client is told agrees with the rows; a meeting belongs to
  its user, and a stored recording to a meeting; an accepted meeting comes to an
  end, or is abandoned in one of three ways that can be named;
- *recordings*: what was validated is found again, and a failure names its cause;
- *queue and normaliser*: no chunk is lost or doubled but by a death, or when a
  list changes between its copy and its deletion; and the planner is given what was
  said, but for the fillers;
- *planner*: a run that is done has carried out a whole plan, in its order, and
  the budget suffices for what it asks;
- *retrieval*: no row twice, none skipped, an end.

`PROJECT.json` lists the hazards, each at its line, and which properties are
aimed at it.

## 2. Modules

    Repository          rows of one run and the methods that write them
      Handlers          threads: program counter, fate, local variables
        ToolExecutor    ToolExecutor.execute
          AgentRuntime  AgentRuntime.run, resume, _run_loop
            BatchOrchestrator   submit, run_batch_workflow, the job queue
              ApprovalService   _resolve, finalize_approval
                MeetingWorkflow     composition, specification, properties
                  WorkflowInvariant   the inductive invariant
                    MCMeetingWorkflow   instances for TLC
                    HeuristicWorkflow   the run with the heuristic planner
                      MCHeuristicWorkflow
    WorkflowLifecycle   abstract: a run as its approvers see it

    AudioSource         stores, resolvers and transcriber, as operators
      MeetingSubmission     routes, rows, jobs, up to the transcript
        MCMeetingSubmission

    TranscriptText      normaliser and chunks, on sequences of words
      TranscriptQueue       normalise, publish, drain, consume, ack, nack
        MCTranscriptQueue
    TranscriptQueueContract     abstract: what a TranscriptQueue promises

    CursorPagination    a client walking through search results

    Proofs: WorkflowOwnership_proofs, WorkflowApprovals_proofs,
    WorkflowBounds_proofs, HeuristicWorkflow_proofs, MeetingSubmission_proofs,
    TranscriptText_proofs, TranscriptQueue_proofs, CursorPagination_proofs

Three models follow a meeting one after the other and meet at its transcript.
`MeetingSubmission` ends at VALIDATED, and has what follows as one step, `Execute` or
`JobRaises`, with the outcomes that `MeetingWorkflow` shows to be possible.
`TranscriptQueue` is the stretch between: `BatchOrchestrator` counts copies of
the whole transcript in the queue, which is what `TranscriptQueue` refines into
chunks and commands. `HeuristicWorkflow` extends the workflow *and* the text, and
computes what `MeetingWorkflow` leaves to chance.

The modules of the workflow form a chain of EXTENDS because the program is one:
a thread enters a handler, which calls the loop, which calls the executor, which
calls the repository.

**State of the workflow.** A thread is a worker (one delivery of the job) or an
approver (one HTTP request). `pc[p]` is the next statement of thread `p` that reads
or writes shared state; `frame[p]` holds the loop's local variables (`seen` is
`seen_signatures`, `items` is `task_map` and `decision_map`, and so on); `fate[p]`
says whether the thread runs and how it ended. A row of the database is a variable
(`status`, `failureReason`, `iterationCount`) or a function of the call it belongs
to (`execution`, `attempts`, `request`). `effects[c]` counts how often the outside
world carried out call `c`: no row knows it. `job`, `queued` and `assembled` are the
batch job and the copies of the transcript in the meeting's queue and in the
worker's hands.

**Grain.** One action per statement that commits, calls a provider or reads a
row that a decision depends on. A repository method opens a session of its own
and commits before it returns, so its write is one atomic step. Statements that
touch nothing but local variables belong to the action before them.

**Actions and code.** `PROJECT.json` maps every definition to its lines. In short:
`Deliver` ... `Acknowledge` are `run_batch_workflow` from top to bottom, `FailRun`
its two except branches; `ReportExisting` is `_result_from_existing_workflow`, what
a redelivery does with a run that was started before, `ReportRaises` an exception in
it and `Misreport` the except branch it ends in, which fails a run that somebody
else may be working on; `Plan`, `Count`, `Pick`, `Step`, `EndIteration`,
`SaveMeeting` are `_run_loop` and `complete_meeting`; `Lookup`, `Create`, `Invoke`,
`Attempt`, `Record`, `Gate`, `Exhaust` are `execute`; `Open`, `CheckRun`, then
`Inspect`, `DeliverApproved`, `LogAttempt`, `Settle` (`finalize_approval`),
`Resolve`, `MarkStep`, `Reopen`, `Resume` and `FinishResolve` are `_resolve`.
`WorkerRaises` and `ResolverRaises` are an exception at any statement; the first is
caught, the second is not. `WorkerCrash` and `ResolverCrash` are a process that
stops.

**Abstractions.** A tool call is a model value: its payload, signature,
idempotency key and row are all determined by it. A planner may return any set of
calls, taken in any order, and any items. Texts (summary, history, results) are
left out. Agent steps are kept only as far as somebody decides on them: the
newest planner step and the steps that are still paused. One run is modelled:
runs share no rows that decide anything.

**Assumed.** A provider, the planner, the speech service and ARQ are external. A
provider call that fails retryably may have acted. ARQ gives a job to another
worker only when the first is dead, and drops a job whose function raised. A
write that has committed returns normally. An exception at a statement of a handler
may always come. With `StoreFails` the database may also fail at three places that
matter by themselves: when a delivery first reads the run (nothing can be written),
when a redelivery reads the run it would report (`orchestrator.py:70`: FAILED is
written over whatever the run was, and `misreported` remembers it), and when a
failure is written.

**MeetingSubmission.** A request is a thread: `stage[r]` is the next statement of
its handler, `job[r]` that of `run_batch_workflow` for the run it created (in the
mode `sync` the same thread goes from the one to the other). `files`, `users`,
`meeting`, `run`, `reason`, `transcript` are the upload store and the rows,
`user[r]` is the row that `get_or_create_user` returned to the request, and
`answer[r]` the HTTP status. `Receive`, `Store`, `LookupUser`, `InsertUser`,
`CreateMeeting`, `CreateRun`, `Enqueue` and `Reply` are the handler from top to
bottom, `StoreRefused`, `InsertConflict`, `DatabaseRefuses` and `EnqueueFails` its
exceptions; `StartJob`, `UseText`, `Load`, `Hear`, `Validate` and `Execute` are the
job, `StartJobRaises` and `JobRaises` its exceptions, and `Fail` its two except
branches, whose own write may raise. A run is `running` from VALIDATED on and
`reported` when it is DONE or AWAITING_APPROVAL. An upload is handled by a coroutine
that never awaits after it has read the file, so `LoopBusy` keeps other requests from
being received meanwhile; JSON requests run in threads. `Restart` stops the
application: handlers are dropped and the jobs in its threads are gone, those of ARQ
stay. `WorkerDies` stops a worker of ARQ, whose job is delivered again; a delivery
that finds the run started only reports it. `Abandoned` names the runs that never
end because of a restart, of such a worker, or of a failure that was not written.

A recording is a record of what the code looks at: the kind of its extension, the
kind of characters in its name, the kind of content and the content type. A host,
a bucket and the speech service answer with any of the codes the code tells apart,
and with a failure it does not. What the application is configured to do (mode,
store, buckets, key) and what comes to it is a *scenario*, picked in the initial
state, so that one run covers them all.

**TranscriptQueue.** `messages` and `pending` are the two lists of a meeting in
Redis or in memory, `pc[c]` the next command of client `c`, `hand[c]` its local
variable. In Redis every command is a step, and a client may die before any of
them. In memory an operation is a step; this is an assumption: the methods have no
lock, and do not let anybody else in only as long as all clients of the queue share a
thread. Nothing in the application calls `consume`, `ack` and `nack`; the consumers
of the model call them in any order, with the chunks they were given or without ids,
while other consumers and the worker's drain do what they do. Two operations of
Redis delete a list that they copied before, a `nack` without ids and `drain`. The
history variable `crossed` remembers that another client changed such a list, or
copied it too, in between; no action looks at it.

**TranscriptText, HeuristicWorkflow.** A text is a sequence of words, full stops
and white space. `Normalize` and `Chunk` do to it what the code does, one
replacement after the other; `PlannedCalls` and `PlannedItems` look at its
sentences as `HeuristicPlanner.plan` does. A word of the model stands for every
word that contains it, as the planner looks for substrings. The worker plans what
came out of the queue, a resumed run the transcript in the meeting's row
(`approvals.py:77-82`): `HPlan` and `HPick` replace the `Plan` and `Pick` of the
workflow, all other actions are shared.

**CursorPagination.** `similarity[i]` is a row's score in units finer than the
four decimals it is rounded to (`Grain` units make one unit of a rounded score).
`Fetch` is a request for a page; `Write` is a row inserted, rewritten or deleted
between two requests. `PgVector` chooses the index: in memory rows are sorted and
compared by the rounded score, in Postgres by the unrounded distance, and in both
the cursor holds the rounded score. The `:.6f` of the cursor keeps every one of
the four decimals, so encoding and decoding it change nothing.

## 3. Runs

| Run | Module | Shows |
| --- | --- | --- |
| `OneResolver` | MCMeetingWorkflow | approvals, one resolver at a time: `ResolutionAgrees`, `AwaitingActionable`, `GatedEffectOnce`, `PausedStepsMatch`, `DoneMeansResolved`, `BudgetFailure` |
| `Redelivery` | MCMeetingWorkflow | ARQ, Redis, one crash, a failing database, one resolver at a time: `TypeOK`, `IInv`, `SingleOwner`, `RetryBudget`, `TranscriptAssembled`, `ExecutedIsFinal`, `SettledIsFinal`, `ImplementsLifecycle` |
| `Overlapping` | MCMeetingWorkflow | two resolvers at once, one crash, a failing database: `GatedEffectApproved`, `LoopRetryBudget` |
| `Progress` | MCMeetingWorkflow | under fairness: `RunReported`, `HandlersEnd`; and `LastPlanSaved` |
| `Paging` | CursorPagination | in-memory index: `ServedOnce`, `NoneSkipped`, `WalkEnds` |
| `Submission` | MCMeetingSubmission | both routes, three modes, both stores, racing requests, failing services and database, a restart or a dead worker: `TypeOK`, `OwnMeeting`, `NoStrayFile`, `StrandedIsKnown`, `AnswerAgrees`, `CauseFits`, `UploadReadable`; under fairness `AcceptedEnds` |
| `Pipeline` | MCTranscriptQueue | both queues, two consumers beside the worker, deaths between commands: `Accounted`, `ChunksFit`, `AssembledFaithful`, `ImplementsContract` |
| `Heuristic` | MCHeuristicWorkflow | the default planner over the whole run, with a crash and a redelivery: `NothingForgotten`, `SpokenOrder`, `BudgetEnough`, `UnheardOnlyByResume` |
| `DoubleResolve` | MCMeetingWorkflow | `ResolvedOnce` fails |
| `LostItems` | MCMeetingWorkflow | `ItemsKept` fails |
| `StuckExecuting` | MCMeetingWorkflow | `ExecutionReported` fails |
| `PagingPg` | CursorPagination | with pgvector `ServedOnce` fails |

**Bounds.** `OneResolver` has two gated calls, the least at which one approval can
be confused with another, three iterations, so that both may be asked for and one
iteration is left, and three resolvers, so that both calls are answered and one
request comes late or is a repetition after an exception. `Redelivery` has one call
that is retried and one that is gated, two attempts, two deliveries, two resolvers
and one crash: a crash before every statement of either handler, and a complete
second delivery after it, which may find the run anywhere between VALIDATED and
done, with a resolver at work on it, and fail to read it. `Overlapping` has two
resolvers of one request at every interleaving; its e-mail has no provider, so that
a failed call lets the loop go on, and is tried in both resumed loops. `Progress`
runs without crashes; its e-mail may use up the first of two iterations, so that the
approval comes in the last one and the resumed loop has none left. `Paging` has
three rows with six degrees of similarity, so that rows tie before rounding, after
it, and not at all, and round to zero; pages of one and two rows; two writes.
`Submission` has two requests of two users, the least for a race, of which one may
try the other's e-mail, and one restart or one dead worker at any point; the
scenarios `Recordings`, `Hearing` and `Bare` have a single request, but any
recording, URI, reply and speech result there is. `Pipeline` has every text of up to
three words with any white space between them and of four words with spaces, over
the words that matter to the normaliser, in chunks of two words with one death; and
three chunks of which two are equal, for one consumer that does up to four
operations and for two that do up to three, with one death in Redis: enough for a
blanket nack to meet the other consumer at each of its three commands, and the drain
at each of its own. `Heuristic` has eight transcripts that differ in what the
planner finds: none, one or two pauses, fillers before and in the sentence that
pauses, several tools in a sentence, a repeated call and more calls than the budget;
two workers, two resolvers, three iterations and one crash. `MaxPlanned`, which is
10 in the code, is 3 there. `MaxCrashes`, the `deaths` and `rounds` of `Pipeline`
and `MaxWrites` are bounds of the model, `MaxRetries` and `MaxIterations` are
settings of the program; a thread is used once, so the number of threads bounds the
deliveries and requests.

**Deadlock** is not checked: the system rightly stops when the run has ended and
every thread has been used, when every request was answered and no job is left, or
when the transcript was assembled and the consumers have used up their operations.

**Fairness.** `FairSpec` assumes that a thread that runs goes on to its next
statement, that a submitted job is enqueued or its enqueueing fails, and that the
job queue hands out the job it holds. Threads are scheduled by the operating system
and ARQ polls its queue, so this is what the program rests on. Nothing is assumed of
clients: nobody has to approve. Exceptions and crashes are never forced.
`HandlersEnd` and `RunReported` are checked without crashes and with a database that
answers (`StoreFails` FALSE): nothing in the code recovers a run whose worker died
after `VALIDATED`, or whose failure could not be written.
`MeetingSubmission!FairSpec` assumes only that a job goes on to its next statement,
in a thread of the application or in a worker of ARQ; requests, handlers, faults and
restarts may come or not. `AcceptedEnds` allows for the three ways in which the code
leaves an accepted run without an end (`Abandoned`), each of which asks for what
caused it: a database that fails, a restart that took the job's thread, or, with
ARQ, a process that stopped after the run was started. `CursorPagination!FairSpec`
assumes that the client asks for the next page.

## 4. What the violations show

- **`DoubleResolve`**: `_resolve` reads the request, the run and the execution and
  writes them after the provider has answered, without a lock. Two requests that
  overlap both succeed. `tests/test_approvals.py:115-116` expects a conflict, but
  sends the second request after the first has returned. What survives an overlap
  is checked in `Overlapping`: no call is sent that nobody approved.
- **`StuckExecuting`**: `_resolve` catches nothing; when the resumed loop raises,
  the run stays `executing`, and clients that poll as `tests/test_jobs.py:67-76`
  does never stop.
- **`LostItems`**: the loop merges the items of all its plans, but a resumed loop
  knows those of the last plan only, and saving the meeting deletes the others.
- **`PagingPg`**: the pgvector searches compare an unrounded distance with a
  rounded cursor: a row comes back on the next page, and when the last row of a
  page and all it ties with are rounded up, the next page is the same page for
  ever.

Seen while modelling, without a run of its own, because the models have the
behaviour and their properties allow for it or leave it out:

- a redelivery that cannot read the run it would report fails it, whether it is
  done, waits for an approval or executes under a resolver (`orchestrator.py:70`
  and 130-132; `Misreport`, and the exception in `SettledIsFinal`, `SingleOwner` and
  `WorkflowLifecycle`);
- a worker that dies after VALIDATED, or a failure that cannot be written, leaves an
  accepted meeting without an end (`orchestrator.py:69-70, 121, 132`; `Abandoned`),
  and one that dies shortly before VALIDATED may leave a transcript with a run that
  its successor fails for want of one (`CauseFits`);
- two consumers that are both alive lose or double chunks when a `nack` without ids
  (`queue.py:104-107`) or the drain (`queue.py:117-118`) meets a command of the
  other client (`crossed` in `Accounted`);
- what is said of approvals, of budgets and of the run's history holds for resolvers
  that do not overlap, which nothing in the code enforces: overlapping ones may
  approve a rejected request, finish a run with an open one, or write a smaller
  iteration count over a failed run;
- with ARQ every upload is answered with an error after its rows were written:
  `enqueue_batch` calls `asyncio.run` (`jobs.py:62`) inside the route's coroutine
  (`EnqueueFails`, `StrandedIsKnown`);
- with the default, relative `asr_upload_dir` every upload raises at `as_uri`
  (`audio_storage.py:29`) after the file was written (`StoreUpload`, `NoStrayFile`);
- a name with characters that a URI quotes is stored and not found again
  (`asr.py:214`), and a type is guessed again from the name (`asr.py:226`):
  `UploadReadable` is therefore about plain names with a supported extension, and an
  upload directory whose own path needs no quoting;
- segments of white space count as text before they are stripped (`asr.py:433`), so
  a recording without speech may end in an empty transcript instead of an error;
- a resumed run plans the raw transcript (`approvals.py:77-82`), so that a call
  from a sentence with a filler is made again under another payload:
  `UnheardOnlyByResume` says that this is the only way;
- calls beyond the iteration budget are never tried though the run is done
  (`tools/base.py:15`; `Asked` in `NothingForgotten`);
- a transcript that was published twice merges the sentences at its seam;
- the normaliser drops all of "you um know", keeps "you know" in "you like know",
  and keeps one of two adjacent fillers (`normalizer.py:13`; `PlainSpeech` names
  the texts that are cleaned as one expects);
- a death between two commands of Redis loses the chunks of a `consume` and doubles
  those of a `nack` (`queue.py:84-92, 101-113`; `InHand` and `Doubled`), and an `ack` of
  two ids raises a TypeError (`queue.py:97`), so the consumers of the model
  acknowledge one chunk or all;
- the heuristic embedder numbers the words of each text by itself
  (`embeddings.py:102-107`), so that two vectors need not agree on a dimension.

## 5. Proofs

All theorems hold for every value of the constants that their named assumptions
allow: any calls, items, threads, retries, iterations, crashes, queue and
database modes.

| Theorem | States |
| --- | --- |
| `TypeCorrect` | `Spec => []TypeOK`, overlapping resolvers included |
| `OneOwner`, `SettledFinal` | `SingleOwner`, `SettledIsFinal` |
| `Invariance` | `Spec => []IInv` |
| `ResolutionsAgree`, `WaitingActionable`, `DoneResolved`, `ExecutedFinal` | the approval properties |
| `TranscriptComplete` | `TranscriptAssembled` |
| `BudgetSpent`, `LastPlanStored`, `PausedStepRight` | `BudgetFailure`, `LastPlanSaved`, `PausedStepsMatch` |
| `RetriesBounded`, `SentOnce` | `RetryBudget`, `GatedEffectOnce` |
| `SendsApproved` | `GatedEffectApproved`, overlapping resolvers included |
| `Implements` | `MeetingWorkflow` implements `WorkflowLifecycle` |
| `HeuristicIsWorkflow`, `HeuristicKeepsPromises` | `HeuristicWorkflow` implements `MeetingWorkflow`, and what follows from it |
| `OrderInvariant` | the inductive invariant of the planned run |
| `PlanCarriedOut`, `SpokenOrderKept` | `NothingForgotten`, `SpokenOrder` |
| `BudgetSuffices`, `UnheardResumed` | `BudgetEnough`, `UnheardOnlyByResume` |
| `SubmissionInvariant` and the seven after it | the inductive invariant of `MeetingSubmission` and every invariant of `Submission` |
| `QueueInvariant` | the inductive invariant of `TranscriptQueue` |
| `QueueAccounted`, `ChunksAlwaysFit` | `Accounted`, `ChunksFit` |
| `AssembledAlwaysFaithful` | `AssembledFaithful`: what the planner is given is what was said but for fillers |
| `QueueKeepsContract` | `TranscriptQueue` implements `TranscriptQueueContract` |
| `WordsOfJoin`, `WordsOfChunks` | `Words(Join(ws)) = ws` for every list of words; chunking and joining the chunks changes no word |
| `NormalizeDropsFillers`, `NormalizePlain` | the normaliser drops fillers and nothing else from any text, and all of them from plain speech |
| `PagesDisjoint`, `PagesComplete` | `ServedOnce`, `NoneSkipped` |

The theorems of the workflow but `TypeCorrect` and `SendsApproved` assume
`~ConcurrentResolvers`, and the two of CursorPagination `~PgVector`. The code
guarantees neither: these are conditions under which it is right, and without them
the properties are false, as `DoubleResolve` and `PagingPg` show for some of them. A
deployment meets the first when an approval is answered by one person, who waits for
the answer; `ConcurrentResolvers` FALSE restricts when a request may *open*, not what it
does, and a resolver may still raise or stop anywhere and be followed by another.
Those of HeuristicWorkflow assume the same, as they build on the workflow's.
Theorems that count resolvers or answered requests assume that `Approvers` or
`Gated` is a finite set. Those of MeetingSubmission and TranscriptQueue assume
nothing but what their modules state of their constants: any number of requests and
restarts and any scenarios; any texts, chunk sizes, deaths and finitely many
consumers.

**The argument.** No row is ever locked; what keeps threads apart is the status
column. `SingleOwner` says that at most one thread is at a label where it works on
the run, and that the status it has read or written is still the row's, or else
`failed` because a redelivery misreported the run behind a resolver's back
(`StatusKept`). The resolver goes on and writes its own status over that, so
`misreported` stays in what is proved of it; a worker never sees such a failure,
because no other delivery is active beside it. `SingleOwner` is not inductive alone:
a worker may only be delivered while no other is active (`Placement`), and the
program counter must tell which statuses are possible (`StatusFits`). From single
ownership, `SettledIsFinal` follows. The approval properties need more: what the
owner believes of the rows at each label (`OwnerFits`: the call in hand is not
finished yet, the outcome is `approval_required` exactly for gated calls, the
request being resolved is still pending), how the rows of a call belong together
(`RowsAgree`), and that at most one request is open and none while the loop goes on
(`OpenOnce`). The conjunction, `IInv`, is inductive; TLC checks it in `Redelivery`,
and `WorkflowApprovals_proofs` proves it, one lemma per action. The four approval
theorems follow from it, and so does the refinement: `Phase`, `AnswerOf` and
`SentCalls` map the state, each action is shown to be a step of the contract or to
leave it unchanged.

The invariants that count need to know what each thread still has to do at the
statement it has reached (`WorkflowBounds_proofs`):

- `QueueInv`: a job whose worker has not published yet finds at most one copy of
  the transcript for each process that died, and one that has published finds at
  least one;
- `HistoryInv`: at each label, how the owner's frame, the iteration count, the last
  plan, the stored items and the paused steps belong together. The steps are
  unambiguous because an open approval request is the paused step's
  (`OpenIsPaused`), and `IInv` allows one of those at a time;
- `RetryInv`: the owner knows which calls its loop has not tried yet, and for the
  one in hand how many attempts are left. A loop that ends hands `MaxRetries`
  attempts on to the next, and each next loop belongs to an answered request, which
  is why answers are counted (`Resumes`) and must be finitely many;
- `SendInv`: a resolver that sends is past the statement that sends (`Senders`), and
  never returns before it; nobody else's step changes that, so no order among
  resolvers is needed;
- `OnceInv`: a gated call not recorded as executed was sent only by resolvers that
  stopped before they recorded it (`Lost`) or by the one that is about to
  (`Sending`), of which `SingleOwner` allows one.

`HeuristicWorkflow_proofs` first shows that a planned call is one the workflow may
plan: the calls of a cut plan are a small enough set of `Calls` (`CutSmall`), and a
worker plans only with one to `MaxCrashes + 1` copies of the transcript, which is
`QueueInv`. All that is proved of the workflow then holds of the planned run, and
its own four properties rest on one observation: a thread plans every iteration from
the same text, so all its plans are one plan (`OwnPlan`).

- `OrderInv`: at each label, the calls that the owner has behind it in that plan are
  answered and the one in hand is the next; a loop that ends has none left that it
  was to try. The plan of a resumed loop may be another, but it is carried out from
  its own beginning, and skips only what a row says is answered. `SpokenOrder` and
  `NothingForgotten` are parts of it.
- `BudgetInv`: an owner's first iteration tries everything its plan asks for unless
  it pauses, and the second finds nothing left to do. The number of a loop's first
  iteration is the number of pauses plus one (`Pauses`), so that a run can only fail
  for want of iterations if it had at most one more than it paused.
- `HeardInv`: before any approval is resolved every row of a call was made by a
  worker, from the plan of what came out of the queue (`Heard`).

`TranscriptQueue_proofs` counts the copies of a single chunk: in the two lists, in
the bag of those that are finished, in the drained text and in the hand of every
client. Each action keeps one equation between these numbers and what was published
(`Counted`); as it holds for every chunk, the bags of `Accounted` are equal. Keeping
it needs `QueueInv` (this module's own; `WorkflowBounds_proofs` has another of this
name): what is in a client's hand at each command, and that until two operations
cross, a client that is about to delete a list still finds in it what it copied, a
blanket nack the pending chunks (`CopyFits`) and the drain the waiting ones
(`DrainFits`). A step that would change such a list is one that `Crossing` sees
(`WholeStep`), so either nothing was disturbed or nothing more is claimed. The
refinement reads `held` off the same numbers (`GivenOut`): each command of Redis
changes the list or what is given out as an operation of the contract does, or
neither. `ChunksFit` follows from `Chunk` having as many words as were cut for each
chunk (`ChunkWords`), for which `Words` must give back what `Join` has joined.

That last fact, `WordsOfJoin`, and all others of `TranscriptText_proofs` are about
every text, so they are proved by induction over its length. The library's rule
cannot be used (it takes an operator as a parameter); the induction is done with
sets instead: a set of numbers that contains 0 and the successor of each of its
members is all of `Nat` (`Induct`, by least counterexample). With it, the folds of the
community modules are shown to exist and to obey their recursion (`FoldExists`,
`RunsUnfold`, `JoinUnfold`, `NormalizeUnfold`). The operators of the two models are
written as folds for that reason: the provers know nothing of `SelectSeq`.

`AssembledFaithful` is a fact about words. On the side of the queue it needs that the
drained chunks are a number of copies of `Chunks` (`PublishedTimes`, with `n` at most
one more than the deaths, and no death without a republication to come), and that
nothing is drained but what was published (`Unread`). On the side of the text:

- the words of texts put together with a space are the words of the one and then
  those of the other (`WordsOfParts`), so `WordsOfChunks` follows from how `Chunk` cuts;
- `Replace` is followed from left to right: at each place it either drops a filler or
  keeps a token. Whatever relation between the words before and after survives both
  holds of the whole (`ReplaceDrops`, an induction over the length of the text). The
  relation taken is `FillersDropped`, the first clauses of `AssembledFaithful`, which
  is reflexive, transitive and kept by putting lists together (`DroppedConcat`): so it
  holds of all four replacements, and of any number of copies;
- what plain speech loses is found list by list instead: with one space between any
  two words a replacement is an operation on lists (`DropsTo`). By induction over the
  list, `Stages` gives the words after each replacement. Its strengthening is that a
  list that does not begin with a filler does not begin with one later either
  (`Unbegun`), and that "know" only comes first when it was there or right behind a
  filler (`KnowFirst`). `Unbegun` rests on both conditions of `PlainSpeech`: without the
  first a kept one of two adjacent fillers would begin the list, and without the second
  "you um know" would.

`MeetingSubmission_proofs` needs `TypeOK` and, for each request by itself, what its
handler has written at each stage, what its job has written, and where its
recording is (`RequestFits`). Requests meet only in the table of users, where an
insert keeps every row there is; so each action is shown to keep the facts of the
request it belongs to and to leave the others alone.

For `CursorPagination` the invariant says that the rows already served lie at or
before the cursor (`ServedAhead`) and the steady rows not served yet behind it
(`UnservedBehind`); both rest on the rounded score being the key of the order
*and* of the cursor, which is exactly what pgvector lacks.

**Checked by TLC only:** everything about progress (`RunReported`, `HandlersEnd`,
`AcceptedEnds`, `WalkEnds`), because liveness under fairness is out of the prover's
reach; and `LoopRetryBudget`, which is about overlapping resolvers, where the
inductive invariant does not hold. Every other invariant and action property of the
passing runs has a theorem.

## 6. Plan

Done: submission and recordings, the transcript's way through normaliser and
queue, the workflow with its approvals, its abstract contract and its default
planner, paginated search, and their proofs. Left, in this order:

1. A theorem for `LoopRetryBudget`: an invariant of each loop by itself, which says
   how many attempts it has made of each call, without any claim about the rows it
   shares with other loops.
2. A job whose lease runs out while its worker still runs (`worker.py:24`): two
   workers would own the run, so every theorem of the workflow but two would need
   the assumption that it does not happen. How ARQ leases jobs is not in the
   repository.
3. The router's fallback (`services/planner.py`) with a memory of which planner
   answered; for the run it makes no difference, as any planner may answer any
   iteration.

**Not modelled, and not planned.** The query answerer and the e-mail, Slack and
Jira providers keep no state: one formats rows, the others translate a request to
an external service, and `ToolExecutor` has every answer they may give. The HTTP
application, token checks, rate limiting, settings, readiness, logging and
telemetry are wiring and libraries. The admin page is a form over the approval
routes. Database migrations run once; the unique constraints they create are in
`Repository` and `MeetingSubmission`. Of the embeddings the scores are modelled,
not how they are computed; of the LLM planner what it may return, not its prompts.

## 7. Running

    tlc -workers 2 -config OneResolver.cfg MCMeetingWorkflow
    tlc -workers 2 -config Submission.cfg MCMeetingSubmission
    tlc -workers 2 -config Pipeline.cfg MCTranscriptQueue
    tlc -workers 2 -config Heuristic.cfg MCHeuristicWorkflow
    tlc -workers 2 -config Paging.cfg CursorPagination
    tlapm WorkflowApprovals_proofs.tla
    tlapm WorkflowBounds_proofs.tla
    tlapm HeuristicWorkflow_proofs.tla
    tlapm MeetingSubmission_proofs.tla
    tlapm TranscriptQueue_proofs.tla
