-------------------------- MODULE MeetingSubmission --------------------------
(***************************************************************************)
(* Requests that submit a meeting, from the route                          *)
(* (src/meeting_assistant/api/routes/batch.py) over the rows they create   *)
(* (submit_batch_meeting, repositories.py) to the transcript of their run. *)
(*                                                                         *)
(* A request for /meetings/batch runs in a thread of its own.  One for     *)
(* /meetings/batch/upload is a coroutine: from the moment it has read the  *)
(* file it keeps the event loop until it answers, so no other request is   *)
(* received meanwhile, while the threads go on.  The three modes are the   *)
(* settings of build_batch_job_queue.  What follows the VALIDATED status   *)
(* is MeetingWorkflow; here it is one step.                                *)
(***************************************************************************)
EXTENDS AudioSource, FiniteSets

CONSTANTS
  Requests,        \* requests that may be received, each once
  Users, NoUser,   \* external ids
  Emails, NoEmail,
  Scenarios,       \* settings, with what clients and services do under them
  MaxCrashes       \* bound on the restarts and dead workers considered

NoUri  == [scheme |-> "none", encoded |-> FALSE, chars |-> "plain"]
NoFile == [ext |-> "other", chars |-> "plain", content |-> "absent", type |-> "other"]

\* validate_payload of BatchMeetingRequest has refused a body with neither
\* text nor URI before a handler sees it; an upload has a file instead.
FormType ==
  {f \in [route : {"json", "upload"}, user : Users, email : Emails,
          text : Strings, uri : Uris \cup {NoUri}, file : Files \cup {NoFile}] :
     IF f.route = "upload" THEN f.text = "empty" /\ f.uri = NoUri /\ f.file # NoFile
     ELSE f.file = NoFile /\ (f.text # "empty" \/ f.uri # NoUri)}

\* mode, backend, absoluteDir, buckets and hasKey are settings: how jobs are
\* run, where uploads go, whether asr_upload_dir is absolute, which schemes
\* have a bucket, and whether there is an asr_openai_api_key.  The requests
\* that come and their forms are the clients'; the world answers with objects,
\* hosts, speech and, if failing, by refusing jobs, uploads and what is asked
\* of the database.
ScenarioType ==
  {s \in [mode : {"sync", "inprocess", "arq"}, backend : {"local", "s3"},
          absoluteDir : BOOLEAN, buckets : SUBSET {"s3", "gs"}, hasKey : BOOLEAN,
          requests : SUBSET Requests, forms : SUBSET FormType,
          objects : SUBSET Objects,
          hosts : SUBSET Replies, speech : SUBSET Replies,
          payloads : SUBSET Payloads, failing : BOOLEAN] :
     s.backend = "s3" => "s3" \in s.buckets}

ASSUME ScenariosAssumption == Scenarios \subseteq ScenarioType
ASSUME NullAssumption == NoUser \notin Users /\ NoEmail \notin Emails
ASSUME CrashAssumption == MaxCrashes \in Nat

VARIABLES
  scenario,    \* the one the application runs in, for good
  stage,       \* the next statement of each request's handler
  form,        \* what it was sent
  answer,      \* its HTTP status
  source,      \* payload.source_uri
  files,       \* requests whose recording is in the upload store
  users,       \* the e-mail of each row of users
  user,        \* the row that get_or_create_user returned to each request
  meeting,     \* the user of the meeting each request created
  run,         \* the status of the run it created
  reason,      \* the code in the run's failure_reason
  job,         \* where run_batch_workflow is with it
  asset,       \* the recording that was last fetched for it
  transcript,  \* what its rendered transcript holds
  crashes      \* restarts and dead workers so far

requestVars == <<scenario, stage, form, answer, source, user>>
rowVars     == <<users, meeting, run, reason, transcript>>
vars == <<requestVars, files, rowVars, job, asset, crashes>>

Blank == [route |-> "none"]

Stages   == {"idle", "store", "user", "insert", "meeting", "run", "enqueue",
             "work", "reply", "answered"}
Answers  == {"none", "200", "202", "400", "422", "500", "dropped"}
Jobs     == {"none", "queued", "load", "hear", "publish", "execute", "over", "lost"}
Started  == {"load", "hear", "publish", "execute"}
Working  == {"queued"} \cup Started

\* "running" stands for VALIDATED and EXECUTING, "reported" for DONE and
\* AWAITING_APPROVAL.
Statuses == {"none", "pending", "running", "reported", "failed"}
Ended    == {"reported", "failed"}

Init ==
  /\ scenario \in Scenarios
  /\ stage = [r \in Requests |-> "idle"]
  /\ form = [r \in Requests |-> Blank]
  /\ answer = [r \in Requests |-> "none"]
  /\ source = [r \in Requests |-> NoUri]
  /\ files = {}
  /\ users = [u \in Users |-> NoEmail]
  /\ user = [r \in Requests |-> NoUser]
  /\ meeting = [r \in Requests |-> NoUser]
  /\ run = [r \in Requests |-> "none"]
  /\ reason = [r \in Requests |-> "none"]
  /\ job = [r \in Requests |-> "none"]
  /\ asset = [r \in Requests |-> NoFile]
  /\ transcript = [r \in Requests |-> "none"]
  /\ crashes = 0

InHandler(r) == stage[r] \notin {"idle", "answered"}
LoopBusy     == \E r \in Requests : InHandler(r) /\ form[r].route = "upload"

Goto(r, s) == stage' = [stage EXCEPT ![r] = s] /\ UNCHANGED answer

Answer(r, code) ==
  /\ stage' = [stage EXCEPT ![r] = "answered"]
  /\ answer' = [answer EXCEPT ![r] = code]

-----------------------------------------------------------------------------
(* The routes.                                                             *)

\* Mutant: the file is stored before it is validated.
ReceiveAndKeep(r) ==
  /\ stage[r] = "idle"
  /\ ~LoopBusy
  /\ r \in scenario.requests
  /\ \E f \in scenario.forms :
       /\ form' = [form EXCEPT ![r] = f]
       /\ source' = [source EXCEPT ![r] = f.uri]
       /\ files' = IF f.route = "upload" THEN files \cup {r} ELSE files
       /\ \/ f.route = "json" /\ Goto(r, "user")
          \/ f.route = "upload" /\ ValidateUpload(f.file) = "none" /\ Goto(r, "store")
          \/ f.route = "upload" /\ ValidateUpload(f.file) # "none" /\ Answer(r, "422")
  /\ UNCHANGED <<scenario, user, rowVars, job, asset, crashes>>

\* ingest_batch_meeting, or ingest_batch_meeting_upload with validate_upload.
Receive(r) ==
  /\ stage[r] = "idle"
  /\ ~LoopBusy
  /\ r \in scenario.requests
  /\ \E f \in scenario.forms :
       /\ form' = [form EXCEPT ![r] = f]
       /\ source' = [source EXCEPT ![r] = f.uri]
       /\ \/ f.route = "json" /\ Goto(r, "user")
          \/ f.route = "upload" /\ ValidateUpload(f.file) = "none" /\ Goto(r, "store")
          \/ f.route = "upload" /\ ValidateUpload(f.file) # "none" /\ Answer(r, "422")
  /\ UNCHANGED <<scenario, user, files, rowVars, job, asset, crashes>>

\* audio_upload_store.store: only an ASRError is caught around it.
Store(r) ==
  LET stored == StoreUpload(form[r].file, scenario.backend, scenario.absoluteDir)
  IN
  /\ stage[r] = "store"
  /\ files' = files \cup {r}
  /\ \/ /\ stored.error = "none"
        /\ source' = [source EXCEPT ![r] = stored.value]
        /\ Goto(r, "user")
     \/ /\ stored.error # "none"
        /\ Answer(r, "500")
        /\ UNCHANGED source
  /\ UNCHANGED <<scenario, form, user, rowVars, job, asset, crashes>>

\* put_object raises.
StoreRefused(r) ==
  /\ stage[r] = "store"
  /\ scenario.backend = "s3" /\ scenario.failing
  /\ Answer(r, "500")
  /\ UNCHANGED <<scenario, form, source, user, files, rowVars, job, asset, crashes>>

-----------------------------------------------------------------------------
(* The rows, each committed by itself.                                     *)

\* Mutant: whoever has the e-mail is taken for the user.
LookupEmail(r) ==
  LET rows == {u \in Users : users[u] = form[r].email} IN
  /\ stage[r] = "user"
  /\ \/ rows = {} /\ Goto(r, "insert") /\ UNCHANGED user
     \/ \E u \in rows : user' = [user EXCEPT ![r] = u] /\ Goto(r, "meeting")
  /\ UNCHANGED <<scenario, form, source, files, rowVars, job, asset, crashes>>

\* get_or_create_user: the select.  An existing user keeps its e-mail.
LookupUser(r) ==
  LET rows == {u \in Users : users[u] # NoEmail /\ u = form[r].user} IN
  /\ stage[r] = "user"
  /\ \/ rows = {} /\ Goto(r, "insert") /\ UNCHANGED user
     \/ \E u \in rows : user' = [user EXCEPT ![r] = u] /\ Goto(r, "meeting")
  /\ UNCHANGED <<scenario, form, source, files, rowVars, job, asset, crashes>>

\* The insert, when no other request has inserted the user meanwhile and no
\* other user has the e-mail: both columns are unique.
InsertUser(r) ==
  LET u == form[r].user IN
  /\ stage[r] = "insert"
  /\ users[u] = NoEmail
  /\ \A v \in Users : users[v] # form[r].email
  /\ users' = [users EXCEPT ![u] = form[r].email]
  /\ user' = [user EXCEPT ![r] = u]
  /\ Goto(r, "meeting")
  /\ UNCHANGED <<scenario, form, source, files, meeting, run, reason, transcript,
                 job, asset, crashes>>

\* The IntegrityError of the insert is not a ValueError.
InsertConflict(r) ==
  /\ stage[r] = "insert"
  /\ users[form[r].user] # NoEmail \/ \E v \in Users : users[v] = form[r].email
  /\ Answer(r, "500")
  /\ UNCHANGED <<scenario, form, source, user, files, rowVars, job, asset, crashes>>

\* A select, an insert or a commit raises, and nothing was written.
DatabaseRefuses(r) ==
  /\ stage[r] \in {"user", "insert", "meeting", "run"}
  /\ scenario.failing
  /\ Answer(r, "500")
  /\ UNCHANGED <<scenario, form, source, user, files, rowVars, job, asset, crashes>>

CreateMeeting(r) ==
  /\ stage[r] = "meeting"
  /\ meeting' = [meeting EXCEPT ![r] = user[r]]
  /\ Goto(r, "run")
  /\ UNCHANGED <<scenario, form, source, user, files, users, run, reason, transcript,
                 job, asset, crashes>>

\* create_workflow_run; the synchronous mode goes on in the same thread.
CreateRun(r) ==
  /\ stage[r] = "run"
  /\ run' = [run EXCEPT ![r] = "pending"]
  /\ IF scenario.mode = "sync"
     THEN Goto(r, "work") /\ job' = [job EXCEPT ![r] = "load"]
     ELSE Goto(r, "enqueue") /\ UNCHANGED job
  /\ UNCHANGED <<scenario, form, source, user, files, users, meeting, reason, transcript,
                 asset, crashes>>

\* asyncio.run refuses to start in the thread of a running event loop.
CanEnqueue(r) == scenario.mode = "inprocess" \/ form[r].route = "json"

\* enqueue_batch: a thread is started, or ARQ takes the job.
Enqueue(r) ==
  /\ stage[r] = "enqueue"
  /\ CanEnqueue(r)
  /\ job' = [job EXCEPT ![r] = "queued"]
  /\ Goto(r, "reply")
  /\ UNCHANGED <<scenario, form, source, user, files, rowVars, asset, crashes>>

\* Mutant: the route answers although nothing was enqueued.
EnqueueFailsQuietly(r) ==
  /\ stage[r] = "enqueue"
  /\ scenario.mode = "arq"
  /\ scenario.failing \/ ~CanEnqueue(r)
  /\ Goto(r, "reply")
  /\ UNCHANGED <<scenario, form, source, user, files, rowVars, job, asset, crashes>>

\* Neither error is one that _submit_batch catches; the rows stay.
EnqueueFails(r) ==
  /\ stage[r] = "enqueue"
  /\ scenario.mode = "arq"
  /\ scenario.failing \/ ~CanEnqueue(r)
  /\ Answer(r, "500")
  /\ UNCHANGED <<scenario, form, source, user, files, rowVars, job, asset, crashes>>

\* Mutant: the synchronous mode returns failures as the asynchronous one does.
ReplyAnyResult(r) ==
  /\ \/ stage[r] = "reply" /\ Answer(r, "202")
     \/ stage[r] = "work" /\ job[r] = "over" /\ Answer(r, "200")
  /\ UNCHANGED <<scenario, form, source, user, files, rowVars, job, asset, crashes>>

\* _submit_batch turns what submit_batch_meeting returned or raised into the
\* answer: an exception that is no ASRError may or may not be a ValueError, but
\* what the database raises when the failure is written is not.
Reply(r) ==
  /\ \/ stage[r] = "reply" /\ Answer(r, "202")
     \/ /\ stage[r] = "work" /\ job[r] = "over"
        /\ \/ run[r] \notin Ended /\ Answer(r, "500")
           \/ /\ run[r] \in Ended
              /\ \/ reason[r] = "none" /\ Answer(r, "200")
                 \/ reason[r] = "exception" /\ \E code \in {"400", "500"} : Answer(r, code)
                 \/ reason[r] \in Errors /\ Answer(r, "422")
  /\ UNCHANGED <<scenario, form, source, user, files, rowVars, job, asset, crashes>>

-----------------------------------------------------------------------------
(* run_batch_workflow.                                                     *)

JobGoto(r, s) == job' = [job EXCEPT ![r] = s]

\* Mutant: the failure is returned but not written.
FailUnrecorded(r, code) ==
  /\ reason' = [reason EXCEPT ![r] = code]
  /\ JobGoto(r, "over")
  /\ UNCHANGED run

\* Its two except branches, whose own write may raise.
Fail(r, code) ==
  /\ \/ run' = [run EXCEPT ![r] = "failed"] /\ reason' = [reason EXCEPT ![r] = code]
     \/ scenario.failing /\ UNCHANGED <<run, reason>>
  /\ JobGoto(r, "over")

\* A redelivery that finds the run not pending only reports it.
StartJob(r) ==
  /\ job[r] = "queued"
  /\ JobGoto(r, IF run[r] = "pending" THEN "load" ELSE "over")
  /\ UNCHANGED <<requestVars, files, rowVars, asset, crashes>>

\* Before the run was read there is nothing to write a failure to; when a
\* redelivery reads the rows it would report, there is.
StartJobRaises(r) ==
  /\ job[r] = "queued"
  /\ scenario.failing
  /\ \/ JobGoto(r, "over") /\ UNCHANGED <<run, reason>>
     \/ run[r] # "pending" /\ Fail(r, "exception")
  /\ UNCHANGED <<requestVars, files, users, meeting, transcript, asset, crashes>>

\* Any statement of the try raises something that is no ASRError: a service, a
\* commit, the planner.
JobRaises(r) ==
  /\ job[r] \in Started
  /\ Fail(r, "exception")
  /\ UNCHANGED <<requestVars, files, users, meeting, transcript, asset, crashes>>

\* BatchASRAdapter.transcribe: text that was sent is the transcript.
UseText(r) ==
  /\ job[r] = "load"
  /\ form[r].text # "empty"
  /\ transcript' = [transcript EXCEPT ![r] = RenderedText(ManualDocument(form[r].text))]
  /\ JobGoto(r, "publish")
  /\ UNCHANGED <<requestVars, files, users, meeting, run, reason, asset, crashes>>

\* What the URI names: the file that was uploaded, or anything.
Stored(r) == IF form[r].route = "upload" THEN {form[r].file} ELSE scenario.objects

\* source_resolver.resolve.
Load(r) ==
  /\ job[r] = "load"
  /\ form[r].text = "empty"
  /\ \E object \in Stored(r), reply \in scenario.hosts :
       LET result == ResolveSource(source[r], object, reply, scenario.buckets) IN
       \/ /\ result.error = "none"
          /\ asset' = [asset EXCEPT ![r] = result.value]
          /\ JobGoto(r, "hear")
          /\ UNCHANGED <<run, reason>>
       \/ /\ result.error # "none"
          /\ Fail(r, result.error)
          /\ UNCHANGED asset
  /\ UNCHANGED <<requestVars, files, users, meeting, transcript, crashes>>

\* transcriber.transcribe, and the transcript is saved.
Hear(r) ==
  /\ job[r] = "hear"
  /\ \E reply \in scenario.speech, payload \in scenario.payloads :
       LET result == TranscribeAsset(scenario.hasKey, reply, payload) IN
       \/ /\ result.error = "none"
          /\ transcript' = [transcript EXCEPT ![r] = RenderedText(result.value)]
          /\ JobGoto(r, "publish")
          /\ UNCHANGED <<run, reason>>
       \/ /\ result.error # "none"
          /\ Fail(r, result.error)
          /\ UNCHANGED transcript
  /\ UNCHANGED <<requestVars, files, users, meeting, asset, crashes>>

\* The chunks are stored and published, and the run is VALIDATED.
Validate(r) ==
  /\ job[r] = "publish"
  /\ run' = [run EXCEPT ![r] = "running"]
  /\ JobGoto(r, "execute")
  /\ UNCHANGED <<requestVars, files, users, meeting, reason, transcript, asset, crashes>>

\* The rest: the run pauses, is done or has used up its iterations.
Execute(r) ==
  /\ job[r] = "execute"
  /\ \E s \in Ended : run' = [run EXCEPT ![r] = s]
  /\ JobGoto(r, "over")
  /\ UNCHANGED <<requestVars, files, users, meeting, reason, transcript, asset, crashes>>

-----------------------------------------------------------------------------
(* Processes that stop.                                                    *)

\* Mutant: the jobs of ARQ are lost as well.
RestartLosesJobs ==
  /\ crashes < MaxCrashes
  /\ crashes' = crashes + 1
  /\ stage' = [r \in Requests |-> IF InHandler(r) THEN "answered" ELSE stage[r]]
  /\ answer' = [r \in Requests |-> IF InHandler(r) THEN "dropped" ELSE answer[r]]
  /\ job' = [r \in Requests |-> IF job[r] \in Working THEN "lost" ELSE job[r]]
  /\ UNCHANGED <<scenario, form, source, user, files, rowVars, asset>>

\* The application stops and is started again: its requests are never answered,
\* and the jobs in its threads are gone.  A worker of ARQ is another process.
Restart ==
  /\ crashes < MaxCrashes
  /\ crashes' = crashes + 1
  /\ stage' = [r \in Requests |-> IF InHandler(r) THEN "answered" ELSE stage[r]]
  /\ answer' = [r \in Requests |-> IF InHandler(r) THEN "dropped" ELSE answer[r]]
  /\ job' = [r \in Requests |->
               IF scenario.mode # "arq" /\ job[r] \in Working THEN "lost" ELSE job[r]]
  /\ UNCHANGED <<scenario, form, source, user, files, rowVars, asset>>

\* An ARQ worker dies before ARQ has noted that its job ended: the job is
\* delivered again.
WorkerDies(r) ==
  /\ crashes < MaxCrashes
  /\ crashes' = crashes + 1
  /\ scenario.mode = "arq"
  /\ job[r] \in Started \cup {"over"}
  /\ JobGoto(r, "queued")
  /\ UNCHANGED <<requestVars, files, rowVars, asset>>

-----------------------------------------------------------------------------
HandlerStep(r) ==
  \/ Store(r) \/ LookupUser(r) \/ InsertUser(r) \/ InsertConflict(r)
  \/ CreateMeeting(r) \/ CreateRun(r) \/ Enqueue(r) \/ Reply(r)
  \/ StoreRefused(r) \/ DatabaseRefuses(r) \/ EnqueueFails(r)

JobStep(r) ==
  \/ StartJob(r) \/ UseText(r) \/ Load(r) \/ Hear(r) \/ Validate(r) \/ Execute(r)

Next ==
  \/ \E r \in Requests : \/ Receive(r) \/ HandlerStep(r) \/ JobStep(r)
                         \/ StartJobRaises(r) \/ JobRaises(r) \/ WorkerDies(r)
  \/ Restart

Spec == Init /\ [][Next]_vars

\* A job goes on.
FairSpec == Spec /\ \A r \in Requests : WF_vars(JobStep(r))

TypeOK ==
  /\ scenario \in Scenarios
  /\ stage \in [Requests -> Stages]
  /\ form \in [Requests -> FormType \cup {Blank}]
  /\ answer \in [Requests -> Answers]
  /\ source \in [Requests -> Uris \cup {NoUri}]
  /\ files \in SUBSET Requests
  /\ users \in [Users -> Emails \cup {NoEmail}]
  /\ user \in [Requests -> Users \cup {NoUser}]
  /\ meeting \in [Requests -> Users \cup {NoUser}]
  /\ run \in [Requests -> Statuses]
  /\ reason \in [Requests -> Errors \cup {"none", "exception"}]
  /\ job \in [Requests -> Jobs]
  /\ asset \in [Requests -> Objects]
  /\ transcript \in [Requests -> {"none", "empty", "labels", "words"}]
  /\ crashes \in 0 .. MaxCrashes

\* A run that has not ended although nobody works on it: its thread was in an
\* application that was restarted (jobs.py:47-53); or the failure could not be
\* written (orchestrator.py:121, 132); or a worker of ARQ died after VALIDATED,
\* and the next one only reported the run (orchestrator.py:69-70).
Abandoned(r) ==
  /\ run[r] \in {"pending", "running"}
  /\ \/ job[r] = "lost" /\ scenario.mode # "arq" /\ crashes > 0
     \/ job[r] = "over" /\ scenario.failing
     \/ job[r] = "over" /\ run[r] = "running" /\ scenario.mode = "arq" /\ crashes > 0

\* What a client is told agrees with the rows: told that its meeting was
\* processed, there is a run that ended without an exception; told that it was
\* accepted, a run exists that a job is working on or has ended, unless it was
\* abandoned; told that its data were wrong, no run of it is left that is not
\* marked as failed (batch.py:16-31).
AnswerAgrees ==
  \A r \in Requests :
    /\ answer[r] = "200" => run[r] \in Ended /\ reason[r] = "none"
    /\ answer[r] = "202" =>
         \/ run[r] \in {"pending", "running"} /\ job[r] \in Working
         \/ run[r] \in Ended
         \/ Abandoned(r)
    /\ answer[r] \in {"400", "422"} => run[r] \in {"none", "failed"}

\* A run stays without an end and with nobody to work on it only if its request
\* has not come that far, was answered with an error before there was a job, or
\* one of the three accidents came between: no other client that was promised a
\* result waits for such a run (orchestrator.py:36).
StrandedIsKnown ==
  \A r \in Requests :
    run[r] \in {"pending", "running"} /\ job[r] \notin Working =>
      \/ stage[r] = "enqueue"
      \/ job[r] = "none" /\ answer[r] \in {"500", "dropped"}
      \/ Abandoned(r)

\* A meeting belongs to the user its request named, and that user exists by
\* then, whichever of several first requests inserted it and whoever else has
\* the e-mail (repositories.py:37-47).
OwnMeeting ==
  \A r \in Requests :
    meeting[r] # NoUser => meeting[r] = form[r].user /\ users[meeting[r]] # NoEmail

\* A recording that was refused is not kept, and one that is kept belongs to a
\* meeting, unless an exception or a restart came between the two
\* (batch.py:61-79).
NoStrayFile ==
  \A r \in Requests :
    /\ answer[r] \in {"200", "202", "400"} /\ form[r].route = "upload" => r \in files
    /\ r \in files /\ stage[r] = "answered" =>
         meeting[r] # NoUser \/ answer[r] \in {"500", "dropped"}

\* A run with a transcript to go by has not failed for lack of one: a failure
\* that names a cause in the recording or the speech service leaves no
\* transcript, unless one is left of a worker that died, and nothing is executed
\* without one (orchestrator.py:76-79).
CauseFits ==
  \A r \in Requests :
    /\ reason[r] \in Errors =>
         /\ run[r] = "failed"
         /\ \/ transcript[r] = "none"
            \/ scenario.mode = "arq" /\ crashes > 0
    /\ run[r] \in {"running", "reported"} => transcript[r] # "none"

Unreadable == {"source_not_found", "unsupported_format", "empty_audio", "missing_source"}

\* A recording that was validated and stored is found again, and passes the same
\* validation, when its run gets to it, in a store that keeps what it was given:
\* uploads are "referenced as file:// URIs for ASR" (README.md:111).  Only a name
\* with a supported extension and without characters that a URI quotes comes
\* through (asr.py:214, 226).
UploadReadable ==
  \A r \in Requests :
    LET f == form[r] IN
    /\ f.route = "upload" /\ f.file.chars = "plain" /\ f.file.ext = "audio"
    /\ scenario.backend = "s3" => "not_found" \notin scenario.hosts
    => asset[r] # NoFile \/ reason[r] \notin Unreadable

\* A meeting that was accepted comes to an end, or is abandoned in one of the
\* three ways the code has; a restart of the application is none of them for a
\* job that ARQ holds (jobs.py:44-69).
AcceptedEnds ==
  \A r \in Requests : answer[r] = "202" ~> run[r] \in Ended \/ Abandoned(r)
=============================================================================
