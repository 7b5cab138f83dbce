---------------------- MODULE MeetingSubmission_proofs ----------------------
(***************************************************************************)
(* The rows, the files and the answers of any number of requests, in any   *)
(* scenario and with any number of restarts and dead workers.              *)
(*                                                                         *)
(* None of the properties is inductive: each relies on what a request has  *)
(* already done at the statement it is at (StageFits), on what its job has *)
(* written so far (JobFits), and on where its recording is (FileFits).     *)
(***************************************************************************)
EXTENDS MeetingSubmission, TLAPS

USE DEF Goto, Answer, JobGoto, InHandler

Codes == Errors \cup {"none", "exception"}
Texts == {"empty", "labels", "words"}

-----------------------------------------------------------------------------
(* The operators of AudioSource.                                           *)

Fetched == Objects \ {NoFile}

\* What a resolver returns is a recording.
LEMMA SchemeResult ==
  ASSUME NEW uri \in Uris \cup {NoUri}, NEW object \in Objects, NEW reply \in Replies,
         NEW buckets
  PROVE  LET r == ResolveScheme(uri, object, reply, buckets) IN
         /\ r.error \in Codes
         /\ r.error = "none" => r.value \in Fetched
  BY DEF Fetched, NoFile, ResolveScheme, ResolveHttp, ResolveLocal, ResolveS3, ResolveGcs, Found, Raised,
         Returned, Crashed, ReplyError, Codes, Errors, Objects, Replies

LEMMA ResolveResult ==
  ASSUME NEW uri \in Uris \cup {NoUri}, NEW object \in Objects, NEW reply \in Replies,
         NEW buckets
  PROVE  LET r == ResolveSource(uri, object, reply, buckets) IN
         /\ r.error \in Codes
         /\ r.error = "none" => r.value \in Fetched
  BY SchemeResult DEF ResolveSource, ValidateAudioAsset, Raised, Codes, Errors

LEMMA HearResult ==
  ASSUME NEW hasKey \in BOOLEAN, NEW reply \in Replies, NEW payload \in Payloads
  PROVE  LET r == TranscribeAsset(hasKey, reply, payload) IN
         /\ r.error \in Codes
         /\ r.error = "none" => RenderedText(r.value) \in Texts
  BY DEF TranscribeAsset, RenderedText, ReplyError, Strip, Raised, Returned, Crashed, Codes,
         Errors, Replies, Payloads, Strings, Texts

LEMMA ManualText ==
  ASSUME NEW s \in Strings PROVE RenderedText(ManualDocument(s)) \in Texts
  BY DEF ManualDocument, RenderedText, Strip, Strings, Texts

\* What was stored for a recording that may be uploaded.
LEMMA StoreResult ==
  ASSUME NEW f \in Files, NEW backend \in {"local", "s3"}, NEW absoluteDir \in BOOLEAN,
         StoreUpload(f, backend, absoluteDir).error = "none"
  PROVE  LET uri == StoreUpload(f, backend, absoluteDir).value IN
         /\ uri \in Uris
         /\ uri.chars = f.chars
         /\ \/ uri.scheme = "s3" /\ ~uri.encoded /\ backend = "s3"
            \/ uri.scheme = "file" /\ uri.encoded
  BY DEF StoreUpload, Returned, Crashed, Raised, Uris, Files, Objects

\* A recording that was validated is found again and passes once more.
LEMMA StoredIsFound ==
  ASSUME NEW f \in Files, ValidateUpload(f) = "none", f.chars = "plain", f.ext = "audio",
         NEW uri \in Uris, uri.chars = f.chars, NEW reply \in Replies, NEW buckets,
         \/ uri.scheme = "s3" /\ ~uri.encoded /\ "s3" \in buckets /\ reply # "not_found"
         \/ uri.scheme = "file" /\ uri.encoded
  PROVE  ResolveSource(uri, f, reply, buckets).error \notin Unreadable
<1>1. /\ f.content \notin {"absent", "unreadable", "empty"}
      /\ f \in Objects
  BY DEF ValidateUpload, ValidateAudioAsset, Files, Objects
<1>2. Found(uri, f)
  BY <1>1 DEF Found, NamesObject, Uris
<1> DEFINE r == ResolveScheme(uri, f, reply, buckets)
<1>3. CASE uri.scheme = "s3"
  <2>1. r = ResolveS3(uri, f, reply)
    BY <1>3 DEF ResolveScheme
  <2>2. \/ r.error \in {"exception", "provider_error"}
        \/ r = Returned(f)
    BY <2>1, <1>1, <1>2, <1>3 DEF ResolveS3, Crashed, Raised, Returned
  <2> QED BY <1>1, <2>2 DEF ResolveSource, ValidateAudioAsset, Returned, Unreadable, Raised
<1>4. CASE uri.scheme = "file"
  <2>1. r = ResolveLocal(uri, f)
    BY <1>4 DEF ResolveScheme
  <2>2. r = Returned([f EXCEPT !.type = "other"])
    BY <2>1, <1>1, <1>2 DEF ResolveLocal
  <2>3. r.error = "none" /\ r.value.content = f.content /\ r.value.ext = "audio"
    BY <2>2, <1>1 DEF Returned, Objects
  <2> QED BY <1>1, <2>3 DEF ResolveSource, ValidateAudioAsset, Unreadable
<1> QED BY <1>3, <1>4

-----------------------------------------------------------------------------
(* The inductive invariant.                                                *)

\* What a request has written, and not written, at each statement.
StageFits(r) ==
  /\ stage[r] = "idle" <=> form[r] = Blank
  /\ stage[r] # "idle" => form[r] \in scenario.forms
  /\ stage[r] # "answered" <=> answer[r] = "none"
  /\ stage[r] \in {"idle", "store", "user", "insert", "meeting"} => meeting[r] = NoUser
  /\ stage[r] \in {"idle", "store", "user", "insert", "meeting", "run"} => run[r] = "none"
  /\ stage[r] = "meeting" => user[r] = form[r].user /\ users[user[r]] # NoEmail
  /\ stage[r] \in {"run", "enqueue", "work", "reply"} => meeting[r] # NoUser
  /\ stage[r] = "enqueue" => run[r] = "pending" /\ job[r] = "none" /\ scenario.mode # "sync"
  /\ stage[r] = "work" => job[r] \in Started \cup {"over"} /\ scenario.mode = "sync"
  /\ stage[r] = "reply" => job[r] \in Working \cup {"over"}
  /\ meeting[r] # NoUser =>
       /\ meeting[r] = form[r].user
       /\ users[meeting[r]] # NoEmail

AnswerFits(r) ==
  /\ answer[r] = "200" => job[r] = "over" /\ reason[r] = "none" /\ run[r] \in Ended
                          /\ scenario.mode = "sync"
  /\ answer[r] = "202" => job[r] # "none"
  /\ answer[r] \in {"400", "422"} =>
       run[r] = "none" \/ (job[r] = "over" /\ run[r] = "failed" /\ scenario.mode = "sync")
  /\ answer[r] \in {"200", "202", "400"} => meeting[r] # NoUser
  /\ answer[r] # "none" /\ job[r] = "none" /\ run[r] = "pending" => answer[r] \in {"500", "dropped"}

\* A worker of ARQ may have worked on it before.
Redelivered == scenario.mode = "arq" /\ crashes > 0

\* What a job has written when it is there.
JobFits(r) ==
  /\ job[r] = "none" => run[r] \in {"none", "pending"}
  /\ run[r] = "none" => job[r] = "none"
  /\ job[r] = "queued" => run[r] = "pending" \/ Redelivered
  /\ job[r] \in {"load", "hear", "publish"} => run[r] = "pending"
  /\ job[r] = "execute" => run[r] = "running"
  /\ job[r] = "lost" => run[r] \in {"pending", "running"} /\ scenario.mode # "arq" /\ crashes > 0
  /\ job[r] = "over" => \/ run[r] \in Ended
                        \/ scenario.failing
                        \/ run[r] = "running" /\ Redelivered
  /\ reason[r] # "none" => /\ run[r] = "failed"
                           /\ job[r] = "over" \/ (job[r] = "queued" /\ Redelivered)
  /\ job[r] = "none" => transcript[r] = "none"
  /\ job[r] \in {"queued", "load", "hear"} => transcript[r] = "none" \/ Redelivered
  /\ job[r] \in {"publish", "execute"} => transcript[r] # "none"
  /\ run[r] \in {"running", "reported"} => transcript[r] # "none"
  /\ reason[r] \in Errors => transcript[r] = "none" \/ Redelivered
  /\ job[r] = "hear" => asset[r] # NoFile

\* An upload that must be found again.
Keepable(r) ==
  /\ form[r].file.chars = "plain" /\ form[r].file.ext = "audio"
  /\ scenario.backend = "s3" => "not_found" \notin scenario.hosts

\* Where the recording of an upload is.
FileFits(r) ==
  /\ stage[r] = "store" => form[r].route = "upload"
  /\ r \in files => stage[r] \notin {"idle", "store"}
  /\ r \in files /\ stage[r] = "answered" => meeting[r] # NoUser \/ answer[r] \in {"500", "dropped"}
  /\ form[r].route = "upload" =>
       /\ stage[r] = "store" \/ r \in files => ValidateUpload(form[r].file) = "none"
       /\ stage[r] \in {"user", "insert", "meeting", "run", "enqueue", "work", "reply"} \/ meeting[r] # NoUser =>
            /\ r \in files
            /\ source[r] \in Uris
            /\ source[r].chars = form[r].file.chars
            /\ \/ source[r].scheme = "s3" /\ ~source[r].encoded /\ scenario.backend = "s3"
               \/ source[r].scheme = "file" /\ source[r].encoded
       /\ run[r] # "none" => meeting[r] # NoUser
       /\ Keepable(r) => asset[r] # NoFile \/ reason[r] \notin Unreadable

RequestFits(r) == StageFits(r) /\ AnswerFits(r) /\ JobFits(r) /\ FileFits(r)

SubmissionInv == TypeOK /\ \A r \in Requests : RequestFits(r)

-----------------------------------------------------------------------------
(* The initial state, and what the steps share.                            *)

LEMMA ScenarioFacts ==
  ASSUME TypeOK
  PROVE  /\ scenario \in ScenarioType
         /\ scenario.forms \subseteq FormType /\ scenario.objects \subseteq Objects
         /\ scenario.hosts \subseteq Replies /\ scenario.speech \subseteq Replies
         /\ scenario.payloads \subseteq Payloads /\ scenario.hasKey \in BOOLEAN
         /\ scenario.backend \in {"local", "s3"} /\ scenario.absoluteDir \in BOOLEAN
         /\ scenario.backend = "s3" => "s3" \in scenario.buckets
  BY ScenariosAssumption DEF TypeOK, ScenarioType

LEMMA FormFacts ==
  ASSUME NEW f \in FormType
  PROVE  /\ f # Blank
         /\ f.user \in Users /\ f.email \in Emails /\ f.uri \in Uris \cup {NoUri}
         /\ f.text \in Strings
         /\ f.route \in {"json", "upload"}
         /\ f.route = "upload" => f.text = "empty" /\ f.file \in Files
  BY DEF FormType, Blank

LEMMA NoFileIsAbsent == NoFile \in Objects /\ NoFile.content = "absent"
  BY DEF NoFile, Objects

LEMMA InitInv == Init => SubmissionInv
<1> SUFFICES ASSUME Init PROVE SubmissionInv
  OBVIOUS
<1>1. TypeOK
  BY CrashAssumption, NoFileIsAbsent
  DEF Init, TypeOK, Stages, Answers, Statuses, Jobs
<1>2. ASSUME NEW r \in Requests PROVE RequestFits(r)
  BY DEF Init, RequestFits, StageFits, AnswerFits, JobFits, FileFits, Blank, Working, Started,
     Ended, Errors
<1> QED BY <1>1, <1>2 DEF SubmissionInv

\* A step of one request leaves the others where they are; it may only add a
\* user.
Quiet(q) ==
  /\ UNCHANGED <<scenario, stage[q], form[q], answer[q], source[q], user[q], meeting[q],
                 run[q], reason[q], job[q], asset[q], transcript[q], q \in files>>
  /\ \A u \in Users : users[u] # NoEmail => users'[u] # NoEmail
  /\ crashes > 0 => crashes' > 0

LEMMA OthersFit ==
  ASSUME TypeOK, NEW q \in Requests, RequestFits(q), Quiet(q)
  PROVE  RequestFits(q)'
<1>1. stage[q] # "idle" => form[q].user \in Users
  BY ScenarioFacts, FormFacts DEF RequestFits, StageFits
<1>2. StageFits(q)'
  BY <1>1 DEF RequestFits, StageFits, Quiet, TypeOK
<1>3. AnswerFits(q)'
  BY DEF RequestFits, AnswerFits, Quiet
<1>4. JobFits(q)'
  BY DEF RequestFits, JobFits, Quiet, Redelivered
<1>5. FileFits(q)'
  BY DEF RequestFits, FileFits, Quiet, Keepable
<1> QED BY <1>2, <1>3, <1>4, <1>5 DEF RequestFits

-----------------------------------------------------------------------------
(* The steps, one lemma for each action.                                   *)

LEMMA ReceiveInv ==
  ASSUME SubmissionInv, NEW r \in Requests, Receive(r) PROVE SubmissionInv'
<1> USE ScenarioFacts, FormFacts DEF SubmissionInv
<1>0. /\ stage'[r] \in {"user", "store", "answered"} /\ r \notin files'
      /\ stage'[r] = "store" => form'[r].route = "upload" /\ ValidateUpload(form'[r].file) = "none"
      /\ stage'[r] = "user" => form'[r].route = "json"
      /\ meeting'[r] = NoUser /\ run'[r] = "none" /\ reason'[r] = "none"
  <2>1. PICK f \in scenario.forms :
          /\ form' = [form EXCEPT ![r] = f]
          /\ \/ f.route = "json" /\ Goto(r, "user")
             \/ f.route = "upload" /\ ValidateUpload(f.file) = "none" /\ Goto(r, "store")
             \/ f.route = "upload" /\ ValidateUpload(f.file) # "none" /\ Answer(r, "422")
    BY DEF Receive
  <2>2. form'[r] = f /\ f.route \in {"json", "upload"} /\ stage[r] = "idle"
    BY <2>1 DEF Receive, TypeOK
  <2>3. meeting'[r] = NoUser /\ run'[r] = "none" /\ reason'[r] = "none" /\ r \notin files'
    BY <2>2 DEF Receive, rowVars, RequestFits, StageFits, JobFits, FileFits, TypeOK
  <2> QED BY <2>1, <2>2, <2>3 DEF TypeOK
<1>1. TypeOK'
  BY DEF TypeOK, Receive, Stages, Answers, Statuses, Jobs, requestVars, rowVars, RequestFits, StageFits
<1>2. ASSUME NEW q \in Requests \ {r} PROVE Quiet(q)
  BY DEF TypeOK, Receive, requestVars, rowVars, Quiet
<1>3. RequestFits(r)'
  <2> USE DEF TypeOK, Receive, requestVars, rowVars, RequestFits
  <2>1. StageFits(r)'
    BY DEF StageFits, JobFits, Working, Started
  <2>2. AnswerFits(r)'
    BY DEF StageFits, AnswerFits, JobFits, Working, Started, Ended
  <2>3. JobFits(r)'
    BY DEF StageFits, JobFits, Working, Started, Ended, Errors, Redelivered
  <2>4. FileFits(r)'
    BY <1>0 DEF StageFits, JobFits, FileFits, Unreadable, Keepable
  <2> QED BY <2>1, <2>2, <2>3, <2>4
<1> QED BY <1>1, <1>2, <1>3, OthersFit DEF SubmissionInv

LEMMA StoreRefusedInv ==
  ASSUME SubmissionInv, NEW r \in Requests, StoreRefused(r) PROVE SubmissionInv'
<1> USE ScenarioFacts, FormFacts DEF SubmissionInv
<1>1. TypeOK'
  BY DEF TypeOK, StoreRefused, Stages, Answers, Statuses, Jobs, requestVars, rowVars, RequestFits, StageFits
<1>2. ASSUME NEW q \in Requests \ {r} PROVE Quiet(q)
  BY DEF TypeOK, StoreRefused, requestVars, rowVars, Quiet
<1>3. RequestFits(r)'
  <2> USE DEF TypeOK, StoreRefused, requestVars, rowVars, RequestFits
  <2>1. StageFits(r)'
    BY DEF StageFits, JobFits, Working, Started
  <2>2. AnswerFits(r)'
    BY DEF StageFits, AnswerFits, JobFits, Working, Started, Ended
  <2>3. JobFits(r)'
    BY DEF StageFits, JobFits, Working, Started, Ended, Errors, Redelivered
  <2>4. FileFits(r)'
    BY DEF StageFits, JobFits, FileFits, Unreadable, Keepable
  <2> QED BY <2>1, <2>2, <2>3, <2>4
<1> QED BY <1>1, <1>2, <1>3, OthersFit DEF SubmissionInv

LEMMA LookupUserInv ==
  ASSUME SubmissionInv, NEW r \in Requests, LookupUser(r) PROVE SubmissionInv'
<1> USE ScenarioFacts, FormFacts DEF SubmissionInv
<1>1. TypeOK'
  BY DEF TypeOK, LookupUser, Stages, Answers, Statuses, Jobs, requestVars, rowVars, RequestFits, StageFits
<1>2. ASSUME NEW q \in Requests \ {r} PROVE Quiet(q)
  BY DEF TypeOK, LookupUser, requestVars, rowVars, Quiet
<1>3. RequestFits(r)'
  <2> USE DEF TypeOK, LookupUser, requestVars, rowVars, RequestFits
  <2>1. StageFits(r)'
    BY DEF StageFits, JobFits, Working, Started
  <2>2. AnswerFits(r)'
    BY DEF StageFits, AnswerFits, JobFits, Working, Started, Ended
  <2>3. JobFits(r)'
    BY DEF StageFits, JobFits, Working, Started, Ended, Errors, Redelivered
  <2>4. FileFits(r)'
    BY DEF StageFits, JobFits, FileFits, Unreadable, Keepable
  <2> QED BY <2>1, <2>2, <2>3, <2>4
<1> QED BY <1>1, <1>2, <1>3, OthersFit DEF SubmissionInv

LEMMA InsertUserInv ==
  ASSUME SubmissionInv, NEW r \in Requests, InsertUser(r) PROVE SubmissionInv'
<1> USE ScenarioFacts, FormFacts DEF SubmissionInv
<1>1. TypeOK'
  BY DEF TypeOK, InsertUser, Stages, Answers, Statuses, Jobs, requestVars, rowVars, RequestFits, StageFits
<1>2. ASSUME NEW q \in Requests \ {r} PROVE Quiet(q)
  BY DEF TypeOK, InsertUser, requestVars, rowVars, Quiet
<1>3. RequestFits(r)'
  <2> USE DEF TypeOK, InsertUser, requestVars, rowVars, RequestFits
  <2>1. StageFits(r)'
    BY DEF StageFits, JobFits, Working, Started
  <2>2. AnswerFits(r)'
    BY DEF StageFits, AnswerFits, JobFits, Working, Started, Ended
  <2>3. JobFits(r)'
    BY DEF StageFits, JobFits, Working, Started, Ended, Errors, Redelivered
  <2>4. FileFits(r)'
    BY DEF StageFits, JobFits, FileFits, Unreadable, Keepable
  <2> QED BY <2>1, <2>2, <2>3, <2>4
<1> QED BY <1>1, <1>2, <1>3, OthersFit DEF SubmissionInv

LEMMA InsertConflictInv ==
  ASSUME SubmissionInv, NEW r \in Requests, InsertConflict(r) PROVE SubmissionInv'
<1> USE ScenarioFacts, FormFacts DEF SubmissionInv
<1>1. TypeOK'
  BY DEF TypeOK, InsertConflict, Stages, Answers, Statuses, Jobs, requestVars, rowVars, RequestFits, StageFits
<1>2. ASSUME NEW q \in Requests \ {r} PROVE Quiet(q)
  BY DEF TypeOK, InsertConflict, requestVars, rowVars, Quiet
<1>3. RequestFits(r)'
  <2> USE DEF TypeOK, InsertConflict, requestVars, rowVars, RequestFits
  <2>1. StageFits(r)'
    BY DEF StageFits, JobFits, Working, Started
  <2>2. AnswerFits(r)'
    BY DEF StageFits, AnswerFits, JobFits, Working, Started, Ended
  <2>3. JobFits(r)'
    BY DEF StageFits, JobFits, Working, Started, Ended, Errors, Redelivered
  <2>4. FileFits(r)'
    BY DEF StageFits, JobFits, FileFits, Unreadable, Keepable
  <2> QED BY <2>1, <2>2, <2>3, <2>4
<1> QED BY <1>1, <1>2, <1>3, OthersFit DEF SubmissionInv

LEMMA CreateMeetingInv ==
  ASSUME SubmissionInv, NEW r \in Requests, CreateMeeting(r) PROVE SubmissionInv'
<1> USE ScenarioFacts, FormFacts DEF SubmissionInv
<1>1. TypeOK'
  BY DEF TypeOK, CreateMeeting, Stages, Answers, Statuses, Jobs, requestVars, rowVars, RequestFits, StageFits
<1>2. ASSUME NEW q \in Requests \ {r} PROVE Quiet(q)
  BY DEF TypeOK, CreateMeeting, requestVars, rowVars, Quiet
<1>3. RequestFits(r)'
  <2> USE DEF TypeOK, CreateMeeting, requestVars, rowVars, RequestFits
  <2>1. StageFits(r)'
    BY NullAssumption DEF StageFits, JobFits, Working, Started
  <2>2. AnswerFits(r)'
    BY DEF StageFits, AnswerFits, JobFits, Working, Started, Ended
  <2>3. JobFits(r)'
    BY DEF StageFits, JobFits, Working, Started, Ended, Errors, Redelivered
  <2>4. FileFits(r)'
    BY DEF StageFits, JobFits, FileFits, Unreadable, Keepable
  <2> QED BY <2>1, <2>2, <2>3, <2>4
<1> QED BY <1>1, <1>2, <1>3, OthersFit DEF SubmissionInv

LEMMA CreateRunInv ==
  ASSUME SubmissionInv, NEW r \in Requests, CreateRun(r) PROVE SubmissionInv'
<1> USE ScenarioFacts, FormFacts DEF SubmissionInv
<1>1. TypeOK'
  BY DEF TypeOK, CreateRun, Stages, Answers, Statuses, Jobs, requestVars, rowVars, RequestFits, StageFits
<1>2. ASSUME NEW q \in Requests \ {r} PROVE Quiet(q)
  BY DEF TypeOK, CreateRun, requestVars, rowVars, Quiet
<1>3. RequestFits(r)'
  <2> USE DEF TypeOK, CreateRun, requestVars, rowVars, RequestFits
  <2>1. StageFits(r)'
    BY DEF StageFits, JobFits, Working, Started
  <2>2. AnswerFits(r)'
    BY DEF StageFits, AnswerFits, JobFits, Working, Started, Ended
  <2>3. JobFits(r)'
    BY DEF StageFits, JobFits, Working, Started, Ended, Errors, Redelivered
  <2>4. FileFits(r)'
    BY DEF StageFits, JobFits, FileFits, Unreadable, Keepable
  <2> QED BY <2>1, <2>2, <2>3, <2>4
<1> QED BY <1>1, <1>2, <1>3, OthersFit DEF SubmissionInv

LEMMA EnqueueInv ==
  ASSUME SubmissionInv, NEW r \in Requests, Enqueue(r) PROVE SubmissionInv'
<1> USE ScenarioFacts, FormFacts DEF SubmissionInv
<1>1. TypeOK'
  BY DEF TypeOK, Enqueue, Stages, Answers, Statuses, Jobs, requestVars, rowVars, RequestFits, StageFits
<1>2. ASSUME NEW q \in Requests \ {r} PROVE Quiet(q)
  BY DEF TypeOK, Enqueue, requestVars, rowVars, Quiet
<1>3. RequestFits(r)'
  <2> USE DEF TypeOK, Enqueue, requestVars, rowVars, RequestFits
  <2>1. StageFits(r)'
    BY DEF StageFits, JobFits, Working, Started
  <2>2. AnswerFits(r)'
    BY DEF StageFits, AnswerFits, JobFits, Working, Started, Ended
  <2>3. JobFits(r)'
    BY DEF StageFits, JobFits, Working, Started, Ended, Errors, Redelivered
  <2>4. FileFits(r)'
    BY DEF StageFits, JobFits, FileFits, Unreadable, Keepable
  <2> QED BY <2>1, <2>2, <2>3, <2>4
<1> QED BY <1>1, <1>2, <1>3, OthersFit DEF SubmissionInv

LEMMA EnqueueFailsInv ==
  ASSUME SubmissionInv, NEW r \in Requests, EnqueueFails(r) PROVE SubmissionInv'
<1> USE ScenarioFacts, FormFacts DEF SubmissionInv
<1>1. TypeOK'
  BY DEF TypeOK, EnqueueFails, Stages, Answers, Statuses, Jobs, requestVars, rowVars, RequestFits, StageFits
<1>2. ASSUME NEW q \in Requests \ {r} PROVE Quiet(q)
  BY DEF TypeOK, EnqueueFails, requestVars, rowVars, Quiet
<1>3. RequestFits(r)'
  <2> USE DEF TypeOK, EnqueueFails, requestVars, rowVars, RequestFits
  <2>1. StageFits(r)'
    BY DEF StageFits, JobFits, Working, Started
  <2>2. AnswerFits(r)'
    BY DEF StageFits, AnswerFits, JobFits, Working, Started, Ended
  <2>3. JobFits(r)'
    BY DEF StageFits, JobFits, Working, Started, Ended, Errors, Redelivered
  <2>4. FileFits(r)'
    BY DEF StageFits, JobFits, FileFits, Unreadable, Keepable
  <2> QED BY <2>1, <2>2, <2>3, <2>4
<1> QED BY <1>1, <1>2, <1>3, OthersFit DEF SubmissionInv

LEMMA ReplyInv ==
  ASSUME SubmissionInv, NEW r \in Requests, Reply(r) PROVE SubmissionInv'
<1> USE ScenarioFacts, FormFacts DEF SubmissionInv
<1>1. TypeOK'
  BY DEF TypeOK, Reply, Stages, Answers, Statuses, Jobs, requestVars, rowVars, RequestFits, StageFits
<1>2. ASSUME NEW q \in Requests \ {r} PROVE Quiet(q)
  BY DEF TypeOK, Reply, requestVars, rowVars, Quiet
<1>3. RequestFits(r)'
  <2> USE DEF TypeOK, Reply, requestVars, rowVars, RequestFits
  <2>1. StageFits(r)'
    BY DEF StageFits, JobFits, Working, Started
  <2>2. AnswerFits(r)'
    BY DEF StageFits, AnswerFits, JobFits, Working, Started, Ended, Errors
  <2>3. JobFits(r)'
    BY DEF StageFits, JobFits, Working, Started, Ended, Errors, Redelivered
  <2>4. FileFits(r)'
    BY DEF StageFits, JobFits, FileFits, Unreadable, Keepable
  <2> QED BY <2>1, <2>2, <2>3, <2>4
<1> QED BY <1>1, <1>2, <1>3, OthersFit DEF SubmissionInv

LEMMA StartJobInv ==
  ASSUME SubmissionInv, NEW r \in Requests, StartJob(r) PROVE SubmissionInv'
<1> USE ScenarioFacts, FormFacts DEF SubmissionInv
<1>1. TypeOK'
  BY DEF TypeOK, StartJob, Stages, Answers, Statuses, Jobs, requestVars, rowVars, RequestFits, StageFits
<1>2. ASSUME NEW q \in Requests \ {r} PROVE Quiet(q)
  BY DEF TypeOK, StartJob, requestVars, rowVars, Quiet
<1>3. RequestFits(r)'
  <2> USE DEF TypeOK, StartJob, requestVars, rowVars, RequestFits
  <2>1. StageFits(r)'
    BY DEF StageFits, JobFits, Working, Started
  <2>2. AnswerFits(r)'
    BY DEF StageFits, AnswerFits, JobFits, Working, Started, Ended
  <2>3. JobFits(r)'
    BY DEF JobFits, Statuses, Ended, Redelivered
  <2>4. FileFits(r)'
    BY DEF StageFits, JobFits, FileFits, Unreadable, Keepable
  <2> QED BY <2>1, <2>2, <2>3, <2>4
<1> QED BY <1>1, <1>2, <1>3, OthersFit DEF SubmissionInv

LEMMA UseTextInv ==
  ASSUME SubmissionInv, NEW r \in Requests, UseText(r) PROVE SubmissionInv'
<1> USE ScenarioFacts, FormFacts DEF SubmissionInv
<1>0. RenderedText(ManualDocument(form[r].text)) \in Texts
  BY ManualText DEF UseText, TypeOK, RequestFits, StageFits, JobFits
<1>1. TypeOK'
  BY <1>0 DEF Texts, TypeOK, UseText, Stages, Answers, Statuses, Jobs, requestVars, rowVars, RequestFits, StageFits
<1>2. ASSUME NEW q \in Requests \ {r} PROVE Quiet(q)
  BY DEF Texts, TypeOK, UseText, requestVars, rowVars, Quiet
<1>3. RequestFits(r)'
  <2> USE DEF Texts, TypeOK, UseText, requestVars, rowVars, RequestFits
  <2>1. StageFits(r)'
    BY DEF StageFits, JobFits, Working, Started
  <2>2. AnswerFits(r)'
    BY DEF StageFits, AnswerFits, JobFits, Working, Started, Ended
  <2>3. JobFits(r)'
    BY <1>0 DEF StageFits, JobFits, Working, Started, Ended, Errors, Redelivered, Texts
  <2>4. FileFits(r)'
    BY DEF StageFits, JobFits, FileFits, Unreadable, Keepable
  <2> QED BY <2>1, <2>2, <2>3, <2>4
<1> QED BY <1>1, <1>2, <1>3, OthersFit DEF SubmissionInv

LEMMA DatabaseRefusesInv ==
  ASSUME SubmissionInv, NEW r \in Requests, DatabaseRefuses(r) PROVE SubmissionInv'
<1> USE ScenarioFacts, FormFacts DEF SubmissionInv
<1>1. TypeOK'
  BY DEF TypeOK, DatabaseRefuses, Stages, Answers, Statuses, Ended, Jobs, requestVars, rowVars, RequestFits,
     StageFits
<1>2. ASSUME NEW q \in Requests \ {r} PROVE Quiet(q)
  BY DEF TypeOK, DatabaseRefuses, requestVars, rowVars, Quiet
<1>3. RequestFits(r)'
  <2> USE DEF TypeOK, DatabaseRefuses, requestVars, rowVars, RequestFits
  <2>1. StageFits(r)'
    BY DEF StageFits, JobFits, Working, Started
  <2>2. AnswerFits(r)'
    BY DEF StageFits, AnswerFits, JobFits, Working, Started, Ended
  <2>3. JobFits(r)'
    BY DEF StageFits, JobFits, Working, Started, Ended, Errors, Redelivered
  <2>4. FileFits(r)'
    BY DEF StageFits, JobFits, FileFits, Unreadable, Keepable
  <2> QED BY <2>1, <2>2, <2>3, <2>4
<1> QED BY <1>1, <1>2, <1>3, OthersFit DEF SubmissionInv

LEMMA ValidateInv ==
  ASSUME SubmissionInv, NEW r \in Requests, Validate(r) PROVE SubmissionInv'
<1> USE ScenarioFacts, FormFacts DEF SubmissionInv
<1>1. TypeOK'
  BY DEF TypeOK, Validate, Stages, Answers, Statuses, Ended, Jobs, requestVars, rowVars, RequestFits,
     StageFits
<1>2. ASSUME NEW q \in Requests \ {r} PROVE Quiet(q)
  BY DEF TypeOK, Validate, requestVars, rowVars, Quiet
<1>3. RequestFits(r)'
  <2> USE DEF TypeOK, Validate, requestVars, rowVars, RequestFits
  <2>1. StageFits(r)'
    BY DEF StageFits, JobFits, Working, Started
  <2>2. AnswerFits(r)'
    BY DEF StageFits, AnswerFits, JobFits, Working, Started, Ended
  <2>3. JobFits(r)'
    BY DEF StageFits, JobFits, Working, Started, Ended, Errors, Redelivered
  <2>4. FileFits(r)'
    BY DEF StageFits, JobFits, FileFits, Unreadable, Keepable
  <2> QED BY <2>1, <2>2, <2>3, <2>4
<1> QED BY <1>1, <1>2, <1>3, OthersFit DEF SubmissionInv

LEMMA ExecuteInv ==
  ASSUME SubmissionInv, NEW r \in Requests, Execute(r) PROVE SubmissionInv'
<1> USE ScenarioFacts, FormFacts DEF SubmissionInv
<1>1. TypeOK'
  BY DEF TypeOK, Execute, Stages, Answers, Statuses, Ended, Jobs, requestVars, rowVars, RequestFits,
     StageFits
<1>2. ASSUME NEW q \in Requests \ {r} PROVE Quiet(q)
  BY DEF TypeOK, Execute, requestVars, rowVars, Quiet
<1>3. RequestFits(r)'
  <2> USE DEF TypeOK, Execute, requestVars, rowVars, RequestFits
  <2>1. StageFits(r)'
    BY DEF StageFits, JobFits, Working, Started
  <2>2. AnswerFits(r)'
    BY DEF StageFits, AnswerFits, JobFits, Working, Started, Ended
  <2>3. JobFits(r)'
    BY DEF StageFits, JobFits, Working, Started, Ended, Errors, Redelivered
  <2>4. FileFits(r)'
    BY DEF StageFits, JobFits, FileFits, Unreadable, Keepable
  <2> QED BY <2>1, <2>2, <2>3, <2>4
<1> QED BY <1>1, <1>2, <1>3, OthersFit DEF SubmissionInv

LEMMA JobRaisesInv ==
  ASSUME SubmissionInv, NEW r \in Requests, JobRaises(r) PROVE SubmissionInv'
<1> USE ScenarioFacts, FormFacts DEF SubmissionInv
<1>1. TypeOK'
  BY DEF TypeOK, JobRaises, Fail, Started, Stages, Answers, Statuses, Ended, Jobs, requestVars, rowVars, RequestFits,
     StageFits
<1>2. ASSUME NEW q \in Requests \ {r} PROVE Quiet(q)
  BY DEF TypeOK, JobRaises, Fail, Started, requestVars, rowVars, Quiet
<1>3. RequestFits(r)'
  <2> USE DEF TypeOK, JobRaises, Fail, Started, requestVars, rowVars, RequestFits
  <2>1. StageFits(r)'
    BY DEF StageFits, JobFits, Working, Started
  <2>2. AnswerFits(r)'
    BY DEF StageFits, AnswerFits, JobFits, Working, Started, Ended
  <2>3. JobFits(r)'
    BY DEF StageFits, JobFits, Working, Started, Ended, Errors, Redelivered
  <2>4. FileFits(r)'
    BY DEF StageFits, JobFits, FileFits, Unreadable, Keepable
  <2> QED BY <2>1, <2>2, <2>3, <2>4
<1> QED BY <1>1, <1>2, <1>3, OthersFit DEF SubmissionInv

LEMMA StartJobRaisesInv ==
  ASSUME SubmissionInv, NEW r \in Requests, StartJobRaises(r) PROVE SubmissionInv'
<1> USE ScenarioFacts, FormFacts DEF SubmissionInv
<1>1. TypeOK'
  BY DEF TypeOK, StartJobRaises, Fail, Stages, Answers, Statuses, Ended, Jobs, requestVars, rowVars, RequestFits,
     StageFits
<1>2. ASSUME NEW q \in Requests \ {r} PROVE Quiet(q)
  BY DEF TypeOK, StartJobRaises, Fail, requestVars, rowVars, Quiet
<1>3. RequestFits(r)'
  <2> USE DEF TypeOK, StartJobRaises, Fail, requestVars, rowVars, RequestFits
  <2>1. StageFits(r)'
    BY DEF StageFits, JobFits, Working, Started
  <2>2. AnswerFits(r)'
    BY DEF StageFits, AnswerFits, JobFits, Working, Started, Ended
  <2>3. JobFits(r)'
    BY DEF StageFits, JobFits, Working, Started, Ended, Errors, Redelivered
  <2>4. FileFits(r)'
    BY DEF StageFits, JobFits, FileFits, Unreadable, Keepable
  <2> QED BY <2>1, <2>2, <2>3, <2>4
<1> QED BY <1>1, <1>2, <1>3, OthersFit DEF SubmissionInv

LEMMA StoreInv ==
  ASSUME SubmissionInv, NEW r \in Requests, Store(r) PROVE SubmissionInv'
<1> USE ScenarioFacts, FormFacts DEF SubmissionInv
<1> DEFINE stored == StoreUpload(form[r].file, scenario.backend, scenario.absoluteDir)
<1>1. stage[r] = "store" /\ form[r] \in FormType /\ form[r].route = "upload"
  BY DEF Store, RequestFits, StageFits, FileFits
<1>2. form[r].file \in Files /\ ValidateUpload(form[r].file) = "none"
  BY <1>1 DEF RequestFits, FileFits
<1>3. /\ stage'[r] # "store" /\ reason[r] = "none" /\ run[r] = "none" /\ job[r] = "none"
      /\ meeting[r] = NoUser
  BY <1>1 DEF Store, RequestFits, StageFits, JobFits, TypeOK, Jobs
<1> USE DEF requestVars, rowVars
<1>4. CASE stored.error = "none"
  <2>1. /\ stage' = [stage EXCEPT ![r] = "user"] /\ source' = [source EXCEPT ![r] = stored.value]
        /\ files' = files \cup {r}
        /\ UNCHANGED <<scenario, form, answer, user, rowVars, job, asset, crashes>>
    BY <1>4 DEF Store
  <2>2. /\ stored.value \in Uris
        /\ stored.value.chars = form[r].file.chars
        /\ \/ stored.value.scheme = "s3" /\ ~stored.value.encoded /\ scenario.backend = "s3"
           \/ stored.value.scheme = "file" /\ stored.value.encoded
    BY <1>2, <1>4, StoreResult
  <2> HIDE DEF stored
  <2>3. TypeOK'
    BY <2>1, <2>2 DEF TypeOK, Stages
  <2>4. ASSUME NEW q \in Requests \ {r} PROVE Quiet(q)
    BY <2>1 DEF TypeOK, Quiet
  <2>5. RequestFits(r)'
    <3> USE <1>1, <1>2, <1>3, <2>1 DEF TypeOK, RequestFits
    <3>1. StageFits(r)'
      BY DEF StageFits
    <3>2. AnswerFits(r)'
      BY DEF AnswerFits, StageFits
    <3>3. JobFits(r)'
      BY DEF JobFits
    <3>4. FileFits(r)'
      BY <2>2 DEF FileFits, Unreadable
    <3> QED BY <3>1, <3>2, <3>3, <3>4
  <2> QED BY <2>3, <2>4, <2>5, OthersFit
<1>5. CASE stored.error # "none"
  <2>1. /\ stage' = [stage EXCEPT ![r] = "answered"] /\ answer' = [answer EXCEPT ![r] = "500"]
        /\ files' = files \cup {r}
        /\ UNCHANGED <<scenario, form, source, user, rowVars, job, asset, crashes>>
    BY <1>5 DEF Store
  <2> HIDE DEF stored
  <2>3. TypeOK'
    BY <2>1 DEF TypeOK, Stages, Answers
  <2>4. ASSUME NEW q \in Requests \ {r} PROVE Quiet(q)
    BY <2>1 DEF TypeOK, Quiet
  <2>5. RequestFits(r)'
    <3> USE <1>1, <1>2, <1>3, <2>1 DEF TypeOK, RequestFits
    <3>1. StageFits(r)'
      BY DEF StageFits
    <3>2. AnswerFits(r)'
      BY DEF AnswerFits, StageFits
    <3>3. JobFits(r)'
      BY DEF JobFits
    <3>4. FileFits(r)'
      BY DEF FileFits, Unreadable
    <3> QED BY <3>1, <3>2, <3>3, <3>4
  <2> QED BY <2>3, <2>4, <2>5, OthersFit
<1> QED BY <1>4, <1>5

\* Fetching the recording and hearing it write nothing but the rows of the run;
\* either the job goes on or it fails, and its failure may be written or not.
JobMoves(r, next, code) ==
  /\ \/ Fail(r, code) /\ UNCHANGED <<asset, transcript>>
     \/ job' = [job EXCEPT ![r] = next] /\ UNCHANGED <<run, reason>>
  /\ UNCHANGED <<requestVars, files, users, meeting, crashes>>

LEMMA JobInv ==
  ASSUME SubmissionInv, NEW r \in Requests, NEW next \in {"hear", "publish"}, NEW code \in Codes,
         code # "none", JobMoves(r, next, code),
         job[r] = IF next = "hear" THEN "load" ELSE "hear",
         NEW a \in Objects, NEW t \in {"none"} \cup Texts,
         asset' = [asset EXCEPT ![r] = a], transcript' = [transcript EXCEPT ![r] = t],
         job'[r] = "hear" => a # NoFile,
         job'[r] \in {"hear", "over"} => t = transcript[r],
         job'[r] = "publish" => t # "none",
         form[r].route = "upload" /\ Keepable(r) => a # NoFile \/ reason'[r] \notin Unreadable
  PROVE  SubmissionInv'
<1> USE ScenarioFacts, FormFacts DEF SubmissionInv, JobMoves, Fail, requestVars
<1>0. /\ job'[r] \in {next, "over"}
      /\ job'[r] = next => run'[r] = run[r] /\ reason'[r] = reason[r]
      /\ job'[r] = "over" => \/ run'[r] = "failed" /\ reason'[r] = code
                             \/ scenario.failing /\ run'[r] = run[r] /\ reason'[r] = reason[r]
      /\ asset'[r] = a /\ transcript'[r] = t /\ run[r] = "pending" /\ reason[r] = "none"
      /\ transcript[r] = "none" \/ Redelivered
  BY DEF TypeOK, RequestFits, JobFits
<1>1. TypeOK'
  BY DEF TypeOK, Statuses, Jobs, Codes, Texts
<1>2. ASSUME NEW q \in Requests \ {r} PROVE Quiet(q)
  BY DEF TypeOK, Quiet
<1>3. RequestFits(r)'
  <2> USE DEF TypeOK, RequestFits
  <2>1. StageFits(r)'
    BY <1>0 DEF StageFits, JobFits, Working, Started
  <2>2. AnswerFits(r)'
    BY <1>0 DEF StageFits, AnswerFits, JobFits, Working, Started, Ended
  <2>3. JobFits(r)'
    BY <1>0 DEF JobFits, Ended, Errors, Redelivered
  <2>4. FileFits(r)'
    BY <1>0 DEF JobFits, FileFits, Keepable
  <2> QED BY <2>1, <2>2, <2>3, <2>4
<1> QED BY <1>1, <1>2, <1>3, OthersFit

LEMMA LoadInv ==
  ASSUME SubmissionInv, NEW r \in Requests, Load(r) PROVE SubmissionInv'
<1> USE ScenarioFacts, FormFacts DEF SubmissionInv
<1>1. /\ job[r] = "load" /\ form[r].text = "empty" /\ form[r] \in FormType
      /\ transcript[r] \in {"none"} \cup Texts /\ run[r] = "pending" /\ source[r] \in Uris \cup {NoUri} /\ asset[r] \in Objects
  BY DEF Load, RequestFits, StageFits, JobFits, TypeOK, Texts
<1>2. PICK object \in Stored(r), reply \in scenario.hosts :
        LET result == ResolveSource(source[r], object, reply, scenario.buckets) IN
        \/ /\ result.error = "none"
           /\ asset' = [asset EXCEPT ![r] = result.value]
           /\ JobGoto(r, "hear")
           /\ UNCHANGED <<run, reason>>
        \/ /\ result.error # "none"
           /\ Fail(r, result.error)
           /\ UNCHANGED asset
  BY DEF Load
<1> DEFINE result == ResolveSource(source[r], object, reply, scenario.buckets)
<1>3. object \in Objects /\ reply \in Replies
  BY <1>1 DEF Stored, Files, SubmissionInv, TypeOK
<1>4. /\ result.error \in Codes
      /\ result.error = "none" => result.value \in Fetched
  BY <1>1, <1>3, ResolveResult
<1>5. form[r].route = "upload" /\ Keepable(r) => result.error \notin Unreadable
  <2> SUFFICES ASSUME form[r].route = "upload", Keepable(r)
               PROVE  result.error \notin Unreadable
    OBVIOUS
  <2>1. object = form[r].file /\ object \in Files
    BY <1>1 DEF Stored
  <2>2. meeting[r] # NoUser
    BY <1>1 DEF RequestFits, StageFits, FileFits
  <2>3. FileFits(r)
    BY DEF RequestFits
  <2> QED BY <1>3, <2>1, <2>2, <2>3, StoredIsFound DEF FileFits, Keepable
<1>6. UNCHANGED <<requestVars, files, users, meeting, transcript, crashes>>
  BY DEF Load
<1>7. transcript' = [transcript EXCEPT ![r] = transcript[r]]
  BY <1>1, <1>6 DEF TypeOK
<1> HIDE DEF result
<1>8. CASE result.error = "none"
  <2>1. /\ asset' = [asset EXCEPT ![r] = result.value] /\ job' = [job EXCEPT ![r] = "hear"]
        /\ UNCHANGED <<run, reason>>
    BY <1>2, <1>8 DEF result
  <2>2. JobMoves(r, "hear", "exception")
    BY <1>6, <2>1 DEF JobMoves
  <2>3. job'[r] = "hear" /\ result.value # NoFile /\ result.value \in Objects
    BY <1>4, <1>8, <2>1 DEF TypeOK, Fetched
  <2> QED BY <1>1, <1>4, <1>7, <1>8, <2>1, <2>2, <2>3, JobInv DEF Codes
<1>9. CASE result.error # "none"
  <2>1. Fail(r, result.error) /\ UNCHANGED asset
    BY <1>2, <1>9 DEF result
  <2>2. JobMoves(r, "hear", result.error)
    BY <1>6, <2>1 DEF JobMoves
  <2>3. /\ job'[r] = "over" /\ asset' = [asset EXCEPT ![r] = asset[r]]
        /\ reason'[r] \in {result.error, "none"}
    BY <2>1, <1>1 DEF TypeOK, Fail, RequestFits, JobFits
  <2>4. reason'[r] = "none" => reason'[r] \notin Unreadable
    BY DEF Unreadable
  <2> QED BY <1>1, <1>4, <1>5, <1>7, <1>9, <2>2, <2>3, <2>4, JobInv
<1> QED BY <1>8, <1>9

LEMMA HearInv ==
  ASSUME SubmissionInv, NEW r \in Requests, Hear(r) PROVE SubmissionInv'
<1> USE ScenarioFacts DEF SubmissionInv
<1>1. /\ job[r] = "hear" /\ asset[r] \in Objects /\ asset[r] # NoFile
      /\ transcript[r] \in {"none"} \cup Texts
  BY DEF Hear, RequestFits, JobFits, TypeOK, Texts
<1>2. PICK reply \in scenario.speech, payload \in scenario.payloads :
        LET result == TranscribeAsset(scenario.hasKey, reply, payload) IN
        \/ /\ result.error = "none"
           /\ transcript' = [transcript EXCEPT ![r] = RenderedText(result.value)]
           /\ JobGoto(r, "publish")
           /\ UNCHANGED <<run, reason>>
        \/ /\ result.error # "none"
           /\ Fail(r, result.error)
           /\ UNCHANGED transcript
  BY DEF Hear
<1> DEFINE result == TranscribeAsset(scenario.hasKey, reply, payload)
<1>3. /\ result.error \in Codes
      /\ result.error = "none" => RenderedText(result.value) \in Texts
  BY HearResult
<1>4. UNCHANGED <<requestVars, files, users, meeting, asset, crashes>>
  BY DEF Hear
<1>5. asset' = [asset EXCEPT ![r] = asset[r]]
  BY <1>1, <1>4 DEF TypeOK
<1> HIDE DEF result
<1>6. CASE result.error = "none"
  <2>1. /\ transcript' = [transcript EXCEPT ![r] = RenderedText(result.value)]
        /\ job' = [job EXCEPT ![r] = "publish"] /\ UNCHANGED <<run, reason>>
    BY <1>2, <1>6 DEF result
  <2>2. JobMoves(r, "publish", "exception") /\ job'[r] = "publish"
    BY <1>4, <2>1 DEF JobMoves, TypeOK
  <2>3. RenderedText(result.value) \in Texts \ {"none"}
    BY <1>3, <1>6 DEF Texts
  <2> QED BY <1>1, <1>5, <2>1, <2>2, <2>3, JobInv DEF Codes
<1>7. CASE result.error # "none"
  <2>1. Fail(r, result.error) /\ UNCHANGED transcript
    BY <1>2, <1>7 DEF result
  <2>2. JobMoves(r, "publish", result.error) /\ job'[r] = "over"
    BY <1>4, <2>1 DEF JobMoves, Fail, TypeOK
  <2>3. transcript' = [transcript EXCEPT ![r] = transcript[r]]
    BY <2>1 DEF TypeOK
  <2> QED BY <1>1, <1>3, <1>5, <1>7, <2>1, <2>2, <2>3, JobInv
<1> QED BY <1>6, <1>7

LEMMA WorkerDiesInv ==
  ASSUME SubmissionInv, NEW r \in Requests, WorkerDies(r) PROVE SubmissionInv'
<1> USE ScenarioFacts, FormFacts DEF SubmissionInv
<1>1. TypeOK'
  BY CrashAssumption DEF TypeOK, WorkerDies, Started, Stages, Answers, Statuses, Ended, Jobs, requestVars, rowVars, RequestFits,
     StageFits
<1>2. ASSUME NEW q \in Requests \ {r} PROVE Quiet(q)
  BY CrashAssumption DEF TypeOK, WorkerDies, Started, requestVars, rowVars, Quiet
<1>3. RequestFits(r)'
  <2> USE DEF TypeOK, WorkerDies, Started, requestVars, rowVars, RequestFits
  <2>0. crashes' > 0
    BY CrashAssumption
  <2>1. StageFits(r)'
    BY DEF StageFits, JobFits, Working, Started
  <2>2. AnswerFits(r)'
    BY DEF StageFits, AnswerFits, JobFits, Working, Started, Ended
  <2>3. JobFits(r)'
    BY <2>0 DEF StageFits, JobFits, Working, Started, Ended, Errors, Redelivered
  <2>4. FileFits(r)'
    BY DEF StageFits, JobFits, FileFits, Unreadable, Keepable
  <2> QED BY <2>1, <2>2, <2>3, <2>4
<1> QED BY <1>1, <1>2, <1>3, OthersFit DEF SubmissionInv

LEMMA RestartInv == ASSUME SubmissionInv, Restart PROVE SubmissionInv'
<1> USE ScenarioFacts, FormFacts DEF SubmissionInv, Restart, rowVars
<1>1. TypeOK'
  BY CrashAssumption DEF TypeOK, Stages, Answers, Jobs
<1>2. ASSUME NEW r \in Requests PROVE RequestFits(r)'
  <2> USE DEF TypeOK, RequestFits
  <2>1. crashes' > 0
    BY CrashAssumption
  <2>2. StageFits(r)'
    BY DEF StageFits, JobFits, Working, Started
  <2>3. AnswerFits(r)'
    BY DEF StageFits, AnswerFits, JobFits, Working, Started, Ended
  <2>4. JobFits(r)'
    BY <2>1 DEF JobFits, Working, Started, Ended, Redelivered
  <2>5. FileFits(r)'
    BY DEF StageFits, FileFits, Keepable
  <2> QED BY <2>2, <2>3, <2>4, <2>5
<1> QED BY <1>1, <1>2

LEMMA NextInv == SubmissionInv /\ [Next]_vars => SubmissionInv'
<1> SUFFICES ASSUME SubmissionInv, [Next]_vars PROVE SubmissionInv'
  OBVIOUS
<1>1. CASE UNCHANGED vars
  BY <1>1 DEF vars, requestVars, rowVars, SubmissionInv, TypeOK, RequestFits, StageFits,
     AnswerFits, JobFits, FileFits, Redelivered, Keepable
<1>2. CASE Restart
  BY <1>2, RestartInv
<1>3. ASSUME NEW r \in Requests, Receive(r) \/ HandlerStep(r) PROVE SubmissionInv'
  BY <1>3, ReceiveInv, StoreInv, StoreRefusedInv, LookupUserInv, InsertUserInv, InsertConflictInv,
     DatabaseRefusesInv, CreateMeetingInv, CreateRunInv, EnqueueInv, EnqueueFailsInv, ReplyInv
  DEF HandlerStep
<1>4. ASSUME NEW r \in Requests,
             JobStep(r) \/ StartJobRaises(r) \/ JobRaises(r) \/ WorkerDies(r)
      PROVE  SubmissionInv'
  BY <1>4, StartJobInv, StartJobRaisesInv, JobRaisesInv, UseTextInv, LoadInv, HearInv,
     ValidateInv, ExecuteInv, WorkerDiesInv
  DEF JobStep
<1> QED BY <1>1, <1>2, <1>3, <1>4 DEF Next

\* The inductive invariant holds of every number of requests and restarts.
THEOREM SubmissionInvariant == Spec => []SubmissionInv
  BY InitInv, NextInv, PTL DEF Spec

-----------------------------------------------------------------------------
(* What follows.                                                           *)

LEMMA InvImplies ==
  ASSUME SubmissionInv
  PROVE  /\ OwnMeeting /\ NoStrayFile /\ StrandedIsKnown /\ AnswerAgrees
         /\ CauseFits /\ UploadReadable
<1> USE DEF SubmissionInv, RequestFits
<1>1. OwnMeeting
  BY DEF OwnMeeting, StageFits
<1>2. NoStrayFile
  BY DEF NoStrayFile, FileFits, AnswerFits
<1>3. StrandedIsKnown
  BY DEF StrandedIsKnown, Abandoned, TypeOK, Stages, Answers, Jobs, Working, Started, Ended,
     Redelivered, StageFits, AnswerFits, JobFits
<1>4. AnswerAgrees
  BY DEF AnswerAgrees, Abandoned, TypeOK, Jobs, Statuses, Working, Started, Ended, Redelivered,
     StageFits, AnswerFits, JobFits
<1>5. CauseFits
  BY DEF CauseFits, JobFits, Errors, Redelivered
<1>6. UploadReadable
  BY DEF UploadReadable, FileFits, Keepable
<1> QED BY <1>1, <1>2, <1>3, <1>4, <1>5, <1>6

\* Every variable keeps its type: what the resolvers, the transcriber and the
\* stores return is what the handlers expect.
THEOREM SubmissionTypeCorrect == Spec => []TypeOK
  BY SubmissionInvariant, PTL DEF SubmissionInv

\* The row that get_or_create_user returned is the user the request named, and the
\* meeting is that user's, whoever raced for the row or for its e-mail.
THEOREM MeetingsOwned == Spec => []OwnMeeting
  BY SubmissionInvariant, InvImplies, PTL

\* A recording is stored exactly for the uploads that became meetings, but for
\* exceptions and restarts between the two.
THEOREM FilesBelong == Spec => []NoStrayFile
  BY SubmissionInvariant, InvImplies, PTL

\* A run without an end that nobody works on is one whose client was not promised
\* a result, or one that a restart, a failing database or a dead worker abandoned.
THEOREM StrandedKnown == Spec => []StrandedIsKnown
  BY SubmissionInvariant, InvImplies, PTL

\* What a client is told agrees with the rows.
THEOREM AnswersAgree == Spec => []AnswerAgrees
  BY SubmissionInvariant, InvImplies, PTL

\* The cause that a failed run names is the one it failed of.
THEOREM CausesFit == Spec => []CauseFits
  BY SubmissionInvariant, InvImplies, PTL

\* An upload with a plain name and a supported extension is found and accepted
\* again, in either store if it keeps what it was given.
THEOREM UploadsReadable == Spec => []UploadReadable
  BY SubmissionInvariant, InvImplies, PTL
=============================================================================
