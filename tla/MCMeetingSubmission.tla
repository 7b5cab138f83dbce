------------------------ MODULE MCMeetingSubmission -------------------------
(***************************************************************************)
(* MeetingSubmission for TLC: its scenarios.                               *)
(***************************************************************************)
EXTENDS MeetingSubmission

CONSTANTS r1, r2, ann, bob, annMail, bobMail

Text(u, e) ==
  [route |-> "json", user |-> u, email |-> e, text |-> "words", uri |-> NoUri,
   file |-> NoFile]

At(u, e, where) == [Text(u, e) EXCEPT !.text = "empty", !.uri = where]

Upload(u, e, f) ==
  [Text(u, e) EXCEPT !.route = "upload", !.text = "empty", !.file = f]

Recording == [ext |-> "audio", chars |-> "plain", content |-> "sound", type |-> "other"]
Hosted    == [scheme |-> "s3", encoded |-> FALSE, chars |-> "plain"]
Speech    == [text |-> "words", segments |-> <<>>]

\* Clients that race: two users, one of which tries the other's e-mail, with
\* text, a good and an empty recording, and a recording on S3.
Racing ==
  [mode |-> "inprocess", backend |-> "local", absoluteDir |-> TRUE,
   buckets |-> {"s3"}, hasKey |-> TRUE, requests |-> {r1, r2},
   forms |-> {Text(ann, annMail), Text(bob, annMail), At(ann, annMail, Hosted),
              Upload(ann, annMail, Recording), Upload(bob, bobMail, Recording),
              Upload(bob, bobMail, [Recording EXCEPT !.content = "empty"])},
   objects |-> {Recording, [Recording EXCEPT !.content = "absent"]},
   hosts |-> {"ok", "unreachable"}, speech |-> {"ok", "quota"},
   payloads |-> {Speech}, failing |-> FALSE]

\* The same with the default, relative upload directory, with ARQ and S3, with
\* everything in the request, and with services that may refuse.
DefaultDir == [Racing EXCEPT !.absoluteDir = FALSE, !.failing = TRUE]
Services   == [Racing EXCEPT !.mode = "arq", !.backend = "s3"]
Refusing   == [Services EXCEPT !.failing = TRUE]
Inline     == [Racing EXCEPT !.mode = "sync", !.failing = TRUE]

\* One client that sends anything, and hosts that answer anything.
Recordings ==
  [Inline EXCEPT
     !.failing = FALSE, !.requests = {r1}, !.buckets = {"s3", "gs"}, !.hosts = Replies, !.objects = Objects,
     !.forms = {Upload(ann, annMail, f) : f \in Files}
                 \cup {At(ann, annMail, where) : where \in Uris}
                 \cup {[Text(ann, annMail) EXCEPT !.text = s] : s \in {"blank", "words"}}]

\* One recording, and a speech service that answers anything.
Hearing ==
  [Inline EXCEPT
     !.requests = {r1}, !.forms = {Upload(ann, annMail, Recording)}, !.speech = Replies,
     !.payloads = [text : Strings, segments : {<<>>} \cup {<<s, t>> : s, t \in Segments}]]

\* Without a key, and with buckets that are not configured.
Bare == [Recordings EXCEPT !.hasKey = FALSE, !.buckets = {}, !.hosts = {"ok"}]

AllScenarios ==
  {Racing, DefaultDir, Services, Refusing, Inline, Recordings, Hearing, Bare}
=============================================================================
