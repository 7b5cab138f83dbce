---------------------------- MODULE AudioSource -----------------------------
(***************************************************************************)
(* From a recording to a transcript: the upload stores                     *)
(* (src/meeting_assistant/services/audio_storage.py) and the resolvers,    *)
(* the validation and the transcriber of services/asr.py, as operators.    *)
(* What the outside world holds and answers is an argument.                *)
(*                                                                         *)
(* A file's name is kept as far as somebody looks at it: its extension,    *)
(* and whether a URI can carry its characters.  "spaced" characters are    *)
(* percent-encoded by Path.as_uri, "cut" ones (#, ?) also end the path     *)
(* that urlparse finds.                                                    *)
(***************************************************************************)
EXTENDS Naturals, Sequences

\* Extensions: supported, unsupported but guessed to be audio by mimetypes
\* (.mp2, .oga), and any other.
Objects ==
  [ext : {"audio", "guessed", "other"}, chars : {"plain", "spaced", "cut"},
   content : {"absent", "unreadable", "empty", "sound", "huge"},
   type : {"audio", "other"}]

\* A directory exists and cannot be read; an upload is a file.
Files == {o \in Objects : o.content \notin {"absent", "unreadable"}}

Errors ==
  {"unsupported_format", "empty_audio", "source_not_found", "quota_exceeded",
   "provider_error", "missing_credentials", "missing_source"}

\* A result is an ASRError, another exception, or a value.
Raised(code) == [error |-> code, value |-> "none"]
Returned(v)  == [error |-> "none", value |-> v]
Crashed      == Raised("exception")

-----------------------------------------------------------------------------
(* Uploading.                                                              *)

\* Mutant: the extension and the content type must both be supported.
ValidateBoth(f) ==
  CASE f.content = "empty"                 -> "empty_audio"
    [] f.ext # "audio" \/ f.type # "audio" -> "unsupported_format"
    [] OTHER                               -> "none"

\* validate_audio_asset: one of extension and content type must be supported.
ValidateAudioAsset(f) ==
  CASE f.content = "empty"                 -> "empty_audio"
    [] f.ext # "audio" /\ f.type # "audio" -> "unsupported_format"
    [] OTHER                               -> "none"

ValidateUpload(f) ==
  IF f.content = "huge" THEN "unsupported_format" ELSE ValidateAudioAsset(f)

\* Where a payload says its recording is.  An encoded path is one that
\* as_uri has quoted; a bare path has no scheme.
Uris ==
  [scheme : {"http", "file", "bare", "s3", "gs"}, encoded : BOOLEAN,
   chars : {"plain", "spaced", "cut"}]

\* store: as_uri refuses a relative path, after the file has been written.
StoreUpload(f, backend, absoluteDir) ==
  CASE backend = "s3" ->
         Returned([scheme |-> "s3", encoded |-> FALSE, chars |-> f.chars])
    [] absoluteDir    ->
         Returned([scheme |-> "file", encoded |-> TRUE, chars |-> f.chars])
    [] OTHER          -> Crashed

-----------------------------------------------------------------------------
(* Resolving.  "object" is what lies under the name that was meant, if its *)
(* content is not "absent"; "reply" is how the host answered, "malformed"  *)
(* if no request can be made of the URI.                                   *)

\* Whether the resolver looks under the name that was meant: nothing decodes
\* an encoded path, and urlparse cuts one that is not encoded.
NamesObject(uri) ==
  CASE uri.scheme = "bare" -> TRUE
    [] uri.encoded         -> uri.chars = "plain"
    [] OTHER               -> uri.chars # "cut"

Found(uri, object) == object.content # "absent" /\ NamesObject(uri)

Replies == {"ok", "quota", "denied", "not_found", "bad_format", "bad_empty",
            "server_error", "unreachable", "garbled", "malformed"}

\* Mutant: an error that is not known keeps the name the service gave it.
ReplyErrorRaw(reply, unreachable) == IF reply = "unreachable" THEN unreachable ELSE reply

\* map_http_error_to_asr_error, and what the callers do with a request that
\* got no reply at all.
ReplyError(reply, unreachable) ==
  CASE reply = "quota"       -> "quota_exceeded"
    [] reply = "denied"      -> "missing_credentials"
    [] reply = "not_found"   -> "source_not_found"
    [] reply = "bad_format"  -> "unsupported_format"
    [] reply = "bad_empty"   -> "empty_audio"
    [] reply = "unreachable" -> unreachable
    [] OTHER                 -> "provider_error"

\* httpx.InvalidURL is no RequestError.
ResolveHttp(object, reply) ==
  CASE reply = "malformed"           -> Crashed
    [] reply \notin {"ok", "garbled"} -> Raised(ReplyError(reply, "source_not_found"))
    [] object.content \in {"absent", "unreadable"} -> Raised("source_not_found")
    [] OTHER                          -> Returned(object)

\* The content type is guessed from the name again, whatever was uploaded.
ResolveLocal(uri, object) ==
  CASE ~Found(uri, object)            -> Raised("source_not_found")
    [] object.content = "unreadable"  -> Crashed
    [] OTHER -> Returned([object EXCEPT !.type = IF object.ext = "guessed" THEN "audio"
                                                                           ELSE "other"])

\* A ClientError is mapped; a host that does not answer, or stops answering,
\* and a request that cannot be made are not.
ResolveS3(uri, object, reply) ==
  CASE reply \in {"unreachable", "malformed"}     -> Crashed
    [] reply \notin {"ok", "garbled", "not_found"} -> Raised("provider_error")
    [] reply = "not_found" \/ ~Found(uri, object) -> Raised("source_not_found")
    [] object.content = "unreadable"              -> Crashed
    [] OTHER                                      -> Returned(object)

\* Nothing maps an error of the GCS client.
ResolveGcs(uri, object, reply) ==
  CASE reply \notin {"ok", "garbled"}  -> Crashed
    [] ~Found(uri, object)            -> Raised("source_not_found")
    [] object.content = "unreadable"  -> Crashed
    [] OTHER                          -> Returned(object)

\* S3 and GCS have a resolver only when a bucket is configured.
ResolveScheme(uri, object, reply, buckets) ==
  CASE uri.scheme = "http"                    -> ResolveHttp(object, reply)
    [] uri.scheme \in {"s3", "gs"} \ buckets  -> Raised("unsupported_format")
    [] uri.scheme = "s3"                      -> ResolveS3(uri, object, reply)
    [] uri.scheme = "gs"                      -> ResolveGcs(uri, object, reply)
    [] OTHER                                  -> ResolveLocal(uri, object)

\* CompositeAudioSourceResolver.resolve.
ResolveSource(uri, object, reply, buckets) ==
  LET r == ResolveScheme(uri, object, reply, buckets) IN
  IF r.error = "none" /\ ValidateAudioAsset(r.value) # "none"
  THEN Raised(ValidateAudioAsset(r.value))
  ELSE r

-----------------------------------------------------------------------------
(* Transcribing.                                                           *)

\* What a string holds: nothing, only white space, or words.
Strings  == {"empty", "blank", "words"}
Strip(s) == IF s = "blank" THEN "empty" ELSE s

\* The answer of the speech service.
Segments == [text : Strings, speaker : BOOLEAN]
Payloads == [text : Strings, segments : Seq(Segments)]

\* Segments are kept by what the service sent and stripped afterwards.
KeptSegments(payload) ==
  LET kept == SelectSeq(payload.segments, LAMBDA s : s.text # "empty") IN
  [i \in DOMAIN kept |-> [kept[i] EXCEPT !.text = Strip(@)]]

\* OpenAITranscriber.transcribe.
TranscribeAsset(hasKey, reply, payload) ==
  CASE ~hasKey       -> Raised("missing_credentials")
    [] reply \in {"garbled", "malformed"} -> Crashed
    [] reply # "ok"  -> Raised(ReplyError(reply, "provider_error"))
    [] Strip(payload.text) = "empty" /\ KeptSegments(payload) = <<>>
                     -> Raised("empty_audio")
    [] OTHER         -> Returned([text |-> Strip(payload.text),
                                  segments |-> KeptSegments(payload)])

\* The document of a transcript that was sent as text.
ManualDocument(text) ==
  [text |-> Strip(text), segments |-> <<[text |-> Strip(text), speaker |-> FALSE]>>]

\* rendered_text: a line per segment, the speaker's name before it; "labels"
\* is a text of names only.
RenderedText(doc) ==
  CASE doc.segments = <<>> -> doc.text
    [] \E i \in DOMAIN doc.segments : doc.segments[i].text = "words"   -> "words"
    [] \E i \in DOMAIN doc.segments : doc.segments[i].speaker          -> "labels"
    [] OTHER               -> "empty"
=============================================================================
