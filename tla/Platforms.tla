------------------------------ MODULE Platforms ------------------------------
(***************************************************************************)
(* One scheduled post on its way through a social provider: the requests   *)
(* publishText, publishImage and publishVideo make on each platform, what  *)
(* every answer is turned into, and what the worker then decides: to try   *)
(* again, to fail the post, or to ask a person.                            *)
(*                                                                         *)
(* The claim, the crashes and the queue around the call are in Publishing. *)
(***************************************************************************)
EXTENDS Naturals, Sequences

CONSTANTS
  MaxAttempts,  \* PUBLISH_MAX_ATTEMPTS
  MaxPolls,     \* status requests that fit in POLL_TIMEOUT_MS
  Hides,        \* failing answers that may hide a request that was carried out
  StatusFaults  \* ways in which a request for TikTok's status may fail

NoResponse == {"timeout", "unreachable"}
Failures == {"refused", "unauthorized", "forbidden", "restricted", "busy", "broken", "garbled"}
              \cup NoResponse

ASSUME BoundsAssumption == MaxAttempts \in Nat \ {0} /\ MaxPolls \in Nat
ASSUME FaultsAssumption == Hides \subseteq Failures /\ StatusFaults \subseteq Failures

VARIABLES
  content,  \* what is published and where
  valid,    \* it is within the platform's limits
  attempt,  \* attempts so far, this one included
  pos,      \* the step of the flow this attempt is at
  polls,    \* status requests this step has made
  verdict,  \* what became of it: open, published, failed or review
  account,  \* SocialAccount.status
  posts,    \* the platform's: how often the post is live
  videos    \* the platform's: TikTok's work on the upload of each attempt

publisher == <<attempt, pos, polls, verdict, account>>
vars == <<content, valid, publisher, posts, videos>>

-----------------------------------------------------------------------------
(* The requests of each provider, in order.                                 *)

FacebookFlow ==
  [fbText  |-> <<"validate", "publish">>,
   fbPhotos |-> <<"validate", "prepare", "prepare", "publish">>]
FacebookVideoFlow ==
  [fbVideo |-> <<"validate", "prepare", "raw", "publish">>,
   fbReel  |-> <<"validate", "prepare", "raw", "finish">>]
InstagramFlow ==
  [igMedia |-> <<"validate", "prepare", "container", "publish", "link">>,
   igCarousel |-> <<"validate", "prepare", "prepare", "container", "container",
                    "prepare", "container", "publish", "link">>]
LinkedInFlow ==
  [liText  |-> <<"validate", "publish">>,
   liImage |-> <<"validate", "prepare", "upload", "publish">>]
TikTokFlow ==
  [ttVideo |-> <<"validate", "ask", "prepare", "chunk", "handover", "await">>]
YouTubeFlow ==
  [ytVideo |-> <<"validate", "prepare", "send">>]

Contents == {"fbText", "fbPhotos", "fbVideo", "fbReel", "igMedia", "igCarousel",
             "liText", "liImage", "ttVideo", "ytVideo"}
Flow(c) ==
  CASE c \in DOMAIN FacebookFlow -> FacebookFlow[c]
    [] c \in DOMAIN FacebookVideoFlow -> FacebookVideoFlow[c]
    [] c \in DOMAIN InstagramFlow -> InstagramFlow[c]
    [] c \in DOMAIN LinkedInFlow -> LinkedInFlow[c]
    [] c = "ttVideo" -> TikTokFlow[c]
    [] c = "ytVideo" -> YouTubeFlow[c]

Step == Flow(content)[pos]
(* The requests that make the post appear at once.                          *)
Publishes == {"publish", "finish", "send"}

-----------------------------------------------------------------------------
(* What the providers make of an answer.                                    *)

(* The kinds of SocialProviderError; UNEXPECTED_ERROR is any other error.   *)
Err(kind) == [kind |-> kind, outcomeUnknown |-> FALSE]
Unknown(kind) == [kind |-> kind, outcomeUnknown |-> TRUE]

GraphKind ==
  [refused |-> "INVALID_REQUEST", unauthorized |-> "REAUTH_REQUIRED",
   forbidden |-> "PERMISSION_DENIED", restricted |-> "ACCOUNT_RESTRICTED",
   busy |-> "RATE_LIMITED", broken |-> "PROVIDER_ERROR"]
LinkedInKind ==
  [refused |-> "INVALID_REQUEST", unauthorized |-> "TOKEN_EXPIRED",
   forbidden |-> "PERMISSION_DENIED", busy |-> "RATE_LIMITED", broken |-> "PROVIDER_ERROR"]
TikTokKind ==
  [refused |-> "INVALID_REQUEST", unauthorized |-> "TOKEN_EXPIRED",
   forbidden |-> "PERMISSION_DENIED", restricted |-> "ACCOUNT_RESTRICTED",
   busy |-> "RATE_LIMITED", broken |-> "PROVIDER_ERROR"]
YouTubeKind ==
  [refused |-> "INVALID_REQUEST", unauthorized |-> "TOKEN_EXPIRED",
   forbidden |-> "PERMISSION_DENIED", busy |-> "RATE_LIMITED", broken |-> "PROVIDER_ERROR"]
KindOf ==
  CASE content \in DOMAIN LinkedInFlow -> LinkedInKind
    [] content = "ttVideo" -> TikTokKind
    [] content = "ytVideo" -> YouTubeKind
    [] OTHER -> GraphKind

(* providerFetch: without a response, only a timeout leaves doubt.          *)
FetchError(answer) ==
  IF answer = "timeout" THEN Unknown("PROVIDER_ERROR") ELSE Err("PROVIDER_ERROR")
(* A response with an error, or one that lacks what was asked for.          *)
ResponseError(answer) ==
  Err(IF answer = "garbled" THEN "PROVIDER_ERROR" ELSE KindOf[answer])
ApiError(answer) ==
  IF answer \in NoResponse THEN FetchError(answer) ELSE ResponseError(answer)

(* Meta's uploads call fetch itself, so what it throws is no provider error.*)
RawError(answer) ==
  Err(IF answer \in NoResponse THEN "UNEXPECTED_ERROR" ELSE "PROVIDER_ERROR")
ChunkError(answer) ==
  IF answer \in NoResponse THEN FetchError(answer) ELSE Err("PROVIDER_ERROR")
(* Once YouTube has had the bytes, any response leaves doubt.               *)
SendError(answer) ==
  IF answer \in NoResponse THEN FetchError(answer)
  ELSE Unknown(ResponseError(answer).kind)
(* No privacy level is on offer.                                            *)
AskError(answer) ==
  IF answer = "garbled" THEN Err("PERMISSION_DENIED") ELSE ApiError(answer)

ErrorOf(answer) ==
  CASE Step = "raw" -> RawError(answer)
    [] Step \in {"chunk", "handover"} -> ChunkError(answer)
    [] Step = "send" -> SendError(answer)
    [] Step = "ask" -> AskError(answer)
    [] OTHER -> ApiError(answer)

(* Answers that fail a step: nobody reads the body of a finished reel or of *)
(* an upload, and a status that cannot be read is asked for again.          *)
FailuresOf ==
  LET answers == DOMAIN KindOf \cup NoResponse IN
  CASE Step \in {"publish", "prepare", "ask", "raw", "send"} -> answers \cup {"garbled"}
    [] Step \in {"finish", "upload", "chunk", "handover", "container"} -> answers
    [] Step = "await" -> answers \cap StatusFaults
    [] OTHER -> {}

-----------------------------------------------------------------------------
(* The worker.                                                              *)

TypeOK ==
  /\ content \in Contents
  /\ valid \in BOOLEAN
  /\ attempt \in 1..MaxAttempts
  /\ pos \in 1..Len(Flow(content))
  /\ polls \in 0..MaxPolls
  /\ verdict \in {"open", "published", "failed", "review"}
  /\ account \in {"CONNECTED", "EXPIRED", "REAUTH_REQUIRED", "ERROR"}
  /\ posts \in Nat
  /\ videos \in [1..MaxAttempts -> {"none", "processing", "complete", "failed"}]

Init ==
  /\ content \in Contents
  /\ valid \in BOOLEAN
  /\ attempt = 1 /\ pos = 1 /\ polls = 0
  /\ verdict = "open" /\ account = "CONNECTED"
  /\ posts = 0
  /\ videos = [a \in 1..MaxAttempts |-> "none"]

At(steps) == verdict = "open" /\ Step \in steps

Advance ==
  /\ IF pos = Len(Flow(content))
       THEN verdict' = "published" /\ UNCHANGED <<pos, polls>>
       ELSE pos' = pos + 1 /\ polls' = 0 /\ UNCHANGED verdict
  /\ UNCHANGED <<attempt, account>>

\* Mutant: any failure takes the account out of use.
AlwaysReconnect(e) ==
  IF e.kind = "TOKEN_EXPIRED" THEN "EXPIRED" ELSE "REAUTH_REQUIRED"
(* STATUS_AFTER_FAILURE.                                                    *)
StatusAfter(e) ==
  CASE e.kind = "TOKEN_EXPIRED" -> "EXPIRED"
    [] e.kind \in {"REAUTH_REQUIRED", "PERMISSION_DENIED"} -> "REAUTH_REQUIRED"
    [] e.kind = "ACCOUNT_RESTRICTED" -> "ERROR"
    [] OTHER -> account

\* Mutant: a timeout is tried again like any other transient failure.
RetriesInDoubt(e) == e.kind \in {"RATE_LIMITED", "PROVIDER_ERROR"}
Retryable(e) ==
  e.kind \in {"RATE_LIMITED", "PROVIDER_ERROR"} /\ ~e.outcomeUnknown

(* publishForWorker records the failure; runPublishJob judges it.           *)
FailWith(e) ==
  /\ account' = StatusAfter(e)
  /\ polls' = 0
  /\ IF Retryable(e) /\ attempt < MaxAttempts
       THEN attempt' = attempt + 1 /\ pos' = 1 /\ UNCHANGED verdict
       ELSE /\ verdict' = IF e.outcomeUnknown THEN "review" ELSE "failed"
            /\ UNCHANGED <<attempt, pos>>

-----------------------------------------------------------------------------
(* Requests.                                                                *)

Validate ==
  /\ At({"validate"})
  /\ IF valid THEN Advance ELSE FailWith(Err("INVALID_REQUEST"))
  /\ UNCHANGED <<content, valid, posts, videos>>

(* A request that leaves nothing anyone can see.                            *)
Prepare ==
  /\ At({"prepare", "ask", "raw", "upload", "chunk"})
  /\ Advance
  /\ UNCHANGED <<content, valid, posts, videos>>

Appear == posts' = posts + 1 /\ UNCHANGED videos
StartProcessing ==
  videos' = [videos EXCEPT ![attempt] = "processing"] /\ UNCHANGED posts
(* What carrying out the request of this step does on the platform.         *)
Effect ==
  CASE Step \in Publishes -> Appear
    [] Step = "handover" -> StartProcessing
    [] OTHER -> UNCHANGED <<posts, videos>>

Publish ==
  /\ At(Publishes \cup {"handover"})
  /\ Effect
  /\ Advance
  /\ UNCHANGED <<content, valid>>

Fail ==
  /\ verdict = "open"
  /\ \E answer \in FailuresOf :
       /\ FailWith(ErrorOf(answer))
       /\ \/ UNCHANGED <<posts, videos>>
          \/ answer \in Hides /\ Effect
  /\ UNCHANGED <<content, valid>>

(* Best effort: a published post is a success without its link too.         *)
Link ==
  /\ At({"link"})
  /\ Advance
  /\ UNCHANGED <<content, valid, posts, videos>>

PollAgain ==
  /\ polls < MaxPolls
  /\ polls' = polls + 1
  /\ UNCHANGED <<attempt, pos, verdict, account>>

(* awaitContainer: Meta fetches the media; it is not ready, it cannot be    *)
(* used, or it is still not ready at the deadline.                          *)
AwaitContainer ==
  /\ At({"container"})
  /\ \/ Advance
     \/ FailWith(Err("INVALID_REQUEST"))
     \/ PollAgain
     \/ FailWith(Err("PROVIDER_ERROR"))
  /\ UNCHANGED <<content, valid, posts, videos>>

(* awaitPublish: the upload is with TikTok, which publishes it or not.      *)
AwaitPublish ==
  /\ At({"await"})
  /\ \/ videos[attempt] = "complete" /\ Advance
     \/ videos[attempt] = "failed" /\ FailWith(Err("INVALID_REQUEST"))
     \/ videos[attempt] = "processing" /\ (PollAgain \/ FailWith(Unknown("PROVIDER_ERROR")))
  /\ UNCHANGED <<content, valid, posts, videos>>

(* TikTok finishes with an upload in its own time.                          *)
Process(a) ==
  /\ videos[a] = "processing"
  /\ \/ videos' = [videos EXCEPT ![a] = "complete"] /\ posts' = posts + 1
     \/ videos' = [videos EXCEPT ![a] = "failed"] /\ UNCHANGED posts
  /\ UNCHANGED <<content, valid, publisher>>

(* The post's way is over when there is a verdict; TikTok may still be busy.*)
Publisher ==
  Validate \/ Prepare \/ Publish \/ Fail \/ Link \/ AwaitContainer \/ AwaitPublish
Next == Publisher \/ \E a \in 1..MaxAttempts : Process(a)

Spec == Init /\ [][Next]_vars
(* Every request ends: with an answer or at its timeout.                    *)
FairSpec == Spec /\ WF_vars(Publisher)

-----------------------------------------------------------------------------
Once == INSTANCE PublishOnce WITH
  Items <- {"post"},
  posts <- [i \in {"post"} |-> posts],
  verdict <- [i \in {"post"} |-> verdict]

(* However the requests of a provider fail and are tried again, the post    *)
(* appears at most once, is published only when it is there, and failed     *)
(* only when it is not and never will be: the errors of the providers, the  *)
(* rule that decides on a retry and the platforms' own delays fit together. *)
ImplementsPublishOnce == Once!Spec

(* A failure that will be tried again leaves the account in use: one taken  *)
(* out of use would make the attempt that follows fail for another reason.  *)
RetriesFindTheAccount ==
  verdict = "open" => account = "CONNECTED"

(* No provider waits for its platform without end.                          *)
CallsEnd == <>(verdict # "open")
=============================================================================
