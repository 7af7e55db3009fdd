---------------------------- MODULE PlatformsSafety ----------------------------
(***************************************************************************)
(* Proofs about one post on its way through a social provider, for any     *)
(* number of attempts and status requests: every step of the worker and of *)
(* the platform is one PublishOnce allows, as long as only a timeout hides *)
(* a request that was carried out.                                         *)
(***************************************************************************)
EXTENDS Platforms, TLAPS

(* What the platforms are trusted with.                                     *)
OnlyTimeoutsHide == Hides \subseteq {"timeout"} /\ StatusFaults \subseteq {"timeout"}

-----------------------------------------------------------------------------
(* The inductive invariant.                                                 *)

(* TikTok knows of one upload at most: that of the last attempt.            *)
OneUpload == \A a \in 1..MaxAttempts : a # attempt => videos[a] = "none"

(* TikTok has the upload of this attempt when its status is asked for, and  *)
(* the post is there as soon as TikTok is done.                             *)
TikTokAgrees ==
  IF content = "ttVideo"
    THEN /\ posts = IF videos[attempt] = "complete" THEN 1 ELSE 0
         /\ verdict = "open" => (Step = "await" <=> videos[attempt] # "none")
         /\ verdict = "published" => videos[attempt] = "complete"
         /\ verdict = "failed" => videos[attempt] \in {"none", "failed"}
    ELSE videos[attempt] = "none"

(* Elsewhere the post is there once the request that publishes it has been  *)
(* answered, and after the verdict says so.                                 *)
OthersAgree ==
  content # "ttVideo" =>
    /\ verdict = "open" => posts = IF Step = "link" THEN 1 ELSE 0
    /\ verdict = "published" => posts = 1
    /\ verdict = "failed" => posts = 0
    /\ posts \in 0..1

PlatformsInv == TypeOK /\ RetriesFindTheAccount /\ OneUpload /\ TikTokAgrees /\ OthersAgree
-----------------------------------------------------------------------------
(* The flows.                                                               *)

(* Every flow begins with the check of the limits; a link is read right     *)
(* after the request that publishes, and nothing follows it; TikTok, and    *)
(* nobody else, hands over and then waits.                                  *)
ShapeAt(c, p) ==
  /\ Flow(c)[p] \in {"handover", "await"} => c = "ttVideo"
  /\ Flow(c)[p] \in Publishes \cup {"link"} => c # "ttVideo"
  /\ Flow(c)[p] \in {"await", "link"} => p = Len(Flow(c))
  /\ Flow(c)[p] = "handover" => p # Len(Flow(c))
  /\ p # Len(Flow(c)) =>
       /\ Flow(c)[p] \in Publishes <=> Flow(c)[p + 1] = "link"
       /\ Flow(c)[p] = "handover" <=> Flow(c)[p + 1] = "await"
  /\ c = "ttVideo" /\ p = Len(Flow(c)) => Flow(c)[p] = "await"
  /\ c # "ttVideo" /\ p = Len(Flow(c)) => Flow(c)[p] \in Publishes \cup {"link"}
Shape(c) ==
  /\ Len(Flow(c)) \in Nat \ {0} /\ Flow(c)[1] = "validate"
  /\ \A p \in 1..Len(Flow(c)) : ShapeAt(c, p)

LEMMA Domains ==
  /\ DOMAIN FacebookFlow = {"fbText", "fbPhotos"}
  /\ DOMAIN FacebookVideoFlow = {"fbVideo", "fbReel"}
  /\ DOMAIN InstagramFlow = {"igMedia", "igCarousel"}
  /\ DOMAIN LinkedInFlow = {"liText", "liImage"}
  BY SMT DEF FacebookFlow, FacebookVideoFlow, InstagramFlow, LinkedInFlow

LEMMA FlowShape == \A c \in Contents : Shape(c)
<1>1. ASSUME NEW c, c = "fbText" PROVE Shape(c)
  <2>1. FacebookFlow["fbText"] = <<"validate", "publish">>
    BY Zenon DEF FacebookFlow
  <2>2. Flow(c) = <<"validate", "publish">>
    BY <1>1, <2>1, Domains, SMT DEF Flow
  <2>3. \A p \in 1..2 : p \in {1, 2}
    BY SMT
  <2>4. /\ Len(Flow(c)) = 2
        /\ Flow(c)[1] = "validate" /\ Flow(c)[2] = "publish"
    BY <2>2, SMT
  <2> QED
    BY <1>1, <2>3, <2>4, SMT DEF Shape, ShapeAt, Publishes
<1>2. ASSUME NEW c, c = "fbPhotos" PROVE Shape(c)
  <2>1. FacebookFlow["fbPhotos"] = <<"validate", "prepare", "prepare", "publish">>
    BY Zenon DEF FacebookFlow
  <2>2. Flow(c) = <<"validate", "prepare", "prepare", "publish">>
    BY <1>2, <2>1, Domains, SMT DEF Flow
  <2>3. \A p \in 1..4 : p \in {1, 2, 3, 4}
    BY SMT
  <2>4. /\ Len(Flow(c)) = 4
        /\ Flow(c)[1] = "validate" /\ Flow(c)[2] = "prepare" /\ Flow(c)[3] = "prepare"
           /\ Flow(c)[4] = "publish"
    BY <2>2, SMT
  <2> QED
    BY <1>2, <2>3, <2>4, SMT DEF Shape, ShapeAt, Publishes
<1>3. ASSUME NEW c, c = "fbVideo" PROVE Shape(c)
  <2>1. FacebookVideoFlow["fbVideo"] = <<"validate", "prepare", "raw", "publish">>
    BY Zenon DEF FacebookVideoFlow
  <2>2. Flow(c) = <<"validate", "prepare", "raw", "publish">>
    BY <1>3, <2>1, Domains, SMT DEF Flow
  <2>3. \A p \in 1..4 : p \in {1, 2, 3, 4}
    BY SMT
  <2>4. /\ Len(Flow(c)) = 4
        /\ Flow(c)[1] = "validate" /\ Flow(c)[2] = "prepare" /\ Flow(c)[3] = "raw"
           /\ Flow(c)[4] = "publish"
    BY <2>2, SMT
  <2> QED
    BY <1>3, <2>3, <2>4, SMT DEF Shape, ShapeAt, Publishes
<1>4. ASSUME NEW c, c = "fbReel" PROVE Shape(c)
  <2>1. FacebookVideoFlow["fbReel"] = <<"validate", "prepare", "raw", "finish">>
    BY Zenon DEF FacebookVideoFlow
  <2>2. Flow(c) = <<"validate", "prepare", "raw", "finish">>
    BY <1>4, <2>1, Domains, SMT DEF Flow
  <2>3. \A p \in 1..4 : p \in {1, 2, 3, 4}
    BY SMT
  <2>4. /\ Len(Flow(c)) = 4
        /\ Flow(c)[1] = "validate" /\ Flow(c)[2] = "prepare" /\ Flow(c)[3] = "raw"
           /\ Flow(c)[4] = "finish"
    BY <2>2, SMT
  <2> QED
    BY <1>4, <2>3, <2>4, SMT DEF Shape, ShapeAt, Publishes
<1>5. ASSUME NEW c, c = "igMedia" PROVE Shape(c)
  <2>1. InstagramFlow["igMedia"] = <<"validate", "prepare", "container", "publish", "link">>
    BY Zenon DEF InstagramFlow
  <2>2. Flow(c) = <<"validate", "prepare", "container", "publish", "link">>
    BY <1>5, <2>1, Domains, SMT DEF Flow
  <2>3. \A p \in 1..5 : p \in {1, 2, 3, 4, 5}
    BY SMT
  <2>4. /\ Len(Flow(c)) = 5
        /\ Flow(c)[1] = "validate" /\ Flow(c)[2] = "prepare" /\ Flow(c)[3] = "container"
           /\ Flow(c)[4] = "publish" /\ Flow(c)[5] = "link"
    BY <2>2, SMT
  <2> QED
    BY <1>5, <2>3, <2>4, SMT DEF Shape, ShapeAt, Publishes
<1>6. ASSUME NEW c, c = "igCarousel" PROVE Shape(c)
  <2>1. InstagramFlow["igCarousel"] = <<"validate", "prepare", "prepare", "container", "container",
       "prepare", "container", "publish", "link">>
    BY Zenon DEF InstagramFlow
  <2>2. Flow(c) = <<"validate", "prepare", "prepare", "container", "container",
       "prepare", "container", "publish", "link">>
    BY <1>6, <2>1, Domains, SMT DEF Flow
  <2>3. \A p \in 1..9 : p \in {1, 2, 3, 4, 5, 6, 7, 8, 9}
    BY SMT
  <2>4. /\ Len(Flow(c)) = 9
        /\ Flow(c)[1] = "validate" /\ Flow(c)[2] = "prepare" /\ Flow(c)[3] = "prepare"
           /\ Flow(c)[4] = "container" /\ Flow(c)[5] = "container" /\ Flow(c)[6] = "prepare"
           /\ Flow(c)[7] = "container" /\ Flow(c)[8] = "publish" /\ Flow(c)[9] = "link"
    BY <2>2, SMT
  <2>5. /\ ShapeAt(c, 1) /\ ShapeAt(c, 2) /\ ShapeAt(c, 3) /\ ShapeAt(c, 4)
        /\ ShapeAt(c, 5) /\ ShapeAt(c, 6) /\ ShapeAt(c, 7) /\ ShapeAt(c, 8)
        /\ ShapeAt(c, 9)
    BY <1>6, <2>4, SMT DEF ShapeAt, Publishes
  <2> QED
    BY <2>3, <2>4, <2>5, SMT DEF Shape
<1>7. ASSUME NEW c, c = "liText" PROVE Shape(c)
  <2>1. LinkedInFlow["liText"] = <<"validate", "publish">>
    BY Zenon DEF LinkedInFlow
  <2>2. Flow(c) = <<"validate", "publish">>
    BY <1>7, <2>1, Domains, SMT DEF Flow
  <2>3. \A p \in 1..2 : p \in {1, 2}
    BY SMT
  <2>4. /\ Len(Flow(c)) = 2
        /\ Flow(c)[1] = "validate" /\ Flow(c)[2] = "publish"
    BY <2>2, SMT
  <2> QED
    BY <1>7, <2>3, <2>4, SMT DEF Shape, ShapeAt, Publishes
<1>8. ASSUME NEW c, c = "liImage" PROVE Shape(c)
  <2>1. LinkedInFlow["liImage"] = <<"validate", "prepare", "upload", "publish">>
    BY Zenon DEF LinkedInFlow
  <2>2. Flow(c) = <<"validate", "prepare", "upload", "publish">>
    BY <1>8, <2>1, Domains, SMT DEF Flow
  <2>3. \A p \in 1..4 : p \in {1, 2, 3, 4}
    BY SMT
  <2>4. /\ Len(Flow(c)) = 4
        /\ Flow(c)[1] = "validate" /\ Flow(c)[2] = "prepare" /\ Flow(c)[3] = "upload"
           /\ Flow(c)[4] = "publish"
    BY <2>2, SMT
  <2> QED
    BY <1>8, <2>3, <2>4, SMT DEF Shape, ShapeAt, Publishes
<1>9. ASSUME NEW c, c = "ttVideo" PROVE Shape(c)
  <2>1. TikTokFlow["ttVideo"] = <<"validate", "ask", "prepare", "chunk", "handover", "await">>
    BY Zenon DEF TikTokFlow
  <2>2. Flow(c) = <<"validate", "ask", "prepare", "chunk", "handover", "await">>
    BY <1>9, <2>1, Domains, SMT DEF Flow
  <2>3. \A p \in 1..6 : p \in {1, 2, 3, 4, 5, 6}
    BY SMT
  <2>4. /\ Len(Flow(c)) = 6
        /\ Flow(c)[1] = "validate" /\ Flow(c)[2] = "ask" /\ Flow(c)[3] = "prepare"
           /\ Flow(c)[4] = "chunk" /\ Flow(c)[5] = "handover" /\ Flow(c)[6] = "await"
    BY <2>2, SMT
  <2>5. /\ ShapeAt(c, 1) /\ ShapeAt(c, 2) /\ ShapeAt(c, 3) /\ ShapeAt(c, 4)
        /\ ShapeAt(c, 5) /\ ShapeAt(c, 6)
    BY <1>9, <2>4, SMT DEF ShapeAt, Publishes
  <2> QED
    BY <2>3, <2>4, <2>5, SMT DEF Shape
<1>10. ASSUME NEW c, c = "ytVideo" PROVE Shape(c)
  <2>1. YouTubeFlow["ytVideo"] = <<"validate", "prepare", "send">>
    BY Zenon DEF YouTubeFlow
  <2>2. Flow(c) = <<"validate", "prepare", "send">>
    BY <1>10, <2>1, Domains, SMT DEF Flow
  <2>3. \A p \in 1..3 : p \in {1, 2, 3}
    BY SMT
  <2>4. /\ Len(Flow(c)) = 3
        /\ Flow(c)[1] = "validate" /\ Flow(c)[2] = "prepare" /\ Flow(c)[3] = "send"
    BY <2>2, SMT
  <2> QED
    BY <1>10, <2>3, <2>4, SMT DEF Shape, ShapeAt, Publishes
<1> QED
  BY <1>1, <1>2, <1>3, <1>4, <1>5, <1>6, <1>7, <1>8, <1>9, <1>10, Zenon DEF Contents
-----------------------------------------------------------------------------
(* Types.                                                                   *)

LEMMA AdvanceTyped ==
  ASSUME TypeOK, verdict = "open", Advance, UNCHANGED content
  PROVE  /\ attempt' \in 1..MaxAttempts /\ pos' \in 1..Len(Flow(content))
         /\ polls' \in 0..MaxPolls /\ verdict' \in {"open", "published"}
         /\ account' = account
<1>1. Len(Flow(content)) \in Nat \ {0}
  BY FlowShape DEF Shape, TypeOK
<1> QED
  BY <1>1, BoundsAssumption, SMT DEF TypeOK, Advance

LEMMA FailTyped ==
  ASSUME TypeOK, verdict = "open", NEW e, FailWith(e), UNCHANGED content
  PROVE  /\ attempt' \in 1..MaxAttempts /\ pos' \in 1..Len(Flow(content))
         /\ polls' \in 0..MaxPolls /\ verdict' \in {"open", "failed", "review"}
         /\ account' \in {"CONNECTED", "EXPIRED", "REAUTH_REQUIRED", "ERROR"}
<1>1. Len(Flow(content)) \in Nat \ {0}
  BY FlowShape DEF Shape, TypeOK
<1>2. attempt' \in 1..MaxAttempts /\ pos' \in 1..Len(Flow(content)) /\ polls' \in 0..MaxPolls
  BY <1>1, BoundsAssumption, SMT DEF TypeOK, FailWith
<1>3. account' \in {"CONNECTED", "EXPIRED", "REAUTH_REQUIRED", "ERROR"}
  BY SMT DEF TypeOK, FailWith, StatusAfter
<1>4. verdict' \in {"open", "failed", "review"}
  BY SMT DEF TypeOK, FailWith
<1> QED
  BY <1>2, <1>3, <1>4

LEMMA EffectTyped ==
  ASSUME TypeOK, Effect
  PROVE  posts' \in Nat
         /\ videos' \in [1..MaxAttempts -> {"none", "processing", "complete", "failed"}]
  BY SMT DEF TypeOK, Effect, Appear, StartProcessing

(* Where the worker stands, and what that says of the platform.             *)
LEMMA Standing ==
  ASSUME PlatformsInv, verdict = "open"
  PROVE  /\ pos \in 1..Len(Flow(content)) /\ ShapeAt(content, pos)
         /\ Step \in {"await", "link"} => pos = Len(Flow(content))
         /\ Step # "link" => posts = IF videos[attempt] = "complete" THEN 1 ELSE 0
         /\ Step = "await" <=> videos[attempt] # "none"
         /\ Step \in {"handover", "await"} => content = "ttVideo"
         /\ Step \in Publishes \cup {"link"} => content # "ttVideo"
<1>1. pos \in 1..Len(Flow(content)) /\ ShapeAt(content, pos)
  BY FlowShape, SMT DEF Shape, PlatformsInv, TypeOK
<1> QED
  BY <1>1, SMT DEF PlatformsInv, TikTokAgrees, OthersAgree, ShapeAt, Step

-----------------------------------------------------------------------------
(* Each action keeps the invariant.                                         *)

LEMMA InitHolds == Init => PlatformsInv
<1> SUFFICES ASSUME Init PROVE PlatformsInv
  OBVIOUS
<1>1. Len(Flow(content)) \in Nat \ {0} /\ Flow(content)[1] = "validate"
  BY FlowShape, SMT DEF Shape, Init
<1>2. TypeOK
  BY <1>1, BoundsAssumption, SMT DEF Init, TypeOK
<1>3. 1 \in 1..MaxAttempts /\ Step = "validate"
  BY <1>1, BoundsAssumption, SMT DEF Init, Step
<1> QED
  BY <1>2, <1>3, SMT DEF Init, PlatformsInv, RetriesFindTheAccount, OneUpload, TikTokAgrees,
     OthersAgree

(* The next step of the flow.                                               *)
LEMMA Advanced ==
  ASSUME PlatformsInv, verdict = "open", Advance, UNCHANGED content
  PROVE  /\ attempt' = attempt /\ account' = "CONNECTED"
         /\ \/ pos = Len(Flow(content)) /\ verdict' = "published"
            \/ /\ pos # Len(Flow(content)) /\ verdict' = "open"
               /\ Step \in Publishes <=> Step' = "link"
               /\ Step = "handover" <=> Step' = "await"
<1>1. ShapeAt(content, pos) /\ pos \in 1..Len(Flow(content)) /\ attempt' = attempt /\ account' = "CONNECTED"
  BY Standing, SMT DEF Advance, PlatformsInv, RetriesFindTheAccount
<1>2. CASE pos = Len(Flow(content))
  BY <1>1, <1>2, SMT DEF Advance
<1>3. CASE pos # Len(Flow(content))
  <2>1. pos' = pos + 1 /\ verdict' = "open"
    BY <1>3, SMT DEF Advance
  <2>2. Step' = Flow(content)[pos + 1]
    BY <2>1 DEF Step
  <2> QED
    BY <1>1, <1>3, <2>1, <2>2, SMT DEF ShapeAt, Step
<1> QED
  BY <1>2, <1>3

(* A step that changes nothing on the platform, and is neither a wait for   *)
(* TikTok nor the request that publishes.                                   *)
LEMMA AdvanceKeeps ==
  ASSUME PlatformsInv, verdict = "open", Advance, UNCHANGED <<content, valid, posts, videos>>,
         Step \notin Publishes \cup {"handover"},
         Step = "await" => videos[attempt] = "complete"
  PROVE  PlatformsInv'
<1>1. TypeOK'
  BY AdvanceTyped, SMT DEF PlatformsInv, TypeOK
<1>2. RetriesFindTheAccount' /\ OneUpload'
  BY Advanced, SMT DEF PlatformsInv, RetriesFindTheAccount, OneUpload
<1>3. TikTokAgrees'
  <2>1. pos = Len(Flow(content)) /\ content = "ttVideo" => Step = "await"
    BY Standing, SMT DEF ShapeAt, Step
  <2>2. pos # Len(Flow(content)) => Step \notin {"await", "link"}
    BY Standing
  <2> QED
    BY <2>1, <2>2, Advanced, Standing, SMT DEF PlatformsInv, TikTokAgrees
<1>4. OthersAgree'
  <2>1. pos = Len(Flow(content)) /\ content # "ttVideo" => Step = "link"
    BY Standing, SMT DEF ShapeAt, Step
  <2>2. pos # Len(Flow(content)) => Step \notin {"await", "link"}
    BY Standing
  <2> QED
    BY <2>1, <2>2, Advanced, Standing, SMT DEF PlatformsInv, OthersAgree
<1> QED
  BY <1>1, <1>2, <1>3, <1>4 DEF PlatformsInv

(* A failed step that left nothing on the platform.                         *)
LEMMA FailKeeps ==
  ASSUME PlatformsInv, verdict = "open", NEW e, FailWith(e),
         UNCHANGED <<content, valid, posts, videos>>, Step # "link",
         Step = "await" => e.outcomeUnknown \/ (videos[attempt] = "failed" /\ ~Retryable(e))
  PROVE  PlatformsInv'
<1>1. TypeOK'
  BY FailTyped, SMT DEF PlatformsInv, TypeOK
<1>2. CASE Retryable(e) /\ attempt < MaxAttempts
  <2>1. attempt' = attempt + 1 /\ pos' = 1 /\ verdict' = "open" /\ account' = account
    BY <1>2, SMT DEF FailWith, StatusAfter, Retryable
  <2>2. Step' = "validate"
    BY <2>1, FlowShape, SMT DEF Shape, Step, PlatformsInv, TypeOK
  <2>3. Step # "await"
    BY <1>2 DEF Retryable
  <2>4. \A a \in 1..MaxAttempts : videos[a] = "none"
    BY <2>3, Standing, SMT DEF PlatformsInv, OneUpload
  <2>5. posts = 0 /\ attempt' \in 1..MaxAttempts
    BY <1>1, <2>3, Standing, SMT DEF TypeOK
  <2> QED
    BY <1>1, <2>1, <2>2, <2>4, <2>5, SMT DEF PlatformsInv, RetriesFindTheAccount, OneUpload,
       TikTokAgrees, OthersAgree
<1>3. CASE ~(Retryable(e) /\ attempt < MaxAttempts)
  <2>1. /\ verdict' = IF e.outcomeUnknown THEN "review" ELSE "failed"
        /\ attempt' = attempt /\ pos' = pos
    BY <1>3, SMT DEF FailWith
  <2>2. RetriesFindTheAccount' /\ OneUpload'
    BY <2>1, SMT DEF PlatformsInv, RetriesFindTheAccount, OneUpload
  <2>3. TikTokAgrees'
    BY <2>1, Standing, SMT DEF PlatformsInv, TikTokAgrees
  <2>4. OthersAgree'
    BY <2>1, Standing, SMT DEF PlatformsInv, OthersAgree, TikTokAgrees
  <2> QED
    BY <1>1, <2>2, <2>3, <2>4 DEF PlatformsInv
<1> QED
  BY <1>2, <1>3

(* What the request did, where it may make the post appear.                 *)
LEMMA Effects ==
  ASSUME PlatformsInv, verdict = "open", Effect
  PROVE  /\ Step \in Publishes =>
              posts = 0 /\ posts' = 1 /\ videos' = videos /\ content # "ttVideo"
         /\ Step = "handover" =>
              /\ posts = 0 /\ posts' = 0 /\ videos'[attempt] = "processing"
              /\ \A a \in 1..MaxAttempts : a # attempt => videos'[a] = "none"
         /\ Step \notin Publishes \cup {"handover"} => UNCHANGED <<posts, videos>>
<1>1. CASE Step \in Publishes
  BY <1>1, Standing, SMT DEF Effect, Appear, Publishes, PlatformsInv, TypeOK
<1>2. CASE Step = "handover"
  <2>1. posts = 0
    BY <1>2, Standing, SMT
  <2>2. videos' = [videos EXCEPT ![attempt] = "processing"] /\ posts' = posts
    BY <1>2, SMT DEF Effect, StartProcessing, Publishes
  <2> QED
    BY <1>2, <2>1, <2>2, SMT DEF Publishes, PlatformsInv, TypeOK, OneUpload
<1>3. CASE Step \notin Publishes \cup {"handover"}
  BY <1>3, SMT DEF Effect, Publishes
<1> QED
  BY <1>1, <1>2, <1>3, Zenon DEF Publishes

LEMMA PublishKeeps ==
  ASSUME PlatformsInv, Publish
  PROVE  PlatformsInv'
<1>1. /\ verdict = "open" /\ Step \in Publishes \cup {"handover"}
      /\ Effect /\ Advance /\ UNCHANGED <<content, valid>>
  BY DEF Publish, At
<1>2. TypeOK'
  BY <1>1, AdvanceTyped, EffectTyped, SMT DEF PlatformsInv, TypeOK
<1>3. RetriesFindTheAccount'
  BY <1>1, Advanced DEF RetriesFindTheAccount
<1>4. attempt' = attempt /\ (Step = "handover" => pos # Len(Flow(content)))
  BY <1>1, Advanced, Standing, SMT DEF ShapeAt, Step
<1>5. CASE Step \in Publishes
  <2>1. "handover" \notin Publishes /\ posts' = 1 /\ videos' = videos /\ content' # "ttVideo"
    BY <1>1, <1>5, Effects DEF Publishes
  <2>2. OneUpload' /\ TikTokAgrees'
    BY <1>4, <2>1, <1>1, SMT DEF PlatformsInv, OneUpload, TikTokAgrees
  <2>3. OthersAgree'
    BY <1>1, <1>5, <2>1, Advanced, SMT DEF OthersAgree
  <2> QED
    BY <1>2, <1>3, <2>2, <2>3 DEF PlatformsInv
<1>6. CASE Step = "handover"
  <2>1. OneUpload' /\ OthersAgree'
    BY <1>1, <1>4, <1>6, Effects, Standing, SMT DEF OneUpload, OthersAgree
  <2>2. TikTokAgrees'
    BY <1>1, <1>4, <1>6, Effects, Standing, Advanced, SMT DEF TikTokAgrees
  <2> QED
    BY <1>2, <1>3, <2>1, <2>2 DEF PlatformsInv
<1> QED
  BY <1>1, <1>5, <1>6

(* Whatever may have been carried out all the same is left in doubt.        *)
LEMMA Doubt ==
  ASSUME OnlyTimeoutsHide, NEW answer \in FailuresOf
  PROVE  /\ Step # "link"
         /\ answer \in Hides /\ Step \in Publishes \cup {"handover"} => ErrorOf(answer).outcomeUnknown
         /\ Step = "await" => ErrorOf(answer).outcomeUnknown
<1>1. Step # "link"
  BY SMT DEF FailuresOf
<1>2. FetchError("timeout").outcomeUnknown
  BY DEF FetchError, Unknown
<1>3. answer = "timeout" /\ Step \in Publishes \cup {"handover", "await"} =>
        ErrorOf(answer).outcomeUnknown
  BY <1>2, SMT DEF ErrorOf, ApiError, ChunkError, SendError, Publishes, NoResponse
<1>4. Step = "await" => answer = "timeout"
  BY SMT DEF FailuresOf, OnlyTimeoutsHide
<1>5. answer \in Hides => answer = "timeout"
  BY DEF OnlyTimeoutsHide
<1> QED
  BY <1>1, <1>3, <1>4, <1>5

LEMMA FailActionKeeps ==
  ASSUME PlatformsInv, OnlyTimeoutsHide, Fail
  PROVE  PlatformsInv'
<1>1. PICK answer \in FailuresOf :
        /\ FailWith(ErrorOf(answer))
        /\ UNCHANGED <<posts, videos>> \/ (answer \in Hides /\ Effect)
  BY DEF Fail
<1> DEFINE e == ErrorOf(answer)
<1>2. verdict = "open" /\ UNCHANGED <<content, valid>>
  BY DEF Fail
<1>3. CASE UNCHANGED <<posts, videos>>
  BY <1>1, <1>2, <1>3, Doubt, FailKeeps
<1>4. CASE answer \in Hides /\ Effect /\ Step \notin Publishes \cup {"handover"}
  <2>1. UNCHANGED <<posts, videos>>
    BY <1>2, <1>4, Effects
  <2> QED
    BY <1>1, <1>2, <2>1, Doubt, FailKeeps
<1>5. CASE answer \in Hides /\ Effect /\ Step \in Publishes \cup {"handover"}
  <2>1. e.outcomeUnknown
    BY <1>5, Doubt
  <2>2. verdict' = "review" /\ attempt' = attempt
    BY <1>1, <2>1, SMT DEF FailWith, Retryable
  <2>3. TypeOK'
    BY <1>1, <1>2, <1>5, FailTyped, EffectTyped, SMT DEF PlatformsInv, TypeOK
  <2>4. RetriesFindTheAccount' /\ OneUpload' /\ TikTokAgrees' /\ OthersAgree'
    <3>1. CASE Step \in Publishes
      BY <1>2, <1>5, <2>2, <3>1, Effects, SMT DEF PlatformsInv, RetriesFindTheAccount, OneUpload,
         TikTokAgrees, OthersAgree
    <3>2. CASE Step = "handover"
      BY <1>2, <1>5, <2>2, <3>2, Effects, Standing, SMT DEF PlatformsInv, RetriesFindTheAccount,
         OneUpload, TikTokAgrees, OthersAgree
    <3> QED
      BY <1>5, <3>1, <3>2
  <2> QED
    BY <2>3, <2>4 DEF PlatformsInv
<1> QED
  BY <1>1, <1>3, <1>4, <1>5

LEMMA WaitsKeep ==
  ASSUME PlatformsInv, AwaitContainer \/ AwaitPublish
  PROVE  PlatformsInv'
<1>1. verdict = "open" /\ UNCHANGED <<content, valid, posts, videos>>
  BY DEF AwaitContainer, AwaitPublish, At
<1>2. ASSUME PollAgain PROVE PlatformsInv'
  <2>1. TypeOK'
    BY <1>1, <1>2, BoundsAssumption, SMT DEF PlatformsInv, TypeOK, PollAgain
  <2>2. Step' = Step
    BY <1>1, <1>2 DEF Step, PollAgain
  <2> QED
    BY <1>1, <1>2, <2>1, <2>2, SMT DEF PollAgain, PlatformsInv, RetriesFindTheAccount, OneUpload,
       TikTokAgrees, OthersAgree
<1>3. CASE AwaitContainer
  <2>1. Step = "container" /\ Step \notin Publishes \cup {"handover", "await", "link"}
    BY <1>3, SMT DEF AwaitContainer, At, Publishes
  <2>2. Advance \/ FailWith(Err("INVALID_REQUEST")) \/ PollAgain \/ FailWith(Err("PROVIDER_ERROR"))
    BY <1>3 DEF AwaitContainer
  <2> QED
    BY <1>1, <1>2, <2>1, <2>2, AdvanceKeeps, FailKeeps
<1>4. CASE AwaitPublish
  <2>1. Step = "await" /\ Step \notin Publishes \cup {"handover", "link"}
    BY <1>4, SMT DEF AwaitPublish, At, Publishes
  <2>2. Unknown("PROVIDER_ERROR").outcomeUnknown
    BY DEF Unknown
  <2>3. ~Retryable(Err("INVALID_REQUEST"))
    BY DEF Retryable, Err
  <2>4. CASE videos[attempt] = "complete" /\ Advance
    BY <1>1, <2>1, <2>4, AdvanceKeeps
  <2>5. CASE videos[attempt] = "failed" /\ FailWith(Err("INVALID_REQUEST"))
    BY <1>1, <2>1, <2>3, <2>5, FailKeeps
  <2>6. CASE FailWith(Unknown("PROVIDER_ERROR"))
    BY <1>1, <2>1, <2>2, <2>6, FailKeeps
  <2> QED
    BY <1>2, <1>4, <2>4, <2>5, <2>6 DEF AwaitPublish
<1> QED
  BY <1>3, <1>4

LEMMA ProcessKeeps ==
  ASSUME PlatformsInv, NEW a \in 1..MaxAttempts, Process(a)
  PROVE  PlatformsInv'
<1>1. a = attempt /\ content = "ttVideo" /\ posts = 0 /\ Step' = Step
  BY SMT DEF Process, PlatformsInv, OneUpload, TikTokAgrees, publisher, Step
<1>2. TypeOK'
  BY <1>1, SMT DEF PlatformsInv, TypeOK, Process, publisher
<1>3. /\ UNCHANGED <<content, valid, attempt, pos, polls, verdict, account>>
      /\ \A b \in 1..MaxAttempts : b # attempt => videos'[b] = videos[b]
      /\ videos[attempt] = "processing"
      /\ \/ videos'[attempt] = "complete" /\ posts' = 1
         \/ videos'[attempt] = "failed" /\ posts' = 0
  <2>1. attempt \in 1..MaxAttempts /\ DOMAIN videos = 1..MaxAttempts
    BY SMT DEF PlatformsInv, TypeOK
  <2>2. videos[attempt] = "processing" /\ UNCHANGED <<content, valid, attempt, pos, polls, verdict, account>>
    BY <1>1 DEF Process, publisher
  <2>3. \/ videos' = [videos EXCEPT ![attempt] = "complete"] /\ posts' = 1
        \/ videos' = [videos EXCEPT ![attempt] = "failed"] /\ posts' = 0
    BY <1>1, SMT DEF Process
  <2>4. ASSUME NEW v, videos' = [videos EXCEPT ![attempt] = v]
        PROVE  videos'[attempt] = v /\ \A b \in 1..MaxAttempts : b # attempt => videos'[b] = videos[b]
    BY <2>1, <2>4, Zenon
  <2> QED
    BY <2>2, <2>3, <2>4, Zenon
<1>4. RetriesFindTheAccount' /\ OneUpload' /\ OthersAgree'
  <2>1. RetriesFindTheAccount'
    BY <1>3, Zenon DEF PlatformsInv, RetriesFindTheAccount
  <2>2. OneUpload'
    BY <1>3, SMT DEF PlatformsInv, OneUpload
  <2>3. OthersAgree'
    BY <1>1, <1>3, SMT DEF OthersAgree
  <2> QED
    BY <2>1, <2>2, <2>3
<1>5. TikTokAgrees'
  BY <1>1, <1>3, SMT DEF PlatformsInv, TikTokAgrees
<1> QED
  BY <1>2, <1>4, <1>5 DEF PlatformsInv

LEMMA PublisherKeeps ==
  ASSUME PlatformsInv, OnlyTimeoutsHide, Publisher
  PROVE  PlatformsInv'
<1>1. CASE Validate
  <2>1. verdict = "open" /\ Step = "validate" /\ UNCHANGED <<content, valid, posts, videos>>
    BY <1>1, SMT DEF Validate, At
  <2>2. Advance \/ FailWith(Err("INVALID_REQUEST"))
    BY <1>1 DEF Validate
  <2> QED
    BY <2>1, <2>2, AdvanceKeeps, FailKeeps DEF Publishes
<1>2. CASE Prepare
  <2>1. /\ verdict = "open" /\ Advance /\ UNCHANGED <<content, valid, posts, videos>>
        /\ Step \notin Publishes \cup {"handover", "await"}
    BY <1>2, SMT DEF Prepare, At, Publishes
  <2> QED
    BY <2>1, AdvanceKeeps
<1>3. CASE Link
  <2>1. /\ verdict = "open" /\ Advance /\ UNCHANGED <<content, valid, posts, videos>>
        /\ Step \notin Publishes \cup {"handover", "await"}
    BY <1>3, SMT DEF Link, At, Publishes
  <2> QED
    BY <2>1, AdvanceKeeps
<1> QED
  BY <1>1, <1>2, <1>3, PublishKeeps, FailActionKeeps, WaitsKeep DEF Publisher

LEMMA StutterKeeps == PlatformsInv /\ UNCHANGED vars => PlatformsInv'
<1> SUFFICES ASSUME PlatformsInv, UNCHANGED vars PROVE PlatformsInv'
  OBVIOUS
<1>1. Step' = Step /\ UNCHANGED <<content, valid, attempt, pos, polls, verdict, account, posts, videos>>
  BY DEF vars, publisher, Step
<1> QED
  BY <1>1, SMT DEF PlatformsInv, TypeOK, RetriesFindTheAccount, OneUpload, TikTokAgrees, OthersAgree

(* The inductive invariant: what the platform holds is what the run's       *)
(* position, attempt and verdict say it does.                               *)
THEOREM PlatformsInvariant ==
  ASSUME OnlyTimeoutsHide
  PROVE  Spec => []PlatformsInv
<1>1. PlatformsInv /\ [Next]_vars => PlatformsInv'
  BY PublisherKeeps, ProcessKeeps, StutterKeeps DEF Next
<1> QED
  BY <1>1, InitHolds, PTL DEF Spec

(* RetriesFindTheAccount, and the types, for any number of attempts and of  *)
(* status requests: a post that will be tried again finds its account in    *)
(* use, and what the run and TikTok keep is what it should be.              *)
THEOREM AccountIsFound ==
  ASSUME OnlyTimeoutsHide
  PROVE  Spec => [](TypeOK /\ RetriesFindTheAccount)
<1>1. PlatformsInv => TypeOK /\ RetriesFindTheAccount
  BY DEF PlatformsInv
<1> QED
  BY <1>1, PlatformsInvariant, PTL

-----------------------------------------------------------------------------
(* The refinement.                                                          *)

(* What the invariant says of the verdict.                                  *)
VerdictIsSo ==
  /\ posts \in {0, 1} /\ verdict \in {"open", "published", "failed", "review"}
  /\ verdict = "published" => posts = 1
  /\ verdict = "failed" => posts = 0

LEMMA InvTellsVerdict == PlatformsInv => VerdictIsSo
<1> SUFFICES ASSUME PlatformsInv PROVE VerdictIsSo
  OBVIOUS
<1>1. CASE content = "ttVideo"
  BY <1>1, SMT DEF PlatformsInv, TypeOK, TikTokAgrees, VerdictIsSo
<1>2. CASE content # "ttVideo"
  BY <1>2, SMT DEF PlatformsInv, TypeOK, OthersAgree, VerdictIsSo
<1> QED
  BY <1>1, <1>2

(* A post never disappears, and what was decided stays.                     *)
LEMMA NothingIsTakenBack ==
  ASSUME PlatformsInv, Next
  PROVE  /\ posts = 1 => posts' # 0
         /\ verdict \in {"published", "failed"} => UNCHANGED <<posts, verdict>>
         /\ verdict = "review" => verdict' = "review"
<1>1. CASE Publisher
  <2>1. verdict = "open"
    BY <1>1, SMT DEF Publisher, Validate, Prepare, Publish, Fail, Link, AwaitContainer, AwaitPublish, At
  <2>2. posts' = posts \/ Effect
    BY <1>1, SMT DEF Publisher, Validate, Prepare, Publish, Fail, Link, AwaitContainer, AwaitPublish
  <2>3. posts' \in {posts, posts + 1}
    BY <2>2, SMT DEF Effect, Appear, StartProcessing
  <2> QED
    BY <2>1, <2>3, SMT
<1>2. ASSUME NEW a \in 1..MaxAttempts, Process(a)
      PROVE  /\ posts = 1 => posts' # 0
             /\ verdict \in {"published", "failed"} => UNCHANGED <<posts, verdict>>
             /\ verdict = "review" => verdict' = "review"
  <2>1. verdict' = verdict /\ posts' \in {posts, posts + 1} /\ videos[a] = "processing"
    BY <1>2, SMT DEF Process, publisher
  <2>2. a = attempt /\ content = "ttVideo"
    BY <2>1, SMT DEF PlatformsInv, OneUpload, TikTokAgrees
  <2>3. verdict \notin {"published", "failed"}
    BY <2>1, <2>2, SMT DEF PlatformsInv, TikTokAgrees
  <2> QED
    BY <2>1, <2>3, SMT
<1> QED
  BY <1>1, <1>2 DEF Next

LEMMA StepRefines ==
  ASSUME PlatformsInv, VerdictIsSo, VerdictIsSo', [Next]_vars
  PROVE  [Once!Next]_Once!vars
<1>1. CASE UNCHANGED vars
  BY <1>1 DEF vars, publisher, Once!vars
<1>2. CASE Next
  <2>1. /\ posts \in {0, 1} /\ posts' \in {0, 1}
        /\ verdict' \in {"open", "published", "failed", "review"}
        /\ verdict' = "published" => posts' = 1
        /\ verdict' = "failed" => posts' = 0
    BY DEF VerdictIsSo
  <2>2. CASE posts' # posts
    <3>1. posts = 0 /\ posts' = 1 /\ verdict \in {"open", "review"}
      BY <1>2, <2>1, <2>2, NothingIsTakenBack DEF VerdictIsSo
    <3>2. verdict' \in {verdict, "review", "published"}
      BY <1>2, <2>1, <3>1, NothingIsTakenBack
    <3>3. Once!Appear("post")
      <4> DEFINE told == [i \in {"post"} |-> verdict]
                 there == [i \in {"post"} |-> posts]
      <4>1. there["post"] = 0 /\ Once!Undecided("post")
        BY <3>1 DEF Once!Undecided
      <4>2. there' = [there EXCEPT !["post"] = 1]
        BY <3>1, SMT
      <4>3. told' = [told EXCEPT !["post"] = verdict']
        BY SMT
      <4>4. verdict' \in {told["post"], "review", "published"}
        BY <3>2, SMT
      <4> QED
        BY <4>1, <4>2, <4>3, <4>4, Zenon DEF Once!Appear
    <3> QED
      BY <3>3 DEF Once!Next
  <2>3. CASE posts' = posts /\ verdict' # verdict
    <3>1. verdict = "open" /\ verdict' # "open"
      BY <1>2, <2>3, NothingIsTakenBack DEF VerdictIsSo
    <3>2. Once!Settle("post")
      BY <2>1, <2>3, <3>1, SMT DEF Once!Settle, Once!Undecided, Once!Verdicts
    <3> QED
      BY <3>2 DEF Once!Next
  <2>4. CASE posts' = posts /\ verdict' = verdict
    BY <2>4 DEF Once!vars
  <2> QED
    BY <2>2, <2>3, <2>4
<1> QED
  BY <1>1, <1>2

(* ImplementsPublishOnce for any number of attempts and status requests:    *)
(* however the requests of a provider fail and are tried again, the post    *)
(* appears at most once and the verdict is so.                              *)
THEOREM PublishesOnce ==
  ASSUME OnlyTimeoutsHide
  PROVE  Spec => ImplementsPublishOnce
<1>1. Init => Once!Init
  BY DEF Init, Once!Init
<1>2. PlatformsInv /\ VerdictIsSo /\ VerdictIsSo' /\ [Next]_vars => [Once!Next]_Once!vars
  BY StepRefines
<1> QED
  BY <1>1, <1>2, InvTellsVerdict, PlatformsInvariant, PTL DEF Spec, ImplementsPublishOnce, Once!Spec
=============================================================================
