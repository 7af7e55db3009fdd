----------------------------- MODULE MediaRules -----------------------------
(***************************************************************************)
(* What a post may carry on each platform, decided four times over: by the *)
(* picker in the browser, by the API that saves a version, by scheduling,  *)
(* and by the provider that sends it.  One post is edited while files of   *)
(* its workspace come off the shelf and its schedule comes due.            *)
(***************************************************************************)
EXTENDS Naturals, FiniteSets, Sequences

CONSTANTS
  Shelf,   \* the library's files: records of a name, type and size
  Several  \* stands for the ten attachments a post may hold

ASSUME SeveralAssumption == Several \in Nat /\ Several > 1

VARIABLES
  draft,   \* the post's platform and current version
  shelf,   \* files still in the library
  picker,  \* the picker: open or not, and what is selected in it
  going    \* the schedule: none, queued, or how sending ended

mediaVars == <<draft, shelf, picker, going>>

-----------------------------------------------------------------------------
Platforms == {"LINKEDIN", "FACEBOOK", "INSTAGRAM", "TIKTOK", "YOUTUBE"}
None == "none"
Formats == {"standard", "short"}
Films == {"video/mp4", "video/quicktime", "video/webm"}
Pictures == {"image/jpeg", "image/png", "image/gif", "image/webp"}
KindOf(f) ==
  IF f.type \in Films THEN "video" ELSE IF f.type \in Pictures THEN "image" ELSE "document"
OfKind(files, kind) == {f \in files : KindOf(f) = kind}

Rule(needed, most, images, videos, formats) ==
  [required |-> needed, max |-> most, images |-> images, videos |-> videos, formats |-> formats]
(* PLATFORM_MEDIA_RULES; the browser's copy is the same.  No images or no   *)
(* videos means none are taken; the first of the formats is the default.    *)
Rules ==
  [p \in Platforms |->
     CASE p = "LINKEDIN" -> Rule(FALSE, 1, {"image/jpeg", "image/png"}, {}, <<>>)
       [] p = "FACEBOOK" -> Rule(FALSE, Several, {"image/jpeg", "image/png", "image/gif"},
                                 {"video/mp4", "video/quicktime"}, <<"standard", "short">>)
       [] p = "INSTAGRAM" -> Rule(TRUE, Several, {"image/jpeg"},
                                  {"video/mp4", "video/quicktime"}, <<"short">>)
       [] p = "TIKTOK" -> Rule(TRUE, 0, {}, Films, <<"short">>)
       [] p = "YOUTUBE" -> Rule(TRUE, 0, {}, Films, <<"standard", "short">>)]

-----------------------------------------------------------------------------
(* The browser: attachBlocker.                                              *)

\* Mutant: images may join a video.
MayJoin(images, attached) == Cardinality(attached) < images
(* No video among what is attached, and room for one more.                  *)
RoomFor(images, attached) == OfKind(attached, "video") = {} /\ Cardinality(attached) < images
Attachable(platform, f, attached) ==
  LET rule == Rules[platform] IN
  \/ KindOf(f) = "video" /\ f.type \in rule.videos /\ attached = {}
  \/ KindOf(f) = "image" /\ f.type \in rule.images /\ RoomFor(rule.max, attached)

(* The API: attachmentProblem finds none.                                   *)
Acceptable(platform, files, requireMedia) ==
  LET rule == Rules[platform]
      videos == OfKind(files, "video") IN
  \/ files = {} /\ ~(requireMedia /\ rule.required)
  \/ /\ files # {} /\ Cardinality(files) <= Several
     /\ OfKind(files, "document") = {}
     /\ \/ files = videos /\ Cardinality(videos) = 1 /\ \A f \in videos : f.type \in rule.videos
        \/ /\ videos = {} /\ Cardinality(files) <= rule.max
           /\ \A f \in files : f.type \in rule.images

(* resolveVideoFormat.                                                      *)
Resolved(platform, files, requested) ==
  LET formats == Rules[platform].formats IN
  IF formats = <<>> \/ OfKind(files, "video") = {} THEN None
  ELSE IF \E i \in DOMAIN formats : formats[i] = requested THEN requested ELSE formats[1]

(* requiredCapability at scheduling, workerCapability when sending.         *)
Capability(files, format) ==
  CASE files = {} -> "TEXT_POST"
    [] OfKind(files, "video") # {} -> IF format = "short" THEN "SHORT_VIDEO" ELSE "VIDEO_POST"
    [] OTHER -> IF Cardinality(files) > 1 THEN "CAROUSEL" ELSE "IMAGE_POST"

-----------------------------------------------------------------------------
(* The providers.                                                           *)

Declared(platform) ==
  CASE platform = "LINKEDIN" -> {"TEXT_POST", "IMAGE_POST"}
    [] platform = "FACEBOOK" -> {"TEXT_POST", "IMAGE_POST", "CAROUSEL", "VIDEO_POST", "SHORT_VIDEO"}
    [] platform = "INSTAGRAM" -> {"IMAGE_POST", "CAROUSEL", "VIDEO_POST", "SHORT_VIDEO"}
    [] OTHER -> {"VIDEO_POST", "SHORT_VIDEO"}

(* A long text or title is one a post may have and the platform refuses:    *)
(* too long for it, too many hashtags, a < on YouTube.  Facebook takes any. *)
LinkedInTakes(text, files) ==
  /\ text = "short"
  /\ Cardinality(files) <= 1 /\ \A f \in files : f.type \in {"image/jpeg", "image/png"}
FacebookTakes(files) ==
  \/ \A f \in files : f.type \in {"video/mp4", "video/quicktime"}
  \/ Cardinality(files) <= Several /\ \A f \in files : f.type \in Pictures \ {"image/webp"}
InstagramTakes(text, files) ==
  /\ text = "short"
  /\ \/ \A f \in files : f.type \in {"video/mp4", "video/quicktime"}
     \/ /\ files # {} /\ Cardinality(files) <= Several
        /\ \A f \in files : f.type = "image/jpeg" /\ ~f.large
TikTokTakes(text, files) == text = "short" /\ \A f \in files : f.type \in Films
YouTubeTakes(text, title) == text = "short" /\ title # "long"
Takes(platform, text, title, files) ==
  CASE platform = "LINKEDIN" -> LinkedInTakes(text, files)
    [] platform = "FACEBOOK" -> FacebookTakes(files)
    [] platform = "INSTAGRAM" -> InstagramTakes(text, files)
    [] platform = "TIKTOK" -> TikTokTakes(text, files)
    [] platform = "YOUTUBE" -> YouTubeTakes(text, title)

-----------------------------------------------------------------------------
Closed == [open |-> FALSE, selected |-> {}]
MediaTypeOK ==
  /\ draft \in [platform : Platforms, text : {"short", "long"}, title : {None, "short", "long"},
                media : SUBSET Shelf, format : Formats \cup {None}]
  /\ shelf \subseteq Shelf
  /\ picker \in [open : BOOLEAN, selected : SUBSET Shelf]
  /\ going \in {None, "queued", "sent", "refused", "unsupported", "stopped"}

MediaInit ==
  /\ draft \in [platform : Platforms, text : {"short"}, title : {None}, media : {{}}, format : {None}]
  /\ shelf = Shelf
  /\ picker = Closed
  /\ going = None

(* appendVersion: media left out are those of the version before, as far as *)
(* they are still in the library.                                           *)
SaveVersion(media, format) ==
  draft' = [draft EXCEPT !.media = media, !.format = Resolved(draft.platform, media, format)]
Editing == going \in {None, "queued"}
Attached == draft.media \cap shelf

(* The text is edited, by a person or by AI; only YouTube has a title.      *)
WriteText ==
  /\ Editing
  /\ \E text \in {"short", "long"}, title \in {None, "short", "long"} :
       /\ draft.platform # "YOUTUBE" => title = None
       /\ draft' = [draft EXCEPT !.text = text, !.title = title, !.media = Attached,
                                 !.format = Resolved(draft.platform, Attached, @)]
  /\ UNCHANGED <<shelf, picker, going>>

(* saveMedia: every file must still be there, and the platform take them.   *)
SaveMedia(media, format) ==
  /\ Editing
  /\ media \subseteq shelf /\ Acceptable(draft.platform, media, FALSE)
  /\ SaveVersion(media, format)
Detach ==
  /\ ~picker.open
  /\ \E f \in Attached : SaveMedia(Attached \ {f}, draft.format)
  /\ UNCHANGED <<shelf, picker, going>>
ChooseFormat ==
  LET formats == Rules[draft.platform].formats IN
  /\ ~picker.open /\ OfKind(Attached, "video") # {} /\ Len(formats) > 1
  /\ \E i \in DOMAIN formats : formats[i] # draft.format /\ SaveMedia(Attached, formats[i])
  /\ UNCHANGED <<shelf, picker, going>>

OpenPicker ==
  /\ Editing /\ ~picker.open
  /\ picker' = [open |-> TRUE, selected |-> Attached]
  /\ UNCHANGED <<draft, shelf, going>>
Selected == picker.selected \cap shelf
Toggle ==
  /\ picker.open
  /\ \E f \in shelf :
       \/ f \in picker.selected /\ picker' = [picker EXCEPT !.selected = @ \ {f}]
       \/ /\ f \notin picker.selected /\ Attachable(draft.platform, f, Selected)
          /\ picker' = [picker EXCEPT !.selected = @ \cup {f}]
  /\ UNCHANGED <<draft, shelf, going>>
(* A save that fails leaves the picker open, with the error.                *)
Confirm ==
  /\ picker.open
  /\ SaveMedia(Selected, draft.format)
  /\ picker' = Closed
  /\ UNCHANGED <<shelf, going>>
Dismiss == picker.open /\ picker' = Closed /\ UNCHANGED <<draft, shelf, going>>

(* A file is deleted from the library, attached or not.                     *)
TakeOff ==
  /\ \E f \in shelf : shelf' = shelf \ {f}
  /\ UNCHANGED <<draft, picker, going>>

(* loadPublishPlan, and the capability the platform must have.              *)
Plannable ==
  /\ draft.media \subseteq shelf
  /\ Acceptable(draft.platform, draft.media, TRUE)
ScheduleDraft ==
  /\ going = None /\ Plannable
  /\ Capability(draft.media, draft.format) \in Declared(draft.platform)
  /\ going' = "queued"
  /\ UNCHANGED <<draft, shelf, picker>>

(* The worker makes the plan again, and stops (MEDIA_MISSING,               *)
(* MEDIA_INVALID) where there is none; a video without a format is sent as  *)
(* a standard one.                                                          *)
SendDraft ==
  /\ going = "queued"
  /\ going' = IF ~Plannable THEN "stopped"
              ELSE IF Capability(draft.media, draft.format) \notin Declared(draft.platform)
                THEN "unsupported"
              ELSE IF Takes(draft.platform, draft.text, draft.title, draft.media)
                THEN "sent" ELSE "refused"
  /\ UNCHANGED <<draft, shelf, picker>>

MediaNext ==
  \/ WriteText \/ Detach \/ ChooseFormat \/ OpenPicker \/ Toggle \/ Confirm \/ Dismiss
  \/ TakeOff \/ ScheduleDraft \/ SendDraft

-----------------------------------------------------------------------------
(* "Instant feedback only; the API checks again on save": what the picker   *)
(* lets a person select, in whatever order, with files deleted meanwhile,   *)
(* is what the API accepts.                                                 *)
PickerAgrees == picker.open => Acceptable(draft.platform, Selected, FALSE)

Bare == Rules[draft.platform].required /\ draft.media = {}
(* What scheduling let through ends in one of three ways, whatever was      *)
(* edited after.  The worker stops it because an attached file left the     *)
(* library or nothing is attached any more where something must be: never   *)
(* because a later version is one the platform does not take.  The provider *)
(* refuses what nothing checks before it: a text or title that is too long, *)
(* an image too large for Instagram.  Everything else goes out.             *)
OnlyTooMuchIsRefused ==
  /\ going # "unsupported"
  /\ going = "stopped" => ~(draft.media \subseteq shelf) \/ Bare
  /\ going = "refused" =>
       \/ draft.text = "long" \/ draft.title = "long"
       \/ draft.platform = "INSTAGRAM" /\ \E f \in draft.media : f.large

(* A format is stored exactly when there is a video to publish.             *)
FormatFollowsVideo == (draft.format # None) <=> (OfKind(draft.media, "video") # {})

(* The four places agree.                                                   *)
MediaHolds == MediaTypeOK /\ PickerAgrees /\ OnlyTooMuchIsRefused /\ FormatFollowsVideo
=============================================================================
