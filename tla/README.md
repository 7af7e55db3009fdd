# FlowPost: models and proofs

TLA+ models of the parts of FlowPost whose correctness depends on what happens
*between* two database calls: a worker and a person changing the same post, two
workers handed the same job, a process that dies half-way, two refreshes with one
token. Paths below are relative to `src/backend/src/` unless they start with `src/`.

```
tlasany Publishing.tla                              # parse a module
tlc -workers 4 -config Recovery.cfg MCPublishing.tla  # a run; section 4 names the module of each cfg
tlapm UserAccountsSafety.tla                        # the proofs of a module
```

## 1. The system

FlowPost is an Express API, worker processes and a React front end around MongoDB, Redis
(BullMQ, pub/sub), an S3 store, Stripe, an AI provider and five social platforms. Every
request handler, worker run and periodic sweep is a sequence of single-document MongoDB
operations. There are no multi-document transactions on the paths modelled here, so **the
unit of atomicity in every model is one call** to the database, the queue, the store or a
platform, and anything may happen between two of them. A mongoose document is a *copy*:
it is read, changed in memory and saved, and only what was changed is written back.

| Component (code) | State it keeps | Operations | Hard part | What makes it correct |
|---|---|---|---|---|
| Scheduled publishing (`services/publishing.service.ts`, `queues/`, `workers/`, `worker.ts`) | Schedule, PublishJob, PublishAttempt, Post.status, BullMQ jobs | schedulePublish, cancelLiveSchedule, runPublishJob, recoverPublishing | two deliveries of a job, crashes between writes, stale locks, answers that never come, recovery racing workers | a schedule makes at most one post; what is being sent is not cancelled; what is over stays over; everything scheduled ends |
| Social providers (`integrations/social/`) | none of their own; the platforms' | publishText, publishImage, publishVideo, polling | a timeout hides a post that went out | at most one post through all retries; nobody is told the opposite of what happened |
| Social accounts (`services/socialAccount.service.ts`) | SocialAccount tokens, status, refresh lease | use, refresh under a lease, disconnect, reconnect | a lease that outlives its holder; copies saved late | a rotating refresh token is spent once; a healthy account stays connected |
| Connecting accounts (same file) | OAuth state, connection draft | start, callback, choose, disconnect | repeated callbacks, an admin demoted meanwhile, the account limit | codes and logins work once, for admins, within the plan |
| Sessions (`services/auth.service.ts`, `token.service.ts`, `admin.service.ts`) | RefreshToken, User.tokenVersion, status | sign in, refresh, sign out, password change and reset, suspend | rotation racing revocation; the grace period | what was revoked stays revoked; a retry is not taken for a thief |
| Billing (`services/billing.service.ts`) | BillingAccount, StripeWebhookEvent | checkout, change plan, webhooks, refresh | events twice, out of order, or while a handler failed | the copy ends up equal to Stripe's; every event takes effect |
| Workspaces, members, invitations | Workspace, WorkspaceMember, WorkspaceInvitation | create, archive, restore, delete, invite, accept, revoke, change role, leave | two owners leaving at once; a seat counted before it is taken; an archive racing a schedule | an owner remains; seats and workspaces stay within the plan; nothing goes out of an archived workspace that was not on its way |
| Autopilot (`services/autopilot.service.ts`) | AutopilotSettings, AutopilotSlot, Post | plan, sweep, write, route, approve, reject, retry, pause | slots claimed by several workers, pause racing scheduling | one writer per posting time; held posts stay; every time is decided |
| Content strategy, AI generation, Analytics (`contentStrategy`, `performanceInsights`, `analytics`, `aiGeneration` services) | ContentStrategy, AiUsage, AnalyticsSnapshot, PerformanceReport | generate, edit, activate, delete; collect, report | activations crossing, two workers' weekly reports, an allowance read long before it is counted | one active strategy; one report a week; paid answers are kept |
| Posts, files and media (`services/post.service.ts`, `file.service.ts`, `src/frontend/src/config/media.ts`) | Post, PostVersion, File, stored objects | edit, restore, AI rewrite, delete; upload, remove; attach | copies saved over each other, versions pruned, a file gone before it is sent | the current version exists; an edit is not lost; the post sent is whole |
| Brand profile (`services/brandProfile.service.ts`) | BrandProfile | draft, save or skip a step, complete | teammates' copies overwriting each other | no step lost, a completed profile stays completed |
| A person's browser (`src/frontend/src/lib/api.ts`, `lib/authToken.ts`, `services/notifications/useNotificationStream.ts`) | the refresh cookie; each tab's access token, request and stream | refresh under a lock, retry, sign in and out, load | tabs' tokens expiring together; answers that set cookies arriving in any order | nobody is signed out whose login is good; who has no login left is |
| Notifications (`services/notification.service.ts`, `realtime/`, `src/frontend/src/services/notifications/`) | Notification, streams, each tab's list | notify once, push, fetch, mark | pushes lost, fetches overtaken by events | told once, and every tab ends up showing what is stored |
| HTTP layer, e-mail and contact, configuration, administration lists, React pages | none that several actors race on | | | |

**How they interact.** Scheduling a post calls `schedulePublish`, which creates Schedule,
PublishJob and queue entry; the worker's `runPublishJob` asks Autopilot whether it is paused,
the workspace whether it is archived, the social account for a fresh token, and the provider to
publish; it then writes back to the post, tells Autopilot (`onPublished`) and notifies. Archiving
a workspace cancels its live schedules. Suspending a user ends their sessions and, at the
callback's re-check, their logins at platforms. A browser's tabs share the cookie the session's tokens live in. A billing account's plan limits workspaces,
seats, connected accounts and AI generations.

## 2. Modules

| Component | Modules (specification) | Proofs | Instances |
|---|---|---|---|
| Scheduled publishing | `PublishRecords` (records, types) ← `PublishRun`, `PublishRecovery`, `PublishRequests` ← `Publishing` (composition, queue, faults, fairness) ← `PublishProperties` ← `PublishInvariant` | `PublishSafety` | `MCPublishing` |
| Social providers | `Platforms`, refining the abstract `PublishOnce` | `PlatformsSafety` | `MCPlatforms` |
| Notifications | `Notices`; `Outcomes` composes `Platforms` and `Notices` | | `MCPlatforms` |
| Social accounts | `TokenRefresh` | `ConnectionsSafety` | `MCConnections` |
| Connecting accounts | `Connecting` | `ConnectionsSafety` | `MCConnections` |
| Sessions, suspension | `Sessions` | `UserAccountsSafety` | `MCUserAccounts` |
| The browser's side of a session | `Browser` | | `MCBrowser` |
| Billing | `Billing` | `BillingSafety` | `MCBilling` |
| Members, invitations, seats | `Team` | `UserAccountsSafety` | `MCUserAccounts` |
| Autopilot | `Autopilot` | `AutopilotSafety` | `MCAutopilot` |
| AI allowance, strategies, insights | `AIUsage` ← `Strategies`, `Insights` ← `Guidance` (composition) | `GuidanceSafety` | `MCGuidance` |
| Posts, versions, files | `Posts` | `WorkbenchSafety` | `MCWorkbench` |
| What a platform takes, picker to provider | `MediaRules` | `WorkbenchSafety` | `MCWorkbench` |
| Life of workspaces | `Workspaces` | `WorkbenchSafety` | `MCWorkbench` |
| Brand profile | `Profiles` | `WorkbenchSafety` | `MCWorkbench` |

`Workbench` puts `Posts`, `Workspaces`, `MediaRules` and `Profiles` side by side: they share no
record one of them changes under another, so a behaviour is about one of the four while the
others rest. So do `Connections` (`TokenRefresh`, `Connecting`) and `UserAccounts` (`Sessions`, `Team`). They exist
to check small models in one run; nothing is claimed about the products.

Each action carries the lines it translates in `PROJECT.json` under `map`, which also lists every
component with its status and every hazard with the properties about it. In all modules a request,
run or sweep is an actor with a `pc` naming the call it makes next and the local variables it
still needs; a step is one call with everything the code does until the next one.

### Scheduled publishing

One post. `schedule[s]`, `job[s]` and `entry[s]` are the Schedule document, its PublishJob
and the BullMQ job of that PublishJob: `createJob` is only called by `schedulePublish`, so
they are one to one. `attempt[s][n]` is the PublishAttempt of the n-th claim. `actor[a]` is
where run or sweep `a` is and its locals (`n` the claim's number, `why` the classified error,
`seen` the copy of a status it read earlier). `request[h]` is the same for an API request.
`posted[s]`, a history variable, counts what the platform really published.

A run goes `Deliver` → `ReadJob` → `ReadSchedule` → `ReadAttempts` → `CheckWorkspace` →
`CheckPause` → `ClaimJob` → `ClaimSchedule` → `MarkPublishing` → `LoadPlan` → `Connect` →
`MarkSent` → `Call`, then either `SaveSuccess` → `FinishJob` → `FinishSchedule` →
`FinishPost` → `Hooks`, or `SaveFailure` and then the retry (`UnclaimSchedule` →
`RequeueJob` → `MarkScheduled` → `Rethrow`) or the failure (`FailJob` → `FailSchedule` →
`FailPost`). A sweep takes one abandoned job at a time (`TakeAbandoned`) and then one overdue
one (`FindDue`); the code walks a list it read beforehand and re-reads or conditions every
write, so the model lets a pass pick any job that matches when it gets there.

* **Time.** `scheduledAt`, delays and backoff are "any finite time". `lockedAt` is null, fresh, or
  older than `PUBLISH_LOCK_TIMEOUT_MS` (stale). The heartbeat (`startLockHeartbeat`) is the guard of
  `LockExpires`: a lock only ages when no actor is at work on the job. This assumes that no live
  process pauses for longer than the timeout between two of its calls.
* **Errors** are what `classify` makes of them: retryable, permanent or unknown outcome; `Platforms`
  says which answer becomes which. `Call` may also publish and still report an unknown outcome
  (timeout). `LoseAnswer` publishes and reports a *retryable* failure: `providerFetch` sets
  `outcomeUnknown` only for timeouts. A refused write (`StoreError`) after the platform answered
  enters the same `catch` as a failed call, where `classify` calls it permanent.
* **Locks** are held under `WORKER_ID` (host and pid): every run of one process shares a name.
* The `schedulePublish` check for a live schedule is the unique index (`CreateSchedule` is refused).
* After a crash, actors restart in their first step: the process is restarted.

### Social providers and notifications

`Platforms` follows one post through up to `MaxAttempts` attempts: `Flow(content)` is the sequence of
requests a provider makes for it, `Answer`s are success, refusal, rate limit, a server's error, an
expired token and a timeout, and each becomes the error the provider throws. The verdict is the
worker's: try again, fail, or ask a person to review. `Hides` says after which answers the platform may
have carried the request out all the same, `StatusFaults` how TikTok's status requests fail. TikTok
finishes in its own time (`Process`). `PublishOnce` is the promise in two variables: it appears at most once,
is called published only when it is there and failed only when it is not and will not be.
`Notices` keeps the documents, Redis' message in flight, each tab's stream, its list, its fetch and
its mark in flight. `Outcomes` adds the one call that ties them: the verdict's notification. Assumed: one
API server and workspace, fewer notifications than a page, list and count read in one step, no half-open
streams, no worker dying between verdict and notification.

### Social accounts and connecting

`TokenRefresh` is one account on a platform that rotates refresh tokens. `account` is the document;
`user[c]` an operation in some process with its copy and the paths mongoose would save (`dirty`);
`platform.current` the generation of tokens the platform would still refresh; `age` how close each
generation is to its expiry. A use goes `Load` → (`Acquire` → `Reload` → `Refresh` → `SaveTokens` or
`SaveFailure` → `Release`) → `Operate` → `SaveOutcome`; `LoadExpiring` is the worker's sweep;
`Disconnect` and `Authorize` → `StoreConnection` are people. `Set` and `Save` are mongoose's: a path is
modified when a *different* value is set, and only modified paths are written. `Age`: operations
take minutes and tokens live for hours, so no operation sees a token age twice. `LeaseExpires`:
`REFRESH_LEASE_MS` is longer than a refresh may take, so a lease runs out only when its holder died.

`Connecting` has flows (one OAuth state each), drafts, accounts and requests; a callback claims its
state, re-checks the person, spends the code, lists what the login covers and stores one account or
keeps a draft for the choice. A use of an account (`BeginUse` → `ReloadTokens` → `SaveRenewed`, `SaveRefused`,
`SaveReloaded` or `FinishUse`) works on the copy `withAccount` read; `changed` are the paths `reloadTokens` changed in it, which
its next save writes with the status a failure sets (`Updated`), also over a disconnection made meanwhile. Every save goes through
`Store`. Here tokens are there or not, and who may renew is left to `TokenRefresh`. Assumed: starting a login is one step; one way of
signing in per behaviour; which credentials are configured, consent URL, PKCE and the re-encryption of tokens after a key rotation are left out.

### Sessions

`tokens` is the sequence of RefreshToken documents (family, reason it is over, successor, and in
history fields how old the account read for it was and who issued it), `account` holds
`tokenVersion` and suspension, `jobs[r]` the requests. Histories: `ended` are logins that were over
with nothing in progress, `revoked` the latest version at which all sessions were ended, `abused` whether a token came back late.

`Browser` is the client of that: `tabs[t]` what a tab shows, its access token (the `version` it was issued at), the
request it makes with the answer on its way, its refresh and its stream; `jar` the one cookie; `queue` the
tabs that hold or wait for the browser's lock; `strays` requests nobody waits for any more. The server acts on a
request in one step. Assumed: one account; a tab makes one request besides its refresh; a refresh is granted, refused or lost, never answered 429 or 5xx (section 6).

### Billing, team, workspaces

`Billing`: `stripe` is the external truth (status and a revision per subscription), `account` the
copy, `events` the StripeWebhookEvents with their claim, `syncs[j]` a synchronisation by a handler, the timer
or the user; mongoose's `__v` conflicts and the three tries are there. `Team`: members, invitations and seats,
one request per actor, with the re-read and undo of an owner's removal. The two queries of `countTeamSeats` are two steps,
either answered first: `CountSeats` reads one, `CheckRoom` or `CheckSeat` the other, and both compare with the plan read before
them (`ReadPlan`). Assumed: an invitation's link
reaches the invitee after the requests in flight when it was made are over; it does not expire while
being accepted. `Workspaces`: up to two workspaces with one post each, the plan's limit, requests of
owner and editor, one worker. Assumed: updating a workspace's details changes nothing here; teams are in `Team`.

### Autopilot

One day. `slots[s]` is the AutopilotSlot with its lock, `posts[p]` the post a slot has for a platform with
its review state and live schedule, `settings` status and failure count, `workers[w]` a worker's sweep,
`person` the one request in progress. Whether the AI's text passes repeat and quality checks is an
outcome, posting times are given. A lock is stamped with the start of its worker's sweep and never renewed: a worker may be `late`
(`Overrun`, "delays" in an opening), and the next sweep then takes over the slot it is writing (`Stale`). Such slots are in
`settings.overrun`, and the properties except them. A failed scheduling is cancelled and the post held, but the cancellation may fail as
well (`CancelFailed`): the post is then held with its schedule live (`cut`). Assumed: a time becomes past while a worker is in the middle of
its slot only when that worker is late, and never while a request is in progress; a slot somebody writes is not cleared by new settings (`Clearable`); the reads at the start of a sweep, `start`, `updateSettings` and
`retry` are one step each, a post and its first version are created in one; the API does not die between
two statements.

### Strategies, insights, AI allowance

`AIUsage` is what every use of AI goes through: allowance looked up, provider asked, answer counted.
`Strategies` has the versions in the order created and the requests over them; `Insights` the workers' slow loop:
metrics of the account and each post ("new" until the collection interval has passed), the week's
report, and reports on demand. Assumed: one billing period and owner, plan includes analytics, reading and
storing a snapshot is one step, the role is the one read at the request's start.

### Posts, media, brand profile

`Posts`: one post, its versions and the library, requests on their copies, and the publish run as it
reads the post. Assumed: fewer than `Limit` versions are added while one request is between its create
and its save; a batch's records are inserted all or none. `MediaRules` is four sets of rules (picker,
API, scheduling, provider) over one post. Only the kinds of file the rules tell apart are in the
library, and `Several` = 2 stands for the limit of ten attachments. `Profiles`: teammates' drafts, steps
and completion, one field for those of each step. A version conflict on whole-list saves is mongoose's `__v` check.

## 3. Hazards and properties

`PROJECT.json` lists the hazards of this code at their lines. The properties are about what several
actors do to each other; each module keeps one type invariant, joined to a safety property where
it would be a run's only shallow one. Names that join parts (all parts are definitions of their own):

| Property | Parts | Promise |
|---|---|---|
| `ChangesAreSafe` | `SafeToReschedule`, `SendingIsNotCancellable` | what failed or was cancelled is not on the platform; nothing is cancelled while it is sent |
| `SchedulesSettle` | | every live schedule ends; after a crash no open job of a live schedule stays |
| `RefreshesAreSafe` | types, `NothingSpentTwice`, `HealthyNeedsNoReconnecting` | until someone reconnects, and unless a grant was lost or a late save undid what others did |
| `RevokedStaysRevoked` | `TypeOK`, `EndedStaysEnded`, `NoRefreshEscapes` | an ended login has no live token; no refresh outlives a revocation of all |
| `TeamHolds` | types, `OwnersRemain`, `InvitationsWorkOnce` | |
| `PeopleDecide` | `AutopilotTypeOK`, `HeldPostsStay`, `FailuresPause` | Autopilot sends nothing a person kept, and stops after too many failures |
| `PostsHold` | types, `CurrentStands`, `EditsAreKept`, `RecordsHaveObjects` | the current version exists, an edit that was answered is there until pruned, a file on record is stored |
| `ConnectingHolds` | types, `CodesAreUsedOnce`, `LoginsConnectOnce` | |
| `ConnectionsAreAllowed` | `OnlyAdminsConnect`, `AccountsWithinPlan`, `ConnectedHasTokens` | the plan is exceeded only beside others that took a slot since the count; no save but one of reloaded tokens leaves an account connected without any |
| `StrategyKept` | types, `OneActive`, `ActivationsKeepOne` | |
| `NothingTwice` | `AIWithinPlan`, `OneWeeklyReport` | overrun of the allowance is bounded by the uses in progress |
| `WorkIsKept` | `EditorsLeaveActiveAlone`, `GeneratedIsStored` | |
| `WorkersKeepUp` | `PostsAreRead`, `WeeksGetTheirReport` | |
| `NoticesHold` | types, `NotifiedOnce`, `ShownOnce`, `NobodyIsMisled` | |
| `OutcomesSettle` | `CallsEnd`, `TabsCatchUp` | |
| `TabsShareTheLogin` | types, `NothingIsReplayed`, `ExpiryCostsNothing` | tabs never present an exchanged token, and nobody is signed out while their login is good, unless answers are lost |

## 4. Runs

`Budget`, `Openings`, `Beginnings` and `Stories` say what may happen in a behaviour and how often;
what they do not name does not happen. Each opening puts one race under the glass, and TLC
explores all of them in one run. Deadlock checking is off everywhere because
every behaviour ends when all is settled and the budget is spent.

| Run (module) | Bounds | Shows |
|---|---|---|
| `Recovery` (`MCPublishing`) | 2 schedules, 2 runs in 2 processes, a sweep, 1 request, `MaxAttempts` 1, `MaxClaims` 3; a crash and a second delivery; a forgotten entry, a second delivery and a refused write; a second delivery and a broken connection | `IInv`, `NoBlindResend`, `PostsOnce`, `NoRevival` |
| `People` (`MCPublishing`) | 2 schedules, 1 run, no sweep, 2 requests, `MaxAttempts` 2; archive; archive and pause; the API dies | `UnknownIsNotRetried`, `ChangesAreSafe`, `NoOrphans` |
| `Progress` (`MCPublishing`) | 1 schedule, 1 run, a sweep, `MaxAttempts` 2, `MaxClaims` 4; a forgotten entry and a second delivery; a crash | `SchedulesSettle` |
| `Platforms` (`MCPlatforms`) | every content on every platform, valid or not, 3 attempts, 3 polls, only timeouts hide; 3 causes, 2 tabs, 1 stream per person; an open tab watches a post that goes out at once, one that TikTok posts in its own time and one that its platform rules out | `RetriesFindTheAccount`, `ImplementsPublishOnce`, `NoticesHold`, `OutcomesSettle` |
| `Connections` (`MCConnections`) | tokens: 2 processes, 3 uses, 2 agings, a disconnection, a reconnection, a fault, 3 generations; connecting: 2 logins, 2 requests at a time, 2 people, 2 accounts, limit 1, ways of YouTube (one account), Instagram (two exchanges) and Facebook (several pages), 5 openings, one with a use of an account that is disconnected under it | `RefreshesAreSafe`, `TokensNeverGoBack`, `ConnectingHolds`, `ConnectionsAreAllowed` |
| `UserAccounts` (`MCUserAccounts`) | sessions: 4 requests: two refresh, one is a sign-out, reset or reactivation, one a change, sign-in or suspension; team: 5 users (2 owners, an editor, 2 outsiders), 4 requests, 4 seats; role changes and removals against each other; two invitations and an acceptance; one or two acceptances of a link with a removal, a revocation or a further invitation; the plan may shrink by a seat | `RevokedStaysRevoked`, `OnlyReuseIsPunished`, `TeamHolds`, `TeamWithinPlan` |
| `Browser` (`MCBrowser`) | 2 tabs, 7 openings: expiries, a lost answer, a reload, a sign-out elsewhere, sign-outs and sign-ins here, a password change | `TabsShareTheLogin`, `TabsSettle` |
| `PasswordChange` (`MCBrowser`) | 2 tabs, one changes the password | `FreshSessionForThisDevice` is violated (section 6) |
| `Billing` (`MCBilling`) | 1 webhook handler beside timer and user, 2 subscriptions, 2 upsets (each a change at Stripe, a failed call, a crash, a claim that expires under a slow handler, or the timer meeting another synchronisation) | `BillingTypeOK`, `LiveSubscriptionKept`, `CopyCatchesUp`, `EventsSettle` |
| `Autopilot` (`MCAutopilot`) | 2 posting times, 2 platforms (one needs media), 2 workers, 2 attempts, pause after 2 failures, 9 openings, two of them with a sweep that outlasts its locks | `OneWriter`, `PeopleDecide`, `SlotsSettle` |
| `Guidance` (`MCGuidance`) | 2 workers, 2 posts (one gone from the platform), 2 weeks, quota 1, 3 tries at a version number, 7 openings | `StrategyKept`, `NothingTwice`, `WorkIsKept`, `WorkersKeepUp` |
| `Workbench` (`MCWorkbench`) | post: 2 requests at a time, 3 files, version limit 4; 2 workspaces of which the plan allows 1 active, 7 beginnings; 6 kinds of file; 3 wizard steps, 4 stories | `PostsHold`, `RecordStays`, `SentWhole`, `WorkspacesHold`, `NothingGoesOut`, `MediaHolds`, `ProfilesHold` |

**Why these bounds are enough.** In publishing all deliveries meet in conditional updates on a single
job, so two runs show every race between them; two attempts show a retry followed by the limit; `MaxClaims`
is `MaxAttempts` plus the crashes and releases a run allows and never cuts a behaviour short; the
second schedule is what a person creates when rescheduling. A lease, a lock or a unique index is contended by two; a third
use of an account lets one process come back while the other still works. Three tokens of a login are what a rotation,
its retry within the grace period and a racing revocation need. Two subscriptions are an old and a
new one. Two posting times are what a limit per day or week needs. Three generations
and one more collide on a version number until the tries are used up. A version limit of 4 makes pruning
happen after two edits. Two weeks show that the second gets its own report. Three polls are one, several, and giving up.
Interchangeable ids are symmetric in the runs that check only safety.

### Fairness

Only what a running deployment gives; no request, no fault and nothing a person does is fair.

* **Progress**: a process that is up finishes what it started (weak, on the steps of runs, sweeps and
  requests); BullMQ hands a waiting job to an idle worker (strong for `Deliver`, workers are
  busy in between) and notices a stalled one; the sweep that `worker.ts` repeats reaches every job it
  keeps finding (strong for `TakeAbandoned`, `FindDue`); time passes (strong for `LockExpires`).
* **Billing**: handlers, requests and the timer go on; a claim left behind gets old; Stripe
  redelivers what was not answered with success, for days.
* **Platforms**: every request ends with an answer or at its timeout (`providerFetch` aborts); Redis and
  the subscription come back; a tab reconnects, its requests end, and the server closes streams
  after their lifetime. A fetch's answer is strong because an event may cancel the fetch again and again.
* **Autopilot**: timers fire again, publish runs and requests end, time passes.
* **Browser**: requests are answered and answers arrive, locks are handed on, access tokens expire, pages poll.
* **Guidance**: each worker's slow loop keeps running and intervals pass.

## 5. Proofs

For every value of the constants, under the named assumptions of the modules (`ActorsAssumption`,
`BoundsAssumption`, `NoneAssumption` of `PublishRecords`; `BoundsAssumption` of `TokenRefresh`; `MayAskAssumption`
of `Sessions`; `BoundsAssumption`, `FaultsAssumption` of `Platforms`; `WizardAssumption`, `StoriesAssumption` of `Profiles`; `FilesAssumption`,
`BoundsAssumption` of `Posts`; `SpacesAssumption`, `BeginningsAssumption` of `Workspaces`; `SeveralAssumption` of `MediaRules`;
`ConnectingAssumption`, `WaysAssumption` of `Connecting`; `BillingAssumption` of `Billing`; `GuidanceAssumption` of `Guidance`; `AutopilotAssumption` of `Autopilot`; `TeamAssumption` of `Team`). They say that parameters are
of the right kind: that a workspace has finitely many accounts, that the timer and a user's request are not webhook handlers,
that the service may be where an opening puts it, that an account has finitely many workspaces and begins within its plan. `FewWriters` is a hypothesis of one theorem: no more generations at once than
tries at a version number (one more is paid for and lost, section 6). `FewChanges` is one of `Team`'s: at most two requests of an
opening change roles or remove members (three can leave no owner, section 6), while any number invite, revoke and accept.
`Timely` and `FewEdits` are of `Posts`: no request is overtaken, between taking a version number and saving, by as many versions as
a post keeps (the delayed save would point at a pruned one), which `FewEdits`, no more edits in all than that, guarantees; the run has four of four.
Two hypotheses of publishing are about the behaviour so far: `Unharmed`, no worker died, no write failed and no connection broke; `Undisturbed`, besides,
the queue gave no job to two workers at once and lost no entry. Each is needed (section 6); the openings of `People` have none of these faults, so that what
that run checks of two requests and one run is what the theorems say of any number.

| Theorem (module) | States |
|---|---|
| `TypeCorrect` (`PublishSafety`) | `Spec => []TypeOK` |
| `Discipline` (`PublishSafety`) | `Spec => []IInv` |
| `OneSenderAlways`, `NoBlindResendAlways`, `NothingIsRevived` (`PublishSafety`) | `Spec => []OneSender`, `[]NoBlindResend`, `NoRevival` |
| `PostedOnceAlways` (`PublishSafety`) | `Spec => []PostsOnce` |
| `ChangesAreSafeUnlessHarmed` (`PublishSafety`) | `Spec => [](Unharmed => ChangesAreSafe)` |
| `NoOrphansUnlessDisturbed`, `UnknownIsNotRetriedUnlessDisturbed` (`PublishSafety`) | `Spec => [](Undisturbed => NoOrphans)`, `[](Undisturbed => UnknownIsNotRetried)` |
| `RefreshingIsSafe`, `TokensOnlyGetNewer` (`ConnectionsSafety`) | `Spec => []RefreshesAreSafe`, `TokensNeverGoBack` of `TokenRefresh` (and `TokensTyped`) |
| `RevocationLasts`, `ReuseIsProved` (`UserAccountsSafety`) | `Spec => []RevokedStaysRevoked`, `[]OnlyReuseIsPunished` of `Sessions` |
| `TeamIsKept`, `SeatsAreKept` (`UserAccountsSafety`) | `FewChanges => (TeamSpec => []TeamHolds)`, `TeamWithinPlan` |
| `AccountsHold` (`UserAccountsSafety`) | `FewChanges => (UserAccountsSpec => [](RevokedStaysRevoked /\ OnlyReuseIsPunished /\ TeamHolds) /\ TeamWithinPlan)`: the composition that is checked |
| `PublishesOnce`, `AccountIsFound` (`PlatformsSafety`) | `OnlyTimeoutsHide => (Spec => ImplementsPublishOnce)`, and `[]RetriesFindTheAccount`: `Platforms` implements `PublishOnce` |
| `PostsAreKept` (`WorkbenchSafety`) | `Spec => [](PostsTypeOK /\ EditsAreKept /\ RecordsHaveObjects) /\ RecordStays` |
| `HistoryIsKept`, `FewEditsKeepHistory` (`WorkbenchSafety`) | `Spec /\ []Timely => []PostsHold /\ SentWhole`, and the same from `FewEdits` |
| `WorkspacesAreKept`, `MediaIsKept` (`WorkbenchSafety`) | `Spec => []WorkspacesHold /\ NothingGoesOut`, `[]MediaHolds` |
| `ProfileHolds`, `ProfilesAreKept` (`WorkbenchSafety`) | `ProfilesSpec => ProfilesHold`, and `Spec => ProfilesHold` |
| `ConnectingIsSafe`, `ConnectingIsAllowed` (`ConnectionsSafety`) | `ConnectingSpec => []ConnectingHolds`, `ConnectionsAreAllowed` |
| `ConnectionsAreSafe` (`ConnectionsSafety`) | `ConnectionsSpec => [](RefreshesAreSafe /\ ConnectingHolds)`: the composition that is checked |
| `BillingTypes`, `LiveIsKept` (`BillingSafety`) | `BillingSpec => []BillingTypeOK`, `LiveSubscriptionKept` |
| `OneWriterAlways`, `PeopleAlwaysDecide` (`AutopilotSafety`) | `AutopilotSpec => []OneWriter`, `[]PeopleDecide` |
| `GuidanceIsSafe` (`GuidanceSafety`) | `Spec => []GuidanceInv`, the inductive invariant of `Guidance` |
| `StrategyIsKept`, `NothingIsTwice`, `WorkIsNeverLost` (`GuidanceSafety`) | `Spec => StrategyKept`, `[]NothingTwice`, `WorkIsKept`; the last under `FewWriters` |

**Publishing.** `OneSender` alone is not inductive: nothing in it says why the second run would fail to
claim. `IInv == Secure /\ OrderlyUnlessHarmed /\ OneHandUnlessDisturbed` adds what the code relies on without
writing it down; `Secure == TypeOK /\ LiveIsOnItsWay /\ LockDiscipline /\ SendsAreCounted` holds under all faults. In `LockDiscipline` a job is locked exactly while it is PROCESSING; a run between
its claim and the end of its work has a fresh lock in its own name for as long as the job is open,
and is the only one there (`OneHolder`); an unanswered attempt is the holder's own
(`HolderOwnsUnresolved`); a job that waits, or that a sweep or a failing run is about to put back,
has none (`WaitingIsQuiet`, `SweepHasLooked`, `GivingUpIsQuiet`); and a run that has looked at the
attempts and may claim a stale lock has seen none (`ClaimantsHaveLooked`). `LiveIsOnItsWay` relates a
schedule's status to its `isLive`. Crashes keep it because they only send actors home,
`LockExpires` because of the heartbeat. `NoRevival` follows from `LiveIsOnItsWay` at each write to a schedule.

`PostsOnce` needs to know that a schedule that was sent is not sent again, which is `SendsAreCounted`: a run that may still
call the platform finds the schedule unsent, except for those sends that a fault excuses (`SendersFindItUnsent`); a job
that was sent once more than faults excuse is closed, or the only run at work on it holds a fresh lock and is about to close it
(`SentIsSettled`). A fault that excuses a send is a worker's death or, with more than one attempt, a broken connection, which the
code retries; `BudgetIsSpent` lets them be counted, and `HoldersAreNumbered` says that who holds a lock has claimed an attempt. The step that matters is the call: it adds one
to `posted`, and its caller now has only steps before it that close the job. `Recovery` has one attempt, where a
broken connection excuses nothing; the theorem holds for any number.

`OrderlyUnlessHarmed` is what `ChangesAreSafe` needs: that what the person sees of a schedule is true of its post. While nothing died, every job
that is PROCESSING has a run at work on it (`Attended`); hence no lock grows stale (`LocksStayFresh`), sweeps put back lost entries and take nothing over
(`SweepsOnlyRequeue`), one run at a time is between a job's claim and its schedule's (`OneClaimant`), who sends has taken the schedule first
(`SendersTookIt`), and a post that is out is known to the run that finishes it (`SentIsKnown`). `OneHandUnlessDisturbed` is what `NoOrphans` and
`UnknownIsNotRetried` need: a run is at work on the entry it was handed and nobody else is (`EntriesAreOwned`), so that a schedule is taken exactly
while its run holds it (`TakersHaveIt`, `TakenIsHeld`), who stops a schedule finds it stopped before the job is dropped (`OffOnlyWhenOver`), the job of a
live schedule is there and open (`LiveHasJob`, `OpenWhileLive`), and an unknown outcome closes it (`UnknownCloses`).

**Sessions.** `RevokedStaysRevoked` says of an ended login only that nothing of it is live; a refresh
between its claim and its new token would break that one step later. `SessionsInv` therefore says that an
ended login has no refresh on its way (`Closed`, with `~Rotating`), what each request knows at each of its steps
(`JobInv`: a token it claimed is not live again, one it issued is as old as the account it read, who is about to
punish has reason to), and that a token leaves `LIVE` once and never returns. The lemmas fall into the four ways a step touches documents:
none, one in place, many in place, one new; new tokens of a family are only made by a refresh that makes it `Rotating`.

**Platforms.** `PlatformsInv` ties the platform's state to the step of the flow: elsewhere than on TikTok a post
is there exactly once the request that publishes has been answered (`OthersAgree`); TikTok has at most the
last attempt's upload (`OneUpload`) and the post is there when that upload is complete (`TikTokAgrees`). `FlowShape` is what the
proof needs of the ten flows. The assumption `OnlyTimeoutsHide` is where code and platforms disagree (section 6).

**Profiles.** A save writes what a copy changed, so the invariant says how a copy stands to the profile
(`Current`: the same steps as long as the version is the same) and what a request may make of its copy (`Fair`). `Filled` says that the required fields
are filled in unless a draft crossed the completion.

**Posts.** `PostsInv` says of each request what it may rely on at its step (`Fits`): what it is about to save is stored under its name or too old
to matter, what it prunes by has been reached, who writes to a post that is on its way was at work before the claim (`late`), and a post being deleted
has no schedule. A step that loses nothing young (`HistoryStays`) and asks nothing new of requests (`Steady`) keeps all of it; the lemmas show that of every
action. That the current version is stored needs `Timely` at one step each of create and save. `RoomLeft` derives it from `FewEdits` by
counting: the latest number, requests that may still add a version and edits to come together never exceed where the post began by more than the limit.

**Workspaces.** What is due about a workspace (an owner, members or posts to be cleaned away, an invitation or Autopilot to be stopped) is owed by a request
that will do it, unless one died over it (`DutiesAreOwed`); a workspace that has yet to get its owner is nobody else's (`Untouched`). The plan
is a sum: active workspaces and requests that looked and have yet to add one (`PlanFits`) stay below the plan and those that look at once. `NothingGoesOut`
follows from `RunFits`: a run that finds the workspace not active has not claimed its post.

**Media.** What is acceptable stays so with fewer files, hence when one is deleted; what the picker lets a person add keeps the selection acceptable; and what was
scheduled stays acceptable unless something it needs was detached: the worker's plan fails for that or for a file that left the library, and the provider refuses only what nobody checks. `Spec` is the composition that is checked: each of the four keeps its part while the others rest.

**Connecting.** `ConnectingHolds` says that a login's code is exchanged by its own browser only and once, and that nothing is stored twice
for one login; it does not say why a second request cannot. `ConnectingInv` adds what each request may rely on at its
step (`Knows`: who it acts for was an admin when it began and holds the browser's cookie (`Vouched`), the login or draft it carries
was spent by nobody else (`Unspent`), the slot it takes was free but for those taken since it counted (`Counted`)), that one request at a time
carries a login's code or tokens (`OneCarries`: claiming the state and taking the draft are each one conditional update), that a
login nobody came back from has left no trace (`Untouched`), and that a browser is bound to a login it started (`CookiesBind`). The
count of used slots is a cardinality: a save, of a login or of a use, adds at most one account to it, and every other save in progress has
that one in its `since` (`StoreStep`). `ConnectionsAreAllowed` follows from `Vouched` and `Counted` at the save, and `ConnectedHasTokens` from what
each kind of save writes (`CopyBare`): a status other than CONNECTED, tokens, or what was reloaded.

**Billing.** `LiveSubscriptionKept` is about the document at the time of the save, while the guard looks at the copy that
was loaded. `BillingInv` bridges the two: as long as no save came in between (`current`, the document's version), what a
synchronisation compared with its copy is what is stored (`UpToDate`); every save makes the others no longer current, and a save that is not
current conflicts and loads again. `Related` and `Placed` say that events, copies and the account are of subscriptions Stripe has.

**Token refresh.** That nobody presents a spent token takes more than one holder of the lease (`OneHolds`). Mongoose saves what a copy
changed, so the invariant says what is stored (`AccountIsNewest`: no tokens, or the newest the database has had, which are the platform's
unless they are still to be saved or were lost) and what each copy has modified and why, by step (`RefreshKnows`): who waits knows tokens
that were due for renewal, who asks the platform holds the newest (`Presents`), who gives up has seen them lapse, and who leaves
without asking may still carry reloaded tokens to save (`Leaves`), which are then the newest, and fresh. All of it holds as long as nothing else hands
out or brings back tokens (`Calm`: no reconnection, and no save that set `undone`), and every step either keeps it or ends the calm.
The argument found the condition: without `undone` the invariant is not inductive, and TLC shows the behaviour (section 6, Tokens).
`ConnectionsAreSafe` puts both halves of `Connections` together, each resting while the other steps.

**Guidance.** That a workspace keeps an active strategy is a promise of the request that took the old one away: while none is active
though one was, some request is about to restore one, or died over it (`SomebodyRestores`). `OneActive` needs what each request may still write
(`RequestsFit`) and that version numbers tell versions apart. The allowance is a count over everybody between look-up and use
(`Spending`: uses made and in progress never exceed the quota by more than all but one of them). `WorkIsNeverLost` counts the other way: a request that lost
a number lost it to a writer that is finished, so tries are never used up before writers are (`Paid`).

**Team.** `OwnersRemain` speaks of a team at rest; in between there may be no owner at all, namely when both requests have made
their change before either counts again. `TeamInv` says what then brings one back (`OwnerComesBack`): a request that took an owner away and
has yet to count or undo, whose undoing cannot fail: a demoted owner is still the document it loaded, a removed one is not a member, and nobody can
let him in meanwhile (`Barred`: every invitation to him was made while the removal was in progress, and a link is opened later than that). Why that
request is there takes the order of both changes: while both are to come, owners are those there always were and each request has seen one
more (`BothEarly`); when one is to come, it leaves an owner or takes the last one, who was never away (`LastEarly`) and so was never invited
(`NeverAway`); a request that took no owner away saw one left (`NotTaken`); and nobody makes a change after one that is being undone (`UndoIsLast`).
`TeamWithinPlan` follows who may be in the team by the time a request whose seat was checked is done (`Coming`: members, those about to join
or to come back, and those invited before it). They are no more than the seats it was checked against (`SeatsSuffice`), and nobody joins their
number behind its back: when invitations were counted first, whoever is still invited at the second query was in the first answer
(`CountedFirst`), and who is in neither answer is `Uncounted` and added to the seats; an invitation made since is opened later (`LettersKnown`, `OpenedLate`), and everybody else who joins was invited already.
`AccountsHold` puts `Sessions` and `Team` together, each resting while the other steps.

**Autopilot.** That one worker writes for a posting time takes more than the lock: who has a slot in hand keeps it through routing
(`OneHandler`), where the slot is GENERATED, and a sweep may skip a locked slot under its worker, but only when its time is no longer far away, so that
nobody claims it again (`SlotsHeld`, `WorkersInTime`). The invariant speaks of the slots outside `settings.overrun`: a sweep takes a slot from a live worker
only by putting it there. `HeldPostsStay` needs to know which posts a worker may still schedule (`ToRoute`), and that
a post a pause found scheduled is none of them (`PauseFits`): a pause reads SCHEDULED posts, a post is saved SCHEDULED when its worker is
done with it, and a slot is written once. `HeldPostsRest` is stronger than the property: a request at work on a post is no excuse unless it approves it.
`FailuresPause` names the worker that reached the limit and excepts only a worker that died between counting and pausing (`unpaused`); without the
exception the argument fails, and TLC shows the behaviour (section 6).

Model-checked only: every liveness property (fairness and ENABLED are beyond the prover), and the safety properties of
`Browser` and `Notices`. Induction over data and recursive definitions are out of the prover's reach; the models avoid them.

## 6. Where the code and its documentation disagree, and what the models show besides

One run expects a violation (`PasswordChange`, below); the other properties are stated as the code keeps them, and this
section says what they leave out and why. Each item follows from the actions of its module.

**Publishing.** A worker that dies after marking the attempt SUCCEEDED and before marking the job
(`services/publishing.service.ts:833`) leaves only answered attempts, and the job is sent again, although
`src/readme.md:1271` says that a retry never publishes twice; `PostsOnce` grants one more per dead worker, and per broken connection that is retried.
`schedulePost` queues first and saves its copy last (`services/post.service.ts:779`): a post due at once is
PUBLISHED by then and becomes SCHEDULED, hence editable (against `constants/post.constant.ts:38`). A worker that dies between finishing the job and
finishing the schedule (`publishing.service.ts:963`) leaves the schedule live for good, because recovery looks
at open jobs only. A connection that breaks after the platform took the post counts as retryable and the post
goes out again (so `connectionReset` runs with one attempt). Recovery frees the job before it resets the schedule; a worker that claims both in
between has its schedule put back to SCHEDULED and a person can cancel what is being sent. An unknown outcome whose
attempt was closed before the crash is retried. A database error while recording a success ends as FAILED
without review. An API process that dies between schedule and job leaves a schedule nothing will send. A pause after the
worker's check does not stop the call. One redelivery alone leaves a live schedule without a job: a call fails and is to be
retried; before its run gives the schedule back, BullMQ hands the job to a second run, which finds the workspace archived, leaves the schedule
alone because it is PROCESSING, and cancels the job once the first run has put it back. It also lets an unknown outcome be tried again. These are why
`UnknownIsNotRetried`, `ChangesAreSafe`, `NoOrphans` and `SchedulesSettle` are checked, and the first three proved, without those faults.

**Platforms.** TikTok's status request answering 429 or 5xx, or not at all, throws a retryable error, and the next
attempt uploads a second video (`tiktok.provider.ts:586`, against its comment at 575); a connection reset during YouTube's
`uploadBytes` is retryable (against the comment above it); LinkedIn and Meta treat a 2xx without an id as retryable; a 5xx after the effect likewise.
`Hides` and `StatusFaults` say which of these a run or theorem admits; both admit timeouts only.

**Notifications.** A push lost while the API's Redis subscription is down leaves a live tab stale until the server's
hourly reconnect (`realtime/notificationBus.ts:60` says clients refetch when they reconnect, but theirs never broke). A
fetch overtaken by an event drops it; `markRead` cancels a catch-up fetch; "mark all" marks what was never seen. More tabs than
streams evict each other about every second. `TabsCatchUp` promises what the hourly reconnect repairs.

**Tokens.** `models/socialAccount.model.ts:39` and the comment at `socialAccount.service.ts:344` say that one process refreshes at a time. `refreshTokens`
ends with `account.set({ refreshLockedUntil: null })` on a copy read under another's lease
(`socialAccount.service.ts:394`), and the next save of that copy (`recordFailure`, :299) writes null over the lease of a third: two
processes refresh at once, the second with a token the first has spent, and a healthy account is marked for reconnection. An early refresh that fails because the platform is
down, and goes on to use the account, is such a save. Likewise that save brings back tokens that somebody's disconnection deleted meanwhile, when they were reloaded. The history variable `undone` says
that this happened; `PresentedOnce`, which does not except it, is violated with four uses and two faults.
A disconnect or reconnect during a refresh is overwritten by the refresh's save (:299); a process that dies between grant and save loses
the only refresh token. The properties hold until the first reconnection, as long as no grant is lost and nothing was undone.

**Connecting.** The account limit is checked when a login starts, so a workspace at its limit cannot start to reconnect an account it
has (against the comment near `socialAccount.service.ts:680`). A disconnect crossing a reconnect leaves a DISCONNECTED record that
holds tokens, and one that was found in use, with its tokens refused, takes its slot back without being counted. So does a use:
`recordFailure` (`socialAccount.service.ts:299`), the save of a renewal (:446) and `testConnection` (:1142) write to a copy read before the platform answered, so an account
disconnected during its call or renewal is EXPIRED, REAUTH_REQUIRED, ERROR or CONNECTED again and takes a slot nobody counted; a login
that counted before goes beyond the plan by it (`AccountsWithinPlan` counts it in `since`). A use whose reload found the tokens
deleted writes null over those of a reconnection made before its save, and may leave CONNECTED without tokens (`ReloadedInPart`, which `ConnectedHasTokens` excepts). With logins in two tabs, finishing the older fails, spends its state and clears the cookie, so that the newer fails too. A second page of
the listing that is empty makes the first page's account keep the user's token.

**Sessions.** A rehash at login (`auth.service.ts:108`) may write the old hash over a concurrent change. A login that read the
account before a password change or a suspension issues a token that survives it: the properties speak of refreshes. Two live tokens
come out of one when a retry within the grace period overlaps the first rotation (`token.service.ts:154`). A sign-out
while that login is being rotated leaves a live token (hence `ended` counts only logins with nothing in progress). SUSPENDED is not among `SESSION_ENDING_REASONS`.

**Browser.** `FreshSessionForThisDevice` is what `src/frontend/src/services/auth/useChangePassword.ts:5` promises ("returns a fresh
one for this device"). The controller answers a refused refresh by clearing the cookie whatever it holds by then
(`controllers/auth.controller.ts:59`): a second tab's refresh sent with the old cookie while the password change is being answered takes
the new session's cookie away, and the person is signed out once the access token expires. Likewise a lost answer costs the
login when the client's 15 s timeout outlasts the server's 10 s of grace; any failure of a refresh after a 401 ends the tab's session (`src/frontend/src/lib/api.ts:102`), also the rate limit's
429 (`routes/auth.route.ts:55`) or a server's error, which are not modelled; and a refresh in flight during a sign-out
gives the tab an access token after it.

**Billing.** A live subscription that was ignored in favour of the stored one is not picked up when the
stored one ends until its own next event or a refresh. A slower fetch may overwrite a newer copy; `CopyCatchesUp` says that it does not last.

**Team.** Three overlapping role requests (promotion, demotion, an owner leaving) can leave no owner (`workspaceMember.service.ts:102`,
against its comment at 101); the run makes two. The billing owner need not be an owner after races. Seats: `countTeamSeats`
runs two queries (`entitlement.service.ts:177`): somebody who claims and joins between them may be in neither answer, and the plan they are compared
with was read before. It counts members and pending invitations, so between the claim of an invitation and the membership (`workspaceInvitation.service.ts:237-252`) it counts
neither, nor an owner whose removal is about to be undone; a seat checked in between is one too many (`Uncounted`: members and returning owners in neither answer, whom `TeamWithinPlan` adds).
An acceptance by a member is not checked at all (`workspaceInvitation.service.ts:232`): one that was
being removed meanwhile comes back without a seat, and the property leaves it out (`Checked`).

**Autopilot.** A crash between `schedulePublish` and the post's save leaves a held post with a live schedule, and so does a cancellation that
fails after the scheduling failed (`autopilot.service.ts:1043` only logs it, against the comment above it): the post waits for a person and goes out at its time all the same
(`posts[p].cut`). `lockedAt` is the start of the whole sweep (:1151, :1463) and is not renewed: four AI calls with retries per slot, for all
workspaces, may take longer than `generationLockTimeoutMs`, and the next sweep then gives a slot that is being written to a second worker
(`settings.overrun`): two writers, perhaps two posts of one time, and what a pause overlooked may stay. Recovery routes posts without their review remarks, so quality remarks are lost. The
daily cap is checked before scheduling. A rejection between schedule and mark leaves SCHEDULED without, or READY with, a live
schedule; `unscheduleForPause` may put a post that was just published back to READY; two retry requests may make two writers (the run has one request at a time). A worker that dies
between counting a failure and pausing leaves Autopilot running on until the next failure counts (`autopilot.service.ts:1130`; `unpaused`).

**Posts.** An AI rewrite or an edit that read the post before its claim saves after it, and the published post shows text that
was not sent. Two edits with one `baseVersion` may both pass. A deletion that overlaps scheduling may send the deleted post. The storage
quota is checked before it is used. A crash inside `deletePost` leaves a post without versions.

**Media.** Scheduling does not check a platform's text lengths (LinkedIn 3000, Instagram and TikTok 2200, YouTube 5000 bytes; a post may have
10,000), YouTube's title (100 against 200), hashtags, or Instagram's 8 MB image: the provider refuses these when
the post is due. Removing an attached file from the library, or detaching what a platform needs, after scheduling makes the worker stop with MEDIA_MISSING or
MEDIA_INVALID (`publishing.service.ts:786`). `OnlyTooMuchIsRefused` lists both kinds and says there are no others.

**Guidance.** `deleteStrategy` has no status in its filter: an editor can delete a draft that just became active. `restorePrevious`
may revive a version archived by another activation. A crash between archive and activate leaves none active. A fourth concurrent generation
fails after the AI was paid. The losing worker pays for a weekly report nobody sees; a crash before the notification loses it.
A sweep that dies after its first snapshot makes the workspace look fresh for six hours.

**Brand profile.** Clearing a required field while a teammate completes leaves COMPLETED with a gap (`crossed` excepts it). Wizard drafts
send every field, so two teammates' drafts overwrite each other.

**Workspaces.** Deletion after reading ARCHIVED deletes a workspace restored meanwhile. Overlapping creations and restorations exceed the plan by
those in progress. Archiving saves its copy of each post, so a post published meanwhile may become READY and be sent
again. The worker's cancellation in an archived workspace leaves the post SCHEDULED with nothing behind it. A request let in before
may schedule afterwards; the worker refuses it while the workspace is archived. A server that dies in the middle of a creation leaves a workspace without owner.

**Administration.** Lists and filters by plan ignore granted plans (`services/admin.service.ts:88`, against its comment at 85) and so
disagree with the detail views. Nothing changes state here, and it has no model.

## 7. Not modelled, and why

* **Of modelled services**: public shapes of answers, lists, filters, the calendar, reports and statistics over
  snapshots; prompts and schemas of the AI; validators; prices, booked downgrades, granted plans and `customer.deleted` of billing;
  Autopilot's computation of posting times and its audit trail; deciding insights; e-mail verification; re-encryption after a key rotation.
  They are text or read-only, or one conditional update no other step depends on.
* **Administration** apart from suspension: searches, counters and details.
* **HTTP layer**: Express plumbing. Role and workspace checks are part of the requests in each module.
* **E-mail and contact form**: sends and forgets.
* **Configuration and scripts**: start-up; the unique indexes declared there are guards of the actions that rely on them.
* **Front end**: a tab's session, notification list and the media picker are modelled; the rest is React pages over the API, and the server decides every question of state.

The mapped lines are about 15 % of the implementation. The rest is the list above: more than a third of the lines are React components,
and within the services the code between the state changes is shaping, validation and wording. Mapping it would
widen definitions over lines they do not translate.

What would come next: proofs for `Browser` and `Notices`; granted plans in `Billing`.
