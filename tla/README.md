# A TLA+ model of Vaiform

Vaiform turns a story into a short video. A user writes a script, the API
searches clips for its sentences, generates the narration, renders a preview
and accepts a *finalize* request: it reserves render time of the account and
puts a durable job into a Firestore collection; worker processes claim jobs
under leases, render, and settle or release the reservation. Subscriptions at
Stripe give the account its time.

Money, leases, retries and several processes meet in the paid render; it is
modelled first and proved about. Around it the project models the other
protocols that share its state (voice syncs, previews, webhooks, providers),
the session document and what is made of it (timelines and films), and the
web page that drives all of it: its requests, its clip picker, its player.
Paths below are relative to the repository, that is `src/services/...` is
`src/src/services/...` from the parent of this directory.

- [The system](#the-system)
- [Plan](#plan)
- [Modules and how they correspond to the code](#modules-and-how-they-correspond-to-the-code)
- [Runs](#runs), [Bounds](#bounds), [Fairness](#fairness)
- [Theorems](#theorems)
- [Where the code and the documents differ](#where-the-code-and-the-documents-differ)
- [Not modelled](#not-modelled)

## The system

### Components

| Component | State it keeps | Operations | Talks to | What makes it correct |
|---|---|---|---|---|
| **Finalize attempts** `story-finalize.attempts.js` | `idempotency/{uid:key}` attempt documents; `storyFinalizeSessions` lock documents; the account's reserved time | prepare (admission), claim, mark started, heartbeat, queue for retry, settle, fail, reap | workers, API, usage ledger | one active attempt per session; a lock never outlives its attempt; an ended attempt never changes; each reservation is given back once |
| **Finalize worker** `story-finalize.runner.js`, `workers/story-finalize.worker.js` | in-process set of jobs in flight, timers | drain queue, run attempt, reap on a timer, SIGTERM | attempts, story pipeline | one executor per live job; every accepted job ends |
| **Finalize admission** `idempotency.firestore.js` | none of its own | replay, conflict, backpressure, enqueue, persist the pending projection | attempts, control, session | backlog stays near its limit; a request that fails after enqueueing gives its reservation back |
| **Finalize shared control** `finalize-control.service.js` | render slots, provider slots with cooldown, in Firestore | backlog count; acquire, heartbeat, release and reap a slot; mark provider success or failure | attempts, story pipeline | at most *n* live holders of a slot; a lost holder does not keep it |
| **Usage ledger** `usage.service.js` | `users/{uid}.usage`: included, used, reserved | availability, delta, canonical summary | attempts, webhook, usage routes | used + reserved covered by the plan; reserved = what active jobs hold |
| **Stripe webhook** `stripe.webhook.js` | processed event documents, plan and period | checkout, renewal, cancellation | ledger | an event is applied once; it grants one period at most |
| **Story sessions** `story.service.js` | `story.json`, loaded and saved whole | generate, plan, search, sync, preview, finalize, edit | everything | an edit is not undone by a slow handler; a short is rendered from the session it is billed for |
| **Voice-sync attempts** `story-sync.attempts.js` | sync attempt documents, reserved time | prepare, settle, fail (no reaper) | ledger, sessions | a reservation is released on every path |
| **Draft preview** `story-preview.attempts.js`, `story-preview.runner.js` | preview attempts and lock | prepare (superseding), claim, heartbeat, settle, fail, reap | sessions, worker | a superseded preview does not overwrite the newer one |
| **Plan guards** `planGuards.js` | daily counters | free short limit, script cap | routes | the counter does not pass its limit |
| **Render semaphore** `render.semaphore.js` | count of renders in this process | acquire, release | story pipeline | never above its maximum, never below zero |
| **Finalize status** `finalize-status.service.js` | none | compose the answer to a poll or a finalize from session, lock and attempts | attempts, sessions | what is told of an attempt was so |
| **Providers** `story.llm.service.js`, `tts.service.js`, `*.videos.provider.js` | counters and caches of each process, failure records here and in Firestore | admission, search, synthesis | control, sessions | a call gives back what it takes; a failing library is left alone; a failure is not an answer |
| **Observability and dashboard** `finalize-observability.js`, `finalize-dashboard.service.js`, `internal/finalize-dashboard/app.js` | counters of a process; the page's copy of an answer | count what became of a request and a job; read the queue, judge it, show it | attempts, control | what is counted of a job adds up; a verdict stands over the data it was drawn from |
| **Narration** `story.service.js`, `tts.service.js`, `elevenlabs.adapter.js`, `karaoke.ass.js` | sound and times of each sentence in storage, lengths in `story.json` | speak, store, time captions, fetch, light words | sessions, providers, films | what is stored of a sentence is of one take; words are lit while they are spoken |
| **Timelines and films** `story.service.js`, `ffmpeg.*.js` | cuts of a session, files of a render | plan playback, trim, slice, overlay, join | sessions | a timeline covers its story without gap; the film is the timeline of the story it was made of |
| **Web client** `creative.article.mjs` | the page's copy of the session, its busy flags, the clip drawer, the player | summarize, prepare, sync, edit, choose clips, render, play | API | the page never stays busy; a story is charged once; a chosen clip is one that is offered; what is shown is what was asked for last |

HTTP routing, authentication, caption drawing and storage are in the repository
too; `PROJECT.json` lists them with the reason they have no
module or only part of one.

### How they interact

A finalize request is a chain of separate reads and transactions: existing
attempt, session lock and estimate (reads), backlog (a query), the admission
transaction, the pending projection in `story.json` (load, save), the answer
202. From then on the client only polls. Any number of worker processes run a
claim loop (query the queue, then one claim transaction per document), one
task per claimed job, a heartbeat timer per task, and a reaper on a timer of
its own (query active attempts, then one failure transaction per stale one).
They meet in the attempt and lock documents, in the ledger and in `story.json`;
only the first two are written under transactions throughout.

A voice sync does all of that inside one HTTP request, with attempts and locks
of its own and without a reaper. A preview has a queue, runners and a reaper
like a finalize job, but claims and ends its attempts by plain writes, and a new
request supersedes the attempt of an older one. Both save the session they
loaded. Every render and every call of a provider that a job makes passes the
slots of the shared control; the webhook and the usage summary change the
account that all of them charge.

### Hard behaviours

- **A decision on a copy, a write on the document.** The claim loop judges
  `availableAfter`, the reaper the lease, admission the backlog, on what a
  query returned; the transaction that follows re-reads only part of it.
- **Two owners of one job.** A worker whose lease ran out keeps rendering; the
  reaper, an API request whose projection failed, and the worker itself can
  all try to end the same attempt.
- **Partial failure.** Each step of a task can throw, also the transaction that
  would have recorded the failure; a process can die between any two steps.
- **Whole-document saves.** `story.json` is loaded, changed and saved with no
  version check by every handler.
- **A ledger with several writers.** Admission, settlement, release, Stripe and
  a summary that writes back, outside a transaction, what it read.
- **Retries.** `SERVER_BUSY` puts a job back with a back-off and a new
  execution in its lineage.
- **Events late, twice and out of order.** Stripe delivers until it is answered
  200; a handler applies what it retrieved before its transaction. Media events
  of the page's two video elements arrive after the user has moved on.
- **One page, several functions.** The page's functions await answers in any
  order, lose them, poll, give up, and share its globals and busy flags.
- **What goes with what.** Shots, clips, cuts, captions and narration are
  parallel lists of one document, changed by a dozen operations.

`PROJECT.json` lists each hazard at its line with the properties that cover it.

## Plan

The order follows the weight of what can go wrong: money and job state first.

| # | Module | Content | State |
|---|---|---|---|
| 1 | `FinalizeAttempts`, `FinalizeProperties` | queue, workers, reaper, lock, ledger, session output | written |
| 2 | `PaidRender` | abstract promise to the account; refined by 1 | written |
| 3 | `FinalizeAttemptsProofs`, `FinalizeBooksProofs`, `Totals`, `TotalsProofs` | type, locks, holders, lineage, terminal, backlog; the ledger and the refinement of 2; the invariants of 19 | written |
| 4 | `RenderLease` | render slots of several processes and the local semaphore | written |
| 5 | `ProviderLease` | provider slots, spacing of calls, quota cooldown | written |
| 6 | `Membership` | Stripe events, periods, plan changes, the usage summary | written |
| 7 | `StorySync` | a voice sync with its reservation, lock and session | written |
| 8 | `StoryPreview` | superseding previews, non-transactional claim and settlement | written |
| 9 | `StorySession` | the session document under all its operations | written |
| | `StoryProofs` | the invariants of 7, 8 and 9 | written |
| | `ServicesProofs` | those of 5, 6, 10, 13 and 20 | written |
| 10 | `PlanGuards` | the daily script counter | written |
| 11 | `StoryTimeline`, `StoryRender` | cuts, timelines, and the films made of them | written |
| 12 | `StoryboardPlayer` | the two-element player of the page | written |
| 13 | `ClipSearch` | libraries, their caches and failure records | written |
| 14 | `FinalizeStatus` | what a caller is told of the attempts of a session | written |
| 15 | `StoryPage` | the functions of the page from script to film, with lost and late answers | written |
| 16 | `ClipPicker` | the drawer that searches and chooses clips, and its handlers | written |
| 17 | `CaptionCards` | previews of captions, their batched writes, and the captions of the film | written |
| 18 | `CreativeShell` | the steps of the creative page, their button, and the functions that must tell it | written |
| 19 | `FinalizeMetrics`, `ControlRoom` | what is counted of jobs; the dashboard, its verdict and its page | written |
| 20 | `Narration` | what is spoken of a story, in what order it is stored, what a film hears and how its words are lit | written |
| | `FilmProofs` | the invariants of 11 and 17 | written |
| | `PageProofs` | the invariants of 4, `StoryPage`, `FinalizeStatus`, `StoryboardPlayer` and `ClipPicker` | written |
| | `EditorProofs` | the invariant of 18 | written |

`MC` modules instantiate them. Parts that share nothing are checked side by side
in one run: the behaviour is of one of them, chosen at the start.

Every safety property that a passing run checks has its theorem but `HighlightsFit`,
which is arithmetic over sequences ([below](#what-is-not-proved)). What is left to
state are refinements of smaller promises than `PaidRender`.

## Modules and how they correspond to the code

**`FinalizeAttempts`** is the state machine. Its variables:

| Variable | In the code |
|---|---|
| `docs` | attempt documents `idempotency/{uid:key}`; `None` when there is none. `short` and `billed` are what settlement records, `executions` the embedded `executionAttempts` lineage |
| `locks` | `storyFinalizeSessions/{sessionId}` |
| `usage` | `users/{uid}.usage` in ms: `cycleIncludedMs`, `cycleUsedMs`, `cycleReservedMs` |
| `video` | `session.finalVideo` of each `story.json`, named by the attempt that rendered it |
| `api` | where each finalize request stands and what it has read |
| `status` | whether a worker process is up. An incarnation that stops never returns: a restart is another member of `Runners` |
| `seen`, `reaping` | the query snapshots of the claim loop and of the reaper |
| `task`, `held` | where `runAttempt` stands for each job, and the session it has loaded |
| `summary` | what each usage summary has read and will write back |
| `editing` | what each other handler that loads `story.json` and saves it whole has loaded |

One Firestore transaction is one action (Firestore gives them serializable
isolation and retries the callback); what was read *before* it lives in a
variable, so others can act between.

| Actions | Code |
|---|---|
| `PrepareChecks`, `CheckBackpressure`, `PrepareTx` | `idempotencyFinalize`, `prepareFinalizeAttempt` |
| `PersistPending`, `PersistPendingFails` | the pending projection after enqueueing and its failure path |
| `PollQueue`, `PassOver`, `Claim` | `drainQueue`, `claimNextFinalizeAttempt` |
| `MarkStarted`, `Heartbeat`, `LoadSession`, `SaveSession`, `RenderBusy`, `RenderSucceeds`, `TaskThrows`, `Settle`, `QueueForRetry`, `FailTask`, `TaskDies` | `runAttempt` and the steps of `finalizeStory` |
| `ReapSnapshot`, `ReapNothing`, `ReapExpired`, `ReaperThrows` | `reapStaleFinalizeAttempts` |
| `EditSession`, `OpenSession`, `SaveOpened` | other handlers of `story.json` |
| `RenewPeriod` | the webhook and the expiry of a cancelled plan |
| `ReadUsage`, `WriteUsage` | `ensureCanonicalUsageState` |
| `Tick` | time |

What is abstracted, and why it does not matter to the properties:

- An instant is the time left until it. `Tick` lowers every countdown, also
  those in copies, which is what comparing a copied instant with `Date.now()`
  amounts to. Clocks of different processes are assumed to agree.
- The queue is a set: the query orders by creation and takes ten (the reaper's
  a hundred); the instances hold fewer documents, and a claim loop may pass to
  any of them, so every order the code can produce is included.
- Early answers of the API (replay, conflict, 402, locked session) write
  nothing and are stutters. The reads before the backlog check are merged into
  `PrepareChecks`: none of them is used after the transaction has read them
  again, except the estimate, which is kept.
- A heartbeat whose transaction finds another runner or state writes nothing.
- Settling an attempt already `done` returns its result in the code; here the
  task goes to `failing`, whose transaction then writes nothing either.
- A charge of 0 stands for a video without a usable duration, on which
  settlement throws.

**`FinalizeProperties`** states what is promised. **`PaidRender`** is the
abstract specification: a job is held, then charged or released, once; the
ledger moves with it. The refinement maps a document to a job (`JobOf`) and
hides leases, executions, copies, workers and requests.
**`MCFinalizeAttempts`** fixes one account and the symmetry sets.
**`FinalizeAttemptsProofs`** holds the theorems.

**`RenderLease`** is the pool of render slots: what `withSharedFinalizeRenderLease`
does around each render, with `withRenderSlot` inside it.

| Variable | In the code |
|---|---|
| `slot` | documents `finalizeControlRenderSlots/render-slot-N`: `executionAttemptId` and the time left to `leaseExpiresAt`; `Free` for a released, expired or unused one |
| `pc`, `proc`, `got` | where the call stands for an execution, in which process, with which slot |
| `due` | `leaseExpiresAt`, which acquiring computes before it reaps; it also gives the `nowMs` that is compared with the leases later |
| `wipe` | slots the reaper has read as run out and not yet reset |
| `beat` | a heartbeat between its read and its write |
| `activeRenders` | the counter of `render.semaphore.js` in each process |
| `lapsed` | history, not in the code: slots a lease has ever run out on |

| Actions | Code |
|---|---|
| `ReadSlots`, `WipeSlot` | `reapExpiredSharedRenderLeases`, called by `acquireSharedRenderLease` |
| `Acquire`, `FindNoSlot`, `AcquireThrows` | the transaction of `acquireSharedRenderLease` and its outcomes. `AcquireThrows` is also the control room's snapshot, which reaps and acquires nothing |
| `EnterRender`, `LeaveRender` | `withRenderSlot` |
| `ReleaseRead`, `ReleaseWrite`, `ReleaseThrows` | `releaseSharedRenderLease` |
| `HeartbeatRead`, `HeartbeatWrite`, `HeartbeatFails` | `heartbeatSharedRenderLease` |
| `Crash` | a worker that is killed or exits on a signal |

An owner is one `executionAttemptId`, which renders once. A heartbeat or release
looks through the slots one by one and stops at its own; since an owner leases
one slot at a time, only the read of that slot matters and the scan is one
step. An owner has one heartbeat in flight at most (the interval is much longer
than a write). A late heartbeat on a free slot leaves a `leaseExpiresAt` there
that nothing reads. `Crash` stands for every end of a process, also for a
heartbeat that rejects: the isolated worker has no handler for it.

Its theorems are in `PageProofs`.

**`ProviderLease`** is the admission of jobs to the providers they share:
`withOpenAiAdmission`, `withStorySearchAdmission` and the part of `synthVoice`
between admission and release.

| Variable | In the code |
|---|---|
| `lease` | documents `finalizeControlProviderSlots`; `forgotten` is history: its release failed or its process died |
| `state` | `finalizeControlProviderStates`: `cooldownUntil`, `nextAllowedAt` |
| `call` | where the call of each execution stands, with the age of the clock it has read |
| `busy` | `activeOpenAiRequests`, `activeStorySearchRequests`, `ttsLock` of each process |
| `blocked` | `quotaBlockedUntil` of each process |
| `quiet` | history: time since the last admission |

`Ask` and `ResetExpired` are the reaping that precedes an admission, `Acquired`
and `NotAcquired` its transaction, `Enter`, `Refuse` and `Returns` the local
limit, `Succeeds`, `MarkSuccess`, `QuotaUsedUp` and `MarkQuota` what speech
synthesis records, `FindOwn`, `FreeOwn` and `ReleaseFails` the release.

**`ClipSearch`** is a search of the stock libraries: `searchSingleShot`,
`callProviderSearch` and the three `*.videos.provider.js`.

| Variable | In the code |
|---|---|
| `memo` | the map `mem` of each library's module in each process |
| `health` | `providerSearchHealth` of each process |
| `shared` | `finalizeControlProviderStates` of the libraries |
| `search` | where each search stands; `copies` is history: answers that were kept failures |
| `record` | history: failures in a row and the time since the last |

A library is passed by (`StartSearch`), left alone, answered from the memo, or
asked; it replies, fails or refuses; for a finalize job the outcome is recorded
in Firestore (`RecordSuccess`, `RecordFailure`, `RecordThrows`) before it
counts. The ranking of clips is left out.

**`StorySync`** is `POST /api/story/sync`.

| Variable | In the code |
|---|---|
| `story` | `story.json`: the text, `voiceSync.state` and the text of the stored narration |
| `attempt`, `syncLock` | documents `storySyncAttempts`, `storySyncSessions` |
| `request` | where each request stands and what it has loaded |
| `opened` | the copy another request is changing |
| `ledger`, `rendering` | the account's time, and what finalize jobs have reserved of it |
| `report` | the ledger that each usage summary has read and will write back |

`Preflight`, `AnswerPrepared`, `StartSync`, `Refresh`, `SaveNarration`,
`SettleSync`, `FailSync` are the steps of the handler; `SyncThrows`,
`SettleThrows` and `RequestLost` its failures; `ReadLedger` and `WriteLedger` are
`ensureCanonicalUsageState`. A text stands for a script, and
the narration of a story is known by the text it speaks; beats are told apart
in `StorySession` instead.

**`Membership`** is the paid plan of an account: `stripe` and `sent` are
Stripe's side, `handler` a webhook request between its retrieval and its
transaction, `processed` the event markers, `user` the account document,
`holds` and `consumed` what renders and syncs hold and have been charged,
`summary` a usage summary between its read and its write. `Pay`, `Renew`,
`Delete` are Stripe's; `Retrieve`, `Apply`, `ApplyAgain`, `HandlerThrows` the
webhook's; `TakeTime`, `ChargeTime`, `ReturnTime`, `ReadSummary` and
`WriteSummary` the ledger's. A period is named by when it ends. How often a summary
was written over a change it had not read is counted (`overwritten`).
`GrantedOncePerEvent` says that an event grants the time of one period at most, and
such a write as much again. It is once per event and not once per period: a checkout
that is handled after the renewal retrieves the renewed period, and grants it again.

**`PlanGuards`** is `enforceScriptDailyCap`: `scriptDay` and `scriptCount` of the
account, `todayKey` the day a request has taken before its transaction.

**`StoryPreview`** is the draft preview of one session: the handler of
`POST /preview`, `story-preview.attempts.js`, the runner with its reaper, and
`renderStoryDraftPreview`.

| Variable | In the code |
|---|---|
| `draft` | `story.json`: its content, and `draftPreviewV1` with state, fingerprint and attempt |
| `preview`, `holder` | documents `storyPreviewAttempts`, and the lock `storyPreviewSessions` |
| `caller`, `runner`, `reaper` | where requests, renders and reapers stand, with the copies they hold |
| `writing`, `saves` | another request that loads and saves the session, and how often |
| `lockLost` | history: an attempt deleted a lock that named another |

**`StorySession`** has one variable, `session`: the document with the script
(`text`), `plan`, `shots`, `captions`, the narration of each beat (`beats`),
`voiceSync`, cuts and the final video. An operation of `story.service.js` is an
action: `Generate`, `UpdateScript`, `InsertBeat`, `DeleteBeat`, `UpdateBeat`,
`PlanShots`, `SearchShots`, `ChangeClip`, `UpdateCuts`, `Restyle`,
`TimeCaptions`, `SyncCached`, `SyncGenerating`, `Render`. Since each loads,
changes and saves the document whole, overlapping requests lose changes but
reach no document that single steps do not reach; so operations are atomic here
and their races are in `StorySync`, `StoryPreview` and `FinalizeAttempts`.

**`StoryTimeline`** has no variables: it is the arithmetic of cuts
(`boundariesToCutTimes`, `resolveStoryVideoCutsPlan`, `buildAutoVideoCutsV1`,
`computeVideoSegmentsFromCuts` and its variant for automatic cuts). Time is in
half seconds; the heuristics that choose where beats merge are a parameter,
over all of whose results the instances quantify. What the code accumulates
along the beats, the start of a beat and how much of a clip was shown, is a
`Total` over the beats before.

**`StoryRender`** makes films and previews of them.

| Variable | In the code |
|---|---|
| `tale` | `story.json`: clips, cuts, and the length of each narration (`narration.durationSec`) |
| `spans` | the lengths of its captions, by which the page's timeline goes (`buildBeatDurationsFromSyncedCaptions`) |
| `work` | the render that is going on |
| `video` | the last video made: the film of each beat as the sequence of its half seconds, each a moment of a clip |

`SelectClip`, `SendCuts` and `Rewrite` edit the story, the last with the sync that must
follow. `TimeByReading` is `POST /captions`: captions by reading speed, while the voice
stays current. `SyncAgain` is a sync of unchanged sentences, in another voice or all over
again: a film is kept. The first parts the page's timeline from the narration, the
second a film from both. Trimming, slicing, overlays with the retry without the colour filter, beats that
fail and errors are actions. `NextPictures` is what a beat gets: a slice of the reel, or
its clip from the beginning, prolonged to the end of the narration in a preview, by
`MaxPad` at most in a film, and not at all when the clip could not be measured. That a
film leaves a deficit of up to a quarter of a second is below the grain of the model.
A render over an older film is one more render, and only the last video is kept.

**`Narration`** is the speech of a story: what `synthVoiceWithTimestamps` brings, what
`syncStoryVoice` stores of it and what `renderStory` makes of that.

| Variable | In the code |
|---|---|
| `script` | `story.json`: sentences, captions, narration of each beat, state and fingerprint of the sync |
| `revision` | the copy that another operation has loaded and will save |
| `sound`, `times` | objects `{fingerprint}.mp3` and `{fingerprint}.json` in storage |
| `sync` | a sync: the copy it has loaded, beats to speak, the take it has got, what it has stored |
| `reel` | a render: its copy, and of each beat the sound it has fetched, the times and what lights its words |
| `takes`, `edits` | bounds |

`Speaks` is an answer of the provider, `NoSpeech` none; `Timestamps` is what the adapter
reads in one (`elevenLabsSynthesizeWithTimestamps`, five forms of answers). `StoreSound`,
`StoreTimes` and `SyncSaves` are the three writes of a sync, with `SyncStops` between any
of them. `FetchSound` and `LightWords` are `buildStoredRenderBeat`; `Highlights` is
`buildKaraokeASSFromTimestamps`, with the search for words in timed letters (`Matching`,
`PlaceOf`, `WordTimes`), scaling and rounding (`Lit`, `Hundredths`) and the shares of words
without times (`Shares`). Letters are names, and their case is left out. A fingerprint is the sentence it
is made of, as there is one voice. `doubted` is history: the prints under which a copy of
the session may describe another take than the one that is stored.

**`FinalizeStatus`** is what a caller is told: `job` has the state of each
attempt document's projection (`FinalizeAttempts` says how it comes about),
`born` their order, `note` is `session.renderRecovery`, `copying` the session
another handler will save back, `render` and `reaped` where worker and reaper
stand with the note and the end of each attempt, `asker` a request. `AskStatus`,
`ReadLock`, `ReadLocked`, `ReadHinted`, `ReadLatest` are the reads of
`getCanonicalFinalizeStatusForSession`; `AskFinalize`, `Admit`, `ProjectPending`
and `LoadReplay` what precedes them in a finalize; `NotePending`, `NoteDone`,
`NoteFailed`, `NoteReaped` write the note, `EndJob` and `ReapJob` the attempt.

**`StoryboardPlayer`** is the player of the page: `timeline` of the current
session, `audio` the narration, `card` the highlighted card, `player` the two
slots and their video elements with the events that wait for their handlers. A
handler is one action, as the page has one thread.

**`StoryPage`** is the article page at work: each of its functions that await is
a process that runs to its next `await` in one step, as the page has one thread.

| Variable | In the code |
|---|---|
| `page` | the globals: `id` and `shown` for the session, `script`, `draft`, the flags of buttons, the render banner, `syncing` of the preview |
| `flow` | where `summarizeArticle`, `prepareStoryboard`, `retryStoryboardPreviewSync`, `commitBeatTextEdit`, `renderArticle` stand, and the request each has under way |
| `story` | the sessions at the API, with what a finalize key has been used for |
| `typing` | whether the timer of the script's input handler is set |
| `acts` | acts of the user so far |

`Serve` is the API at work on a request, `Refuse`, `Lose` and `TimeOut` what else
becomes of it, `JobEnds` the worker's film. `SyncStep` and `VoicePollStep` are
`runStorySync` and its polls, `FinalizeStep` and `FilmPollStep` those of a film,
with the answers `isRecoverableFinalizeResponse` tells apart.

**`ClipPicker`** is the drawer of a beat, on a draft and on a session: `kept` the
shots as stored, `desk` the page's copy, its cards and the drawer, `asks` its
requests. `Load` and `Handle` are the handlers of `/search-shot`, `/update-shot`,
`/insert-beat` and `/delete-beat`, which load and save the session whole;
`SearchAnswered`, `PickAnswered`, `BeatsAnswered` and `GivesUp` what the page does
with their answers; `Open`, `NewSearch`, `MoreClips`, `PreviousClips`, `ClickClip`,
`ChangeBeats` and `SessionOfDraft` what the user does.

**`CreativeShell`** is the frame of the page: four steps, and one button whose
meaning depends on them.

| Variable | In the code |
|---|---|
| `shell` | the globals and controls: `currentCreativeStep`, the script's field and `originalScript`, the session's id and what is shown of it, the buttons that are off, the last rendering of the button; `deaf` is history: the source was typed since |
| `jobs` | where each function that awaits an answer stands |
| `shelf` | the sessions at the API: text, scenes with clips, whether the narration is current |
| `moves` | acts of the user so far |

`StepOpen` is `getCreativeStepStates`, `NearestOpen` `normalizeCreativeStep`,
`Action` and `Throws` `getCurrentShellAction`, `Synced` `syncCreativeStepShell`,
`StepSet` `setCreativeStep`. A function is two actions or more, `Click...` up to
its first await and `...Answered` for what each answer leaves it with, which
includes that drawing the shell throws and what follows is skipped. The API
answers at the moment of its answer, since `StoryPage` has the crossings.

**`CaptionCards`** is what becomes of captions: `story` the session as stored with
the caption metadata of each beat and the captions of its film, `page` the page's
copy, `flows` the runs of `applyAllPreviews` and of debounced previews, `timers` the
debounced ones to come, `cache` the previews kept, `writes` and `posts` the batches
that are queued and under way with what `beatRequestVersions` tells of them.
`AskPreview`, `PreviewArrives`, `NoPreview`, `ShowCached`, `Expire` are the previews,
`Queue`, `Flush`, `MetaAnswered`, `MetaFails` the writes, `UpdateCaptionMeta` and
`HandleEdit` the API, `DrawAgain`, `AskEdit`, `AskStyle`, `TextAnswered` and
`StyleAnswered` the user's doing, `Film` the job. The lines of a caption are
abstracted to the sentence and the style they are compiled from; a style to
whether its color was chosen and whether it has a placement, which is what
makes the hash of a preview's style differ from the film's.

**`FinalizeMetrics`** is `emitFinalizeEvent` (`finalize-observability.js`) where the middleware,
the tasks and the reaper call it. A request, a job and its end are recorded in one
step and told in another, and between them a call can throw and a process can die.

| Variable | In the code |
|---|---|
| `record` | attempt documents: a job's state, the worker that has it, its claims |
| `thread` | where requests, tasks and reapers stand, with which job and how |
| `swept` | the reaper's snapshot |
| `outcomes`, `counter` | `finalize_api_requests_total` and the counters of jobs |
| `unheard` | history: what was recorded by one that does not tell it |

`Ask`, `TurnAway`, `Prepare`, `Project` and `Reply` are a request; `ClaimJob`, `Work`,
`Requeue`, `SettleReads`, `SettleEnds` and `SettleTells` a task; `Scan` and `Sweep` the
reaper. Who ends a job as failed does it by `FailReads`, `FailEnds` and `FailTells`,
each of whose calls may throw (`GoOn`, `GiveUp`); `Crash` is the death of a process.

**`ControlRoom`** is `finalize-dashboard.service.js` and the page that shows it.

| Variable | In the code |
|---|---|
| `clock` | `Date.now()` |
| `work` | attempt documents: state and when it was queued last |
| `renders`, `supply` | render slots and the states of providers |
| `bands` | `phase6-threshold-summary.json`: absent, without ranges, or with them |
| `load` | the loads of the page: where they stand and what they have found; `seen` and `supplied` are history, what was so meanwhile |
| `viewer`, `page` | who is signed in; the banner and the load whose data is shown |

`ReadQueue`, `ReadBacklog`, `ReadRenders` and `ReadSuppliers` put an answer together
(`buildFinalizeDashboardPayload`), in any order, judged by the clock that was read first.
`Cards`, `Health` and what follows them are its verdict; `Arrive`, `Conclude`, `Refresh`,
`ChangeUser` and `Show` the page, `QueueMoves`, `RendersMove` and `SupplyMoves` what
changes under it. A part's reads and writes are one step: what happens between them is
of `RenderLease` and `ProviderLease`.

**`MCServices`**, **`MCProgress`**, **`MCStoryPreview`**, **`MCStorySession`**,
**`MCFinalizeAnswers`**, **`MCFinalizeSession`**, **`MCFinalizeLedger`** and
**`MCFinalizeWorkers`** instantiate these.

## Runs

| Run | Question | Answer |
|---|---|---|
| `MCFinalizeSession` | Two keys race for one session from two requests. Does the lock always name exactly the active attempt? Does an ended attempt ever change? Does the queue keep the promise to the account, also when a usage summary writes back the ledger it has read? Searches, choices and changes of beats overlap. Is the chosen clip one that is offered, and does the page know what is stored? A user walks the steps of the page. Is the shell told of all that changes, does a button that was switched off come back? A sync stops between its writes while edits and films load and save the session. Is what the session says of its speech what is stored, does a film hear its own sentences, are words lit while they are spoken? | holds: `SessionLockExact`, `TerminalIsFinal`, `ImplementsPaidRender`; `ClipsAgree`, that is `ChosenIsOffered`, and `PageKnowsClips` as long as requests do not overlap or fail; `ShellTells`, that is `ShellIsCurrent` but for the source, and `OffMeansBusy` but for the button of a render; `VoiceAsTimed` but for prints that are doubted; `HighlightsFit` |
| `MCFinalizeWorkers` | Two workers, a job of up to three executions, crashes, a usage summary or an editor. Is a live job executed by one worker only, and does its lineage agree with it? Captions are previewed, kept, written in batches while beats, to other words or to other letters, and style are edited. Do the captions under a film ever change? | holds: `TaskHoldsAttempt`, `LineageMatchesState`; they do not, as whatever would change them deletes the film: `FilmIsCaptioned` |
| `MCFinalizeLedger` | Two sessions on a plan that does not cover both at their dearest, with plan changes, or with a usage summary. Do reservations balance, is nothing taken beyond the plan, does used time grow by settlements only? Two requests, two tasks and a reaper count what they do with a job, while calls throw and processes die. Do the counters add up? Two loads of the dashboard overlap on a queue that changes. Is what is shown founded? | holds but for what a summary puts back or has erased: `ReservationsBalance`, `NoOverdraft`, `ChargedOnlyBySettlement`; `CountersAgree` but for the count of failures; `DashboardTells` |
| `MCFinalizeAnswers` | Three sessions at a backlog limit of one. How far can the backlog overshoot? Two attempts of a session that end, are reaped and noted late. Is what a request is told of an attempt so? The page renders, loses answers, retries, edits. How often is a story finalized? | by at most the other requests in flight: `BacklogBounded`; it is: `StatusIsTrue`; under one key: `OneAttemptPerStory` |
| `MCFinalizeProgress` | Does every accepted job end, through crashes, dying tasks and requeues? | holds: `EveryAttemptEnds` |
| `MCProgress` | Render slots: what takes a slot from its holder, are the counters right, does the slot of an execution that crashed come back? The player: does only the element that is shown play, is the clip of the highlighted card shown or on its way, and is it shown in the end? The page: does it ever stay busy? | nothing before a lease has run out, and it comes back: `SlotKeptUntilLapse`, `CounterExact`, `SlotComesBack`; it does: `PlaysWhatIsWanted`, `CatchesUp`; it does not: `PageSettles` |
| `MCServices` | Voice syncs that race for a story that is edited, or beside a render and a usage summary: is the lock exact, do reservations balance, what overdraws an account? Stripe's events in any order: how much does an event grant, are reservations carried? Scripts over a midnight: is the cap kept? Provider slots: does every way out of a call give its slot back, are calls the gap apart? Searches: is a library that fails left alone? | holds: `SyncsExact`, that is `SyncLockExact`, and `SyncReservationsBalance` but for what a summary puts back; only a sync dearer than its estimate, and a summary: `OverdraftOnlyByUnderestimate`; one period's time at most, and they are: `PeriodsExact`, that is `GrantedOncePerEvent` and `ReservationCarried`, in which summaries written over a change are counted; `DailyCapKept`, `LeasesExact`, `SpacedByGap`, `CooldownHolds` |
| `MCStoryPreview` | Requests, renders, edits and a reaper overlap. Is a preview that is offered as ready the session as it is, and is there one active attempt? | holds: `ReadyIsCurrent`; `OneActivePreview` as long as no attempt has deleted the lock of another |
| `MCPreviewProgress` | Does every preview end? | holds: `EveryPreviewEnds` |
| `MCStorySession` | Any sequence of operations on a session: do narration, captions, clips and the final video go with the sentences? Any cuts, captions timed anew and syncs over a film: do timelines cover their story, is no moment shown twice, is the film the timeline of the story by the narration it was made of? | holds: `SessionIsVoiced`, that is `NarrationKnown` and `CaptionPerBeat`, `ClipsFollowSentences`, `RenderedIsCurrent`, `TimelineExact`, `FilmAsPlayed` |
| `MCSecondCharge`, `MCEmptySearch` | statements of the documents the code does not keep | violated, see [below](#where-the-code-and-the-documents-differ) |

Every property of a passing run has a mutant in `PROJECT.json`: a change of one
definition, the way a plausible bug would change the code, under which TLC
finds the property violated.

Deadlock is checked except where the parts really stop: a preview whose keys
are used up.

## Bounds

The finalize queue:

- `MaxExecutions` (guard of `RenderBusy`): a job is put back at most that often.
  The code has no such limit. Three executions include a closed one that is not
  the first, all that `LineageAgrees` tells apart.
- `StopRunner` keeps one incarnation up or still to start, which stands for the
  restarts of the platform. With two incarnations one crash or one SIGTERM can
  hit at every point of a job, with the other running, idle or not yet up.
- `Runners`, `Clients`, `Attempts`, `Sessions`: two of whatever races, one of
  the rest. Two keys on one session, two sessions on one account, two workers
  on one job, two requests at one limit are separate instances, as their
  product does not fit.
- Lease, time to live and back-off of 1: each has the states "ahead" and
  "over", and every copy can be fresh, stale or over.
- `Readers`: one usage summary at a time. It reads and writes at any two moments,
  again and again. In `MCFinalizeLedger` and `MCFinalizeSession` it meets requests, a
  worker and settlements, but no expiry, renewal or change of the plan, which are in the
  part without it (`MeetsSummary`); in `MCFinalizeWorkers` it meets everything. The
  theorems are for any number, with all of these.
- One account: accounts share nothing but the queue; the theorems are for any
  number.

Counters: two requests for one job, two tasks and a reaper in two processes, so that
an end may be told by one while another has recorded it. `MaxRuns` of 2 lets a job
be given back and claimed again.

The dashboard: two loads, one change (`MaxChanges`) and one tick, from one job running
and its slot leased, the other job still to come. Changes and ticks happen while at
most one load is under way (`OneIsChanged`): each load is judged by what was so while
it was put together, and loads meet only on the page. Ranges have each of the three
colours within reach. The theorem is without these bounds.

Slots and providers:

- `LeaseTime`, `Slack`: the life of a lease and how long an acquisition may take
  between its clock reading and its transaction. Of 2 and 1: a heartbeat can
  renew a lease before it runs out, and an acquisition can meet leases that ran
  out before it began, meanwhile, or not at all.
- `Limit`, `LocalLimit`: one render slot for three executions, so that a second
  render is an overshoot, and a local limit of two, which they can meet after
  lapses. One process suffices as processes share the slots only. The theorems
  are for any number of both.
- `Delay`, `Lateness`: from reading the clock to the commit, at most 1. A
  provider lease lasts 2, so that it can run out before, during or after a call;
  the gap of 2 is longer than the delay. Two slots and a local limit of one let
  a lease be taken and refused.
- `FailureThreshold` of 2 is the code's. Counts are kept up to it, as more
  failures make no difference. `ShortMemo`, `LongMemo`: 1 and 2, one over
  while the other lasts. One library suffices for its records; a search of
  several ends as the cases of `FinishSearch` say.

Accounts: `LastPeriod` and `MaxConsumed` end renewals and charges after two
periods; two handlers can hold different retrievals of one subscription. One summary
may be written over a change (`MaxOverwrites`), as each counts alike. `Days`
and three requests pass a midnight with requests of both days in flight. A sync
is charged twice what it reserved, so that a plan can be overdrawn; two texts
let an edit be made and taken back. Syncs meet an editor, or a render and a usage
summary (`MeetsReport`), not both; with a summary the used time stays within twice
the plan, as summaries and renewals in turn could let it grow for ever.

Previews: `MaxSaves` bounds the saves of other requests. Two keys, one of which
supersedes the other, meet one runner, which may leave a render behind when it stops
and take the next; liveness is checked without other writers.

Speech: two beats and two sentences, so that beats share one or have their own, one of
two words of which the first begins the second, one that is spelled out with another
letter. Two paces make two takes of a sentence differ in length and times. `MaxTakes`
of 3 lets both beats be spoken and one again, with one edit (`MaxEdits`), a sync that
stops and a film. A provider answers in one of five forms, the same in a behaviour;
edits overlap the syncs and films of one of them, as forms differ in times only. A
film of times from letters is checked at both paces; `MinSlice` of 120 ms is more than
a short sound has for its words, so `NeverLit` is reached.

Answers: one request at a time, as requests read and, apart from admission, write
nothing an answer is made of; admissions that race are in `FinalizeAttempts`.
Two attempts let one be active while the session names the other; one other
handler can save a note that is out of date.

Sessions and films: `MaxBeats` of 2 and `MaxShots` of 2 let beats be inserted
and deleted before, between and after others, and shots be fewer or more than
beats. Timelines have three beats of two lengths, whose cuts may lie anywhere
(`Grain` of 3 places within a beat), and four of one length, the fewest that may
be merged; a clip that is shorter than each story and than a long beat, and one that is
longer than each beat. `MaxPad` of 1 does not fill the longest beat with the short clip,
as the code's five seconds do not fill every beat. Lengths and captions change in a part
of their own, between two orders of beats and with few cuts (`LengthsStep`); where
pictures are edited they stay, and a story that has a video is edited before it is
rendered again (`PicturesStep`). `MaxStall` bounds how far a video falls behind its audio; the run
has 0, as a video that stalls is only set right again.

The page: `MaxActs` acts of the user, of which three can start a render, edit and
start another, and two overlap two functions; `MaxPolls` of 2 stands for the
polls of the code, which answer, answer too late and end. Two stories let the
page build anew while a film of the first is under way.

The picker: `MaxClicks` of 2 acts with two requests under way, from every state
that two beats with two clips can be in after a search, with the drawer shut or
open: a search can overlap a choice, an insertion, a deletion or another search,
which is what its properties tell apart. `MaxLength` of 3 leaves room to insert.

Captions: `MaxActs` of 3 is shared by beats and acts, that is one beat is edited or
restyled twice and two beats once. Of three sentences two have the same letters but for
their case: one beat may be given another text or the same in other letters, of two
beats the letters of one are changed (`CaptionsStep`). Two flows are the fewest of which one aborts the
other or answers after it.

The steps: `MaxMoves` of 3 acts, from a new page and from one with a built story:
a session can be summarized, another summarized or built over it, and a beat
edited while the board is built. Two sessions, two scripts and two scenes are the
fewest that differ; two builds can overlap because the counters of the script
switch their button on.

## Fairness

`FairSpec` assumes weak fairness of time, of starting a process, of each
task's next step (`finalizeStory` returns or throws, its waits have timeouts),
and of the reaper's snapshot (its timer is re-armed after every round, also
after one that threw); and strong fairness of the reaper's step for each
document, since a round that throws before it is begun again. No fairness for
requests, claims, crashes, heartbeats or renewals: a queued job nobody claims
expires. A heartbeat cannot keep a job alive for ever because its task takes
its next step, and a requeue cannot repeat for ever because of `MaxExecutions`;
in the code it ends with the contention for render slots that causes it.

`RenderLease` assumes weak fairness of time and of the awaited calls of an
acquisition, which return or throw. Nothing is assumed of heartbeats, renders or
releases: a slot comes back even if its owner never runs again.
`PunctualSpec` is not a fairness but a restriction: every live owner renews
before its lease runs out. It makes the violation it finds the stronger.

`PreviewFairness`: a render goes on while its process lives, the reaper scans
again after every scan, and its step for a document, which may throw, is
strongly fair. Nothing is assumed of requests, claims or crashes: what is queued
and never claimed, and what was running when its process died, is reaped.

`PlayerFairness`: a video element loads its source or reports that it cannot,
and the events it has posted are handled. Nothing is assumed of the user or of
the audio.

`PageFairness`: a request is answered, refused, lost or timed out, a function
goes on with what it has got, a poll's timer fires. Nothing is assumed of the
user or of the jobs: a film that never comes ends with the last poll.

In `MCProgress` a part is fair while it is the one that runs.

## Theorems

Each theorem holds for all values of the constants under the named assumptions
of its module, which the runs evaluate: limits and times are positive, estimates
are natural numbers, "nothing" is none of the values. No theorem bounds the
number of accounts, sessions, requests, workers, processes or events. Where the
model has a bound for TLC (`MaxSaves`, `MaxActs`, `Days`, `MaxBeats`), the proofs
are for any value of it (`DraftsAreShort`: a draft fits in a session).

Each module proves that an inductive invariant holds (`...Invariance`) and derives
the properties from it.
`LimitUntilLapse` and `LookingWritesNothing` follow the same way and have no run
of their own.

### The queue of jobs

`FinalizeAttemptsProofs`:

| Theorem | Statement |
|---|---|
| `Invariance` | `Spec => []IInv` |
| `TypeCorrect` | `Spec => []TypeOK` |
| `SessionLocks` | `Spec => []SessionLockExact` |
| `OneHolder` | `Spec => []TaskHoldsAttempt` |
| `Lineage` | `Spec => []LineageMatchesState` |
| `TerminalStays` | `Spec => TerminalIsFinal` |
| `Backpressure` | `Spec => []BacklogBounded` |

`IInv` is the conjunction of the type invariant, `CopiesHaveDocs` (what a
worker holds, it holds of an attempt that exists, and only while it is up),
the locks, the holders and the lineages. None of the last three is inductive
alone: a claim keeps the lock exact only because a queued attempt holds its
lock; a requeue keeps the holder unique only because no task holds a queued
attempt; a late failure keeps the lineage because it re-reads the state.

The state machine has some thirty actions but changes an attempt in only seven
ways. The proof names these effects (`Quiet`, `Admits`, `Claims`, `Touches`,
`Requeues`, `Ends`, `Ticks`), shows each action to have one of them, and
preserves each part of the invariant effect by effect instead of action by
action. `Quiet` covers all actions that leave attempts and locks alone, so an
action added to the model with that effect costs one step.

`Backpressure` counts. `BacklogInv` adds that every active attempt is in one of the
states that are counted (`ActiveIsCounted`) and that they are finitely many: an
end lowers the backlog, no other step raises it than the admission of a request
that passed the check, and that moves one place from the requests to the backlog.

### The ledger, and the promise to the account

`FinalizeBooksProofs`:

| Theorem | Statement |
|---|---|
| `Balance` | `Spec => ReservationsBalance` |
| `Covered` | `Spec => NoOverdraft` |
| `ChargedOnce` | `Spec => ChargedOnlyBySettlement` |
| `Refinement` | `Spec => ImplementsPaidRender` |

Any request for the account's usage is a summary (`Readers`): it writes back, outside
a transaction, a ledger it has read earlier, so reserved time is not what active
attempts hold (`ReservedOnlyInFlight`
[below](#where-the-code-and-the-documents-differ)). The theorems hold with any number of
them and say how far that goes. `Drift` is what is reserved beyond what is held.
Only the write of a summary (`WrittenBack`) changes it, and a job that gives back time
the ledger no longer has, which lifts it towards zero, as the subtraction is clamped
there; a step takes more than the plan includes by what was erased at most; and used
time grows otherwise only by what a summary brings back. `PaidRender` has the two steps
of a summary, so the promise that the queue implements names its hole.

Reserved time is a sum over an account's active attempts. `TotalsProofs` has what
the proofs need of sums: what they become when one term enters, leaves or changes.
`Totals` writes a sum as the number of units its terms hold, a cardinality, which
is what the prover has theorems about. `MoneyInv` adds to `IInv` that requests act
for the account of their session and that attempts are finitely many. There is no
balance to keep, so `BalanceKept` compares both sums before and after each step: what an
attempt gives back leaves the sum of what is held whole and the ledger as far as it has
it, and the difference is the change of `Drift`.

`Refinement` maps every initial state to an initial state of `PaidRender` and
every step to one of its steps or a stutter, by the same seven effects.

### The counters and the dashboard

`FinalizeBooksProofs`, for any numbers of requests, tasks, reapers, processes, jobs,
slots, providers and loads, and any thresholds:

| Theorem | Statement | Inductive invariant |
|---|---|---|
| `CountersTell` | `MetricsSpec => []CountersAgree` | who is about to tell a job has recorded it and nobody else can; a job is claimed only after it was made; what was recorded is told, about to be told, or `unheard` (`MetricsInv`) |
| `DashboardFounded` | `RoomSpec => []DashboardTells` | what a load has read so far was so since it began, and it goes on watching (`LoadStands`); no job was queued later than now (`QueuedBefore`) |

A request has one outcome, a job is created, accepted and settled once in the
counters (`CountersAgree`); a failure is only bounded from below. The proof goes by
what a step does to one job (`Alone`, `Moves`). A figure of the dashboard may lag by
the time an answer took, which `Founded` states exactly; that the page's several
conclusions agree (`Consistent`) is a case analysis over the cards, whose only
non-obvious part is that `Check` keeps the first issue while it raises the verdict.

### Render slots

`PageProofs`, for any number of executions, processes and slots, and any
times, `None` being none of them:

| Theorem | Statement |
|---|---|
| `SlotInvariance` | `Spec => []SlotInv` |
| `SlotTypes` | `Spec => []TypeOK` |
| `SlotsKept` | `Spec => []SlotKeptUntilLapse` |
| `SharedLimitUntilLapse` | `Spec => []LimitUntilLapse` |
| `CountersExact` | `Spec => []CounterExact` |

`SlotKeptUntilLapse` is inductive only with `LapsesRecorded`: what a reaper has
decided to reset has lapsed before, and `Acquire`, which compares with the time
it began, takes a leased slot only if its lease has run out by now. A heartbeat
of a holder can hit a foreign slot, but it changes the expiry there and not the
owner; a late release can hit one only after a lapse, because until then the
slot it has read is still its own. The limit follows by an injection from
rendering owners to slots. `CounterExact` needs that the renders of a process
are finitely many, and cardinality lemmas for one owner entering or leaving.

### Voice syncs

`StoryProofs`: `SyncsStayExact` (`SyncsExact`) and `SyncOverdraft`
(`OverdraftOnlyByUnderestimate`), from `SyncInv`, with any number of usage summaries. It
adds to the locks that a request which works knows a running attempt that is its own
(`WorkersOwnAttempts`): no other request can end it, and nothing reaps it, so what the
request settles is what it reserved. The balance is not part of it, as a summary breaks
it; each step's effect on the ledger (`SyncEffect`) gives both properties.

### The session and its previews

The rest of `StoryProofs` is about `StorySession` and `StoryPreview`:

| Theorem | Statement |
|---|---|
| `SessionInvariance`, `SessionTypes` | `SessionSpec => []SessionInv`, `[]SessionTypeOK` |
| `Voicing` | `SessionSpec => []SessionIsVoiced` |
| `VideoIsCurrent` | `SessionSpec => []RenderedIsCurrent` |
| `ClipsFollow` | `SessionSpec => ClipsFollowSentences` |
| `PreviewInvariance`, `PreviewTypes` | `PreviewSpec => []PreviewInv`, `[]PreviewTypeOK` |
| `PreviewIsCurrent` | `PreviewSpec => []ReadyIsCurrent` |
| `OnePreview` | `PreviewSpec => []OneActivePreview` |

`SessionIsVoiced` is not inductive. It speaks of sessions whose voice is current,
and a sync that finds its fingerprint stored makes a stale session current without
generating anything. `Voiced` says what makes that right: whatever edits there were
since the last sync, narration is still there for what its fingerprint stands for,
every sentence that differs from it is marked stale, and there is a caption per
sentence.

`ClipsFollow` is about steps. Two operations change sentences and shots together
(`BothChange`); where each sentence has its shot, what `splice` and the renumbering
make of the shots is, element by element, what they make of the sentences
(`InsertFollows`, `DeleteFollows`, over lemmas on inserting and removing).

`ReadyIsCurrent` is about the stored document only. What is stored next is a copy
somebody loaded earlier, so `PreviewInv` says of every document, stored or held,
that it shows itself if it says ready (`Honest`); that an attempt keeps the content
it was prepared for and is never active again; and that an attempt whose lock is to
be deleted is over.

### The guards and services beside

`ServicesProofs` is about five modules:

| Theorem | Statement | Inductive invariant |
|---|---|---|
| `DailyCap` | `CapSpec => []DailyCapKept` | the counter is exact for its day, and no later day has let anything through |
| `Cooldown` | `SearchSpec => []CooldownHolds` | shared failures are the failures in a row |
| `Leases`, `Spacing` | `LeaseSpec => []LeasesExact`, `SpacedByGap` | an execution that asks has no slot but one it is about to reset or has; one that frees has none but the one it found; the next admission is never earlier than the last one and the gap, less the delay |
| `PeriodsStayExact` | `MemberSpec => PeriodsExact` | what was consumed, is held and may still be taken is at most what was granted by events processed and summaries written over a change (`TimeExact`); a summary writes what it has read (`SummaryOK`) |
| `NarrationOfOneTake` | `NarrationSpec => []VoiceAsTimed` | every copy of the session, stored or held, describes what is stored but for what it doubts (`Sound`); a sync describes it but for what it has stored, and has what it stored for one beat alone as it is stored (`Spoke`); a film has heard and lit what its copy says (`ReelHolds`) |

`VoiceAsTimed` is not inductive, as what is saved next is a copy loaded earlier. The
prints a sync stores are doubted by everyone else from its first write on, so its
writes disturb no claim (`SoundDoubting`, `SoundThrough`); between sound and times the
sync itself claims nothing of the print (`Spoke`), and when it saves, every sentence it
has stored once is described as it was stored last. That a current session has the
narration of its sentences follows from its fingerprint (`PrintHolds`).

### The timeline, the film and its captions

`FilmProofs`:

| Theorem | Statement |
|---|---|
| `TimelinesExact` | `FilmSpec => []TimelineExact` |
| `FilmsPlayed` | `FilmSpec => []FilmAsPlayed` |
| `FilmInvariance` | `FilmSpec => []FilmInv` |
| `FilmCaptions` | `CardsSpec => []FilmIsCaptioned` |
| `LookingIsFree` | `CardsSpec => LookingWritesNothing` |
| `CardsInvariance` | `CardsSpec => []CardsInv` |

The first three hold for any number of beats of any lengths, any clips, any cuts
an editor sends, and any grain of the position of a cut within its beat
(`Grain`). Assumed are that beats and clips have a length, and that the
heuristics give each beat a start in its clip and merge some of the beats
(`LineupsAreLengths`, `ClipsLast`, `CutListsArePlaces`, `TastesFit`).

*Timelines.* `updateVideoCuts` checks the order of cuts as if all beats were as
long; playback uses the real lengths, and rounds. That the cuts are in order all
the same is `OrderOfCuts`: a cut of an earlier beat lies before that of a later
one whatever the lengths, and within a beat the rounded share grows with the
position (`MoreIsMore`). A cut accepted before its beat is the one case that can
break this, and `PlayableCuts` turns all cuts off then. Pieces at such times tile the
narration (`InPlace`, `AutoAre`); that no footage is seen twice compares where two
pieces of one clip begin, two totals over sets of which one holds the other and
the first piece (`OnceEach`).

*Films.* `FilmAsPlayed` is of a finished video, by the narration it was made of. It does
not say that the page plays it so: captions timed by reading, or a sync after the film,
part the two (`PagePlaysVideo` [below](#where-the-code-and-the-documents-differ)).
`FilmInv` says what is behind a render at any moment: the reel has the segments up to
where trimming has come and each of its moments is what the timeline shows there
(`ReelOK`); the films are those of the beats behind the render that did not fail, in
order, each as its timeline has it (`FilmsOK`); the beats to come are the rest, in order
(`BeatsOK`). Trimming keeps `ReelOK` since the end of a segment is the start of the next
(`ReelGrows`); a slice and a clip from its beginning are both the film of their beat,
only the latter possibly a shorter one. The story a render was begun with is kept beside:
an edit that is saved meanwhile is lost when the render saves, so the film is compared
with the story it is saved with.

Picture and sound of a film are joined separately (`ffmpeg.timeline.js` 36–65). After a
beat of a film without cuts whose clip is too short by more than what is padded, the
pictures of later beats run ahead of their narration; the model has the film of each beat
and not what a player makes of the two tracks.

No step is an induction over a sequence: totals over sets of beats (`TotalsProofs`)
and their least and greatest elements (`LeastOf`, `GreatestOf`) replace it, as in
`NeverFalls`, which looks at the first place where a walk would have fallen.

*Captions.* `CardsInv` keeps the page, its flows and timers within the
beats of the session, and the captions of a film those of its session: an edit, a new
style and every batch that is taken delete the film. That looking
writes nothing follows step by step: what follows of a flow is about beats it was
about already, a timer hands its beat on, and a preview that arrives shows what has
been written for its beat.

### The page

`PageProofs` is, besides the render slots, about four modules of the page and of
what the API tells it:

| Theorem | Statement | Inductive invariant |
|---|---|---|
| `StoriesHaveOneAttempt` | `PageSpec => []OneAttemptPerStory` | every key of a story, and of a finalize request under way, is the story itself (`KeysInv`) |
| `StatusToldIsTrue` | `StatusSpec => []StatusIsTrue` | who asks has read the lock before the note, and what it has seen was so while it was served (`StatusInv`) |
| `PlayerPlaysWanted` | `PlayerSpec => []PlaysWhatIsWanted` | the active slot waits for no swap and the other does not play; the wanted clip is shown or fetched (`PlayerInv`) |
| `DrawerClipsAgree` | `PickerSpec => []ClipsAgree` | every shot that is stored, shown, copied or under way offers what is chosen; a lone request will make store and page agree (`PickerInv`) |

`StatusIsTrue` depends on the order of two reads: a request that found no lock and
then follows the note is told the truth only because no attempt can have been
running from before the first read. `PlaysWhatIsWanted` speaks of two elements
whose events come late: each step sets one aside, so the proof shows once what
changes of one element leave calm (`AsideCalm`) and uses it for every event.
`PageKnowsClips` says nothing while a request is under way; the invariant says
how page and store then differ, by kind of request and where it stands.

`EditorProofs` is about the steps and their button (`CreativeShell`), for any
sessions, scripts, scenes and number of acts:

| Theorem | Statement |
|---|---|
| `ShellInvariance` | `ShellSpec => []ShellInv` |
| `ShellTellsAll` | `ShellSpec => []ShellTells` |

`ShellTells` is `ShellIsCurrent` and `OffMeansBusy`. The lemma under both is `SyncedTwice`: telling the shell twice is telling it once,
also when the first time throws, because the step it moves to is open and what it
reads is left alone. Each function of the page is a chain of calls that each end
in telling the shell, so what an answer leaves is told (`ShellTold`), whichever
of its calls throws. `ShellIsCurrent` is not inductive alone: it says nothing while
a function is under way, and the first to end must find the shell as it should be.

### What is not proved

- Liveness under fairness: `EveryAttemptEnds`, `EveryPreviewEnds`, `SlotComesBack`,
  `CatchesUp`, `PageSettles`. The prover has no rule for fairness or ENABLED; TLC
  checks them.
- `HighlightsFit`: where words are found and how long they are lit is computed by folds
  over words and letters; what a fold computes for every input needs induction over data,
  which these provers cannot do. TLC checks it in `MCFinalizeSession`, on what a film can
  hear.
- What the two runs with `violation` show, and the further statements that do not
  hold: they are refuted, not proved.

## Where the code and the documents differ

Two runs show it; `PROJECT.json` quotes the line each contradicts.

- **`MCSecondCharge`.** A session that has its `finalVideo` is finalized under a
  second key: nothing is rendered and the same short is settled again.
- **`MCEmptySearch`.** A library's error is kept for a minute as an empty list.
  The same search in that minute finds no clips, instead of being told to try
  again, and the library is taken for well.

The modules state more that does not hold. Each is checked by naming it in the
INVARIANTS or PROPERTIES of the run in brackets.

| Property | What happens | Stated in |
|---|---|---|
| `AbandonedOnlyAfterLease` (`MCFinalizeWorkers`) | The reaper reads `leaseExpiresAt` from its query copy; the transaction asks only whether the attempt is active. A lease renewed after the query is abandoned all the same. | `docs/FINALIZE_CURRENT_STATE_AUDIT.md:127`, `docs/FINALIZE_JOB_MODEL_SPEC.md:164` |
| `BacklogWithinLimit` (`MCFinalizeAnswers`) | The backlog is read before the admission transaction; requests that pass together exceed it. `BacklogBounded` says by how much at most. | `docs/FINALIZE_FACTORY_CONVERSION_PLAN.md:267` |
| `ReservedOnlyInFlight` (`MCFinalizeLedger`) | `ensureCanonicalUsageState` merges back the usage it read, outside a transaction; a settlement in between is undone. | `docs/TIME_BASED_RENDER_USAGE_MIGRATION_PLAN.md:144` |
| `UsedStaysInPeriod` (`MCFinalizeLedger`) | A usage summary that read the ledger before a renewal writes it back after it: the used time of the old period is used of the new one. | `docs/TIME_BASED_RENDER_USAGE_MIGRATION_PLAN.md:143` |
| `SharedLimit` (`RenderLease`, `PunctualSpec`, two processes) | A slot whose owner crashed runs out and two executions read it as such. One resets and takes it; the other then resets the fresh lease and takes it as well. Two render on one slot, each renewing in time. | `docs/FINALIZE_FACTORY_CONVERSION_PLAN.md:265` |
| `GeneratedIsCharged` (`MCServices`) | The settlement of a sync fails after its narration has been saved: it stays, and is not charged. | `docs/MOBILE_BACKEND_CONTRACT.md:34` |
| `CommittedPlanStays` (`MCServices`) | A usage summary that read the account before the webhook writes its old plan back after it. | `docs/API_CONTRACT.md:88` |
| `DailyLimit` (`MCServices`) | A request of before midnight that is counted after one of the new day resets the counter of the new day. | `docs/MOBILE_SPEC_PACK.md:492` |
| `PendingIsAnswered` (`MCPreviewProgress`) | The session is marked queued after its attempt has ended and stays so. | `docs/CAPTION_PREVIEW_RENDER_PARITY_PLAN.md:73` |
| `CaptionsAreSynced` (`MCStorySession`) | A sync that finds its narration stored keeps the captions that are there, of whatever text. | `docs/MOBILE_BACKEND_CONTRACT.md:206` |
| `AcceptedCutsAreUsed` (`MCStorySession`) | `updateVideoCuts` accepts a cut that lies before its beat; playback then ignores all cuts. | the validation of `updateVideoCuts` |
| `TimelineCanBeTrimmed` (`MCStorySession`) | Two cuts at the same place are accepted; the segment between them has no length, and the render fails. | the validation of `updateVideoCuts` |
| `NoWayBack` (`MCFinalizeAnswers`) | When nothing is active the answer is about the attempt the session names. The reaper's late note, or a session saved back, can make that an older one than the caller was told of last. | `docs/FINALIZE_FACTORY_CONVERSION_PLAN.md:342` |
| `ShownIsNamed` (`MCFinalizeAnswers`) | A board that is drawn while another story is begun shows a session the page does not name. | the page's own use of one session |
| `ReadyIsSpoken` (`MCFinalizeAnswers`) | A sync answers after a beat was edited, and the preview is called ready with the old words. | `markLocalStorySyncStale` |
| `BuiltAsWritten` (`MCFinalizeAnswers`) | What is typed while a board is prepared is taken for prepared. | the page's own comparison of scripts |
| `CardsShowChosen` (`MCFinalizeSession`) | Opening the picker searches the first page and may replace the chosen clip; the card keeps the old one, as nothing calls `updateStoryboardCardForSentence`. | `updateStoryboardCardForSentence` |
| `GridIsOffered` (`MCFinalizeSession`) | The late answer of a search for one beat fills the grid of another. | the check of `/update-shot` |
| `RenderButtonRestored` (`MCFinalizeSession`) | `getCurrentShellAction` uses `previewBlockedMessage`, which it does not have, when the storyboard is of the script and its preview is blocked. `hideRenderStatus` tells the shell first where `renderArticle` ends, throws, and the button stays off. | `creative.article.mjs:6481`, "ALWAYS restore button state (runs even on early returns)" |
| `PagePlaysVideo` (`MCStorySession`) | The page's timeline goes by captions, a film by narration. `POST /captions` times captions by reading speed while the voice stays current; a later sync of unchanged sentences keeps the film. | the preview of a story on its page |
| `PausedIsStill` (`MCProgress`) | A clip that was asked for while the audio played starts when it has loaded, also when the audio has been paused meanwhile. | the player's own pause handler |

What is counted and shown disagrees with its documents in more ways, each visible in
the actions of `FinalizeMetrics` and `ControlRoom`:

- `job_failures` counts more than failed jobs. A film dearer than its estimate tells
  its failure in the settlement and again in the task; a task that fails after the
  reaper tells it too; a settled job whose re-read throws is told as failed.
- A job whose pending projection throws is never told as created, though it may run.
  When the session has gone, the request is answered without an outcome.
- `docs/FINALIZE_CONTROL_ROOM_DASHBOARD.md` calls an answer a point-in-time snapshot.
  It is put together from separate reads: a job queued after the clock was read passes
  for a retry, and leases are counted by the time the answer was begun.
- `phase6-threshold-summary.json` is not in the repository. Without it no verdict is
  better than a warning and the first issue is its absence, also when the queue is
  over its limit; with a file that has no ranges every card is unknown and the verdict
  healthy.
- The page keeps the old data under a warning when a load fails. Answers of loads that
  overlap are drawn in the order they come, the older one last if it is slower, and one
  that comes after the user has signed out is drawn still.

That the same narration is billed once (`docs/MOBILE_BACKEND_CONTRACT.md:34`) is not
stated: with two other requests at work, one may save an older copy of the session
over a sync, whose narration is then generated and billed again.

## Not modelled

- Wording and shape of responses, logs, traces, histograms and gauges: no property is
  about them. Of the dashboard, the panel of the serving process's own metrics and
  queues longer than the limit of its query.
- What a provider answers: prompts, clips and the sound of speech are choices of the
  actions that ask for them; of speech, `Narration` has the times and their forms. An
  alignment that is itself a list of entries is taken as the letters or words it is
  read into. What ffmpeg draws: a filter succeeds or fails.
- The generic `idempotencyFirestore` middleware and the free daily short limit:
  no route uses them. `renderStoryLegacy`: nothing calls it.
- Clock skew between processes, and Firestore itself: transactions are taken
  to be serializable and queries to return a state that existed.
- What is written and not read by anything here: shorts documents (whose name,
  the millisecond of the render, two renders can share), temporary files (which
  stay).
