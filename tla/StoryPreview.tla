---------------------------- MODULE StoryPreview ----------------------------
(***************************************************************************)
(* Draft previews of one story session: POST /api/story/preview, the       *)
(* queue of attempts (story-preview.attempts.js), the runners and the      *)
(* reaper (story-preview.runner.js), and what they read from and write to  *)
(* the session document, which other requests load, change and save whole. *)
(*                                                                         *)
(* A session is reduced to its content (all that a preview shows) and to   *)
(* draftPreviewV1.  The fingerprint of a preview is the content it was     *)
(* prepared for.  Every read, write and transaction is a step of its own.  *)
(***************************************************************************)
EXTENDS Naturals, FiniteSets

CONSTANTS
    PreviewKeys,  \* attempt ids: the idempotency keys of /preview requests
    Callers,      \* /preview requests in flight
    Runners,      \* places for a render in runner processes
    Reapers,      \* processes with a reaper
    Writers,      \* other requests that load and save the session
    Contents,     \* versions of what a preview shows
    Renderable,   \* those with narration, captions and clips for every beat
    MaxSaves,     \* bound of the model: saves by other requests
    None          \* null

ASSUME MaxSavesIsNat == MaxSaves \in Nat
ASSUME SomeRenderable == Renderable \subseteq Contents
ASSUME NoneIsNothing == None \notin PreviewKeys \cup Contents

VARIABLES
    draft,      \* story.json: content and draftPreviewV1
    preview,    \* storyPreviewAttempts
    holder,     \* storyPreviewSessions: the attempt that holds the session
    caller,     \* where each /preview request stands
    runner,     \* where each render stands
    reaper,     \* attempts a reaper found stale, and whether a lock is left to delete
    writing,    \* the copy of the session another request is changing
    saves,      \* how often one of them has saved it
    lockLost    \* history: an attempt deleted a lock that named another

previewVars == <<draft, preview, holder, caller, runner, reaper, writing, saves, lockLost>>

DraftStates == {"not_requested", "blocked", "queued", "running", "ready", "failed", "stale"}
Draft == [content : Contents, state : DraftStates,
          print : Contents \cup {None}, owner : PreviewKeys \cup {None}]

AttemptStates == {"queued", "running", "succeeded", "failed", "superseded", "expired"}
Pending == {"queued", "running"}

(* "age" orders attempts by createdAt; "lapsed" says that expiresAt (queued) or
   leaseExpiresAt (running) has passed. *)
PreviewAttempt == [print : Renderable, state : AttemptStates, isActive : BOOLEAN,
                   lapsed : BOOLEAN, age : Nat]

ASSUME NoneIsNoRecord == None \notin PreviewAttempt \cup Draft

Resting == [pc |-> "idle"]
At(pc, k) == [pc |-> pc, key |-> k]
Holding(pc, k, d) == [pc |-> pc, key |-> k, copy |-> d]

-----------------------------------------------------------------------------
(* The document *)

Blocked(d) == [content |-> d.content, state |-> "blocked", print |-> None, owner |-> None]

(* markDraftPreviewQueued *)
Marked(d, k, state) ==
    [content |-> d.content, state |-> state, print |-> preview[k].print, owner |-> k]

(* invalidateDraftPreviewBase, after a change *)
Invalidated(d, c) == [content |-> c, state |-> "stale", print |-> None, owner |-> None]

(* prepareDraftPreviewRequest finds the ready preview of what the session shows *)
AlreadyReady(d) == d.state = "ready" /\ d.print = d.content

(* Nothing has changed for the attempt that renders. *)
StillCurrent(d, k) ==
    d.content \in Renderable /\ d.content = preview[k].print /\ d.owner = k

-----------------------------------------------------------------------------
(* POST /api/story/preview *)

Receive(c, k) ==
    /\ caller[c].pc = "idle"
    /\ ~AlreadyReady(draft)
    /\ caller' = [caller EXCEPT ![c] =
           Holding(IF draft.content \in Renderable THEN "loaded" ELSE "blocked", k, draft)]
    /\ UNCHANGED <<draft, preview, holder, runner, reaper, writing, saves, lockLost>>

AnswerBlocked(c) ==
    /\ caller[c].pc = "blocked"
    /\ draft' = Blocked(caller[c].copy)
    /\ caller' = [caller EXCEPT ![c] = Resting]
    /\ UNCHANGED <<preview, holder, runner, reaper, writing, saves, lockLost>>

HeldBy(k) == k # None /\ preview[k] # None /\ preview[k].state \in Pending

(* The key is new, and no pending attempt of the session has this fingerprint. *)
MayEnqueue(c) ==
    /\ preview[caller[c].key] = None
    /\ HeldBy(holder) => preview[holder].print # caller[c].copy.content

(* The attempt this request is answered with instead of one of its own. *)
Shared(c) ==
    LET k == caller[c].key
    IN  IF preview[k] = None THEN holder ELSE k

(* prepareStoryPreviewAttempt answers with an attempt that is there: the
   request marks the session with it unless it has succeeded, failed or
   expired, or was for other content.  A superseded one counts as active. *)
Reuse(c) ==
    /\ caller[c].pc = "loaded"
    /\ ~MayEnqueue(c)
    /\ LET a == preview[Shared(c)]
       IN  caller' = [caller EXCEPT ![c] =
               IF a.print = caller[c].copy.content /\ a.state \in Pending \cup {"superseded"}
               THEN [pc |-> "marking", key |-> Shared(c), copy |-> caller[c].copy,
                     state |-> IF a.state = "running" THEN "running" ELSE "queued"]
               ELSE Resting]
    /\ UNCHANGED <<draft, preview, holder, runner, reaper, writing, saves, lockLost>>

(* Mutant: the attempt that held the session goes on. *)
KeptActive(a) == a

Superseded(a) == [a EXCEPT !.state = "superseded", !.isActive = FALSE]

Enqueue(c) ==
    /\ caller[c].pc = "loaded"
    /\ MayEnqueue(c)
    /\ LET k == caller[c].key
           new == [print |-> caller[c].copy.content, state |-> "queued", isActive |-> TRUE,
                   lapsed |-> FALSE, age |-> Cardinality({j \in PreviewKeys : preview[j] # None})]
       IN  /\ preview' = [j \in PreviewKeys |->
                  CASE j = k -> new
                    [] j = holder /\ HeldBy(holder) -> Superseded(preview[j])
                    [] OTHER -> preview[j]]
           /\ holder' = k
           /\ caller' = [caller EXCEPT ![c] =
                  [pc |-> "marking", key |-> k, copy |-> caller[c].copy, state |-> "queued"]]
    /\ UNCHANGED <<draft, runner, reaper, writing, saves, lockLost>>

(* The session loaded before the attempt was prepared is saved. *)
MarkQueued(c) ==
    /\ caller[c].pc = "marking"
    /\ draft' = Marked(caller[c].copy, caller[c].key, caller[c].state)
    /\ caller' = [caller EXCEPT ![c] = Resting]
    /\ UNCHANGED <<preview, holder, runner, reaper, writing, saves, lockLost>>

(* A call throws, or the process dies. *)
CallerLost(c) ==
    /\ caller[c].pc # "idle"
    /\ caller' = [caller EXCEPT ![c] = Resting]
    /\ UNCHANGED <<draft, preview, holder, runner, reaper, writing, saves, lockLost>>

-----------------------------------------------------------------------------
(* A runner *)

Queued == {k \in PreviewKeys : preview[k] # None /\ preview[k].state = "queued"}
Oldest(k) == k \in Queued /\ \A j \in Queued : preview[k].age <= preview[j].age

(* claimNextStoryPreviewAttempt queries ... *)
FindOldest(r, k) ==
    /\ runner[r].pc = "idle"
    /\ Oldest(k)
    /\ runner' = [runner EXCEPT ![r] = At("found", k)]
    /\ UNCHANGED <<draft, preview, holder, caller, reaper, writing, saves, lockLost>>

(* ... and writes, whatever the attempt has become: isActive is not written. *)
Claim(r) ==
    /\ runner[r].pc = "found"
    /\ preview' = [preview EXCEPT ![runner[r].key].state = "running",
                                  ![runner[r].key].lapsed = FALSE]
    /\ runner' = [runner EXCEPT ![r].pc = "claimed"]
    /\ UNCHANGED <<draft, holder, caller, reaper, writing, saves, lockLost>>

Heartbeat(r) ==
    /\ runner[r].pc \notin {"idle", "found"}
    /\ preview[runner[r].key].lapsed
    /\ preview' = [preview EXCEPT ![runner[r].key].lapsed = FALSE]
    /\ UNCHANGED <<draft, holder, caller, runner, reaper, writing, saves, lockLost>>

(* renderStoryDraftPreview loads the session and checks it. *)
BeginRender(r) ==
    /\ runner[r].pc = "claimed"
    /\ LET k == runner[r].key
       IN  runner' = [runner EXCEPT ![r] =
               CASE draft.content \notin Renderable -> Holding("blocking", k, draft)
                 [] draft.content \in Renderable /\ ~StillCurrent(draft, k) ->
                        [pc |-> "failing", key |-> k, as |-> "superseded"]
                 [] StillCurrent(draft, k) -> Holding("starting", k, draft)]
    /\ UNCHANGED <<draft, preview, holder, caller, reaper, writing, saves, lockLost>>

SaveBlocked(r) ==
    /\ runner[r].pc = "blocking"
    /\ draft' = Blocked(runner[r].copy)
    /\ runner' = [runner EXCEPT ![r] = [pc |-> "failing", key |-> runner[r].key, as |-> "failed"]]
    /\ UNCHANGED <<preview, holder, caller, reaper, writing, saves, lockLost>>

SaveRunning(r) ==
    /\ runner[r].pc = "starting"
    /\ draft' = Marked(runner[r].copy, runner[r].key, "running")
    /\ runner' = [runner EXCEPT ![r] = At("rendering", runner[r].key)]
    /\ UNCHANGED <<preview, holder, caller, reaper, writing, saves, lockLost>>

(* Mutant: the session is loaded again and not checked again. *)
UploadUnchecked(r) ==
    /\ runner[r].pc = "rendering"
    /\ runner' = [runner EXCEPT ![r] = Holding("uploading", runner[r].key, draft)]
    /\ UNCHANGED <<draft, preview, holder, caller, reaper, writing, saves, lockLost>>

(* The preview is rendered; the session is loaded and checked again. *)
CheckAgain(r) ==
    /\ runner[r].pc = "rendering"
    /\ LET k == runner[r].key
       IN  runner' = [runner EXCEPT ![r] =
               IF StillCurrent(draft, k)
               THEN Holding("uploading", k, draft)
               ELSE [pc |-> "failing", key |-> k, as |-> "superseded"]]
    /\ UNCHANGED <<draft, preview, holder, caller, reaper, writing, saves, lockLost>>

(* It is uploaded, and the session loaded before the upload is saved. *)
SaveReady(r) ==
    /\ runner[r].pc = "uploading"
    /\ LET d == runner[r].copy
       IN  draft' = [content |-> d.content, state |-> "ready",
                     print |-> preview[runner[r].key].print, owner |-> None]
    /\ runner' = [runner EXCEPT ![r] = At("settling", runner[r].key)]
    /\ UNCHANGED <<preview, holder, caller, reaper, writing, saves, lockLost>>

RenderThrows(r) ==
    /\ runner[r].pc \in {"claimed", "blocking", "starting", "rendering", "uploading", "settling"}
    /\ runner' = [runner EXCEPT ![r] = [pc |-> "failing", key |-> runner[r].key, as |-> "failed"]]
    /\ UNCHANGED <<draft, preview, holder, caller, reaper, writing, saves, lockLost>>

Ended(k, state) ==
    preview' = [preview EXCEPT ![k].state = state, ![k].isActive = FALSE]

(* settleStoryPreviewAttemptSuccess *)
Settle(r) ==
    /\ runner[r].pc = "settling"
    /\ Ended(runner[r].key, "succeeded")
    /\ runner' = [runner EXCEPT ![r] = At("unlocking", runner[r].key)]
    /\ UNCHANGED <<draft, holder, caller, reaper, writing, saves, lockLost>>

(* persistDraftPreviewFailure: the session is loaded ... *)
LoadFailed(r) ==
    /\ runner[r].pc = "failing"
    /\ LET k == runner[r].key
       IN  runner' = [runner EXCEPT ![r] =
               IF draft.owner = k
               THEN [pc |-> "saving failure", key |-> k, as |-> @.as, copy |-> draft]
               ELSE [pc |-> "ending", key |-> k, as |-> @.as]]
    /\ UNCHANGED <<draft, preview, holder, caller, reaper, writing, saves, lockLost>>

(* ... and saved, if it was this attempt's. *)
SaveFailed(r) ==
    /\ runner[r].pc = "saving failure"
    /\ draft' = [runner[r].copy EXCEPT !.state = "failed"]
    /\ runner' = [runner EXCEPT ![r] = [pc |-> "ending", key |-> @.key, as |-> @.as]]
    /\ UNCHANGED <<preview, holder, caller, reaper, writing, saves, lockLost>>

(* What it throws is logged. *)
SaveFailedThrows(r) ==
    /\ runner[r].pc \in {"failing", "saving failure"}
    /\ runner' = [runner EXCEPT ![r] = [pc |-> "ending", key |-> @.key, as |-> @.as]]
    /\ UNCHANGED <<draft, preview, holder, caller, reaper, writing, saves, lockLost>>

(* failStoryPreviewAttempt *)
EndFailed(r) ==
    /\ runner[r].pc = "ending"
    /\ Ended(runner[r].key, runner[r].as)
    /\ runner' = [runner EXCEPT ![r] = At("unlocking", runner[r].key)]
    /\ UNCHANGED <<draft, holder, caller, reaper, writing, saves, lockLost>>

(* The lock of the session is deleted, whichever attempt it names. *)
DeleteLock(k) ==
    /\ holder' = None
    /\ lockLost' = (lockLost \/ holder \notin {None, k})

Unlock(r) ==
    /\ runner[r].pc = "unlocking"
    /\ DeleteLock(runner[r].key)
    /\ runner' = [runner EXCEPT ![r] = Resting]
    /\ UNCHANGED <<draft, preview, caller, reaper, writing, saves>>

(* The process dies, or failStoryPreviewAttempt throws (nobody catches it), or
   the deletion of the lock does (it is swallowed). *)
RunnerLost(r) ==
    /\ runner[r].pc # "idle"
    /\ runner' = [runner EXCEPT ![r] = Resting]
    /\ UNCHANGED <<draft, preview, holder, caller, reaper, writing, saves, lockLost>>

-----------------------------------------------------------------------------
(* The reaper *)

(* Mutant: only what nobody has claimed is looked at. *)
StaleInQueue(k) ==
    /\ preview[k] # None
    /\ preview[k].isActive
    /\ preview[k].state = "queued"
    /\ preview[k].lapsed

(* Among the active ones, of which a query returns at most 25. *)
Stale(k) ==
    /\ preview[k] # None
    /\ preview[k].isActive
    /\ preview[k].state \in Pending
    /\ preview[k].lapsed

Scan(p) ==
    /\ reaper[p] = [found |-> {}, unlock |-> None]
    /\ \E k \in PreviewKeys : Stale(k)
    /\ reaper' = [reaper EXCEPT ![p].found = {k \in PreviewKeys : Stale(k)}]
    /\ UNCHANGED <<draft, preview, holder, caller, runner, writing, saves, lockLost>>

(* The attempt is ended although it may have gone on since the query. *)
Expire(p, k) ==
    /\ k \in reaper[p].found
    /\ reaper[p].unlock = None
    /\ Ended(k, "expired")
    /\ reaper' = [reaper EXCEPT ![p] = [found |-> @.found \ {k}, unlock |-> k]]
    /\ UNCHANGED <<draft, holder, caller, runner, writing, saves, lockLost>>

ReaperUnlock(p) ==
    /\ reaper[p].unlock # None
    /\ DeleteLock(reaper[p].unlock)
    /\ reaper' = [reaper EXCEPT ![p].unlock = None]
    /\ UNCHANGED <<draft, preview, caller, runner, writing, saves>>

(* A write throws and the scan ends, or the process dies. *)
ReaperLost(p) ==
    /\ reaper[p] # [found |-> {}, unlock |-> None]
    /\ reaper' = [reaper EXCEPT ![p] = [found |-> {}, unlock |-> None]]
    /\ UNCHANGED <<draft, preview, holder, caller, runner, writing, saves, lockLost>>

(* Thirty minutes in the queue, or a minute without a heartbeat, have passed. *)
Lapse(k) ==
    /\ preview[k] # None
    /\ preview[k].isActive
    /\ ~preview[k].lapsed
    /\ preview' = [preview EXCEPT ![k].lapsed = TRUE]
    /\ UNCHANGED <<draft, holder, caller, runner, reaper, writing, saves, lockLost>>

-----------------------------------------------------------------------------
(* Other requests of the session *)

LoadSession(w) ==
    /\ writing[w] = None
    /\ saves < MaxSaves
    /\ writing' = [writing EXCEPT ![w] = draft]
    /\ UNCHANGED <<draft, preview, holder, caller, runner, reaper, saves, lockLost>>

(* What the preview shows is changed, or rendered for good, or only something
   else of the session is (its plan, its timeline). *)
SaveSession(w) ==
    /\ writing[w] # None
    /\ \/ \E c \in Contents : draft' = Invalidated(writing[w], c)
       \/ draft' = writing[w]
    /\ writing' = [writing EXCEPT ![w] = None]
    /\ saves < MaxSaves
    /\ saves' = saves + 1
    /\ UNCHANGED <<preview, holder, caller, runner, reaper, lockLost>>

-----------------------------------------------------------------------------
PreviewInit ==
    /\ draft \in [content : Contents, state : {"not_requested"}, print : {None}, owner : {None}]
    /\ preview = [k \in PreviewKeys |-> None]
    /\ holder = None
    /\ caller = [c \in Callers |-> Resting]
    /\ runner = [r \in Runners |-> Resting]
    /\ reaper = [p \in Reapers |-> [found |-> {}, unlock |-> None]]
    /\ writing = [w \in Writers |-> None]
    /\ saves = 0
    /\ lockLost = FALSE

CallerStep(c) ==
    \/ \E k \in PreviewKeys : Receive(c, k)
    \/ AnswerBlocked(c)
    \/ Reuse(c)
    \/ Enqueue(c)
    \/ MarkQueued(c)
    \/ CallerLost(c)

(* What a runner does of itself: the awaited calls in order. *)
Advance(r) ==
    \/ Claim(r)
    \/ BeginRender(r)
    \/ SaveBlocked(r)
    \/ SaveRunning(r)
    \/ CheckAgain(r)
    \/ SaveReady(r)
    \/ Settle(r)
    \/ LoadFailed(r)
    \/ SaveFailed(r)
    \/ EndFailed(r)
    \/ Unlock(r)

RunnerStep(r) ==
    \/ \E k \in PreviewKeys : FindOldest(r, k)
    \/ Advance(r)
    \/ Heartbeat(r)
    \/ RenderThrows(r)
    \/ SaveFailedThrows(r)
    \/ RunnerLost(r)

ReaperStep(p) ==
    \/ Scan(p)
    \/ \E k \in PreviewKeys : Expire(p, k)
    \/ ReaperUnlock(p)
    \/ ReaperLost(p)

PreviewNext ==
    \/ \E c \in Callers : CallerStep(c)
    \/ \E r \in Runners : RunnerStep(r)
    \/ \E p \in Reapers : ReaperStep(p)
    \/ \E k \in PreviewKeys : Lapse(k)
    \/ \E w \in Writers : LoadSession(w) \/ SaveSession(w)

(* A render and a scan go on while their process lives, the reaper's timer is
   set again after every scan, a scan that is tried for ever succeeds once, and
   time passes. *)
PreviewFairness ==
    /\ \A r \in Runners : WF_previewVars(Advance(r))
    /\ \A p \in Reapers : WF_previewVars(Scan(p)) /\ WF_previewVars(ReaperUnlock(p))
    /\ \A p \in Reapers, k \in PreviewKeys : SF_previewVars(Expire(p, k))
    /\ \A k \in PreviewKeys : WF_previewVars(Lapse(k))

PreviewSpec == PreviewInit /\ [][PreviewNext]_previewVars /\ PreviewFairness

-----------------------------------------------------------------------------
(* Properties *)

Active(k) == preview[k] # None /\ preview[k].isActive

(* Every variable keeps its type, and an attempt that counts as active is
   pending. *)
PreviewTypeOK ==
    /\ draft \in Draft
    /\ preview \in [PreviewKeys -> PreviewAttempt \cup {None}]
    /\ \A k \in PreviewKeys : Active(k) => preview[k].state \in Pending
    /\ holder \in PreviewKeys \cup {None}
    /\ \A c \in Callers : caller[c].pc \in {"idle", "loaded", "blocked", "marking"}
    /\ \A r \in Runners : runner[r].pc # "idle" => preview[runner[r].key] # None
    /\ reaper \in [Reapers -> [found : SUBSET PreviewKeys, unlock : PreviewKeys \cup {None}]]
    /\ writing \in [Writers -> Draft \cup {None}]
    /\ saves \in 0..MaxSaves
    /\ lockLost \in BOOLEAN

(* A preview offered as ready shows the session as it is: however renders,
   edits, newer requests and reapings overlap, no artifact of earlier content
   is ever played as the approval preview. *)
ReadyIsCurrent ==
    draft.state = "ready" => draft.print = draft.content /\ draft.content \in Renderable

(* Unless an ending attempt has deleted the lock of another one, a session has
   one active attempt at most: the one its lock names. *)
OneActivePreview ==
    ~lockLost => \A k \in PreviewKeys : Active(k) => holder = k

(* Every attempt ends, whatever crashes: rendered, failed, superseded or reaped. *)
EveryPreviewEnds == \A k \in PreviewKeys : Active(k) ~> ~Active(k)

(* "Preview must be explicit, queued, idempotent, cached/fingerprint-aware, and
   observable": a session that shows a preview as pending shows its end. *)
PendingIsAnswered ==
    draft.state \in Pending ~> draft.state \notin Pending
=============================================================================
