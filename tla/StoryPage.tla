----------------------------- MODULE StoryPage -----------------------------
(***************************************************************************)
(* The page on which a story is written, built, heard and rendered, and    *)
(* what the API does for it: create a script, prepare its storyboard, edit *)
(* a beat, sync its voice again, render.  Each of these is a function that *)
(* awaits one request after the other; the others run in between and share *)
(* the globals of the page, and a request may fail or be lost on its way   *)
(* there or back.                                                          *)
(*                                                                         *)
(* The API handles a request in one step here; what overlapping handlers   *)
(* do to a session is in StorySync and StorySession.  Scripts are in the   *)
(* normal form that normalizeScript gives them.                            *)
(***************************************************************************)
EXTENDS Naturals, FiniteSets

CONSTANTS
    Stories,    \* sessions that can be created
    Scripts,    \* texts
    Renders,    \* clicks on render that can overlap
    MaxActs,    \* bound of the model: acts of the user
    MaxPolls,   \* STORY_SYNC_POLL_MAX_ATTEMPTS, STORY_RENDER_POLL_MAX_ATTEMPTS
    Unset       \* null

VARIABLES
    page,   \* the globals and controls of the page
    typing, \* the timer of the script's input handler is set
    flow,   \* where each function stands, with its locals and its request
    story,  \* story.json of each session, and its finalize attempts
    acts    \* acts of the user so far

pageVars == <<page, typing, flow, story, acts>>

Flows == {"summarize", "prepare", "retry", "edit"} \cup Renders

IdleFlow == [at |-> "idle", asked |-> "no", id |-> Unset, text |-> Unset,
             key |-> Unset, left |-> 0, last |-> Unset, got |-> Unset]

NoStory == [text |-> Unset, planned |-> FALSE, board |-> FALSE, voice |-> "never",
            film |-> FALSE, keys |-> {}, job |-> "none"]

Used == {s \in Stories : \/ story[s].text # Unset \/ page.id = s
                          \/ \E f \in Flows : flow[f].id = s}

-----------------------------------------------------------------------------
(* Helpers: from a page to a page *)

CanRender(p) ==
    \/ p.id # Unset /\ p.shown # Unset /\ p.shown.board
    \/ p.draft = "valid"

(* updateRenderArticleButtonState *)
Relabel(p) ==
    [p EXCEPT !.disabled = IF CanRender(p) THEN @ \ {"render"} ELSE @ \cup {"render"}]

(* currentStorySession is set and the storyboard drawn: renderStoryboard, as
   far as its first await. *)
Draw(p, session) == Relabel([p EXCEPT !.shown = session])

(* Mutant: the error is shown and nothing else. *)
ReportOnly(p) == [p EXCEPT !.disabled = @ \ {"prepare"}]

(* The outer catch and finally of prepareStoryboard *)
Abandon(p) == [p EXCEPT !.syncing = FALSE, !.disabled = @ \ {"prepare"}]

(* What follows the inner try of prepareStoryboard *)
Prepared(p) == Relabel([p EXCEPT !.draft = "empty", !.disabled = @ \ {"prepare"}])

(* The finally of renderArticle *)
RenderOver(p) == Relabel([p EXCEPT !.banner = FALSE, !.disabled = @ \ {"render"}])

(* applyRenderedStorySession; that the page then leaves for the film's own page
   is left out, so that the user may go on. *)
ShowFilm(p, session) == [p EXCEPT !.shown = session, !.id = session.id]

(* markLocalStorySyncStale and the answer of update-beat-text; what the API
   said of the preview's readiness stays. *)
Retold(p, text) ==
    [p EXCEPT !.shown.text = text,
              !.shown.voice = IF @ = "never" THEN "never" ELSE "stale"]

-----------------------------------------------------------------------------
(* Helpers: flows *)

Ask(f, at) == [flow[f] EXCEPT !.at = at, !.asked = "sent", !.got = Unset]

Wait(f, at) == [flow[f] EXCEPT !.at = at, !.asked = "no", !.got = Unset]

Poll(f, at) == [flow[f] EXCEPT !.at = at, !.asked = "sent", !.got = Unset,
                               !.left = MaxPolls, !.last = Unset]

Becomes(f, state) == flow' = [flow EXCEPT ![f] = state]

Ends(f) == Becomes(f, IdleFlow)

Busy(f) == flow[f].at # "idle"

(* The reply of a request that the API has handled, and the others *)
Answered(f, at) == flow[f].at = at /\ flow[f].asked = "ok"
Failed(f, at) == flow[f].at = at /\ flow[f].asked \in {"refused", "lost"}

-----------------------------------------------------------------------------
(* The API *)

(* What a session looks like to the page: presentStorySession *)
Presented(s, r) ==
    [id |-> s, text |-> r.text, board |-> r.board, voice |-> r.voice, film |-> r.film,
     ready |-> r.voice = "current" /\ r.board]

Reply(f, s) == Becomes(f, [flow[f] EXCEPT !.asked = "ok", !.got = Presented(s, story'[s])])

Changed(s, record) == story' = [story EXCEPT ![s] = record]

Rewritten(r, text) == [r EXCEPT !.text = text, !.planned = FALSE, !.board = FALSE,
                                !.voice = "never", !.film = FALSE]

ServeNew(f) ==
    \E s \in Stories \ Used :
        /\ \/ flow[f].at = "start" /\ Changed(s, NoStory)
           \/ flow[f].at = "manual" /\ Changed(s, [NoStory EXCEPT !.text = flow[f].text])
           \/ /\ flow[f].at = "create"
              /\ Changed(s, [NoStory EXCEPT !.text = flow[f].text, !.board = TRUE])
        /\ Becomes(f, [flow[f] EXCEPT !.asked = "ok", !.id = s,
                                      !.got = Presented(s, story'[s])])

ServeScript(f, s) ==
    \/ /\ flow[f].at = "generate"
       /\ \E t \in Scripts : Changed(s, [story[s] EXCEPT !.text = t, !.voice = "never"])
    \/ flow[f].at = "update" /\ Changed(s, Rewritten(story[s], flow[f].text))
    \/ /\ flow[f].at = "beat"
       /\ story[s].text # Unset
       /\ Changed(s, [story[s] EXCEPT
              !.text = flow[f].text, !.film = FALSE,
              !.voice = IF @ = "never" THEN "never" ELSE "stale"])

ServeBoard(f, s) ==
    /\ story[s].text # Unset
    /\ \/ flow[f].at = "plan" /\ Changed(s, [story[s] EXCEPT !.planned = TRUE])
       \/ /\ flow[f].at = "search"
          /\ story[s].planned
          /\ Changed(s, [story[s] EXCEPT !.board = TRUE, !.film = FALSE])

(* POST /sync runs to its end, or another sync holds the session: then its
   answer makes the page poll, like a session that is not ready. *)
ServeVoice(f, s) ==
    /\ flow[f].at = "sync"
    /\ story[s].text # Unset
    /\ \/ Changed(s, [story[s] EXCEPT !.voice = "current"])
       \/ story' = story

(* GET of the session; the sync that the page has stopped waiting for may have
   ended meanwhile. *)
ServeStatus(f, s) ==
    \/ flow[f].at \in {"voice", "film"} /\ story' = story
    \/ flow[f].at = "voice" /\ Changed(s, [story[s] EXCEPT !.voice = "current"])

(* POST /finalize: what the key has asked before is not asked again; a failed
   attempt is refused, as is another key while one is active. *)
ServeFinalize(f, s) ==
    /\ flow[f].at = "finalize"
    /\ IF flow[f].key \in story[s].keys
       THEN story[s].job # "failed" /\ story' = story
       ELSE /\ story[s].job # "active"
            /\ Changed(s, [story[s] EXCEPT !.keys = @ \cup {flow[f].key}, !.job = "active"])

Serve(f) ==
    /\ flow[f].asked = "sent"
    /\ \/ ServeNew(f)
       \/ \E s \in Stories \cap {flow[f].id} :
              /\ \/ ServeScript(f, s) \/ ServeBoard(f, s) \/ ServeVoice(f, s)
                 \/ ServeStatus(f, s) \/ ServeFinalize(f, s)
              /\ Reply(f, s)
    /\ UNCHANGED <<page, typing, acts>>

(* Any request can be refused, with any error that is not of a gateway. *)
Refuse(f) ==
    /\ flow[f].asked = "sent"
    /\ Becomes(f, [flow[f] EXCEPT !.asked = "refused"])
    /\ UNCHANGED <<page, typing, story, acts>>

(* The network fails or a gateway answers 502 or 504, before or after the API
   has handled the request. *)
Lose(f) ==
    /\ flow[f].asked \in {"sent", "ok"}
    /\ Becomes(f, [flow[f] EXCEPT !.asked = "lost", !.got = Unset])
    /\ UNCHANGED <<page, typing, story, acts>>

(* The timeout of apiFetchWithTimeout *)
TimeOut(f) ==
    /\ flow[f].at = "sync"
    /\ flow[f].asked \in {"sent", "ok"}
    /\ Becomes(f, Poll(f, "voice"))
    /\ UNCHANGED <<page, typing, story, acts>>

(* A worker ends the job of a story. *)
JobEnds(s) ==
    /\ story[s].job = "active"
    /\ \E done \in BOOLEAN :
           Changed(s, [story[s] EXCEPT !.job = IF done THEN "done" ELSE "failed",
                                       !.film = @ \/ done])
    /\ UNCHANGED <<page, typing, flow, acts>>
-----------------------------------------------------------------------------
(* summarizeArticle *)

ClickSummarize ==
    /\ "summarize" \notin page.disabled
    /\ ~Busy("summarize")
    /\ page' = [page EXCEPT !.disabled = @ \cup {"summarize"}]
    /\ Becomes("summarize", Ask("summarize", "start"))
    /\ UNCHANGED <<typing, story>>

SummarizeStep ==
    LET f == "summarize"
    IN  /\ \/ /\ Answered(f, "start")
              /\ page' = [page EXCEPT !.id = flow[f].got.id]
              /\ Becomes(f, Ask(f, "generate"))
           \/ /\ Answered(f, "generate")
              /\ LET t == flow[f].got.text
                 IN  page' = [page EXCEPT !.area = t, !.original = t, !.source = "llm",
                                          !.disabled = @ \ {f}]
              /\ Ends(f)
           \/ /\ Failed(f, "start") \/ Failed(f, "generate")
              /\ page' = [page EXCEPT !.disabled = @ \ {f}]
              /\ Ends(f)
        /\ UNCHANGED <<typing, story, acts>>

-----------------------------------------------------------------------------
(* prepareStoryboard: an edited script of a session is stored, a script that
   the user has typed becomes a new session. *)

ClickPrepare ==
    LET f == "prepare"
        at == IF ~(page.source = "llm" /\ page.id # Unset) THEN "manual"
              ELSE IF page.area # page.original THEN "update" ELSE "plan"
    IN  /\ f \notin page.disabled
        /\ ~Busy(f)
        /\ page.area # Unset
        /\ page' = [page EXCEPT !.disabled = @ \cup {f}]
        /\ Becomes(f, [Ask(f, at) EXCEPT !.text = page.area,
                                         !.id = IF at = "manual" THEN Unset ELSE page.id])
        /\ UNCHANGED <<typing, story>>

BuildStep ==
    LET f == "prepare"
    IN  /\ \/ /\ Answered(f, "update")
              /\ page' = [page EXCEPT !.original = flow[f].text]
              /\ Becomes(f, Ask(f, "plan"))
           \/ /\ Answered(f, "manual")
              /\ page' = [page EXCEPT !.id = flow[f].id, !.source = "llm",
                                       !.original = flow[f].text]
              /\ Becomes(f, Ask(f, "plan"))
           \/ /\ Answered(f, "plan")
              /\ Becomes(f, Ask(f, "search"))
              /\ UNCHANGED page
           \/ /\ Answered(f, "search")
              /\ page' = [Draw(page, flow[f].got) EXCEPT !.syncing = TRUE]
              /\ Becomes(f, Wait(f, "drawing"))
           \/ /\ \E at \in {"update", "manual", "plan", "search"} : Failed(f, at)
              /\ page' = Abandon(page)
              /\ Ends(f)
        /\ UNCHANGED <<typing, story, acts>>

(* The await of renderStoryboard, which may reject *)
Drawn ==
    /\ flow["prepare"].at = "drawing"
    /\ \/ Becomes("prepare", Ask("prepare", "sync")) /\ UNCHANGED page
       \/ Ends("prepare") /\ page' = Abandon(page)
    /\ UNCHANGED <<typing, story, acts>>

-----------------------------------------------------------------------------
(* The voice: runStorySync, waitForStorySyncSession *)

Voices == {"prepare", "retry"}

ClickRetry ==
    /\ page.id # Unset
    /\ ~page.syncing
    /\ ~Busy("retry")
    /\ page' = [page EXCEPT !.syncing = TRUE]
    /\ Becomes("retry", [Ask("retry", "sync") EXCEPT !.id = page.id])
    /\ UNCHANGED <<typing, story>>

(* A session is returned: it is shown and drawn. *)
VoiceReady(f, session) ==
    /\ page' = [Draw(page, session) EXCEPT !.syncing = FALSE]
    /\ Becomes(f, Wait(f, "redrawing"))

(* What is thrown is caught: the error is shown. *)
VoiceFails(f) ==
    /\ LET p == [page EXCEPT !.syncing = FALSE]
       IN  page' = IF f = "prepare" THEN Prepared(p) ELSE p
    /\ Ends(f)

SyncStep(f) ==
    /\ \/ /\ Answered(f, "sync")
          /\ IF flow[f].got.voice = "current"
             THEN VoiceReady(f, flow[f].got)
             ELSE Becomes(f, Poll(f, "voice")) /\ UNCHANGED page
       \/ Failed(f, "sync") /\ VoiceFails(f)
    /\ UNCHANGED <<typing, story, acts>>

(* The polls are used up: a last session whose voice is current will do. *)
PollsEnd(f, last) ==
    IF last # Unset /\ last.voice = "current" THEN VoiceReady(f, last) ELSE VoiceFails(f)

VoicePollStep(f) ==
    /\ flow[f].at = "voice"
    /\ \/ /\ flow[f].asked = "ok"
          /\ LET got == flow[f].got
                 p   == [page EXCEPT !.shown = got]
             IN  IF got.ready THEN VoiceReady(f, got)
                 ELSE IF flow[f].left > 1
                 THEN /\ Becomes(f, [Ask(f, "voice") EXCEPT !.left = @ - 1, !.last = got])
                      /\ page' = p
                 ELSE PollsEnd(f, got)
       \/ /\ flow[f].asked = "lost"
          /\ IF flow[f].left > 1
             THEN /\ Becomes(f, [Ask(f, "voice") EXCEPT !.left = @ - 1])
                  /\ UNCHANGED page
             ELSE PollsEnd(f, flow[f].last)
       \/ flow[f].asked = "refused" /\ VoiceFails(f)
    /\ UNCHANGED <<typing, story, acts>>

(* The second await of renderStoryboard, inside the inner try *)
Redrawn(f) ==
    /\ flow[f].at = "redrawing"
    /\ \E drawn \in BOOLEAN :
           LET p == IF drawn THEN page ELSE [page EXCEPT !.syncing = FALSE]
           IN  page' = IF f = "prepare" THEN Prepared(p) ELSE p
    /\ Ends(f)
    /\ UNCHANGED <<typing, story, acts>>

-----------------------------------------------------------------------------
(* A beat is edited where it is shown, or in the beat editor, which also writes
   the script's text field: commitBeatTextEdit, handleBeatEditorCommitInSessionMode *)

CommitBeat(text) ==
    /\ page.id # Unset
    /\ page.shown # Unset
    /\ ~Busy("edit")
    /\ Becomes("edit", [Ask("edit", "beat") EXCEPT !.id = page.id, !.text = text])
    /\ UNCHANGED <<page, typing, story>>

CommitBeatStep ==
    /\ \/ /\ Answered("edit", "beat")
          /\ LET t == flow["edit"].got.text
             IN  \E area \in {page.area, t} :
                     page' = IF page.shown = Unset THEN page
                             ELSE [Relabel(Retold(page, t)) EXCEPT !.area = area]
       \/ Failed("edit", "beat") /\ UNCHANGED page
    /\ Ends("edit")
    /\ UNCHANGED <<typing, story, acts>>

-----------------------------------------------------------------------------
(* renderArticle: without a session one is made of the draft. *)

(* The X-Idempotency-Key of a finalize request *)
FreshKey(id) == <<id, acts>>
FinalizeKey(id) == id

AskForFilm(f, id) == [Ask(f, "finalize") EXCEPT !.id = id, !.key = FinalizeKey(id)]

ClickRender(f) ==
    /\ "render" \notin page.disabled
    /\ ~Busy(f)
    /\ LET p == [page EXCEPT !.disabled = @ \cup {"render"}]
       IN  \/ /\ page.id = Unset
              /\ \E t \in Scripts : Becomes(f, [Ask(f, "create") EXCEPT !.text = t])
              /\ page' = p
           \/ /\ page.id # Unset
              /\ Becomes(f, AskForFilm(f, page.id))
              /\ page' = [p EXCEPT !.banner = TRUE]
    /\ UNCHANGED <<typing, story>>

(* ensureSessionFromDraft; its failure leaves no session. *)
NoSession(p) == [p EXCEPT !.id = Unset, !.shown = Unset]

CreateStep(f) ==
    /\ \/ /\ Answered(f, "create")
          /\ page' = Draw([page EXCEPT !.id = flow[f].got.id], flow[f].got)
          /\ Becomes(f, Wait(f, "making"))
       \/ /\ flow[f].at = "making"
          /\ page' = [page EXCEPT !.draft = "empty", !.banner = TRUE]
          /\ Becomes(f, AskForFilm(f, page.id))
       \/ /\ Failed(f, "create") \/ flow[f].at = "making"
          /\ page' = RenderOver(NoSession(page))
          /\ Ends(f)
    /\ UNCHANGED <<typing, story, acts>>

RenderFails(f) == page' = RenderOver(page) /\ Ends(f)

FilmReady(f, session) == page' = RenderOver(ShowFilm(page, session)) /\ Ends(f)

FinalizeStep(f) ==
    /\ \/ /\ Answered(f, "finalize")
          /\ IF flow[f].got.film THEN FilmReady(f, flow[f].got)
             ELSE Becomes(f, Poll(f, "film")) /\ UNCHANGED page
       \/ /\ flow[f].at = "finalize"
          /\ flow[f].asked = "lost"
          /\ IF flow[f].id = Unset THEN RenderFails(f)
             ELSE Becomes(f, Poll(f, "film")) /\ UNCHANGED page
       \/ /\ flow[f].at = "finalize"
          /\ flow[f].asked = "refused"
          /\ RenderFails(f)
    /\ UNCHANGED <<typing, story, acts>>

(* waitForRenderedStorySession *)
FilmPollStep(f) ==
    /\ flow[f].at = "film"
    /\ \/ flow[f].asked = "ok" /\ flow[f].got.film /\ FilmReady(f, flow[f].got)
       \/ /\ \/ flow[f].asked = "ok" /\ ~flow[f].got.film
             \/ flow[f].asked = "lost"
          /\ IF flow[f].left > 1
             THEN Becomes(f, [Ask(f, "film") EXCEPT !.left = @ - 1]) /\ UNCHANGED page
             ELSE RenderFails(f)
       \/ flow[f].asked = "refused" /\ RenderFails(f)
    /\ UNCHANGED <<typing, story, acts>>

-----------------------------------------------------------------------------
(* The script's text field and the draft *)

(* The input handler, and its timer after it *)
Type(text) ==
    /\ page' = [page EXCEPT !.area = text]
    /\ typing' = TRUE
    /\ UNCHANGED <<flow, story>>

TypingSettles ==
    /\ typing
    /\ typing' = FALSE
    /\ page' = [page EXCEPT !.source = "manual"]
    /\ UNCHANGED <<flow, story, acts>>

(* Beats are added, filled and deleted while there is no session. *)
EditDraft(draft) ==
    /\ page.id = Unset
    /\ page' = Relabel([page EXCEPT !.draft = draft])
    /\ UNCHANGED <<typing, flow, story>>

-----------------------------------------------------------------------------
(* Before anything, and with a story that has been built *)
BlankPage == [id |-> Unset, shown |-> Unset, area |-> Unset, original |-> Unset,
              source |-> "none", draft |-> "empty", syncing |-> FALSE,
              disabled |-> {"render"}, banner |-> FALSE]

BuiltStory(t) == [NoStory EXCEPT !.text = t, !.planned = TRUE, !.board = TRUE,
                                 !.voice = "current"]

BuiltPage(s, t) ==
    [BlankPage EXCEPT !.id = s, !.shown = Presented(s, BuiltStory(t)), !.area = t,
                      !.original = t, !.source = "llm", !.disabled = {}]

PageInit ==
    /\ \/ page = BlankPage /\ story = [s \in Stories |-> NoStory]
       \/ \E built \in Stories, t \in Scripts :
              /\ page = BuiltPage(built, t)
              /\ story = [s \in Stories |-> IF s = built THEN BuiltStory(t) ELSE NoStory]
    /\ typing = FALSE
    /\ flow = [f \in Flows |-> IdleFlow]
    /\ acts = 0

Act ==
    /\ acts < MaxActs
    /\ acts' = acts + 1
    /\ \/ ClickSummarize \/ ClickPrepare \/ ClickRetry
       \/ \E t \in Scripts : CommitBeat(t) \/ Type(t)
       \/ \E f \in Renders : ClickRender(f)
       \/ \E d \in {"empty", "valid"} : EditDraft(d)

Outcome(f) == Serve(f) \/ Refuse(f) \/ Lose(f) \/ TimeOut(f)

PageStep(f) ==
    \/ f = "summarize" /\ SummarizeStep
    \/ f = "prepare" /\ (BuildStep \/ Drawn)
    \/ f \in Voices /\ (SyncStep(f) \/ VoicePollStep(f) \/ Redrawn(f))
    \/ f = "edit" /\ CommitBeatStep
    \/ f \in Renders /\ (CreateStep(f) \/ FinalizeStep(f) \/ FilmPollStep(f))

PageNext ==
    \/ Act
    \/ TypingSettles
    \/ \E f \in Flows : Outcome(f) \/ PageStep(f)
    \/ \E s \in Stories : JobEnds(s)

(* A request is answered, fails or times out; the page handles what it gets. *)
PageFairness == \A f \in Flows : WF_pageVars(Outcome(f) \/ PageStep(f))

PageSpec == PageInit /\ [][PageNext]_pageVars /\ PageFairness

-----------------------------------------------------------------------------
(* However requests fail and overlap, the page does not stay as it is while it
   works: when the user has stopped, its buttons come back, the render banner
   goes and the preview stops saying that it syncs. *)
Working == \/ page.syncing \/ page.banner
           \/ page.disabled \cap {"summarize", "prepare"} # {}

PageSettles == []<>~Working

(* Rendering is asked for again after errors, timeouts, edits and by a second
   click, and a second key would render and charge again: from this page a story
   gets one finalize attempt at most. *)
OneAttemptPerStory == \A s \in Stories : Cardinality(story[s].keys) <= 1

(* Not so: the storyboard that is shown is of the session the page names. *)
ShownIsNamed == page.shown # Unset /\ page.id # Unset => page.shown.id = page.id

(* Not so: a preview that is said to be ready speaks the sentences shown. *)
ReadyIsSpoken == page.shown # Unset /\ page.shown.ready => page.shown.voice = "current"

(* Not so: with nothing going on, a page that takes its storyboard for the
   script's shows the script. *)
BuiltAsWritten ==
    /\ page.shown # Unset /\ page.area = page.original
    /\ \A f \in Flows : ~Busy(f)
    => page.shown.text = page.area
=============================================================================
