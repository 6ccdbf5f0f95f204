--------------------------- MODULE CreativeShell ---------------------------
(***************************************************************************)
(* The four steps of the creative page and the one button under them.      *)
(*                                                                         *)
(* Which steps are open, and what the button does, is computed from the    *)
(* script, the session shown and the functions under way whenever one of   *)
(* them calls syncCreativeStepShell.  A step that is no longer open is     *)
(* left; the button keeps what it said until the next call.  The call      *)
(* itself can throw: getCurrentShellAction names a constant that only      *)
(* getCreativeStepStates has.                                              *)
(*                                                                         *)
(* A function of the page is its awaits here, and the API answers at the   *)
(* moment of its answer; what crosses on the way is in StoryPage.          *)
(***************************************************************************)
EXTENDS Naturals, FiniteSets

CONSTANTS
    Titles,    \* sessions that can be created
    Wordings,  \* scripts
    Scenes,    \* beats of a storyboard
    Builders,  \* runs of prepareStoryboard that can overlap
    MaxMoves,  \* bound of the model: acts of the user
    Nil        \* null, and the empty script

ASSUME ScenesAreSome == Scenes # {} /\ Nil \notin Titles /\ Nil \notin Wordings
ASSUME NilIsNoSession ==
    Nil \notin [id : Titles, clips : SUBSET Scenes,
                 reason : {"VOICE_SYNC_NOT_CURRENT", "MISSING_CLIP_COVERAGE", "ready"}]
ASSUME BuildersAreApart ==
    Builders \cap {"summarize", "retry", "edit", "panel", "render"} = {}

VARIABLES
    shell,  \* the globals and controls of the page
    jobs,   \* its functions that await an answer
    shelf,  \* the sessions as stored
    moves   \* acts of the user so far

shellVars == <<shell, jobs, shelf, moves>>

Steps == {"start", "script", "storyboard", "render"}

Jobs == {"summarize", "retry", "edit", "panel", "render"} \cup Builders

NoJob == [at |-> "idle", id |-> Nil, text |-> Nil]

NoTale == [text |-> Nil, clips |-> {}, voice |-> "never"]

-----------------------------------------------------------------------------
(* What a session says *)

(* buildStoryPreviewReadiness: the reason why a preview is not ready *)
Reason(tale) ==
    CASE tale.voice # "current" -> "VOICE_SYNC_NOT_CURRENT"
      [] tale.voice = "current" /\ tale.clips # Scenes -> "MISSING_CLIP_COVERAGE"
      [] OTHER -> "ready"

Presentation(t, tale) ==
    [id |-> t, clips |-> tale.clips, reason |-> Reason(tale)]

(* hasPreparedStoryboardSession: of any session with beats, whatever its id *)
HasBoard(s) == s.id # Nil /\ s.shown # Nil

(* isStoryboardSyncedToScript *)
BoardIsOfScript(s) == HasBoard(s) /\ s.area = s.original

(* hasRenderableStoryboardSession *)
HasScene(s) == HasBoard(s) /\ s.shown.clips # {}

(* hasCurrentStoryPreviewSync *)
PreviewPlays(s) == s.shown # Nil /\ s.shown.reason = "ready"

RenderOpen(s) == BoardIsOfScript(s) /\ HasScene(s) /\ PreviewPlays(s)

(* getCreativeStepStates: the steps that are unlocked *)
StepOpen(s, step) ==
    CASE step = "storyboard" -> HasBoard(s)
      [] step = "render" -> RenderOpen(s)
      [] OTHER -> TRUE

(* normalizeCreativeStep *)
NearestOpen(s) ==
    CASE StepOpen(s, s.step) -> s.step
      [] ~StepOpen(s, s.step) /\ s.step = "render" /\ HasBoard(s) -> "storyboard"
      [] OTHER -> "script"

-----------------------------------------------------------------------------
(* The button under the steps *)

Button(target, on) == [to |-> target, on |-> on]

(* getCurrentShellAction; a refresh is offered while one runs. *)
Action(s) ==
    CASE s.step = "start" ->
             Button("summarize", s.auth = "ready" /\ s.source /\ "summarize" \notin s.off)
      [] s.step = "script" ->
             Button("prepare", s.area # Nil /\ "prepare" \notin s.off)
      [] s.step = "storyboard" /\ ~BoardIsOfScript(s) ->
             Button("prepare", s.area # Nil)
      [] s.step = "storyboard" /\ BoardIsOfScript(s) ->
             Button("step", RenderOpen(s))
      [] OTHER -> Button("render", "render" \notin s.off)

(* getCurrentShellAction throws where only the reason of the block is left to
   say: previewBlockedMessage is not defined there. *)
Throws(s) ==
    /\ s.step = "storyboard"
    /\ BoardIsOfScript(s) /\ ~RenderOpen(s)
    /\ ~s.syncing /\ s.error = "none"

(* syncCreativeStepShell: the step is set before the button's action is asked
   for; deaf is a history variable. *)
Synced(s) ==
    LET moved == [s EXCEPT !.step = NearestOpen(s), !.deaf = FALSE]
    IN  IF Throws(moved) THEN moved ELSE [moved EXCEPT !.button = Action(moved)]

(* Mutant: the shell is told before the button is on again. *)
LoadedLate(s, button) ==
    LET told == Synced(s)
    IN  IF Throws(told) THEN told ELSE Synced([s EXCEPT !.off = @ \ {button}])

(* setLoading *)
Loading(s, button) == Synced([s EXCEPT !.off = @ \cup {button}])
Loaded(s, button) == Synced([s EXCEPT !.off = @ \ {button}])

(* updateRenderArticleButtonState; the page has no draft. *)
RenderRelabeled(s) ==
    Synced([s EXCEPT !.off = IF HasScene(s) THEN @ \ {"render"} ELSE @ \cup {"render"}])

(* updateScriptCounters: the build that has switched its button off may still run. *)
Counted(s) ==
    Synced([s EXCEPT !.off = IF s.area = Nil THEN @ \cup {"prepare"} ELSE @ \ {"prepare"}])

(* Mutant: a step that has opened is gone to, and the button left as it was. *)
StepSetOnly(s, step) == IF StepOpen(s, step) THEN [s EXCEPT !.step = step] ELSE s

(* setCreativeStep *)
StepSet(s, step) == IF StepOpen(s, step) THEN Synced([s EXCEPT !.step = step]) ELSE s

-----------------------------------------------------------------------------
(* The functions: what an answer leaves them with *)

Busy(j) == jobs[j].at # "idle"

Goes(j, job) == jobs' = [jobs EXCEPT ![j] = job]

Over(j) == Goes(j, NoJob)

Shelved(t, tale) == shelf' = [shelf EXCEPT ![t] = tale]

Unshelved == {t \in Titles : /\ shelf[t] = NoTale /\ shell.id # t
                             /\ \A j \in Jobs : jobs[j].id # t}

Retimed(tale) == [tale EXCEPT !.voice = IF @ = "never" THEN "never" ELSE "stale"]

(* summarizeArticle *)
ClickSummarize ==
    /\ "summarize" \notin shell.off
    /\ shell' = Loading(shell, "summarize")
    /\ Goes("summarize", [NoJob EXCEPT !.at = "starting"])
    /\ UNCHANGED shelf

SummarizeAnswered ==
    /\ Busy("summarize")
    /\ \/ /\ jobs["summarize"].at = "starting"
          /\ \E t \in Unshelved :
                 /\ shell' = [shell EXCEPT !.id = t]
                 /\ Goes("summarize", [NoJob EXCEPT !.at = "writing", !.id = t])
          /\ UNCHANGED shelf
       \/ /\ jobs["summarize"].at = "writing"
          /\ \E w \in Wordings :
                 /\ Shelved(jobs["summarize"].id, [NoTale EXCEPT !.text = w])
                 /\ LET s == Counted([shell EXCEPT !.area = w, !.original = w, !.by = "llm"])
                    IN  shell' = Loaded(StepSet(s, "script"), "summarize")
          /\ Over("summarize")
       \/ /\ shell' = Loaded(shell, "summarize")
          /\ Over("summarize")
          /\ UNCHANGED shelf
    /\ UNCHANGED moves

(* prepareStoryboard: the script of a session is stored if it was edited; a
   script that the user has typed becomes a session, and its counters switch the
   button on again. *)
ClickBuild(b) ==
    LET ofSession == shell.by = "llm" /\ shell.id # Nil
        s == Loading(shell, "prepare")
    IN  /\ ~Busy(b)
        /\ "prepare" \notin shell.off
        /\ shell.area # Nil
        /\ shell' = IF ofSession THEN s ELSE Counted(s)
        /\ Goes(b, [at |-> IF ofSession /\ shell.area = shell.original
                           THEN "searching" ELSE "writing",
                    id |-> IF ofSession THEN shell.id ELSE Nil,
                    text |-> shell.area])
        /\ UNCHANGED shelf

(* What follows the sync of a build, and the catch around all of it *)
Built(s) == Loaded(RenderRelabeled(s), "prepare")
BuildFailed(s) == Loaded([s EXCEPT !.syncing = FALSE], "prepare")

(* A synced session is drawn; what that throws becomes the error of the sync. *)
Drawn(s, t, tale) ==
    LET d == RenderRelabeled([s EXCEPT !.shown = Presentation(t, tale),
                                       !.syncing = FALSE, !.error = "none"])
    IN  IF Throws(d) THEN Synced([d EXCEPT !.error = "thrown"]) ELSE d

SyncFailed(s) == Synced([s EXCEPT !.syncing = FALSE, !.error = "failed"])

BuildAnswered(b) ==
    LET job == jobs[b]
    IN  /\ \/ /\ job.at = "writing"
              /\ \E t \in IF job.id = Nil THEN Unshelved ELSE {job.id} :
                     /\ Shelved(t, [NoTale EXCEPT !.text = job.text])
                     /\ shell' = [shell EXCEPT !.id = IF job.id = Nil THEN t ELSE @,
                                               !.by = IF job.id = Nil THEN "llm" ELSE @,
                                               !.original = job.text]
                     /\ Goes(b, [job EXCEPT !.at = "searching", !.id = t])
           \/ /\ job.at = "searching"
              /\ \E clips \in SUBSET Scenes :
                     LET tale == [shelf[job.id] EXCEPT !.clips = clips]
                         s == RenderRelabeled([shell EXCEPT
                                  !.shown = Presentation(job.id, tale),
                                  !.error = "none", !.syncing = TRUE])
                     IN  /\ Shelved(job.id, tale)
                         /\ shell' = StepSet(s, "storyboard")
              /\ Goes(b, [job EXCEPT !.at = "syncing"])
           \/ /\ job.at = "syncing"
              /\ LET tale == [shelf[job.id] EXCEPT !.voice = "current"]
                 IN  /\ Shelved(job.id, tale)
                     /\ shell' = Built(Drawn(shell, job.id, tale))
              /\ Over(b)
           \/ /\ job.at = "syncing"
              /\ shell' = Built(SyncFailed(shell))
              /\ Over(b)
              /\ UNCHANGED shelf
           \/ /\ job.at \in {"writing", "searching"}
              /\ shell' = BuildFailed(shell)
              /\ Over(b)
              /\ UNCHANGED shelf
        /\ UNCHANGED moves

(* retryStoryboardPreviewSync; its button is shown while the preview is blocked. *)
ClickRetry ==
    /\ shell.step = "storyboard"
    /\ shell.id # Nil /\ ~shell.syncing /\ ~PreviewPlays(shell)
    /\ ~Busy("retry")
    /\ shell' = Synced([shell EXCEPT !.error = "none", !.syncing = TRUE])
    /\ Goes("retry", [NoJob EXCEPT !.at = "syncing", !.id = shell.id])
    /\ UNCHANGED shelf

RetryAnswered ==
    LET t == jobs["retry"].id
    IN  /\ Busy("retry")
        /\ \/ /\ shelf[t].text # Nil
              /\ LET tale == [shelf[t] EXCEPT !.voice = "current"]
                 IN  /\ Shelved(t, tale)
                     /\ shell' = Drawn(shell, t, tale)
           \/ shell' = SyncFailed(shell) /\ UNCHANGED shelf
        /\ Over("retry")
        /\ UNCHANGED moves

(* A beat's new text is committed on the storyboard, or in the beat editor, which
   then writes the script's field too, unless the drawing before has thrown. *)
CommitText ==
    /\ shell.step \in {"script", "storyboard"}
    /\ shell.id # Nil /\ shell.shown # Nil
    /\ ~Busy("edit")
    /\ \E w \in Wordings : Goes("edit", [at |-> "writing", id |-> shell.id, text |-> w])
    /\ UNCHANGED <<shell, shelf>>

TextAnswered ==
    LET job == jobs["edit"]
        s == RenderRelabeled(shell)
    IN  /\ Busy("edit")
        /\ \/ /\ shelf[job.id].text # Nil
              /\ Shelved(job.id, Retimed([shelf[job.id] EXCEPT !.text = job.text]))
              /\ \/ shell' = s
                 \/ ~Throws(s) /\ shell' = Counted([s EXCEPT !.area = job.text])
           \/ UNCHANGED <<shell, shelf>>
        /\ Over("edit")
        /\ UNCHANGED moves

(* A clip is chosen (handleClipOptionClick), or the cuts are saved or reset
   (setupVideoCutsPanelListeners): the session that is stored is shown. *)
AskPanel ==
    /\ shell.step = "storyboard"
    /\ shell.id # Nil /\ shell.shown # Nil
    /\ ~Busy("panel")
    /\ \E at \in {"picking", "cutting"} : Goes("panel", [NoJob EXCEPT !.at = at, !.id = shell.id])
    /\ UNCHANGED <<shell, shelf>>

PanelAnswered ==
    LET job == jobs["panel"]
        Show(tale) == [shell EXCEPT !.shown = Presentation(job.id, tale)]
    IN  /\ Busy("panel")
        /\ \/ /\ job.at = "picking" /\ shelf[job.id].text # Nil
              /\ \E scene \in Scenes :
                     LET tale == [shelf[job.id] EXCEPT !.clips = @ \cup {scene}]
                     IN  /\ Shelved(job.id, tale)
                         /\ shell' = RenderRelabeled(Show(tale))
           \/ /\ job.at = "cutting" /\ shelf[job.id].text # Nil
              /\ shell' = Synced(Show(shelf[job.id]))
              /\ UNCHANGED shelf
           \/ UNCHANGED <<shell, shelf>>
        /\ Over("panel")
        /\ UNCHANGED moves

(* renderArticle, of a session; the status line is shown.  The API takes a
   session whose voice is current. *)
ClickRender ==
    /\ shell.id # Nil /\ "render" \notin shell.off
    /\ ~Busy("render")
    /\ shell' = Loading(shell, "render")
    /\ Goes("render", [NoJob EXCEPT
                          !.at = IF shelf[shell.id].voice = "current"
                                 THEN "rendering" ELSE "refused",
                          !.id = shell.id])
    /\ UNCHANGED shelf

(* The finally of renderArticle: hideRenderStatus syncs the shell before the
   button is switched on. *)
RenderOver(s) ==
    LET hidden == Synced(s)
    IN  IF Throws(hidden) THEN hidden ELSE RenderRelabeled(Loaded(hidden, "render"))

RenderAnswered ==
    LET t == jobs["render"].id
    IN  /\ Busy("render")
        /\ \/ /\ jobs["render"].at = "rendering" /\ shelf[t].clips # {}
              /\ LET s == [shell EXCEPT !.shown = Presentation(t, shelf[t]), !.id = t]
                 IN  shell' = RenderOver(StepSet(s, "render"))
           \/ shell' = RenderOver(shell)
        /\ Over("render")
        /\ UNCHANGED <<shelf, moves>>

-----------------------------------------------------------------------------
(* The steps and the button *)

(* data-step-nav *)
ClickStep(step) ==
    /\ StepOpen(shell, step)
    /\ shell' = StepSet(shell, step)
    /\ UNCHANGED <<jobs, shelf, moves>>

(* guided-step-primary-btn: the action is asked for again, and can throw. *)
ClickButton ==
    LET action == Action(shell)
    IN  /\ shell.button.on /\ action.on /\ ~Throws(shell)
        /\ \/ action.to = "summarize" /\ ClickSummarize
           \/ action.to = "prepare" /\ \E b \in Builders : ClickBuild(b)
           \/ action.to = "render" /\ ClickRender
           \/ /\ action.to = "step"
              /\ shell' = StepSet(shell, "render")
              /\ UNCHANGED <<jobs, shelf>>

(* The script's field: its counters come later. *)
TypeScript ==
    /\ shell.step = "script"
    /\ \E w \in Wordings \cup {Nil} : shell' = [shell EXCEPT !.area = w, !.typing = TRUE]
    /\ UNCHANGED <<jobs, shelf>>

TypingCounts ==
    /\ shell.typing
    /\ shell' = Synced([Counted(shell) EXCEPT !.by = "manual", !.typing = FALSE])
    /\ UNCHANGED <<jobs, shelf, moves>>

(* The source's field, which nothing listens to *)
TypeSource ==
    /\ shell.step = "start"
    /\ ~shell.source
    /\ shell' = [shell EXCEPT !.source = TRUE, !.deaf = TRUE]
    /\ UNCHANGED <<jobs, shelf>>

(* setupCreativeAuthState *)
AuthChanges ==
    /\ shell.auth # "ready"
    /\ \E auth \in {"ready", "signed out"} :
           shell' = Synced([shell EXCEPT !.auth = auth])
    /\ UNCHANGED <<jobs, shelf, moves>>

-----------------------------------------------------------------------------
(* A new page, and one with a story that has been built *)
NewShell ==
    [auth |-> "checking", source |-> FALSE, deaf |-> FALSE, step |-> "start",
     area |-> Nil, original |-> Nil, by |-> "none", typing |-> FALSE,
     id |-> Nil, shown |-> Nil, syncing |-> FALSE, error |-> "none",
     off |-> {"render"}, button |-> Button("summarize", FALSE)]

ToldTale(w) == [text |-> w, clips |-> Scenes, voice |-> "current"]

ShellInit ==
    /\ \/ shell = NewShell /\ shelf = [t \in Titles |-> NoTale]
       \/ \E t \in Titles, w \in Wordings :
              /\ shelf = [u \in Titles |-> IF u = t THEN ToldTale(w) ELSE NoTale]
              /\ shell = [NewShell EXCEPT
                     !.auth = "ready", !.step = "storyboard", !.area = w, !.original = w,
                     !.by = "llm", !.id = t, !.shown = Presentation(t, ToldTale(w)),
                     !.off = {}, !.button = Button("step", TRUE)]
    /\ jobs = [j \in Jobs |-> NoJob]
    /\ moves = 0

Move == moves < MaxMoves /\ moves' = moves + 1

UserMoves ==
    \/ Move /\ (ClickButton \/ ClickRetry \/ CommitText \/ AskPanel)
    \/ Move /\ (TypeScript \/ TypeSource)
    \/ \E step \in Steps : ClickStep(step)

PageMoves ==
    \/ SummarizeAnswered \/ RetryAnswered \/ TextAnswered \/ PanelAnswered
    \/ RenderAnswered \/ TypingCounts \/ AuthChanges
    \/ \E b \in Builders : BuildAnswered(b)

ShellNext == UserMoves \/ PageMoves

ShellSpec == ShellInit /\ [][ShellNext]_shellVars

-----------------------------------------------------------------------------
(* Seven functions, a timer and a listener change what the shell is computed
   from, and each has to tell it: when none is under way, telling it again would
   change neither the step nor the button, except for the source typed since. *)
ShellIsCurrent ==
    (\A j \in Jobs : ~Busy(j)) /\ ~shell.typing /\ ~shell.deaf => Synced(shell) = shell

(* Whatever throws, fails or is switched on early: while the button of a script
   or of a build is off, the function that has switched it off is under way (or
   there is nothing to build). *)
OffMeansBusy ==
    /\ "summarize" \in shell.off => Busy("summarize")
    /\ "prepare" \in shell.off =>
           shell.area = Nil \/ shell.typing \/ \E b \in Builders : Busy(b)

(* The one button and the step tell of the session, and a button that is off of a
   function under way. *)
ShellTells == ShellIsCurrent /\ OffMeansBusy

(* Not so: "ALWAYS restore button state (runs even on early returns)", says
   renderArticle where it ends. *)
RenderButtonRestored ==
    ~Busy("render") /\ HasScene(shell) => "render" \notin shell.off
=============================================================================
