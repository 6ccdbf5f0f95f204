---------------------------- MODULE EditorProofs ----------------------------
(***************************************************************************)
(* Proofs about the page on which a story is made.                         *)
(***************************************************************************)
EXTENDS CreativeShell, TLAPS

-----------------------------------------------------------------------------
(* The steps and the button: telling the shell twice is telling it once *)

Buttons == {"summarize", "prepare", "render"}

SessionShown ==
    [id : Titles, clips : SUBSET Scenes,
     reason : {"VOICE_SYNC_NOT_CURRENT", "MISSING_CLIP_COVERAGE", "ready"}]

ShellType ==
    [auth : {"checking", "ready", "signed out"}, source : BOOLEAN, deaf : BOOLEAN,
     step : Steps, area : Wordings \cup {Nil}, original : Wordings \cup {Nil},
     by : {"none", "llm", "manual"}, typing : BOOLEAN, id : Titles \cup {Nil},
     shown : SessionShown \cup {Nil}, syncing : BOOLEAN,
     error : {"none", "failed", "thrown"}, off : SUBSET Buttons,
     button : [to : Buttons \cup {"step"}, on : BOOLEAN]]

TaleType ==
    [text : Wordings \cup {Nil}, clips : SUBSET Scenes,
     voice : {"never", "stale", "current"}]

JobType ==
    [at : {"idle", "starting", "writing", "searching", "syncing", "picking",
           "cutting", "rendering", "refused"},
     id : Titles \cup {Nil}, text : Wordings \cup {Nil}]

ShellTypeOK ==
    /\ shell \in ShellType
    /\ jobs \in [Jobs -> JobType]
    /\ shelf \in [Titles -> TaleType]

(* What Synced leaves alone *)
SameButShown(s, t) ==
    /\ t.auth = s.auth /\ t.source = s.source /\ t.area = s.area
    /\ t.original = s.original /\ t.by = s.by /\ t.typing = s.typing
    /\ t.id = s.id /\ t.shown = s.shown /\ t.syncing = s.syncing
    /\ t.error = s.error /\ t.off = s.off

LEMMA ActionType ==
  ASSUME NEW s \in ShellType
  PROVE  Action(s) \in [to : Buttons \cup {"step"}, on : BOOLEAN]
<1>1. /\ (s.auth = "ready" /\ s.source /\ "summarize" \notin s.off) \in BOOLEAN
      /\ (s.area # Nil /\ "prepare" \notin s.off) \in BOOLEAN
      /\ (s.area # Nil) \in BOOLEAN
      /\ RenderOpen(s) \in BOOLEAN
      /\ ("render" \notin s.off) \in BOOLEAN
  BY Zenon DEF RenderOpen
<1>2. QED
  BY <1>1 DEF Action, Button, Buttons

LEMMA SyncedFields ==
  ASSUME NEW s \in ShellType
  PROVE  /\ Synced(s) \in ShellType
         /\ SameButShown(s, Synced(s))
         /\ Synced(s).step = NearestOpen(s)
         /\ Synced(s).deaf = FALSE
<1> DEFINE moved == [s EXCEPT !.step = NearestOpen(s), !.deaf = FALSE]
<1>1. NearestOpen(s) \in Steps
  BY DEF NearestOpen, Steps, ShellType
<1>2. moved \in ShellType /\ SameButShown(s, moved)
  BY <1>1 DEF ShellType, SameButShown
<1>3. Action(moved) \in [to : Buttons \cup {"step"}, on : BOOLEAN]
  BY <1>2, ActionType
<1>4. moved.step = NearestOpen(s) /\ moved.deaf = FALSE
  BY DEF ShellType
<1> HIDE DEF moved
<1>5. [moved EXCEPT !.button = Action(moved)] \in ShellType
  BY <1>2, <1>3 DEF ShellType
<1>6. Synced(s) = IF Throws(moved) THEN moved ELSE [moved EXCEPT !.button = Action(moved)]
  BY DEF Synced, moved
<1>7. CASE Throws(moved)
  BY <1>2, <1>4, <1>6, <1>7
<1>8. CASE ~Throws(moved)
  <2> DEFINE told == [moved EXCEPT !.button = Action(moved)]
  <2>1. told.step = moved.step /\ told.deaf = moved.deaf /\ SameButShown(moved, told)
    BY <1>2 DEF ShellType, SameButShown
  <2>2. SameButShown(s, told)
    BY <1>2, <2>1 DEF SameButShown
  <2>3. QED
    BY <1>4, <1>5, <1>6, <1>8, <2>1, <2>2
<1>9. QED
  BY <1>7, <1>8

(* What is asked of a shell does not depend on the button, and only Action and
   Throws depend on the step. *)
LEMMA SameAnswers ==
  ASSUME NEW s \in ShellType, NEW t \in ShellType, SameButShown(s, t)
  PROVE  /\ HasBoard(t) = HasBoard(s) /\ RenderOpen(t) = RenderOpen(s)
         /\ \A step \in Steps : StepOpen(t, step) = StepOpen(s, step)
         /\ t.step = s.step => Action(t) = Action(s) /\ Throws(t) = Throws(s)
                               /\ NearestOpen(t) = NearestOpen(s)
<1>1. /\ HasBoard(t) = HasBoard(s) /\ BoardIsOfScript(t) = BoardIsOfScript(s)
      /\ HasScene(t) = HasScene(s) /\ PreviewPlays(t) = PreviewPlays(s)
  BY DEF SameButShown, HasBoard, BoardIsOfScript, HasScene, PreviewPlays
<1>2. RenderOpen(t) = RenderOpen(s)
  BY <1>1 DEF RenderOpen
<1>3. \A step : StepOpen(t, step) = StepOpen(s, step)
  BY <1>1, <1>2 DEF StepOpen
<1>4. ASSUME t.step = s.step
      PROVE  Action(t) = Action(s) /\ Throws(t) = Throws(s) /\ NearestOpen(t) = NearestOpen(s)
  <2>1. Action(t) = Action(s)
    BY <1>1, <1>2, <1>4 DEF Action, SameButShown
  <2>2. Throws(t) = Throws(s)
    BY <1>1, <1>2, <1>4 DEF Throws, SameButShown
  <2>3. NearestOpen(t) = NearestOpen(s)
    BY <1>1, <1>3, <1>4 DEF NearestOpen
  <2>4. QED
    BY <2>1, <2>2, <2>3
<1>5. QED
  BY <1>1, <1>2, <1>3, <1>4

(* The step that is nearest is open. *)
LEMMA NearestIsOpen ==
  ASSUME NEW s \in ShellType
  PROVE  StepOpen(s, NearestOpen(s))
<1>1. CASE StepOpen(s, s.step)
  BY <1>1 DEF NearestOpen
<1>2. CASE ~StepOpen(s, s.step) /\ s.step = "render" /\ HasBoard(s)
  BY <1>2 DEF NearestOpen, StepOpen
<1>3. CASE ~StepOpen(s, s.step) /\ ~(s.step = "render" /\ HasBoard(s))
  BY <1>3 DEF NearestOpen, StepOpen
<1>4. QED
  BY <1>1, <1>2, <1>3

LEMMA SyncedTwice ==
  ASSUME NEW s \in ShellType
  PROVE  Synced(Synced(s)) = Synced(s)
<1> DEFINE t == Synced(s)
           moved == [t EXCEPT !.step = NearestOpen(t), !.deaf = FALSE]
           once == [s EXCEPT !.step = NearestOpen(s), !.deaf = FALSE]
<1>1. t \in ShellType /\ SameButShown(s, t) /\ t.step = NearestOpen(s) /\ t.deaf = FALSE
  BY SyncedFields
<1>2. StepOpen(t, t.step)
  <2>1. NearestOpen(s) \in Steps
    BY DEF NearestOpen, Steps, ShellType
  <2>2. StepOpen(s, NearestOpen(s))
    BY NearestIsOpen
  <2>3. QED
    BY <1>1, <2>1, <2>2, SameAnswers
<1>3. NearestOpen(t) = t.step
  BY <1>2 DEF NearestOpen
<1>4. moved = t
  BY <1>1, <1>3 DEF ShellType
<1>5. once \in ShellType /\ SameButShown(once, t) /\ once.step = t.step
  <2>1. NearestOpen(s) \in Steps
    BY DEF NearestOpen, Steps, ShellType
  <2>2. QED
    BY <1>1, <2>1 DEF ShellType, SameButShown
<1>6. Action(t) = Action(once) /\ Throws(t) = Throws(once)
  BY <1>1, <1>5, SameAnswers
<1>7. t = IF Throws(once) THEN once ELSE [once EXCEPT !.button = Action(once)]
  BY DEF Synced
<1>8. ~Throws(once) => t.button = Action(once)
  BY <1>5, <1>7 DEF ShellType
<1>9. [t EXCEPT !.button = t.button] = t
  BY <1>1 DEF ShellType
<1>10. Synced(t) = IF Throws(moved) THEN moved ELSE [moved EXCEPT !.button = Action(moved)]
  BY DEF Synced
<1>11. CASE Throws(t)
  BY <1>4, <1>10, <1>11
<1>12. CASE ~Throws(t)
  BY <1>4, <1>6, <1>8, <1>9, <1>10, <1>12
<1>13. QED
  BY <1>11, <1>12

(* Told: a shell that is told, and has been *)
Told(s) == s \in ShellType /\ Synced(s) = s

LEMMA SyncedTold ==
  ASSUME NEW s \in ShellType
  PROVE  Told(Synced(s)) /\ SameButShown(s, Synced(s))
BY SyncedFields, SyncedTwice DEF Told

LEMMA ButtonTold ==
  ASSUME NEW s \in ShellType, NEW b \in Buttons
  PROVE  /\ Told(Loading(s, b)) /\ SameButShown([s EXCEPT !.off = @ \cup {b}], Loading(s, b))
         /\ Loading(s, b).off = s.off \cup {b}
         /\ Told(Loaded(s, b)) /\ SameButShown([s EXCEPT !.off = @ \ {b}], Loaded(s, b))
         /\ Loaded(s, b).off = s.off \ {b}
<1>1. /\ [s EXCEPT !.off = @ \cup {b}] \in ShellType
      /\ [s EXCEPT !.off = @ \ {b}] \in ShellType
  BY DEF ShellType
<1>2. /\ [s EXCEPT !.off = @ \cup {b}].off = s.off \cup {b}
      /\ [s EXCEPT !.off = @ \ {b}].off = s.off \ {b}
  BY DEF ShellType
<1>3. QED
  BY <1>1, <1>2, SyncedTold DEF Loading, Loaded, SameButShown

LEMMA RelabeledTold ==
  ASSUME NEW s \in ShellType
  PROVE  /\ Told(RenderRelabeled(s))
         /\ RenderRelabeled(s).off \in {s.off \cup {"render"}, s.off \ {"render"}}
         /\ RenderRelabeled(s).area = s.area /\ RenderRelabeled(s).typing = s.typing
<1> DEFINE off == IF HasScene(s) THEN s.off \ {"render"} ELSE s.off \cup {"render"}
           t == [s EXCEPT !.off = off]
<1>1. t \in ShellType /\ t.off = off /\ t.area = s.area /\ t.typing = s.typing
  BY DEF ShellType, Buttons
<1>2. RenderRelabeled(s) = Synced(t)
  BY DEF RenderRelabeled
<1>3. QED
  BY <1>1, <1>2, SyncedTold DEF SameButShown

LEMMA CountedTold ==
  ASSUME NEW s \in ShellType
  PROVE  /\ Told(Counted(s))
         /\ Counted(s).area = s.area /\ Counted(s).typing = s.typing
         /\ s.area = Nil => Counted(s).off = s.off \cup {"prepare"}
         /\ s.area # Nil => Counted(s).off = s.off \ {"prepare"}
<1> DEFINE off == IF s.area = Nil THEN s.off \cup {"prepare"} ELSE s.off \ {"prepare"}
           t == [s EXCEPT !.off = off]
<1>1. t \in ShellType /\ t.off = off /\ t.area = s.area /\ t.typing = s.typing
  BY DEF ShellType, Buttons
<1>2. Counted(s) = Synced(t)
  BY DEF Counted
<1>3. QED
  BY <1>1, <1>2, SyncedTold DEF SameButShown

LEMMA StepSetTold ==
  ASSUME NEW s \in ShellType, NEW step \in Steps
  PROVE  /\ StepSet(s, step) \in ShellType
         /\ Told(s) => Told(StepSet(s, step))
         /\ StepSet(s, step).off = s.off /\ StepSet(s, step).area = s.area
         /\ StepSet(s, step).typing = s.typing
<1> DEFINE t == [s EXCEPT !.step = step]
<1>1. t \in ShellType /\ SameButShown(s, t)
  BY DEF ShellType, SameButShown
<1>2. Told(Synced(t)) /\ SameButShown(t, Synced(t))
  BY <1>1, SyncedTold
<1>3. QED
  BY <1>1, <1>2 DEF StepSet, Told, SameButShown

-----------------------------------------------------------------------------
(* The functions of the page *)

(* Between the answer that gives a session and the answer that gives its script
   or its clips, a function has changed the page and not yet told the shell. *)
ShellTold ==
    /\ jobs["summarize"].at # "writing"
    /\ \A b \in Builders : jobs[b].at # "searching"
    /\ ~shell.typing /\ ~shell.deaf
    => Told(shell)

(* The session that a function is about, which two do not have at first *)
Named(j, job) ==
    job.id = Nil => \/ job.at = "idle"
                    \/ j = "summarize" /\ job.at = "starting"
                    \/ j \in Builders /\ job.at = "writing"

JobsNamed == \A j \in Jobs : Named(j, jobs[j])

ShellInv == ShellTypeOK /\ JobsNamed /\ ShellTold /\ OffMeansBusy

(* No button of a function is off that was on, unless there is no script. *)
NoneSwitchedOff(s, t) ==
    /\ "summarize" \in t.off => "summarize" \in s.off
    /\ "prepare" \in t.off =>
           t.area = Nil \/ ("prepare" \in s.off /\ t.area = s.area /\ t.typing = s.typing)

LEMMA JobGoes ==
  ASSUME jobs \in [Jobs -> JobType], NEW j \in Jobs, NEW job \in JobType, Goes(j, job)
  PROVE  /\ jobs' \in [Jobs -> JobType] /\ jobs'[j] = job
         /\ \A k \in Jobs \ {j} : jobs'[k] = jobs[k]
         /\ JobsNamed /\ Named(j, job) => JobsNamed'
<1>1. /\ jobs' \in [Jobs -> JobType] /\ jobs'[j] = job
      /\ \A k \in Jobs \ {j} : jobs'[k] = jobs[k]
  BY DEF Goes
<1>2. QED
  BY <1>1 DEF JobsNamed, Named

(* The functions that have no button of the shell, and always tell it *)
Plain == {"retry", "edit", "panel", "render"}

LEMMA PlainStep ==
  ASSUME ShellInv, NEW j \in Plain, NEW job \in JobType, Goes(j, job),
         job.at = "idle" \/ job.id # Nil,
         shelf' \in [Titles -> TaleType],
         \/ shell' = shell
         \/ Told(shell') /\ NoneSwitchedOff(shell, shell')
  PROVE  ShellInv'
<1>1. j \in Jobs /\ "summarize" \in Jobs \ {j} /\ Builders \subseteq Jobs \ {j}
  BY BuildersAreApart DEF Jobs, Plain
<1>2. /\ jobs' \in [Jobs -> JobType] /\ jobs'["summarize"] = jobs["summarize"]
      /\ \A b \in Builders : jobs'[b] = jobs[b]
      /\ JobsNamed'
  BY <1>1, JobGoes DEF ShellInv, ShellTypeOK, Named
<1>3. shell' \in ShellType
  BY DEF ShellInv, ShellTypeOK, Told
<1>4. ShellTypeOK'
  BY <1>2, <1>3 DEF ShellTypeOK
<1>5. ShellTold'
  BY <1>2 DEF ShellTold, ShellInv
<1>6. OffMeansBusy'
  BY <1>2 DEF OffMeansBusy, ShellInv, NoneSwitchedOff, Busy
<1>7. QED
  BY <1>2, <1>4, <1>5, <1>6 DEF ShellInv

(* Such a function is about a session while it runs. *)
LEMMA PlainNamed ==
  ASSUME ShellInv, NEW j \in Plain, Busy(j)
  PROVE  jobs[j] \in JobType /\ jobs[j].id \in Titles
<1>1. j \in Jobs /\ j \notin Builders /\ j # "summarize"
  BY BuildersAreApart DEF Plain, Jobs
<1>2. jobs[j] \in JobType /\ Named(j, jobs[j])
  BY <1>1 DEF ShellInv, ShellTypeOK, JobsNamed
<1>3. QED
  BY <1>1, <1>2 DEF Named, Busy, JobType

LEMMA NoJobType == NoJob \in JobType /\ NoJob.at = "idle"
BY DEF NoJob, JobType

LEMMA ShelvedType ==
  ASSUME shelf \in [Titles -> TaleType], NEW t \in Titles, NEW tale \in TaleType,
         Shelved(t, tale)
  PROVE  shelf' \in [Titles -> TaleType]
BY DEF Shelved

LEMMA PresentationType ==
  ASSUME NEW t \in Titles, NEW tale \in TaleType
  PROVE  Presentation(t, tale) \in SessionShown
<1>1. Reason(tale) \in {"VOICE_SYNC_NOT_CURRENT", "MISSING_CLIP_COVERAGE", "ready"}
  BY DEF Reason
<1>2. QED
  BY <1>1 DEF Presentation, SessionShown, TaleType

LEMMA ErrorType ==
  ASSUME NEW s \in ShellType
  PROVE  LET t == [s EXCEPT !.error = "thrown"]
         IN  t \in ShellType /\ t.off = s.off /\ t.area = s.area /\ t.typing = s.typing
BY DEF ShellType

(* A session that is drawn, or an error of its sync *)
LEMMA DrawnTold ==
  ASSUME NEW s \in ShellType, NEW t \in Titles, NEW tale \in TaleType
  PROVE  /\ Told(Drawn(s, t, tale)) /\ NoneSwitchedOff(s, Drawn(s, t, tale))
<1> DEFINE drawn == [s EXCEPT !.shown = Presentation(t, tale), !.syncing = FALSE,
                              !.error = "none"]
           d == RenderRelabeled(drawn)
           thrown == [d EXCEPT !.error = "thrown"]
<1>1. /\ drawn \in ShellType /\ drawn.off = s.off /\ drawn.area = s.area
      /\ drawn.typing = s.typing
  <2>1. drawn \in ShellType
    BY PresentationType DEF ShellType
  <2>2. drawn.off = s.off /\ drawn.area = s.area /\ drawn.typing = s.typing
    BY DEF ShellType
  <2>3. QED
    BY <2>1, <2>2
<1>2. /\ Told(d) /\ d.off \in {s.off \cup {"render"}, s.off \ {"render"}}
      /\ d.area = s.area /\ d.typing = s.typing
  BY <1>1, RelabeledTold
<1>3. NoneSwitchedOff(s, d)
  BY <1>2 DEF NoneSwitchedOff
<1>4. d \in ShellType
  BY <1>2 DEF Told
<1> HIDE DEF d
<1>5. /\ thrown \in ShellType /\ thrown.off = d.off /\ thrown.area = d.area
      /\ thrown.typing = d.typing
  BY <1>4, ErrorType
<1>6. Told(Synced(thrown)) /\ NoneSwitchedOff(s, Synced(thrown))
  BY <1>3, <1>5, SyncedTold DEF NoneSwitchedOff, SameButShown
<1>7. Drawn(s, t, tale) \in {d, Synced(thrown)}
  BY DEF Drawn, d
<1>8. QED
  BY <1>2, <1>3, <1>6, <1>7

LEMMA FailedTold ==
  ASSUME NEW s \in ShellType
  PROVE  Told(SyncFailed(s)) /\ NoneSwitchedOff(s, SyncFailed(s))
<1> DEFINE failed == [s EXCEPT !.syncing = FALSE, !.error = "failed"]
<1>1. failed \in ShellType
  BY DEF ShellType
<1>2. failed.off = s.off /\ failed.area = s.area /\ failed.typing = s.typing
  BY DEF ShellType
<1>3. QED
  BY <1>1, <1>2, SyncedTold DEF SyncFailed, NoneSwitchedOff, SameButShown

LEMMA RetryStep ==
  ASSUME ShellInv, ClickRetry \/ RetryAnswered
  PROVE  ShellInv'
<1> USE DEF ShellInv, ShellTypeOK
<1>1. CASE ClickRetry
  <2> DEFINE s == [shell EXCEPT !.error = "none", !.syncing = TRUE]
             job == [NoJob EXCEPT !.at = "syncing", !.id = shell.id]
  <2>1. /\ s \in ShellType /\ s.off = shell.off /\ s.area = shell.area
        /\ s.typing = shell.typing
    BY DEF ShellType
  <2>2. job \in JobType
    BY DEF NoJob, JobType, ShellType
  <2>3. Told(shell') /\ NoneSwitchedOff(shell, shell')
    BY <1>1, <2>1, SyncedTold DEF ClickRetry, NoneSwitchedOff, SameButShown
  <2>4. Goes("retry", job) /\ shelf' = shelf
    BY <1>1 DEF ClickRetry
  <2>5. job.id # Nil
    BY <1>1 DEF ClickRetry, NoJob
  <2>6. QED
    BY <2>2, <2>3, <2>4, <2>5, PlainStep DEF Plain
<1>2. CASE RetryAnswered
  <2> DEFINE t == jobs["retry"].id
             tale == [shelf[t] EXCEPT !.voice = "current"]
  <2>1. "retry" \in Plain /\ Goes("retry", NoJob)
    BY <1>2 DEF RetryAnswered, Over, Plain
  <2>2. t \in Titles
    BY <1>2, PlainNamed DEF RetryAnswered, Plain
  <2>3. CASE shelf[t].text # Nil /\ Shelved(t, tale) /\ shell' = Drawn(shell, t, tale)
    <3>1. tale \in TaleType
      BY <2>2 DEF TaleType
    <3>2. QED
      BY <2>1, <2>2, <2>3, <3>1, ShelvedType, DrawnTold, NoJobType, PlainStep
  <2>4. CASE shell' = SyncFailed(shell) /\ UNCHANGED shelf
    <3>1. Told(SyncFailed(shell)) /\ NoneSwitchedOff(shell, SyncFailed(shell))
      BY FailedTold
    <3>2. QED
      BY <2>1, <2>4, <3>1, NoJobType, PlainStep
  <2>5. QED
    BY <1>2, <2>3, <2>4 DEF RetryAnswered
<1>3. QED
  BY <1>1, <1>2

LEMMA TextStep ==
  ASSUME ShellInv, CommitText \/ TextAnswered
  PROVE  ShellInv'
<1> USE DEF ShellInv, ShellTypeOK
<1>1. CASE CommitText
  <2>1. PICK w \in Wordings : Goes("edit", [at |-> "writing", id |-> shell.id, text |-> w])
    BY <1>1 DEF CommitText
  <2> DEFINE job == [at |-> "writing", id |-> shell.id, text |-> w]
  <2>2. job \in JobType /\ job.id # Nil
    BY <1>1 DEF CommitText, JobType, ShellType
  <2>3. shell' = shell /\ shelf' = shelf
    BY <1>1 DEF CommitText
  <2>4. QED
    BY <2>1, <2>2, <2>3, PlainStep DEF Plain
<1>2. CASE TextAnswered
  <2> DEFINE job == jobs["edit"]
             s == RenderRelabeled(shell)
             typed == [s EXCEPT !.area = job.text]
             tale == [shelf[job.id] EXCEPT !.text = job.text]
  <2>1. "edit" \in Plain /\ Goes("edit", NoJob)
    BY <1>2 DEF TextAnswered, Over, Plain
  <2>2. job \in JobType /\ job.id \in Titles
    BY <1>2, <2>1, PlainNamed DEF TextAnswered
  <2>3. shelf' \in [Titles -> TaleType]
    <3>1. tale \in TaleType
      BY <2>2 DEF TaleType, JobType
    <3>2. Retimed(tale) \in TaleType
      BY <3>1 DEF TaleType, Retimed
    <3>3. shelf' = shelf \/ Shelved(job.id, Retimed(tale))
      BY <1>2 DEF TextAnswered
    <3>4. QED
      BY <2>2, <3>2, <3>3, ShelvedType
  <2>4. Told(s) /\ NoneSwitchedOff(shell, s)
    BY RelabeledTold DEF NoneSwitchedOff
  <2>5. Told(Counted(typed)) /\ NoneSwitchedOff(shell, Counted(typed))
    <3>1. s \in ShellType
      BY <2>4 DEF Told
    <3> HIDE DEF s
    <3>2. /\ typed \in ShellType /\ typed.off = s.off /\ typed.area = job.text
          /\ typed.typing = s.typing
      BY <2>2, <3>1 DEF ShellType, JobType
    <3>3. /\ Told(Counted(typed)) /\ Counted(typed).area = job.text
          /\ job.text = Nil => Counted(typed).off = s.off \cup {"prepare"}
          /\ job.text # Nil => Counted(typed).off = s.off \ {"prepare"}
      BY <3>2, CountedTold
    <3>4. NoneSwitchedOff(shell, Counted(typed))
      BY <2>4, <3>3 DEF NoneSwitchedOff
    <3>5. QED
      BY <3>3, <3>4
  <2>6. shell' \in {shell, s, Counted(typed)}
    BY <1>2 DEF TextAnswered
  <2>7. QED
    BY <2>1, <2>3, <2>4, <2>5, <2>6, NoJobType, PlainStep
<1>3. QED
  BY <1>1, <1>2

LEMMA PanelStep ==
  ASSUME ShellInv, AskPanel \/ PanelAnswered
  PROVE  ShellInv'
<1> USE DEF ShellInv, ShellTypeOK
<1>1. CASE AskPanel
  <2>1. PICK at \in {"picking", "cutting"} :
            Goes("panel", [NoJob EXCEPT !.at = at, !.id = shell.id])
    BY <1>1 DEF AskPanel
  <2> DEFINE job == [NoJob EXCEPT !.at = at, !.id = shell.id]
  <2>2. job \in JobType /\ job.id # Nil
    BY <1>1 DEF AskPanel, NoJob, JobType, ShellType
  <2>3. shell' = shell /\ shelf' = shelf
    BY <1>1 DEF AskPanel
  <2>4. QED
    BY <2>1, <2>2, <2>3, PlainStep DEF Plain
<1>2. CASE PanelAnswered
  <2> DEFINE job == jobs["panel"]
             shown(tale) == [shell EXCEPT !.shown = Presentation(job.id, tale)]
  <2>1. "panel" \in Plain /\ Goes("panel", NoJob)
    BY <1>2 DEF PanelAnswered, Over, Plain
  <2>2. job.id \in Titles
    BY <1>2, <2>1, PlainNamed DEF PanelAnswered
  <2>3. ASSUME NEW tale \in TaleType
        PROVE  /\ Told(RenderRelabeled(shown(tale))) /\ Told(Synced(shown(tale)))
               /\ NoneSwitchedOff(shell, RenderRelabeled(shown(tale)))
               /\ NoneSwitchedOff(shell, Synced(shown(tale)))
    <3>1. /\ shown(tale) \in ShellType /\ shown(tale).off = shell.off
          /\ shown(tale).area = shell.area /\ shown(tale).typing = shell.typing
      BY <2>2, PresentationType DEF ShellType
    <3> HIDE DEF shown
    <3>2. QED
      BY <3>1, RelabeledTold, SyncedTold DEF NoneSwitchedOff, SameButShown
  <2>4. CASE UNCHANGED <<shell, shelf>>
    BY <2>1, <2>4, NoJobType, PlainStep
  <2>5. ASSUME NEW scene \in Scenes,
               Shelved(job.id, [shelf[job.id] EXCEPT !.clips = @ \cup {scene}]),
               shell' = RenderRelabeled(shown([shelf[job.id] EXCEPT !.clips = @ \cup {scene}]))
        PROVE  ShellInv'
    <3> DEFINE tale == [shelf[job.id] EXCEPT !.clips = @ \cup {scene}]
    <3>1. tale \in TaleType
      BY <2>2 DEF TaleType
    <3> HIDE DEF tale, shown
    <3>2. QED
      BY <2>1, <2>2, <2>3, <2>5, <3>1, ShelvedType, NoJobType, PlainStep DEF tale
  <2>6. CASE shell' = Synced(shown(shelf[job.id])) /\ UNCHANGED shelf
    <3>1. shelf[job.id] \in TaleType
      BY <2>2
    <3> HIDE DEF shown
    <3>2. QED
      BY <2>1, <2>3, <2>6, <3>1, NoJobType, PlainStep
  <2>7. QED
    BY <1>2, <2>4, <2>5, <2>6 DEF PanelAnswered
<1>3. QED
  BY <1>1, <1>2

LEMMA RenderStep ==
  ASSUME ShellInv, ClickRender \/ RenderAnswered
  PROVE  ShellInv'
<1> USE DEF ShellInv, ShellTypeOK
<1>1. CASE ClickRender
  <2> DEFINE job == [NoJob EXCEPT !.at = IF shelf[shell.id].voice = "current"
                                         THEN "rendering" ELSE "refused",
                                  !.id = shell.id]
  <2>1. job \in JobType /\ job.id # Nil
    BY <1>1 DEF ClickRender, NoJob, JobType, ShellType
  <2>2. Told(Loading(shell, "render")) /\ NoneSwitchedOff(shell, Loading(shell, "render"))
    <3>1. [shell EXCEPT !.off = @ \cup {"render"}].area = shell.area
      BY DEF ShellType
    <3>2. [shell EXCEPT !.off = @ \cup {"render"}].typing = shell.typing
      BY DEF ShellType
    <3>3. "render" \in Buttons
      BY DEF Buttons
    <3>4. QED
      BY <3>1, <3>2, <3>3, ButtonTold DEF NoneSwitchedOff, SameButShown
  <2>3. Goes("render", job) /\ shelf' = shelf /\ shell' = Loading(shell, "render")
    BY <1>1 DEF ClickRender
  <2>4. QED
    BY <2>1, <2>2, <2>3, PlainStep DEF Plain
<1>2. CASE RenderAnswered
  <2> DEFINE t == jobs["render"].id
             s == [shell EXCEPT !.shown = Presentation(t, shelf[t]), !.id = t]
  <2>1. "render" \in Plain /\ Goes("render", NoJob) /\ shelf' = shelf
    BY <1>2 DEF RenderAnswered, Over, Plain
  <2>2. t \in Titles
    BY <1>2, <2>1, PlainNamed DEF RenderAnswered
  <2>3. ASSUME NEW r \in ShellType, r.off = shell.off, r.area = shell.area,
               r.typing = shell.typing
        PROVE  Told(RenderOver(r)) /\ NoneSwitchedOff(shell, RenderOver(r))
    <3> DEFINE hidden == Synced(r)
               on == Loaded(hidden, "render")
    <3>1. Told(hidden) /\ SameButShown(r, hidden) /\ hidden \in ShellType
      BY SyncedTold, SyncedFields
    <3>2. NoneSwitchedOff(shell, hidden)
      BY <2>3, <3>1 DEF NoneSwitchedOff, SameButShown
    <3> HIDE DEF hidden
    <3>3. /\ Told(on) /\ on.off = hidden.off \ {"render"}
          /\ on.area = hidden.area /\ on.typing = hidden.typing
      <4>1. /\ [hidden EXCEPT !.off = @ \ {"render"}].area = hidden.area
            /\ [hidden EXCEPT !.off = @ \ {"render"}].typing = hidden.typing
        BY <3>1 DEF ShellType
      <4>2. QED
        BY <3>1, <4>1, ButtonTold DEF Buttons, SameButShown
    <3>4. on \in ShellType
      BY <3>3 DEF Told
    <3> HIDE DEF on
    <3>5. Told(RenderRelabeled(on)) /\ NoneSwitchedOff(shell, RenderRelabeled(on))
      BY <3>2, <3>3, <3>4, RelabeledTold DEF NoneSwitchedOff
    <3>6. RenderOver(r) \in {hidden, RenderRelabeled(on)}
      BY DEF RenderOver, hidden, on
    <3>7. QED
      BY <3>1, <3>2, <3>5, <3>6
  <2>4. /\ s \in ShellType /\ s.off = shell.off /\ s.area = shell.area
        /\ s.typing = shell.typing
    BY <2>2, PresentationType DEF ShellType
  <2> HIDE DEF s
  <2>5. /\ StepSet(s, "render") \in ShellType /\ StepSet(s, "render").off = shell.off
        /\ StepSet(s, "render").area = shell.area
        /\ StepSet(s, "render").typing = shell.typing
    BY <2>4, StepSetTold DEF Steps
  <2>6. shell' \in {RenderOver(StepSet(s, "render")), RenderOver(shell)}
    BY <1>2 DEF RenderAnswered, s
  <2>7. Told(shell') /\ NoneSwitchedOff(shell, shell')
    BY <2>3, <2>5, <2>6
  <2>8. QED
    BY <2>1, <2>7, NoJobType, PlainStep
<1>3. QED
  BY <1>1, <1>2

(* What a step of a function that has a button has to show *)
LEMMA ButtonStep ==
  ASSUME ShellInv, NEW j \in Jobs, NEW job \in JobType, Goes(j, job), Named(j, job),
         shelf' \in [Titles -> TaleType], shell' \in ShellType,
         \/ Told(shell')
         \/ job.at = "writing" /\ j = "summarize"
         \/ job.at = "searching" /\ j \in Builders,
         OffMeansBusy'
  PROVE  ShellInv'
<1>1. jobs' \in [Jobs -> JobType] /\ jobs'[j] = job /\ JobsNamed'
  BY JobGoes DEF ShellInv, ShellTypeOK
<1>2. QED
  BY <1>1 DEF ShellInv, ShellTypeOK, ShellTold

LEMMA SummarizeStep ==
  ASSUME ShellInv, ClickSummarize \/ SummarizeAnswered
  PROVE  ShellInv'
<1> USE DEF ShellInv, ShellTypeOK
<1>1. "summarize" \in Jobs /\ "summarize" \notin Builders /\ Builders \subseteq Jobs
  BY BuildersAreApart DEF Jobs
<1>2. ASSUME NEW job \in JobType, Goes("summarize", job)
      PROVE  /\ \A b \in Builders : Busy(b)' = Busy(b)
             /\ Busy("summarize")' = (job.at # "idle")
  BY <1>1, <1>2, JobGoes DEF Busy
<1>3. CASE ClickSummarize
  <2> DEFINE job == [NoJob EXCEPT !.at = "starting"]
  <2>1. job \in JobType /\ job.at = "starting"
    BY DEF NoJob, JobType
  <2>2. Goes("summarize", job) /\ shelf' = shelf /\ shell' = Loading(shell, "summarize")
    BY <1>3 DEF ClickSummarize
  <2>3. /\ Told(shell') /\ shell'.off = shell.off \cup {"summarize"}
        /\ shell'.area = shell.area /\ shell'.typing = shell.typing
    <3>1. /\ [shell EXCEPT !.off = @ \cup {"summarize"}].area = shell.area
          /\ [shell EXCEPT !.off = @ \cup {"summarize"}].typing = shell.typing
      BY DEF ShellType
    <3>2. QED
      BY <2>2, <3>1, ButtonTold DEF Buttons, SameButShown
  <2>4. OffMeansBusy'
    BY <1>2, <2>1, <2>2, <2>3 DEF OffMeansBusy
  <2>5. QED
    BY <1>1, <2>1, <2>2, <2>3, <2>4, ButtonStep DEF Told, Named
<1>4. CASE SummarizeAnswered
  <2>1. ASSUME NEW t \in Titles, jobs["summarize"].at = "starting",
               shell' = [shell EXCEPT !.id = t], shelf' = shelf,
               Goes("summarize", [NoJob EXCEPT !.at = "writing", !.id = t])
        PROVE  ShellInv'
    <3> DEFINE job == [NoJob EXCEPT !.at = "writing", !.id = t]
    <3>1. job \in JobType /\ job.at = "writing" /\ job.id = t
      BY DEF NoJob, JobType
    <3>2. /\ shell' \in ShellType /\ shell'.off = shell.off /\ shell'.area = shell.area
          /\ shell'.typing = shell.typing
      BY <2>1 DEF ShellType
    <3>3. OffMeansBusy'
      BY <1>2, <2>1, <3>1, <3>2 DEF OffMeansBusy
    <3>4. Named("summarize", job)
      BY <3>1, ScenesAreSome DEF Named
    <3>5. QED
      BY <1>1, <2>1, <3>1, <3>2, <3>3, <3>4, ButtonStep
  <2>2. ASSUME NEW s \in ShellType, "prepare" \in s.off =>
                   s.area = Nil \/ ("prepare" \in shell.off /\ s.area = shell.area
                                    /\ s.typing = shell.typing),
               shell' = Loaded(s, "summarize"), Goes("summarize", NoJob),
               shelf' \in [Titles -> TaleType]
        PROVE  ShellInv'
    <3>1. /\ Told(shell') /\ shell'.off = s.off \ {"summarize"}
          /\ shell'.area = s.area /\ shell'.typing = s.typing
      <4>1. /\ [s EXCEPT !.off = @ \ {"summarize"}].area = s.area
            /\ [s EXCEPT !.off = @ \ {"summarize"}].typing = s.typing
        BY DEF ShellType
      <4>2. QED
        BY <2>2, <4>1, ButtonTold DEF Buttons, SameButShown
    <3>2. OffMeansBusy'
      BY <1>2, <2>2, <3>1, NoJobType DEF OffMeansBusy
    <3>3. QED
      BY <1>1, <2>2, <3>1, <3>2, ButtonStep, NoJobType DEF Told, Named
  <2>3. ASSUME NEW w \in Wordings, jobs["summarize"].at = "writing",
               Shelved(jobs["summarize"].id, [NoTale EXCEPT !.text = w]),
               LET s == Counted([shell EXCEPT !.area = w, !.original = w, !.by = "llm"])
               IN  shell' = Loaded(StepSet(s, "script"), "summarize"),
               Goes("summarize", NoJob)
        PROVE  ShellInv'
    <3> DEFINE written == [shell EXCEPT !.area = w, !.original = w, !.by = "llm"]
               s == Counted(written)
    <3>1. [NoTale EXCEPT !.text = w] \in TaleType
      BY DEF NoTale, TaleType
    <3>2. jobs["summarize"].id \in Titles
      <4>1. jobs["summarize"] \in JobType /\ Named("summarize", jobs["summarize"])
        BY <1>1 DEF JobsNamed
      <4>2. QED
        BY <1>1, <2>3, <4>1 DEF Named, JobType
    <3>3. shelf' \in [Titles -> TaleType]
      BY <2>3, <3>1, <3>2, ShelvedType
    <3>4. written \in ShellType /\ written.area # Nil
      BY ScenesAreSome DEF ShellType
    <3> HIDE DEF written
    <3>5. s \in ShellType /\ "prepare" \notin s.off
      BY <3>4, CountedTold DEF Told
    <3> HIDE DEF s
    <3>6. StepSet(s, "script") \in ShellType /\ "prepare" \notin StepSet(s, "script").off
      BY <3>5, StepSetTold DEF Steps
    <3>7. QED
      BY <2>2, <2>3, <3>3, <3>6 DEF s, written
  <2>4. CASE shell' = Loaded(shell, "summarize") /\ Over("summarize") /\ UNCHANGED shelf
    BY <2>2, <2>4 DEF Over
  <2>5. QED
    BY <1>4, <2>1, <2>3, <2>4 DEF SummarizeAnswered, Over, Unshelved
<1>5. QED
  BY <1>3, <1>4

(* The end of a build, and of a build that has failed *)
LEMMA BuiltTold ==
  ASSUME NEW s \in ShellType
  PROVE  /\ Told(Built(s)) /\ "prepare" \notin Built(s).off
         /\ "summarize" \in Built(s).off => "summarize" \in s.off
         /\ Told(BuildFailed(s)) /\ "prepare" \notin BuildFailed(s).off
         /\ "summarize" \in BuildFailed(s).off => "summarize" \in s.off
<1> DEFINE r == RenderRelabeled(s)
           f == [s EXCEPT !.syncing = FALSE]
<1>1. r \in ShellType /\ r.off \in {s.off \cup {"render"}, s.off \ {"render"}}
  BY RelabeledTold DEF Told
<1>2. f \in ShellType /\ f.off = s.off
  BY DEF ShellType
<1> HIDE DEF r, f
<1>3. /\ Told(Loaded(r, "prepare")) /\ Loaded(r, "prepare").off = r.off \ {"prepare"}
      /\ Told(Loaded(f, "prepare")) /\ Loaded(f, "prepare").off = f.off \ {"prepare"}
  BY <1>1, <1>2, ButtonTold DEF Buttons
<1>4. Built(s) = Loaded(r, "prepare") /\ BuildFailed(s) = Loaded(f, "prepare")
  BY DEF Built, BuildFailed, r, f
<1>5. QED
  BY <1>1, <1>2, <1>3, <1>4

(* What a step of a build has to show *)
LEMMA BuilderStep ==
  ASSUME ShellInv, NEW b \in Builders, NEW job \in JobType, Goes(b, job),
         Named(b, job), shelf' \in [Titles -> TaleType],
         shell' \in ShellType, Told(shell') \/ job.at = "searching",
         "summarize" \in shell'.off => "summarize" \in shell.off,
         job.at # "idle" \/ "prepare" \notin shell'.off
  PROVE  ShellInv'
<1>1. b \in Jobs /\ "summarize" \in Jobs \ {b}
  BY BuildersAreApart DEF Jobs
<1>2. jobs'[b] = job /\ jobs'["summarize"] = jobs["summarize"]
  BY <1>1, JobGoes DEF ShellInv, ShellTypeOK
<1>3. OffMeansBusy'
  BY <1>2 DEF OffMeansBusy, ShellInv, Busy
<1>4. QED
  BY <1>1, <1>3, ButtonStep

LEMMA BuildBegins ==
  ASSUME ShellInv, NEW b \in Builders, ClickBuild(b)
  PROVE  ShellInv'
<1> USE DEF ShellInv, ShellTypeOK
<1> DEFINE ofSession == shell.by = "llm" /\ shell.id # Nil
           s == Loading(shell, "prepare")
           job == [at |-> IF ofSession /\ shell.area = shell.original
                          THEN "searching" ELSE "writing",
                   id |-> IF ofSession THEN shell.id ELSE Nil,
                   text |-> shell.area]
<1>1. job \in JobType /\ Named(b, job) /\ job.at # "idle"
  BY DEF JobType, ShellType, Named
<1>2. s \in ShellType /\ Told(s) /\ s.off = shell.off \cup {"prepare"}
  BY ButtonTold DEF Buttons, Told
<1> HIDE DEF s
<1>3. /\ Told(Counted(s))
      /\ "summarize" \in Counted(s).off => "summarize" \in s.off
  BY <1>2, CountedTold
<1>4. shell' \in {s, Counted(s)} /\ Goes(b, job) /\ shelf' = shelf
  BY DEF ClickBuild, s
<1>5. QED
  BY <1>1, <1>2, <1>3, <1>4, BuilderStep DEF Told

LEMMA BuildStep ==
  ASSUME ShellInv, NEW b \in Builders, BuildAnswered(b)
  PROVE  ShellInv'
<1> USE DEF ShellInv, ShellTypeOK
<1> DEFINE job == jobs[b]
<1>1. b \in Jobs /\ b # "summarize"
  BY BuildersAreApart DEF Jobs
<1>2. job \in JobType /\ Named(b, job)
  BY <1>1 DEF JobsNamed
<1>3. job.at \in {"searching", "syncing"} => job.id \in Titles
  BY <1>1, <1>2 DEF Named, JobType
<1>4. ASSUME NEW t \in Titles, job.at = "writing", job.id \in {Nil, t},
             Shelved(t, [NoTale EXCEPT !.text = job.text]),
             shell' = [shell EXCEPT !.id = IF job.id = Nil THEN t ELSE @,
                                    !.by = IF job.id = Nil THEN "llm" ELSE @,
                                    !.original = job.text],
             Goes(b, [job EXCEPT !.at = "searching", !.id = t])
      PROVE  ShellInv'
  <2> DEFINE next == [job EXCEPT !.at = "searching", !.id = t]
  <2>1. next \in JobType /\ next.at = "searching" /\ next.id = t
    BY <1>2 DEF JobType
  <2>2. Named(b, next)
    BY <2>1, ScenesAreSome DEF Named
  <2>3. shelf' \in [Titles -> TaleType]
    <3>1. [NoTale EXCEPT !.text = job.text] \in TaleType
      BY <1>2 DEF NoTale, TaleType, JobType
    <3>2. QED
      BY <1>4, <3>1, ShelvedType
  <2>4. shell' \in ShellType /\ shell'.off = shell.off
    <3>1. /\ shell'.off = shell.off /\ job.text \in Wordings \cup {Nil}
          /\ \E id \in Titles \cup {Nil}, by \in {"none", "llm", "manual"} :
                 shell' = [shell EXCEPT !.id = id, !.by = by, !.original = job.text]
      BY <1>2, <1>4 DEF ShellType, JobType
    <3>2. PICK id \in Titles \cup {Nil}, by \in {"none", "llm", "manual"} :
              shell' = [shell EXCEPT !.id = id, !.by = by, !.original = job.text]
      BY <3>1
    <3>3. [shell EXCEPT !.id = id, !.by = by] \in ShellType
      BY DEF ShellType
    <3>4. [[shell EXCEPT !.id = id, !.by = by] EXCEPT !.original = job.text] \in ShellType
      BY <3>1, <3>3 DEF ShellType
    <3>5. QED
      BY <3>1, <3>2, <3>4
  <2>5. QED
    BY <1>4, <2>1, <2>2, <2>3, <2>4, BuilderStep
<1>5. ASSUME NEW clips \in SUBSET Scenes, job.at = "searching",
             LET tale == [shelf[job.id] EXCEPT !.clips = clips]
                 s == RenderRelabeled([shell EXCEPT !.shown = Presentation(job.id, tale),
                                                    !.error = "none", !.syncing = TRUE])
             IN  Shelved(job.id, tale) /\ shell' = StepSet(s, "storyboard"),
             Goes(b, [job EXCEPT !.at = "syncing"])
      PROVE  ShellInv'
  <2> DEFINE next == [job EXCEPT !.at = "syncing"]
             tale == [shelf[job.id] EXCEPT !.clips = clips]
             shown == [shell EXCEPT !.shown = Presentation(job.id, tale),
                                    !.error = "none", !.syncing = TRUE]
             s == RenderRelabeled(shown)
  <2>1. next \in JobType /\ next.at = "syncing" /\ next.id = job.id
    BY <1>2 DEF JobType
  <2>2. Named(b, next) /\ job.id \in Titles
    BY <1>3, <1>5, <2>1, ScenesAreSome DEF Named
  <2>3. tale \in TaleType
    BY <2>2 DEF TaleType
  <2>4. shelf' \in [Titles -> TaleType]
    BY <1>5, <2>2, <2>3, ShelvedType
  <2> HIDE DEF tale
  <2>5. shown \in ShellType /\ shown.off = shell.off
    BY <2>2, <2>3, PresentationType DEF ShellType
  <2>6. shell' = StepSet(s, "storyboard")
    BY <1>5 DEF tale
  <2> HIDE DEF shown
  <2>7. s \in ShellType /\ Told(s) /\ "summarize" \in s.off => "summarize" \in shell.off
    BY <2>5, RelabeledTold DEF Told
  <2>8. Told(s)
    BY <2>5, RelabeledTold
  <2> HIDE DEF s
  <2>9. /\ Told(shell') /\ shell' \in ShellType
        /\ "summarize" \in shell'.off => "summarize" \in shell.off
    BY <2>6, <2>7, <2>8, StepSetTold DEF Steps, Told
  <2>10. QED
    BY <1>5, <2>1, <2>2, <2>4, <2>9, BuilderStep
<1>6. ASSUME NEW s \in ShellType, NoneSwitchedOff(shell, s), shell' = Built(s),
             Goes(b, NoJob), shelf' \in [Titles -> TaleType]
      PROVE  ShellInv'
  <2>1. Named(b, NoJob)
    BY DEF Named, NoJob
  <2>2. /\ Told(shell') /\ "prepare" \notin shell'.off
        /\ "summarize" \in shell'.off => "summarize" \in shell.off
    BY <1>6, BuiltTold DEF NoneSwitchedOff
  <2>3. QED
    BY <1>6, <2>1, <2>2, NoJobType, BuilderStep DEF Told
<1>7. CASE /\ job.at = "syncing"
           /\ LET tale == [shelf[job.id] EXCEPT !.voice = "current"]
              IN  /\ Shelved(job.id, tale)
                  /\ shell' = Built(Drawn(shell, job.id, tale))
           /\ Over(b)
  <2> DEFINE tale == [shelf[job.id] EXCEPT !.voice = "current"]
  <2>1. job.id \in Titles /\ tale \in TaleType
    BY <1>3, <1>7 DEF TaleType
  <2>2. shelf' \in [Titles -> TaleType]
    BY <1>7, <2>1, ShelvedType
  <2>3. shell' = Built(Drawn(shell, job.id, tale))
    BY <1>7
  <2> HIDE DEF tale
  <2>4. Drawn(shell, job.id, tale) \in ShellType /\ NoneSwitchedOff(shell, Drawn(shell, job.id, tale))
    BY <2>1, DrawnTold DEF Told
  <2>5. QED
    BY <1>6, <1>7, <2>2, <2>3, <2>4 DEF Over
<1>8. CASE shell' = Built(SyncFailed(shell)) /\ Over(b) /\ UNCHANGED shelf
  <2>1. SyncFailed(shell) \in ShellType /\ NoneSwitchedOff(shell, SyncFailed(shell))
    BY FailedTold DEF Told
  <2>2. QED
    BY <1>6, <1>8, <2>1 DEF Over
<1>9. CASE shell' = BuildFailed(shell) /\ Over(b) /\ UNCHANGED shelf
  <2>1. /\ Told(shell') /\ "prepare" \notin shell'.off
        /\ "summarize" \in shell'.off => "summarize" \in shell.off
    BY <1>9, BuiltTold
  <2>2. Named(b, NoJob)
    BY DEF Named, NoJob
  <2>3. QED
    BY <1>9, <2>1, <2>2, NoJobType, BuilderStep DEF Told, Over
<1>10. QED
  <2>1. CASE /\ job.at = "writing"
             /\ \E t \in IF job.id = Nil THEN Unshelved ELSE {job.id} :
                    /\ Shelved(t, [NoTale EXCEPT !.text = job.text])
                    /\ shell' = [shell EXCEPT !.id = IF job.id = Nil THEN t ELSE @,
                                              !.by = IF job.id = Nil THEN "llm" ELSE @,
                                              !.original = job.text]
                    /\ Goes(b, [job EXCEPT !.at = "searching", !.id = t])
    <3>1. \A t \in (IF job.id = Nil THEN Unshelved ELSE {job.id}) :
             t \in Titles /\ job.id \in {Nil, t}
      BY <1>2 DEF Unshelved, JobType
    <3>2. QED
      BY <1>4, <2>1, <3>1
  <2>2. QED
    BY <1>5, <1>7, <1>8, <1>9, <2>1 DEF BuildAnswered

-----------------------------------------------------------------------------
(* What the user does, and the timers *)

LEMMA ManualType ==
  ASSUME NEW s \in ShellType
  PROVE  LET t == [s EXCEPT !.by = "manual", !.typing = FALSE]
         IN  t \in ShellType /\ t.off = s.off /\ t.area = s.area
<1> DEFINE t == [s EXCEPT !.by = "manual", !.typing = FALSE]
<1>1. t \in ShellType
  BY DEF ShellType
<1>2. t.off = s.off /\ t.area = s.area
  BY DEF ShellType
<1>3. QED
  BY <1>1, <1>2

(* Steps in which no function begins, answers or ends *)
LEMMA QuietStep ==
  ASSUME ShellInv, UNCHANGED <<jobs, shelf>>, shell' \in ShellType,
         Told(shell') \/ shell'.typing \/ shell'.deaf,
         "summarize" \in shell'.off => "summarize" \in shell.off,
         "prepare" \in shell'.off =>
             \/ shell'.area = Nil \/ shell'.typing
             \/ "prepare" \in shell.off /\ shell'.area = shell.area
                                        /\ shell'.typing = shell.typing
  PROVE  ShellInv'
BY DEF ShellInv, ShellTypeOK, JobsNamed, ShellTold, OffMeansBusy, Busy

LEMMA StepGoes ==
  ASSUME ShellInv, NEW step \in Steps, StepOpen(shell, step),
         shell' = StepSet(shell, step), UNCHANGED <<jobs, shelf>>
  PROVE  ShellInv'
<1> DEFINE t == [shell EXCEPT !.step = step]
<1>1. t \in ShellType /\ SameButShown(shell, t)
  BY DEF ShellInv, ShellTypeOK, ShellType, SameButShown
<1> HIDE DEF t
<1>2. shell' = Synced(t)
  BY DEF StepSet, t
<1>3. Told(shell') /\ SameButShown(t, shell')
  BY <1>1, <1>2, SyncedTold
<1>4. QED
  BY <1>1, <1>3, QuietStep DEF SameButShown, Told

LEMMA TypingStep ==
  ASSUME ShellInv, TypeScript \/ TypingCounts \/ TypeSource \/ AuthChanges
  PROVE  ShellInv'
<1> USE DEF ShellInv, ShellTypeOK
<1>1. CASE TypeScript
  <2>1. /\ shell' \in ShellType /\ shell'.off = shell.off /\ shell'.typing = TRUE
    BY <1>1 DEF TypeScript, ShellType
  <2>2. QED
    BY <1>1, <2>1, QuietStep DEF TypeScript
<1>2. CASE TypingCounts
  <2> DEFINE s == Counted(shell)
             t == [s EXCEPT !.by = "manual", !.typing = FALSE]
  <2>1. /\ s \in ShellType /\ s.area = shell.area
        /\ s.area = Nil => s.off = shell.off \cup {"prepare"}
        /\ s.area # Nil => s.off = shell.off \ {"prepare"}
    BY CountedTold DEF Told
  <2> HIDE DEF s
  <2>2. t \in ShellType /\ t.off = s.off /\ t.area = s.area
    BY <2>1, ManualType
  <2>3. shell' = Synced(t)
    BY <1>2 DEF TypingCounts, s
  <2> HIDE DEF t
  <2>4. Told(shell') /\ SameButShown(t, shell')
    BY <2>2, <2>3, SyncedTold
  <2>5. shell'.off = s.off /\ shell'.area = shell.area /\ shell' \in ShellType
    BY <2>1, <2>2, <2>4 DEF SameButShown, Told
  <2>6. UNCHANGED <<jobs, shelf>>
    BY <1>2 DEF TypingCounts
  <2>7. "prepare" \in shell'.off => shell'.area = Nil
    BY <2>1, <2>5
  <2>8. "summarize" \in shell'.off => "summarize" \in shell.off
    BY <2>1, <2>5
  <2>9. QED
    BY <2>4, <2>5, <2>6, <2>7, <2>8, QuietStep
<1>3. CASE TypeSource
  <2>1. /\ shell' \in ShellType /\ shell'.off = shell.off /\ shell'.deaf = TRUE
        /\ shell'.area = shell.area /\ shell'.typing = shell.typing
    BY <1>3 DEF TypeSource, ShellType
  <2>2. QED
    BY <1>3, <2>1, QuietStep DEF TypeSource
<1>4. CASE AuthChanges
  <2>1. PICK auth \in {"ready", "signed out"} : shell' = Synced([shell EXCEPT !.auth = auth])
    BY <1>4 DEF AuthChanges
  <2> DEFINE t == [shell EXCEPT !.auth = auth]
  <2>2. /\ t \in ShellType /\ t.off = shell.off /\ t.area = shell.area
        /\ t.typing = shell.typing
    BY DEF ShellType
  <2> HIDE DEF t
  <2>3. shell' = Synced(t)
    BY <2>1 DEF t
  <2>4. Told(shell') /\ SameButShown(t, shell')
    BY <2>2, <2>3, SyncedTold
  <2>5. QED
    BY <1>4, <2>2, <2>4, QuietStep DEF SameButShown, Told, AuthChanges
<1>5. QED
  BY <1>1, <1>2, <1>3, <1>4

LEMMA ShellInitially == ASSUME ShellInit PROVE ShellInv
<1>1. jobs = [j \in Jobs |-> NoJob]
  BY DEF ShellInit
<1>2. jobs \in [Jobs -> JobType] /\ JobsNamed
  BY <1>1, NoJobType DEF JobsNamed, Named, NoJob
<1>3. CASE shell = NewShell /\ shelf = [t \in Titles |-> NoTale]
  <2>1. shell \in ShellType
    BY <1>3 DEF NewShell, ShellType, Button, Steps, Buttons
  <2>2. shelf \in [Titles -> TaleType]
    BY <1>3 DEF NoTale, TaleType
  <2>3. NearestOpen(shell) = "start" /\ ~Throws(shell)
    BY <1>3 DEF NewShell, NearestOpen, StepOpen, Throws
  <2>4. Action(shell) = shell.button
    BY <1>3 DEF Action, NewShell, Button
  <2>5. Synced(shell) = shell
    <3>1. [shell EXCEPT !.step = NearestOpen(shell), !.deaf = FALSE] = shell
      <4>1. shell.step = NearestOpen(shell) /\ shell.deaf = FALSE
        BY <1>3, <2>3 DEF NewShell
      <4>2. QED
        BY <2>1, <4>1 DEF ShellType
    <3>2. [shell EXCEPT !.button = shell.button] = shell
      BY <2>1 DEF ShellType
    <3>3. QED
      BY <2>3, <2>4, <3>1, <3>2 DEF Synced
  <2>6. OffMeansBusy
    BY <1>3 DEF OffMeansBusy, NewShell
  <2>7. QED
    BY <1>2, <2>1, <2>2, <2>5, <2>6 DEF ShellInv, ShellTypeOK, ShellTold, Told
<1>4. ASSUME NEW t \in Titles, NEW w \in Wordings,
             shelf = [u \in Titles |-> IF u = t THEN ToldTale(w) ELSE NoTale],
             shell = [NewShell EXCEPT
                     !.auth = "ready", !.step = "storyboard", !.area = w, !.original = w,
                     !.by = "llm", !.id = t, !.shown = Presentation(t, ToldTale(w)),
                     !.off = {}, !.button = Button("step", TRUE)]
      PROVE  ShellInv
  <2>1. ToldTale(w) \in TaleType /\ NoTale \in TaleType
    BY DEF ToldTale, NoTale, TaleType
  <2>2. shelf \in [Titles -> TaleType]
    BY <1>4, <2>1
  <2>3. /\ Presentation(t, ToldTale(w)) \in SessionShown
        /\ Presentation(t, ToldTale(w)).reason = "ready"
        /\ Presentation(t, ToldTale(w)).clips = Scenes
    <3>1. Reason(ToldTale(w)) = "ready"
      BY DEF Reason, ToldTale
    <3>2. QED
      BY <2>1, <3>1, PresentationType DEF Presentation, ToldTale
  <2> DEFINE p == Presentation(t, ToldTale(w))
  <2> HIDE DEF p
  <2>4. shell = [auth |-> "ready", source |-> FALSE, deaf |-> FALSE, step |-> "storyboard",
                 area |-> w, original |-> w, by |-> "llm", typing |-> FALSE, id |-> t,
                 shown |-> p, syncing |-> FALSE, error |-> "none", off |-> {},
                 button |-> Button("step", TRUE)]
    BY <1>4 DEF NewShell, p
  <2>5. shell \in ShellType
    BY <2>3, <2>4 DEF ShellType, Button, Steps, p
  <2>6. HasBoard(shell) /\ RenderOpen(shell)
    <3>1. p # Nil /\ p.reason = "ready" /\ p.clips = Scenes
      BY <2>3, NilIsNoSession DEF SessionShown, p
    <3>2. t # Nil /\ Scenes # {}
      BY ScenesAreSome
    <3>3. HasBoard(shell)
      BY <2>4, <3>1, <3>2 DEF HasBoard
    <3>4. QED
      BY <2>4, <3>1, <3>2, <3>3 DEF RenderOpen, BoardIsOfScript, HasScene, PreviewPlays
  <2>7. NearestOpen(shell) = "storyboard" /\ ~Throws(shell)
    BY <2>4, <2>6 DEF NearestOpen, StepOpen, Throws
  <2>8. Action(shell) = shell.button
    BY <2>4, <2>6 DEF Action, Button, RenderOpen
  <2>9. [shell EXCEPT !.step = NearestOpen(shell), !.deaf = FALSE] = shell
    <3>1. shell.step = NearestOpen(shell) /\ shell.deaf = FALSE
      BY <2>4, <2>7
    <3>2. QED
      BY <2>5, <3>1 DEF ShellType
  <2>10. [shell EXCEPT !.button = shell.button] = shell
    BY <2>4
  <2>11. Synced(shell) = shell
    BY <2>7, <2>8, <2>9, <2>10 DEF Synced
  <2>12. OffMeansBusy
    BY <2>4 DEF OffMeansBusy
  <2>13. QED
    BY <1>2, <2>2, <2>5, <2>11, <2>12 DEF ShellInv, ShellTypeOK, ShellTold, Told
<1>5. QED
  BY <1>3, <1>4 DEF ShellInit

LEMMA ShellStep == ASSUME ShellInv, [ShellNext]_shellVars PROVE ShellInv'
<1>1. CASE UNCHANGED shellVars
  BY <1>1 DEF shellVars, ShellInv, ShellTypeOK, JobsNamed, ShellTold, OffMeansBusy, Busy
<1>2. CASE ClickButton
  <2>1. CASE ClickSummarize
    BY <2>1, SummarizeStep
  <2>2. ASSUME NEW b \in Builders, ClickBuild(b) PROVE ShellInv'
    BY <2>2, BuildBegins
  <2>3. CASE ClickRender
    BY <2>3, RenderStep
  <2>4. CASE shell' = StepSet(shell, "render") /\ UNCHANGED <<jobs, shelf>>
    <3>1. CASE StepOpen(shell, "render")
      BY <2>4, <3>1, StepGoes DEF Steps
    <3>2. CASE ~StepOpen(shell, "render")
      <4>1. UNCHANGED <<shell, jobs, shelf>>
        BY <2>4, <3>2 DEF StepSet
      <4>2. QED
        BY <4>1 DEF ShellInv, ShellTypeOK, JobsNamed, ShellTold, OffMeansBusy, Busy
    <3>3. QED
      BY <3>1, <3>2
  <2>5. QED
    BY <1>2, <2>1, <2>2, <2>3, <2>4 DEF ClickButton
<1>3. ASSUME NEW step \in Steps, ClickStep(step) PROVE ShellInv'
  BY <1>3, StepGoes DEF ClickStep
<1>4. CASE ClickRetry \/ RetryAnswered
  BY <1>4, RetryStep
<1>5. CASE CommitText \/ TextAnswered
  BY <1>5, TextStep
<1>6. CASE AskPanel \/ PanelAnswered
  BY <1>6, PanelStep
<1>7. CASE TypeScript \/ TypeSource \/ TypingCounts \/ AuthChanges
  BY <1>7, TypingStep
<1>8. CASE SummarizeAnswered
  BY <1>8, SummarizeStep
<1>9. CASE RenderAnswered
  BY <1>9, RenderStep
<1>10. ASSUME NEW b \in Builders, BuildAnswered(b) PROVE ShellInv'
  BY <1>10, BuildStep
<1>11. QED
  BY <1>1, <1>2, <1>3, <1>4, <1>5, <1>6, <1>7, <1>8, <1>9, <1>10
     DEF ShellNext, UserMoves, PageMoves

(* What the functions of the page leave behind is told to the shell, whichever of
   their calls throws. *)
THEOREM ShellInvariance == ShellSpec => []ShellInv
BY ShellInitially, ShellStep, PTL DEF ShellSpec

(* When no function, timer or typing is under way, telling the shell again would
   change nothing: each function tells it last (syncCreativeStepShell).  A button
   that is off belongs to a function under way (setLoading, and
   updateScriptCounters for the script that is empty). *)
THEOREM ShellTellsAll == ShellSpec => []ShellTells
<1>1. ShellInv => ShellIsCurrent
  <2> SUFFICES ASSUME ShellInv, \A j \in Jobs : ~Busy(j), ~shell.typing, ~shell.deaf
               PROVE  Synced(shell) = shell
    BY DEF ShellIsCurrent
  <2>1. jobs["summarize"].at = "idle" /\ \A b \in Builders : jobs[b].at = "idle"
    BY DEF Busy, Jobs
  <2>2. QED
    BY <2>1 DEF ShellInv, ShellTold, Told
<1>2. ShellInv => ShellTells
  BY <1>1 DEF ShellInv, ShellTells
<1>3. QED
  BY <1>2, ShellInvariance, PTL
=============================================================================
