----------------------------- MODULE PageProofs -----------------------------
(***************************************************************************)
(* Proofs about the web client and what it is told: the keys of its        *)
(* finalize requests (module StoryPage), the answers about finalize        *)
(* attempts (FinalizeStatus), the storyboard player (StoryboardPlayer) and *)
(* the drawer of clips (ClipPicker), however requests, handlers and media  *)
(* events overlap; and about the slots that its renders wait for           *)
(* (RenderLease).                                                          *)
(***************************************************************************)
EXTENDS StoryPage, FinalizeStatus, StoryboardPlayer, ClipPicker, RenderLease,
        SequenceTheorems, FiniteSetTheorems, TLAPS

-----------------------------------------------------------------------------
(* The page: a story's attempts *)

(* What a step may assume of a function of the page: a finalize request has
   the story it is for as its key. *)
KeyIsStory(r) ==
    /\ {"at", "key", "id"} \subseteq DOMAIN r
    /\ r.at = "finalize" => r.key = r.id

(* The attempts of a record of story s are of one key, s. *)
KeyedBy(r, s) == "keys" \in DOMAIN r /\ r.keys \subseteq {s}

KeysInv ==
    /\ DOMAIN flow = Flows
    /\ \A f \in Flows : KeyIsStory(flow[f])
    /\ DOMAIN story = Stories
    /\ \A s \in Stories : KeyedBy(story[s], s)

(* What a step of a function f leaves it with *)
LEMMA FlowBecomes ==
    ASSUME KeysInv, NEW f \in Flows, NEW r, KeyIsStory(r), Becomes(f, r)
    PROVE  DOMAIN flow' = Flows /\ \A g \in Flows : KeyIsStory(flow'[g])
BY DEF KeysInv, Becomes

(* What the API leaves a story with *)
LEMMA StoryChanges ==
    ASSUME KeysInv, NEW s \in Stories, NEW r, KeyedBy(r, s), Changed(s, r)
    PROVE  DOMAIN story' = Stories /\ \A t \in Stories : KeyedBy(story'[t], t)
BY DEF KeysInv, Changed

(* A request of any other kind, and none *)
LEMMA FlowShapes ==
    ASSUME KeysInv, NEW f \in Flows
    PROVE  /\ KeyIsStory(IdleFlow)
           /\ \A at : at # "finalize" =>
                  /\ KeyIsStory(Ask(f, at))
                  /\ KeyIsStory(Wait(f, at))
                  /\ KeyIsStory(Poll(f, at))
                  /\ \A id, text : /\ KeyIsStory([Ask(f, at) EXCEPT !.id = id])
                                   /\ KeyIsStory([Ask(f, at) EXCEPT !.text = text])
                                   /\ KeyIsStory([Ask(f, at) EXCEPT !.text = text, !.id = id])
                                   /\ KeyIsStory([Ask(f, at) EXCEPT !.id = id, !.text = text])
                  /\ \A left, last :
                         /\ KeyIsStory([Ask(f, at) EXCEPT !.left = left])
                         /\ KeyIsStory([Ask(f, at) EXCEPT !.left = left, !.last = last])
           /\ \A id : KeyIsStory(AskForFilm(f, id))
           /\ \A asked, answer : /\ KeyIsStory([flow[f] EXCEPT !.asked = asked])
                              /\ KeyIsStory([flow[f] EXCEPT !.asked = asked, !.got = answer])
BY DEF KeysInv, KeyIsStory, IdleFlow, Ask, Wait, Poll, AskForFilm, FinalizeKey


LEMMA ServeKeepsKeys ==
    ASSUME KeysInv, NEW f \in Flows, Serve(f)
    PROVE  KeysInv'
<1>1. CASE ServeNew(f)
  <2>1. PICK s \in Stories \ Used :
            /\ \/ flow[f].at = "start" /\ Changed(s, NoStory)
               \/ flow[f].at = "manual" /\ Changed(s, [NoStory EXCEPT !.text = flow[f].text])
               \/ /\ flow[f].at = "create"
                  /\ Changed(s, [NoStory EXCEPT !.text = flow[f].text, !.board = TRUE])
            /\ Becomes(f, [flow[f] EXCEPT !.asked = "ok", !.id = s,
                                          !.got = Presented(s, story'[s])])
    BY <1>1 DEF ServeNew
  <2>2. \A text : /\ KeyedBy(NoStory, s)
                  /\ KeyedBy([NoStory EXCEPT !.text = text], s)
                  /\ KeyedBy([NoStory EXCEPT !.text = text, !.board = TRUE], s)
    BY DEF KeyedBy, NoStory
  <2>3. DOMAIN story' = Stories /\ \A t \in Stories : KeyedBy(story'[t], t)
    BY <2>1, <2>2, StoryChanges
  <2>4. KeyIsStory([flow[f] EXCEPT !.asked = "ok", !.id = s, !.got = Presented(s, story'[s])])
    BY <2>1 DEF KeysInv, KeyIsStory
  <2>. QED  BY <2>1, <2>3, <2>4, FlowBecomes DEF KeysInv
<1>2. ASSUME NEW s \in Stories, s = flow[f].id, Reply(f, s),
             \/ ServeScript(f, s) \/ ServeBoard(f, s) \/ ServeVoice(f, s)
             \/ ServeStatus(f, s) \/ ServeFinalize(f, s)
      PROVE  KeysInv'
  <2>1. DOMAIN flow' = Flows /\ \A g \in Flows : KeyIsStory(flow'[g])
    BY <1>2, FlowShapes, FlowBecomes DEF Reply
  <2>2. KeyedBy(story[s], s) /\ KeyIsStory(flow[f])
    BY DEF KeysInv
  <2>3. (\E r : KeyedBy(r, s) /\ Changed(s, r)) \/ story' = story
    <3>1. CASE ServeScript(f, s)
      BY <3>1, <2>2 DEF ServeScript, KeyedBy, Rewritten
    <3>2. CASE ServeBoard(f, s)
      BY <3>2, <2>2 DEF ServeBoard, KeyedBy
    <3>3. CASE ServeVoice(f, s)
      BY <3>3, <2>2 DEF ServeVoice, KeyedBy
    <3>4. CASE ServeStatus(f, s)
      BY <3>4, <2>2 DEF ServeStatus, KeyedBy
    <3>5. CASE ServeFinalize(f, s)
      BY <3>5, <2>2, <1>2 DEF ServeFinalize, KeyedBy, KeyIsStory
    <3>. QED  BY <1>2, <3>1, <3>2, <3>3, <3>4, <3>5
  <2>4. DOMAIN story' = Stories /\ \A t \in Stories : KeyedBy(story'[t], t)
    BY <2>3, StoryChanges DEF KeysInv
  <2>. QED  BY <2>1, <2>4 DEF KeysInv
<1>. QED  BY <1>1, <1>2 DEF Serve

LEMMA OutcomeKeepsKeys ==
    ASSUME KeysInv, NEW f \in Flows, Outcome(f)
    PROVE  KeysInv'
<1>1. CASE Serve(f)
  BY <1>1, ServeKeepsKeys
<1>2. CASE Refuse(f)
  BY <1>2, FlowShapes, FlowBecomes DEF Refuse, KeysInv
<1>3. CASE Lose(f)
  BY <1>3, FlowShapes, FlowBecomes DEF Lose, KeysInv
<1>4. CASE TimeOut(f)
  BY <1>4, FlowShapes, FlowBecomes DEF TimeOut, KeysInv
<1>. QED  BY <1>1, <1>2, <1>3, <1>4 DEF Outcome

(* The page itself changes no story. *)
LEMMA PageStepKeepsKeys ==
    ASSUME KeysInv, NEW f \in Flows, PageStep(f)
    PROVE  KeysInv'
<1>1. story' = story /\ \E r : KeyIsStory(r) /\ Becomes(f, r)
  <2>1. CASE f = "summarize" /\ SummarizeStep
    BY <2>1, FlowShapes DEF SummarizeStep, Ends
  <2>2. CASE f = "prepare" /\ BuildStep
    BY <2>2, FlowShapes DEF BuildStep, Ends
  <2>3. CASE f = "prepare" /\ Drawn
    BY <2>3, FlowShapes DEF Drawn, Ends
  <2>4. CASE f \in Voices /\ SyncStep(f)
    BY <2>4, FlowShapes DEF SyncStep, VoiceReady, VoiceFails, Ends
  <2>5. CASE f \in Voices /\ VoicePollStep(f)
    BY <2>5, FlowShapes DEF VoicePollStep, VoiceReady, VoiceFails, PollsEnd, Ends
  <2>6. CASE f \in Voices /\ Redrawn(f)
    BY <2>6, FlowShapes DEF Redrawn, Ends
  <2>7. CASE f = "edit" /\ CommitBeatStep
    BY <2>7, FlowShapes DEF CommitBeatStep, Ends
  <2>8. CASE f \in Renders /\ CreateStep(f)
    BY <2>8, FlowShapes DEF CreateStep, Ends
  <2>9. CASE f \in Renders /\ FinalizeStep(f)
    BY <2>9, FlowShapes DEF FinalizeStep, FilmReady, RenderFails, Ends
  <2>10. CASE f \in Renders /\ FilmPollStep(f)
    BY <2>10, FlowShapes DEF FilmPollStep, FilmReady, RenderFails, Ends
  <2>. QED  BY <2>1, <2>2, <2>3, <2>4, <2>5, <2>6, <2>7, <2>8, <2>9, <2>10 DEF PageStep
<1>. QED  BY <1>1, FlowBecomes DEF KeysInv

LEMMA ActKeepsKeys ==
    ASSUME KeysInv, Act
    PROVE  KeysInv'
<1>1. story' = story
  BY DEF Act, ClickSummarize, ClickPrepare, ClickRetry, CommitBeat, Type, ClickRender, EditDraft
<1>2. flow' = flow \/ \E f \in Flows : \E r : KeyIsStory(r) /\ Becomes(f, r)
  <2>1. CASE ClickSummarize
    BY <2>1, FlowShapes DEF ClickSummarize, Flows
  <2>2. CASE ClickPrepare
    <3>. DEFINE at == IF ~(page.source = "llm" /\ page.id # Unset) THEN "manual"
                      ELSE IF page.area # page.original THEN "update" ELSE "plan"
    <3>1. at # "finalize" /\ "prepare" \in Flows
      BY DEF Flows
    <3>. QED  BY <2>2, <3>1, FlowShapes DEF ClickPrepare
  <2>3. CASE ClickRetry
    BY <2>3, FlowShapes DEF ClickRetry, Flows
  <2>4. ASSUME NEW t \in Scripts, CommitBeat(t) \/ Type(t)
        PROVE  flow' = flow \/ \E f \in Flows : \E r : KeyIsStory(r) /\ Becomes(f, r)
    BY <2>4, FlowShapes DEF CommitBeat, Type, Flows
  <2>5. ASSUME NEW f \in Renders, ClickRender(f)
        PROVE  flow' = flow \/ \E g \in Flows : \E r : KeyIsStory(r) /\ Becomes(g, r)
    <3>1. f \in Flows
      BY DEF Flows
    <3>. QED  BY <2>5, <3>1, FlowShapes DEF ClickRender
  <2>6. ASSUME NEW d, EditDraft(d)
        PROVE  flow' = flow
    BY <2>6 DEF EditDraft
  <2>. QED  BY <2>1, <2>2, <2>3, <2>4, <2>5, <2>6 DEF Act
<1>. QED  BY <1>1, <1>2, FlowBecomes DEF KeysInv

(* Every story's attempts are of one key, its own, and every finalize request
   that the page has under way carries that key: clicks, errors, lost answers
   and the API in any order. *)
THEOREM KeysInvariance == PageSpec => []KeysInv
<1>1. PageInit => KeysInv
  <2>1. ASSUME PageInit
        PROVE  DOMAIN story = Stories /\ \A s \in Stories : story[s].keys = {} /\ "keys" \in DOMAIN story[s]
    <3>1. NoStory.keys = {} /\ "keys" \in DOMAIN NoStory
      BY DEF NoStory
    <3>2. \A t : BuiltStory(t).keys = {} /\ "keys" \in DOMAIN BuiltStory(t)
      BY DEF BuiltStory, NoStory
    <3>. QED  BY <2>1, <3>1, <3>2 DEF PageInit
  <2>2. KeyIsStory(IdleFlow)
    BY DEF KeyIsStory, IdleFlow
  <2>. QED  BY <2>1, <2>2 DEF PageInit, KeysInv, KeyedBy
<1>2. KeysInv /\ [PageNext]_pageVars => KeysInv'
  <2>. SUFFICES ASSUME KeysInv, [PageNext]_pageVars
                PROVE  KeysInv'
    OBVIOUS
  <2>1. CASE Act
    BY <2>1, ActKeepsKeys
  <2>2. CASE TypingSettles
    BY <2>2 DEF TypingSettles, KeysInv
  <2>3. ASSUME NEW f \in Flows, Outcome(f) \/ PageStep(f)
        PROVE  KeysInv'
    BY <2>3, OutcomeKeepsKeys, PageStepKeepsKeys
  <2>4. ASSUME NEW s \in Stories, JobEnds(s)
        PROVE  KeysInv'
    <3>1. \E r : KeyedBy(r, s) /\ Changed(s, r)
      BY <2>4 DEF JobEnds, KeysInv, KeyedBy
    <3>. QED  BY <2>4, <3>1, StoryChanges DEF JobEnds, KeysInv
  <2>5. CASE UNCHANGED pageVars
    BY <2>5 DEF pageVars, KeysInv
  <2>. QED  BY <2>1, <2>2, <2>3, <2>4, <2>5 DEF PageNext
<1>. QED  BY <1>1, <1>2, PTL DEF PageSpec

(* OneAttemptPerStory of every behaviour of the page: no story is asked to be
   rendered under a second key. *)
THEOREM StoriesHaveOneAttempt == PageSpec => []OneAttemptPerStory
<1>1. KeysInv => OneAttemptPerStory
  <2>. SUFFICES ASSUME KeysInv, NEW s \in Stories
                PROVE  Cardinality(story[s].keys) <= 1
    BY DEF OneAttemptPerStory
  <2>1. story[s].keys = {} \/ story[s].keys = {s}
    BY DEF KeysInv, KeyedBy
  <2>2. Cardinality({}) = 0 /\ Cardinality({s}) = 1
    BY FS_EmptySet, FS_Singleton
  <2>. QED  BY <2>1, <2>2
<1>. QED  BY <1>1, KeysInvariance, PTL

-----------------------------------------------------------------------------
(* What is told of a finalize attempt *)

JobStates == Ended \cup {"none", "pending"}
Jobs == [FinalizeKeys -> JobStates]

(* An attempt that had the first state may now have the second. *)
Advances(from, to) ==
    /\ from \in JobStates /\ to \in JobStates
    /\ \/ from = to
       \/ from = "none"
       \/ from = "pending" /\ to \in Ended

(* An attempt that ran when a was asked and still runs, with the jobs as in j *)
StillRuns(a, j, k) == a.since[k] = "pending" /\ j[k] = "pending"

ReadingAsker ==
    [pc : {"admit", "project", "replay", "lock", "attempt", "hint", "latest"},
     since : Jobs, asked : FinalizeKeys \cup {Nil}, copy : Note \cup {Nil},
     found : FinalizeKeys \cup {Nil}]

ToldAsker ==
    [pc : {"told"}, since : Jobs, asked : FinalizeKeys \cup {Nil},
     about : FinalizeKeys \cup {Nil}, says : JobStates]

(* The lock is read before the session's note is followed: who follows the note
   knows that no attempt has run since before the question. *)
ReadingWell(a, j) ==
    /\ a \in ReadingAsker
    /\ \A k \in FinalizeKeys : Advances(a.since[k], j[k])
    /\ a.pc \in {"admit", "project", "replay"} => a.asked \in FinalizeKeys
    /\ a.pc = "attempt" =>
           /\ a.found \in FinalizeKeys
           /\ \A k \in FinalizeKeys : StillRuns(a, j, k) => k = a.found
    /\ a.pc \in {"hint", "latest"} => \A k \in FinalizeKeys : ~StillRuns(a, j, k)

ToldWell(a, j) ==
    /\ a \in ToldAsker
    /\ \A k \in FinalizeKeys : Advances(a.since[k], j[k])
    /\ IF a.about = Nil THEN \A k \in FinalizeKeys : a.since[k] = "none"
       ELSE Advances(a.since[a.about], a.says) /\ Advances(a.says, j[a.about])
    /\ \A k \in FinalizeKeys : StillRuns(a, j, k) => a.about \in {k, a.asked}

AskerWell(a, j) == a = NotAsking \/ ReadingWell(a, j) \/ ToldWell(a, j)

StatusInv ==
    /\ job \in Jobs
    /\ \A k, l \in FinalizeKeys : job[k] = "pending" /\ job[l] = "pending" => k = l
    /\ born \in Seq(FinalizeKeys)
    /\ \A k \in FinalizeKeys : job[k] # "none" => \E i \in DOMAIN born : born[i] = k
    /\ render \in [FinalizeKeys -> {"queued", "claimed", "rendering", "settling",
                                    "busy", "failing", "gone"}]
    /\ reaped \subseteq FinalizeKeys
    /\ note \in Note \cup {Nil}
    /\ copying \in [Copiers -> {<<>>} \cup {<<n>> : n \in Note \cup {Nil}}]
    /\ DOMAIN asker = Askers
    /\ \A p \in Askers : AskerWell(asker[p], job)

LEMMA LaterTrans ==
    ASSUME NEW r, NEW s, NEW t, Advances(r, s), Advances(s, t)
    PROVE  Advances(r, t)
BY DEF Advances, JobStates, Ended

(* Who asks and who is told are served by the moves of the attempts meanwhile. *)
LEMMA JobsMoveOn ==
    ASSUME NEW i \in Jobs, NEW j \in Jobs, \A k \in FinalizeKeys : Advances(i[k], j[k]),
           NEW a, AskerWell(a, i)
    PROVE  AskerWell(a, j)
<1>1. ASSUME \A k \in FinalizeKeys : Advances(a.since[k], i[k])
      PROVE  \A k \in FinalizeKeys : /\ Advances(a.since[k], j[k])
                                     /\ StillRuns(a, j, k) => StillRuns(a, i, k)
  <2>. SUFFICES ASSUME NEW k \in FinalizeKeys
                PROVE  /\ Advances(a.since[k], j[k])
                       /\ StillRuns(a, j, k) => StillRuns(a, i, k)
    OBVIOUS
  <2>1. Advances(a.since[k], i[k]) /\ Advances(i[k], j[k])
    BY <1>1
  <2>2. Advances(a.since[k], j[k])
    BY <2>1, LaterTrans
  <2>. QED  BY <2>1, <2>2 DEF Advances, StillRuns, Ended
<1>2. CASE ReadingWell(a, i)
  BY <1>1, <1>2 DEF ReadingWell, AskerWell
<1>3. CASE ToldWell(a, i)
  <2>1. CASE a.about = Nil
    BY <1>1, <1>3, <2>1 DEF ToldWell, AskerWell
  <2>2. CASE a.about # Nil
    <3>1. a.about \in FinalizeKeys /\ Advances(a.says, i[a.about])
      BY <1>3, <2>2 DEF ToldWell, ToldAsker
    <3>2. Advances(a.says, j[a.about])
      BY <3>1, LaterTrans
    <3>. QED  BY <1>1, <1>3, <2>2, <3>2 DEF ToldWell, AskerWell
  <2>. QED  BY <2>1, <2>2
<1>. QED  BY <1>2, <1>3 DEF AskerWell

(* The lock names the attempt that is pending, if there is one. *)
LEMMA LockNamesPending ==
    ASSUME StatusInv
    PROVE  /\ LockHolder = Nil => \A k \in FinalizeKeys : job[k] # "pending"
           /\ LockHolder # Nil => LockHolder \in FinalizeKeys /\ job[LockHolder] = "pending"
           /\ \A k \in FinalizeKeys : job[k] = "pending" => k = LockHolder
BY NilIsNoKey DEF StatusInv, LockHolder

(* A state follows itself. *)
LEMMA LaterSame == \A k \in FinalizeKeys, j \in Jobs : Advances(j[k], j[k])
BY DEF Advances, Jobs

LEMMA AskerTurns ==
    ASSUME StatusInv, NEW p \in Askers, NEW a, AskerWell(a, job),
           asker' = [asker EXCEPT ![p] = a],
           UNCHANGED <<job, born, render, reaped, note, copying>>
    PROVE  StatusInv'
BY DEF StatusInv

(* Who is told how an attempt stands now is told what is so, provided that it is
   the attempt that runs, or nobody has waited for that. *)
LEMMA AttemptIsTold ==
    ASSUME StatusInv, NEW a, ReadingWell(a, job), NEW k \in FinalizeKeys,
           \A l \in FinalizeKeys : StillRuns(a, job, l) => l = k \/ k = a.asked
    PROVE  AskerWell(Told(a, k, job[k]), job)
<1>. DEFINE t == Told(a, k, job[k])
<1>1. /\ t.since = a.since /\ t.asked = a.asked /\ t.about = k /\ t.says = job[k]
      /\ t = [pc |-> "told", since |-> a.since, asked |-> a.asked, about |-> k, says |-> job[k]]
  BY DEF Told
<1>2. t \in ToldAsker
  BY <1>1 DEF ToldAsker, ReadingWell, ReadingAsker, StatusInv, Jobs
<1>3. Advances(a.since[k], job[k]) /\ Advances(job[k], job[k]) /\ k # Nil
  BY LaterSame, NilIsNoKey DEF ReadingWell, StatusInv
<1>4. \A l \in FinalizeKeys : StillRuns(t, job, l) => t.about \in {l, t.asked}
  BY <1>1 DEF StillRuns
<1>. HIDE DEF t
<1>5. ToldWell(t, job)
  BY <1>1, <1>2, <1>3, <1>4 DEF ToldWell, ReadingWell
<1>. QED  BY <1>5 DEF AskerWell, t

(* A question begins with what there is. *)
LEMMA Arrives ==
    ASSUME StatusInv, NEW k \in FinalizeKeys \cup {Nil}, NEW at \in {"lock", "admit", "replay"},
           at # "lock" => k \in FinalizeKeys
    PROVE  ReadingWell(Arrived(at, k), job)
<1>. DEFINE a == Arrived(at, k)
<1>1. a = [pc |-> at, since |-> job, asked |-> k, copy |-> note, found |-> Nil]
  BY DEF Arrived
<1>2. a \in ReadingAsker
  BY <1>1 DEF ReadingAsker, StatusInv
<1>3. \A l \in FinalizeKeys : Advances(a.since[l], job[l])
  BY <1>1, LaterSame DEF StatusInv
<1>. QED  BY <1>1, <1>2, <1>3 DEF ReadingWell

(* A request whose key is known is answered from its attempt or goes on. *)
LEMMA KnownKey ==
    ASSUME StatusInv, NEW k \in FinalizeKeys, NEW a, ReadingWell(a, job),
           a.asked = k, a.pc \in {"admit", "replay"}
    PROVE  AskerWell(Known(a, k), job)
<1>1. CASE job[k] = "failed"
  BY <1>1, AttemptIsTold DEF Known
<1>2. CASE job[k] # "failed"
  <2>. DEFINE b == [a EXCEPT !.pc = "replay"]
  <2>1. b \in ReadingAsker /\ b.pc = "replay" /\ b.since = a.since /\ b.asked = a.asked
    BY DEF ReadingWell, ReadingAsker
  <2>. HIDE DEF b
  <2>2. ReadingWell(b, job)
    BY <2>1 DEF ReadingWell
  <2>. QED  BY <1>2, <2>2 DEF Known, AskerWell, b
<1>. QED  BY <1>1, <1>2

LEMMA ReadsKeepStatus ==
    ASSUME StatusInv, NEW p \in Askers,
           ReadLock(p) \/ ReadLocked(p) \/ ReadHinted(p) \/ ReadLatest(p)
    PROVE  StatusInv'
<1>. DEFINE a == asker[p]
<1>0. DOMAIN asker = Askers /\ AskerWell(a, job)
  BY DEF StatusInv
<1>1. ASSUME a.pc \in {"lock", "attempt", "hint", "latest"}
      PROVE  ReadingWell(a, job)
  BY <1>0, <1>1 DEF AskerWell, ToldWell, ToldAsker, NotAsking
<1>2. CASE ReadLock(p)
  <2>. DEFINE b == [a EXCEPT !.pc = IF LockHolder = Nil THEN "hint" ELSE "attempt",
                             !.found = LockHolder]
  <2>1. LockHolder \in FinalizeKeys \cup {Nil}
    BY LockNamesPending
  <2>2. /\ b \in ReadingAsker /\ b.since = a.since /\ b.asked = a.asked /\ b.found = LockHolder
        /\ b.pc = IF LockHolder = Nil THEN "hint" ELSE "attempt"
    BY <1>1, <1>2, <2>1 DEF ReadLock, ReadingWell, ReadingAsker
  <2>3. asker' = [asker EXCEPT ![p] = b]
    BY <1>0, <1>2 DEF ReadLock
  <2>. HIDE DEF b
  <2>4. AskerWell(b, job)
    BY <1>1, <1>2, <2>2, LockNamesPending DEF ReadLock, ReadingWell, AskerWell, StillRuns
  <2>. QED  BY <1>2, <2>3, <2>4, AskerTurns DEF ReadLock
<1>3. CASE ReadLocked(p)
  <2>1. ReadingWell(a, job) /\ a.pc = "attempt"
    BY <1>1, <1>3 DEF ReadLocked
  <2>2. CASE job[a.found] = "pending"
    <3>1. AskerWell(Told(a, a.found, job[a.found]), job)
      BY <2>1, AttemptIsTold DEF ReadingWell
    <3>. QED  BY <1>3, <2>2, <3>1, AskerTurns DEF ReadLocked
  <2>3. CASE job[a.found] # "pending"
    <3>. DEFINE b == [a EXCEPT !.pc = "hint"]
    <3>1. b \in ReadingAsker /\ b.since = a.since /\ b.asked = a.asked /\ b.pc = "hint"
      BY <2>1 DEF ReadingWell, ReadingAsker
    <3>2. asker' = [asker EXCEPT ![p] = b]
      BY <1>3, <2>3 DEF ReadLocked
    <3>. HIDE DEF b
    <3>3. AskerWell(b, job)
      BY <2>1, <2>3, <3>1 DEF ReadingWell, AskerWell, StillRuns
    <3>. QED  BY <1>3, <3>2, <3>3, AskerTurns DEF ReadLocked
  <2>. QED  BY <2>2, <2>3
<1>4. CASE ReadHinted(p)
  <2>1. ReadingWell(a, job) /\ a.pc = "hint"
    BY <1>1, <1>4 DEF ReadHinted
  <2>2. CASE a.copy # Nil
    <3>1. a.copy.key \in FinalizeKeys
      BY <2>1, <2>2 DEF ReadingWell, ReadingAsker, Note
    <3>2. AskerWell(Told(a, a.copy.key, job[a.copy.key]), job)
      BY <2>1, <3>1, AttemptIsTold DEF ReadingWell
    <3>. QED  BY <1>4, <2>2, <3>2, AskerTurns DEF ReadHinted
  <2>3. CASE a.copy = Nil
    <3>. DEFINE b == [a EXCEPT !.pc = "latest"]
    <3>1. b \in ReadingAsker /\ b.since = a.since /\ b.asked = a.asked /\ b.pc = "latest"
      BY <2>1 DEF ReadingWell, ReadingAsker
    <3>2. asker' = [asker EXCEPT ![p] = b]
      BY <1>4, <2>3 DEF ReadHinted
    <3>. HIDE DEF b
    <3>3. AskerWell(b, job)
      BY <2>1, <2>3, <3>1 DEF ReadingWell, AskerWell, StillRuns
    <3>. QED  BY <1>4, <3>2, <3>3, AskerTurns DEF ReadHinted
  <2>. QED  BY <2>2, <2>3
<1>5. CASE ReadLatest(p)
  <2>1. ReadingWell(a, job) /\ a.pc = "latest"
    BY <1>1, <1>5 DEF ReadLatest
  <2>2. CASE born # <<>>
    <3>1. born[Len(born)] \in FinalizeKeys
      BY <2>2 DEF StatusInv
    <3>2. AskerWell(Told(a, born[Len(born)], job[born[Len(born)]]), job)
      BY <2>1, <3>1, AttemptIsTold DEF ReadingWell
    <3>. QED  BY <1>5, <2>2, <3>2, AskerTurns DEF ReadLatest
  <2>3. CASE born = <<>>
    <3>. DEFINE t == Told(a, Nil, "none")
    <3>1. t = [pc |-> "told", since |-> a.since, asked |-> a.asked, about |-> Nil, says |-> "none"]
      BY DEF Told
    <3>2. t \in ToldAsker
      BY <2>1, <3>1 DEF ToldAsker, JobStates, ReadingWell, ReadingAsker
    <3>3. \A k \in FinalizeKeys : job[k] = "none"
      BY <2>3 DEF StatusInv
    <3>4. \A k \in FinalizeKeys : a.since[k] = "none"
      BY <2>1, <3>3 DEF ReadingWell, Advances, Ended
    <3>5. t.about = Nil /\ t.since = a.since
      BY <3>1
    <3>. HIDE DEF t
    <3>6. AskerWell(t, job)
      BY <2>1, <3>2, <3>3, <3>4, <3>5 DEF ReadingWell, ToldWell, AskerWell, StillRuns
    <3>. QED  BY <1>5, <2>3, <3>6, AskerTurns DEF ReadLatest, t
  <2>. QED  BY <2>2, <2>3
<1>. QED  BY <1>2, <1>3, <1>4, <1>5

LEMMA AsksKeepStatus ==
    ASSUME StatusInv, NEW p \in Askers,
           \/ AskStatus(p) \/ Leave(p) \/ LoadReplay(p) \/ ProjectPending(p)
           \/ \E k \in FinalizeKeys : AskFinalize(p, k)
    PROVE  StatusInv'
<1>. DEFINE a == asker[p]
<1>0. DOMAIN asker = Askers /\ AskerWell(a, job)
  BY DEF StatusInv
<1>1. ASSUME a.pc \in {"replay", "project"}
      PROVE  ReadingWell(a, job)
  BY <1>0, <1>1 DEF AskerWell, ToldWell, ToldAsker, NotAsking
<1>2. CASE AskStatus(p)
  <2>1. AskerWell(Arrived("lock", Nil), job)
    BY Arrives DEF AskerWell
  <2>. QED  BY <1>2, <2>1, AskerTurns DEF AskStatus
<1>3. CASE Leave(p)
  BY <1>3, AskerTurns DEF Leave, AskerWell
<1>4. CASE LoadReplay(p)
  <2>. DEFINE b == [a EXCEPT !.pc = "lock", !.copy = note]
  <2>1. b \in ReadingAsker /\ b.since = a.since /\ b.asked = a.asked /\ b.pc = "lock"
    BY <1>1, <1>4 DEF LoadReplay, ReadingWell, ReadingAsker, StatusInv
  <2>2. asker' = [asker EXCEPT ![p] = b]
    BY <1>4 DEF LoadReplay
  <2>. HIDE DEF b
  <2>3. AskerWell(b, job)
    BY <1>1, <1>4, <2>1 DEF LoadReplay, ReadingWell, AskerWell
  <2>. QED  BY <1>4, <2>2, <2>3, AskerTurns DEF LoadReplay
<1>5. CASE ProjectPending(p)
  <2>. DEFINE b == [a EXCEPT !.pc = "lock", !.copy = note']
  <2>1. note' \in Note
    BY <1>1, <1>5 DEF ProjectPending, NoteOf, Note, ReadingWell
  <2>2. b \in ReadingAsker /\ b.since = a.since /\ b.asked = a.asked /\ b.pc = "lock"
    BY <1>1, <1>5, <2>1 DEF ProjectPending, ReadingWell, ReadingAsker
  <2>3. asker' = [asker EXCEPT ![p] = b]
    BY <1>5 DEF ProjectPending
  <2>. HIDE DEF b
  <2>4. AskerWell(b, job)
    BY <1>1, <1>5, <2>2 DEF ProjectPending, ReadingWell, AskerWell
  <2>5. \A q \in Askers : AskerWell(asker'[q], job)
    BY <2>3, <2>4 DEF StatusInv
  <2>. QED  BY <1>5, <2>1, <2>3, <2>5 DEF ProjectPending, StatusInv
<1>6. ASSUME NEW k \in FinalizeKeys, AskFinalize(p, k)
      PROVE  StatusInv'
  <2>1. CASE job[k] = "none"
    <3>1. AskerWell(Arrived("admit", k), job)
      BY Arrives DEF AskerWell
    <3>. QED  BY <1>6, <2>1, <3>1, AskerTurns DEF AskFinalize
  <2>2. CASE job[k] # "none"
    <3>1. ReadingWell(Arrived("replay", k), job)
      BY Arrives
    <3>2. Arrived("replay", k).asked = k /\ Arrived("replay", k).pc = "replay"
      BY DEF Arrived
    <3>3. AskerWell(Known(Arrived("replay", k), k), job)
      BY <3>1, <3>2, KnownKey
    <3>. QED  BY <1>6, <2>2, <3>3, AskerTurns DEF AskFinalize
  <2>. QED  BY <2>1, <2>2
<1>. QED  BY <1>2, <1>3, <1>4, <1>5, <1>6

LEMMA AdmitKeepsStatus ==
    ASSUME StatusInv, NEW p \in Askers, Admit(p)
    PROVE  StatusInv'
<1>. DEFINE a == asker[p]
            k == a.asked
<1>1. /\ ReadingWell(a, job) /\ a.pc = "admit" /\ k \in FinalizeKeys
      /\ DOMAIN asker = Askers
  BY DEF StatusInv, Admit, AskerWell, ReadingWell, ToldWell, ToldAsker, NotAsking
<1>2. CASE job[k] # "none"
  <2>1. AskerWell(Known(a, k), job)
    BY <1>1, KnownKey
  <2>. QED  BY <1>2, <2>1, AskerTurns DEF Admit
<1>3. CASE job[k] = "none" /\ LockHolder # Nil
  <2>1. LockHolder \in FinalizeKeys /\ job[LockHolder] = "pending"
    BY <1>3, LockNamesPending
  <2>2. AskerWell(Told(a, LockHolder, "pending"), job)
    BY <1>1, <2>1, LockNamesPending, AttemptIsTold DEF StillRuns
  <2>. QED  BY <1>3, <2>2, AskerTurns DEF Admit
<1>4. CASE job[k] = "none" /\ LockHolder = Nil
  <2>. DEFINE b == [a EXCEPT !.pc = "project"]
  <2>1. /\ job' = [job EXCEPT ![k] = "pending"] /\ born' = Append(born, k)
        /\ asker' = [asker EXCEPT ![p] = b]
        /\ UNCHANGED <<render, reaped, note, copying>>
    BY <1>4 DEF Admit
  <2>2. b \in ReadingAsker /\ b.since = a.since /\ b.asked = a.asked /\ b.pc = "project"
    BY <1>1 DEF ReadingWell, ReadingAsker
  <2>. HIDE DEF b
  <2>3. AskerWell(b, job)
    BY <1>1, <2>2 DEF ReadingWell, AskerWell
  <2>4. job' \in Jobs /\ \A l \in FinalizeKeys : Advances(job[l], job'[l])
    BY <1>1, <1>4, <2>1 DEF StatusInv, Jobs, JobStates, Advances
  <2>5. \A q \in Askers : AskerWell(asker'[q], job)
    BY <1>1, <2>1, <2>3 DEF StatusInv
  <2>6. \A q \in Askers : AskerWell(asker'[q], job')
    BY <2>4, <2>5, JobsMoveOn DEF StatusInv
  <2>7. \A l, m \in FinalizeKeys : job'[l] = "pending" /\ job'[m] = "pending" => l = m
    BY <1>1, <1>4, <2>1, LockNamesPending DEF StatusInv, Jobs
  <2>8. /\ born' \in Seq(FinalizeKeys)
        /\ \A l \in FinalizeKeys : job'[l] # "none" => \E i \in DOMAIN born' : born'[i] = l
    <3>1. /\ born' \in Seq(FinalizeKeys) /\ Len(born') = Len(born) + 1
          /\ \A i \in 1..Len(born) : born'[i] = born[i]
          /\ born'[Len(born) + 1] = k
      BY <1>1, <2>1 DEF StatusInv
    <3>. SUFFICES ASSUME NEW l \in FinalizeKeys, job'[l] # "none"
                  PROVE  \E i \in DOMAIN born' : born'[i] = l
      BY <3>1
    <3>2. DOMAIN born' = 1..Len(born) + 1 /\ DOMAIN born = 1..Len(born) /\ Len(born) \in Nat
      BY <3>1 DEF StatusInv
    <3>3. CASE l = k
      <4>1. Len(born) + 1 \in 1..Len(born) + 1
        BY <3>2
      <4>. QED  BY <3>1, <3>2, <3>3, <4>1
    <3>4. CASE l # k
      <4>1. job[l] # "none"
        BY <1>1, <2>1, <3>4 DEF StatusInv, Jobs
      <4>2. PICK i \in 1..Len(born) : born[i] = l
        BY <3>2, <4>1 DEF StatusInv
      <4>3. i \in 1..Len(born) + 1
        BY <3>2
      <4>. QED  BY <3>1, <3>2, <4>2, <4>3
    <3>. QED  BY <3>3, <3>4
  <2>. QED  BY <1>1, <2>1, <2>4, <2>6, <2>7, <2>8 DEF StatusInv
<1>. QED  BY <1>2, <1>3, <1>4

(* Some attempt ends, if it is one that runs. *)
LEMMA JobEndsWell ==
    ASSUME StatusInv, NEW k \in FinalizeKeys, NEW state \in Ended,
           job' = job \/ (job[k] = "pending" /\ job' = [job EXCEPT ![k] = state]),
           UNCHANGED <<born, copying, asker>>,
           render' \in [FinalizeKeys -> {"queued", "claimed", "rendering", "settling",
                                         "busy", "failing", "gone"}],
           reaped' \subseteq FinalizeKeys, note' \in Note \cup {Nil}
    PROVE  StatusInv'
<1>1. job' \in Jobs /\ \A l \in FinalizeKeys : Advances(job[l], job'[l])
  BY LaterSame DEF StatusInv, Jobs, JobStates, Advances, Ended
<1>2. \A q \in Askers : AskerWell(asker'[q], job')
  BY <1>1, JobsMoveOn DEF StatusInv
<1>3. \A l \in FinalizeKeys : /\ job'[l] = "pending" => job[l] = "pending"
                              /\ job'[l] # "none" => job[l] # "none"
  BY DEF StatusInv, Jobs, Ended
<1>. QED  BY <1>1, <1>2, <1>3 DEF StatusInv

LEMMA JobStepKeepsStatus ==
    ASSUME StatusInv, NEW k \in FinalizeKeys, JobStep(k)
    PROVE  StatusInv'
<1>1. UNCHANGED <<born, copying, asker>>
  BY DEF JobStep, ClaimJob, NotePending, NoteDone, NoRenderSlot, RenderThrows, NoteFailed,
         Requeue, EndJob, WorkerDies, ReapJob, NoteReaped, Notes
<1>2. job' = job \/ \E state \in Ended : job[k] = "pending" /\ job' = [job EXCEPT ![k] = state]
  BY DEF JobStep, ClaimJob, NotePending, NoteDone, NoRenderSlot, RenderThrows, NoteFailed,
         Requeue, EndJob, WorkerDies, ReapJob, NoteReaped, Notes, Ended
<1>3. render' = render \/ \E at \in {"queued", "claimed", "rendering", "settling", "busy",
                                     "failing", "gone"} : render' = [render EXCEPT ![k] = at]
  BY DEF JobStep, ClaimJob, NotePending, NoteDone, NoRenderSlot, RenderThrows, NoteFailed,
         Requeue, EndJob, WorkerDies, ReapJob, NoteReaped, Notes, Step
<1>4. render' \in [FinalizeKeys -> {"queued", "claimed", "rendering", "settling", "busy",
                                    "failing", "gone"}]
  BY <1>3 DEF StatusInv
<1>5. reaped' \subseteq FinalizeKeys
  BY DEF StatusInv, JobStep, ClaimJob, NotePending, NoteDone, NoRenderSlot, RenderThrows,
         NoteFailed, Requeue, EndJob, WorkerDies, ReapJob, NoteReaped, Notes
<1>6. note' \in Note \cup {Nil}
  BY DEF StatusInv, JobStep, ClaimJob, NotePending, NoteDone, NoRenderSlot, RenderThrows,
         NoteFailed, Requeue, EndJob, WorkerDies, ReapJob, NoteReaped, Notes, NoteOf, Note, Ended
<1>7. Ended # {}
  BY DEF Ended
<1>. QED  BY <1>1, <1>2, <1>4, <1>5, <1>6, <1>7, JobEndsWell

LEMMA CopiersKeepStatus ==
    ASSUME StatusInv, NEW e \in Copiers, CopyNote(e) \/ SaveCopy(e)
    PROVE  StatusInv'
<1>1. CASE CopyNote(e)
  BY <1>1 DEF StatusInv, CopyNote
<1>2. CASE SaveCopy(e)
  <2>1. \E n \in Note \cup {Nil} : copying[e] = <<n>>
    BY <1>2 DEF StatusInv, SaveCopy
  <2>2. note' \in Note \cup {Nil}
    BY <1>2, <2>1 DEF SaveCopy
  <2>. QED  BY <1>2, <2>2 DEF StatusInv, SaveCopy
<1>. QED  BY <1>1, <1>2

(* Wherever notes and copies of the session have got to: who asks has seen the
   lock before the note, and an answer is of the attempt as it was meanwhile. *)
THEOREM StatusInvariance == StatusSpec => []StatusInv
<1>1. StatusInit => StatusInv
  BY DEF StatusInit, StatusInv, Jobs, JobStates, AskerWell
<1>2. StatusInv /\ [StatusNext]_statusVars => StatusInv'
  <2>. SUFFICES ASSUME StatusInv, [StatusNext]_statusVars
                PROVE  StatusInv'
    OBVIOUS
  <2>1. ASSUME NEW p \in Askers, AskerStep(p)
        PROVE  StatusInv'
    BY <2>1, ReadsKeepStatus, AsksKeepStatus, AdmitKeepsStatus DEF AskerStep
  <2>2. ASSUME NEW k \in FinalizeKeys, JobStep(k)
        PROVE  StatusInv'
    BY <2>2, JobStepKeepsStatus
  <2>3. ASSUME NEW e \in Copiers, CopyNote(e) \/ SaveCopy(e)
        PROVE  StatusInv'
    BY <2>3, CopiersKeepStatus
  <2>4. CASE UNCHANGED statusVars
    BY <2>4 DEF statusVars, StatusInv
  <2>. QED  BY <2>1, <2>2, <2>3, <2>4 DEF StatusNext
<1>. QED  BY <1>1, <1>2, PTL DEF StatusSpec

(* StatusIsTrue of every behaviour: replays, lookups, reapers, slow workers and
   handlers that save an old copy of the session, in any order. *)
THEOREM StatusToldIsTrue == StatusSpec => []StatusIsTrue
<1>1. StatusInv => StatusIsTrue
  <2>. SUFFICES ASSUME StatusInv, NEW a \in Answers
                PROVE  /\ IF a.about = Nil
                          THEN \A k \in FinalizeKeys : a.since[k] = "none"
                          ELSE /\ Progress(a.since[a.about]) <= Progress(a.says)
                               /\ Progress(a.says) <= Progress(job[a.about])
                               /\ a.says \in Ended => job[a.about] = a.says
                       /\ \A k \in FinalizeKeys :
                              a.since[k] = "pending" /\ job[k] = "pending" => a.about \in {k, a.asked}
    BY DEF StatusIsTrue, ToldWasSo, RunningIsTold
  <2>1. ToldWell(a, job)
    BY DEF Answers, StatusInv, AskerWell, ReadingWell, ReadingAsker, NotAsking
  <2>2. ASSUME NEW s, NEW t, Advances(s, t)
        PROVE  Progress(s) <= Progress(t) /\ (s \in Ended => t = s)
    BY <2>2 DEF Advances, Progress, JobStates, Ended
  <2>. QED  BY <2>1, <2>2 DEF ToldWell, StillRuns
<1>. QED  BY <1>1, StatusInvariance, PTL

-----------------------------------------------------------------------------
(* The storyboard player *)

(* The parts of a player that its helpers read and write *)
SlotShape(s) ==
    {"clip", "swap", "autoplay"} \subseteq DOMAIN s /\ s.swap \in BOOLEAN /\ s.autoplay \in BOOLEAN
VideoShape(v) == "playing" \in DOMAIN v /\ v.playing \in BOOLEAN

PlayerShape(p) ==
    /\ {"active", "slot", "video"} \subseteq DOMAIN p
    /\ p.active \in Keys
    /\ DOMAIN p.slot = Keys /\ DOMAIN p.video = Keys
    /\ \A k \in Keys : SlotShape(p.slot[k]) /\ VideoShape(p.video[k])

(* The element that is shown waits for no swap, and no other plays. *)
Calm(p) ==
    /\ PlayerShape(p)
    /\ ~p.slot[p.active].swap
    /\ \A k \in Keys : p.video[k].playing => k = p.active

(* Clip c is shown, or on its way; ShowsOrFetches of any player *)
Shows(p, c) ==
    LET hidden == p.slot[OtherKey(p.active)]
    IN  IF p.slot[p.active].clip = c THEN ~hidden.swap ELSE hidden.swap /\ hidden.clip = c

(* The same clips wait for the same swaps in the same elements. *)
SameSlots(p, q) ==
    /\ q.active = p.active
    /\ \A k \in Keys : q.slot[k].clip = p.slot[k].clip /\ q.slot[k].swap = p.slot[k].swap

PlayerInv ==
    /\ Calm(player)
    /\ timeline # Blank => Shows(player, timeline[card].clip)

LEMMA OtherKeys ==
    \A k \in Keys : /\ OtherKey(k) \in Keys /\ OtherKey(k) # k
                    /\ \A l \in Keys : l # k => l = OtherKey(k)
BY DEF Keys, OtherKey

LEMMA SameShows ==
    ASSUME NEW p, NEW q, NEW c, p.active \in Keys, SameSlots(p, q), Shows(p, c)
    PROVE  Shows(q, c)
BY OtherKeys DEF SameSlots, Shows

(* Playing starts and stops the element that is shown. *)
LEMMA PlaybackCalm ==
    ASSUME NEW p, Calm(p), NEW autoplay \in BOOLEAN
    PROVE  Calm(Playback(p, autoplay)) /\ SameSlots(p, Playback(p, autoplay))
<1>. DEFINE q == Playback(p, autoplay)
            playing == autoplay /\ p.slot[p.active].clip # Blank
<1>1. q = [p EXCEPT !.video = [p.video EXCEPT ![p.active] = [p.video[p.active] EXCEPT !.playing = playing]]]
  BY DEF Playback
<1>2. playing \in BOOLEAN
  OBVIOUS
<1>. HIDE DEF q, playing
<1>3. q.active = p.active /\ q.slot = p.slot /\ {"active", "slot", "video"} \subseteq DOMAIN q
  BY <1>1 DEF Calm, PlayerShape
<1>4. /\ DOMAIN q.video = Keys
      /\ \A k \in Keys : VideoShape(q.video[k])
      /\ \A k \in Keys : k # p.active => q.video[k] = p.video[k]
  BY <1>1, <1>2 DEF Calm, PlayerShape, VideoShape
<1>5. Calm(q) /\ SameSlots(p, q)
  BY <1>3, <1>4 DEF Calm, PlayerShape, SameSlots
<1>. QED  BY <1>5 DEF q

LEMMA PauseCalm ==
    ASSUME NEW p, Calm(p)
    PROVE  Calm(PauseVideo(p)) /\ SameSlots(p, PauseVideo(p))
<1>. DEFINE q == PauseVideo(p)
<1>1. q = [p EXCEPT !.video = [p.video EXCEPT ![p.active] = [p.video[p.active] EXCEPT !.playing = FALSE]]]
  BY DEF PauseVideo
<1>. HIDE DEF q
<1>2. q.active = p.active /\ q.slot = p.slot /\ {"active", "slot", "video"} \subseteq DOMAIN q
  BY <1>1 DEF Calm, PlayerShape
<1>3. /\ DOMAIN q.video = Keys
      /\ \A k \in Keys : VideoShape(q.video[k])
      /\ \A k \in Keys : k # p.active => q.video[k] = p.video[k]
  BY <1>1 DEF Calm, PlayerShape, VideoShape
<1>4. Calm(q) /\ SameSlots(p, q)
  BY <1>2, <1>3 DEF Calm, PlayerShape, SameSlots
<1>. QED  BY <1>4 DEF q

(* An element and its slot change, but for what is fetched and what plays. *)
LEMMA AsideCalm ==
    ASSUME NEW p, NEW q, Calm(p),
           {"active", "slot", "video"} \subseteq DOMAIN q, q.active = p.active,
           DOMAIN q.slot = Keys, DOMAIN q.video = Keys,
           \A k \in Keys : /\ {"clip", "swap", "autoplay"} \subseteq DOMAIN q.slot[k]
                           /\ q.slot[k].autoplay \in BOOLEAN
                           /\ q.slot[k].clip = p.slot[k].clip /\ q.slot[k].swap = p.slot[k].swap
                           /\ "playing" \in DOMAIN q.video[k]
                           /\ q.video[k].playing = p.video[k].playing
    PROVE  Calm(q) /\ SameSlots(p, q)
BY DEF Calm, PlayerShape, SlotShape, VideoShape, SameSlots

LEMMA SettledCalm ==
    ASSUME NEW p, Calm(p), NEW k \in Keys
    PROVE  Calm(Settled(p, k)) /\ SameSlots(p, Settled(p, k))
<1>. DEFINE q == Settled(p, k)
            v == BroughtTo(p.video[k], p.slot[k].seek, p.slot[k].tolerance)
<1>1. q = [p EXCEPT !.slot = [p.slot EXCEPT ![k] = [p.slot[k] EXCEPT !.ready = TRUE]],
                    !.video = [p.video EXCEPT ![k] = v]]
  BY DEF Settled
<1>2. "playing" \in DOMAIN v /\ v.playing = p.video[k].playing
  BY DEF BroughtTo, Calm, PlayerShape, VideoShape
<1>. HIDE DEF q, v
<1>3. /\ q.active = p.active /\ {"active", "slot", "video"} \subseteq DOMAIN q
      /\ q.slot = [p.slot EXCEPT ![k] = [p.slot[k] EXCEPT !.ready = TRUE]]
      /\ q.video = [p.video EXCEPT ![k] = v]
  BY <1>1 DEF Calm, PlayerShape
<1>4. DOMAIN q.slot = Keys /\ DOMAIN q.video = Keys
  BY <1>3 DEF Calm, PlayerShape
<1>5. \A j \in Keys : /\ {"clip", "swap", "autoplay"} \subseteq DOMAIN q.slot[j]
                      /\ q.slot[j].autoplay \in BOOLEAN
                      /\ q.slot[j].clip = p.slot[j].clip /\ q.slot[j].swap = p.slot[j].swap
  BY <1>3 DEF Calm, PlayerShape, SlotShape
<1>6. \A j \in Keys : /\ "playing" \in DOMAIN q.video[j]
                      /\ q.video[j].playing = p.video[j].playing
  BY <1>2, <1>3 DEF Calm, PlayerShape, VideoShape
<1>7. Calm(q) /\ SameSlots(p, q)
  BY <1>3, <1>4, <1>5, <1>6, AsideCalm
<1>. QED  BY <1>7 DEF q

(* A swap shows the other element, and takes it from the one before. *)
LEMMA SwapCalm ==
    ASSUME NEW p, Calm(p), NEW k \in Keys, k # p.active
    PROVE  /\ Calm(SwapTo(p, k)) /\ SwapTo(p, k).active = k
           /\ ~SwapTo(p, k).slot[p.active].swap
           /\ \A j \in Keys : SwapTo(p, k).slot[j].clip = p.slot[j].clip
<1>. DEFINE old == p.active
            q == [p EXCEPT !.active = k, !.slot[k].swap = FALSE]
            r == [q EXCEPT !.slot[old].autoplay = FALSE, !.video[old].playing = FALSE]
<1>1. SwapTo(p, k) = Playback(r, p.slot[k].autoplay)
  BY DEF SwapTo
<1>2. /\ q.active = k /\ {"active", "slot", "video"} \subseteq DOMAIN q /\ q.video = p.video
      /\ q.slot = [p.slot EXCEPT ![k] = [p.slot[k] EXCEPT !.swap = FALSE]]
  BY DEF Calm, PlayerShape
<1>. HIDE DEF q
<1>3. /\ r.active = k /\ {"active", "slot", "video"} \subseteq DOMAIN r
      /\ r.slot = [q.slot EXCEPT ![old] = [q.slot[old] EXCEPT !.autoplay = FALSE]]
      /\ r.video = [p.video EXCEPT ![old] = [p.video[old] EXCEPT !.playing = FALSE]]
  BY <1>2
<1>. HIDE DEF r
<1>4. old \in Keys /\ ~p.slot[old].swap /\ \A j \in Keys : SlotShape(p.slot[j])
  BY DEF Calm, PlayerShape
<1>5. /\ DOMAIN q.slot = Keys
      /\ \A j \in Keys : SlotShape(q.slot[j]) /\ q.slot[j].clip = p.slot[j].clip
      /\ ~q.slot[k].swap /\ ~q.slot[old].swap
  <2>1. DOMAIN q.slot = Keys /\ q.slot[k] = [p.slot[k] EXCEPT !.swap = FALSE]
    BY <1>2 DEF Calm, PlayerShape
  <2>2. \A j \in Keys : j # k => q.slot[j] = p.slot[j]
    BY <1>2 DEF Calm, PlayerShape
  <2>. QED  BY <1>4, <2>1, <2>2, ZenonT(60) DEF SlotShape
<1>6. /\ DOMAIN r.slot = Keys
      /\ \A j \in Keys : SlotShape(r.slot[j]) /\ r.slot[j].clip = p.slot[j].clip
      /\ ~r.slot[k].swap /\ ~r.slot[old].swap
  <2>1. DOMAIN r.slot = Keys /\ r.slot[old] = [q.slot[old] EXCEPT !.autoplay = FALSE]
    BY <1>3, <1>4, <1>5
  <2>2. \A j \in Keys : j # old => r.slot[j] = q.slot[j]
    BY <1>3, <1>5
  <2>3. SlotShape(r.slot[old]) /\ r.slot[old].clip = p.slot[old].clip /\ ~r.slot[old].swap
    BY <1>4, <1>5, <2>1 DEF SlotShape
  <2>4. ~r.slot[k].swap
    BY <1>5, <2>2
  <2>. QED  BY <1>5, <2>1, <2>2, <2>3, <2>4
<1>7. /\ DOMAIN r.video = Keys /\ \A j \in Keys : VideoShape(r.video[j])
      /\ \A j \in Keys : r.video[j].playing => j = k
  <2>1. DOMAIN r.video = Keys /\ r.video[old] = [p.video[old] EXCEPT !.playing = FALSE]
    BY <1>3, <1>4 DEF Calm, PlayerShape
  <2>2. \A j \in Keys : j # old => j = k /\ r.video[j] = p.video[j]
    BY <1>3, <1>4, OtherKeys DEF Calm, PlayerShape
  <2>. QED  BY <1>4, <2>1, <2>2 DEF Calm, PlayerShape, VideoShape
<1>8. Calm(r)
  BY <1>3, <1>6, <1>7 DEF Calm, PlayerShape
<1>9. Calm(Playback(r, p.slot[k].autoplay)) /\ SameSlots(r, Playback(r, p.slot[k].autoplay))
  BY <1>4, <1>8, PlaybackCalm DEF SlotShape
<1>. QED  BY <1>1, <1>3, <1>4, <1>6, <1>9 DEF SameSlots

(* An element whose clip has come is settled, and shown if it is waited for. *)
LEMMA FinalizeCalm ==
    ASSUME NEW p, Calm(p), NEW k \in Keys
    PROVE  /\ Calm(Finalize(p, k))
           /\ k = p.active => SameSlots(p, Finalize(p, k))
           /\ \A c : Shows(p, c) => Shows(Finalize(p, k), c)
<1>. DEFINE q == Settled(p, k)
<1>0. p.active \in Keys
  BY DEF Calm, PlayerShape
<1>1. Calm(q) /\ SameSlots(p, q)
  BY SettledCalm
<1>. HIDE DEF q
<1>2. \A c : Shows(p, c) => Shows(q, c)
  BY <1>0, <1>1, SameShows
<1>3. CASE ~p.video[k].loaded
  BY <1>3 DEF Finalize, SameSlots
<1>4. CASE p.video[k].loaded /\ q.slot[k].swap
  <2>1. Finalize(p, k) = SwapTo(q, k)
    BY <1>4 DEF Finalize, q
  <2>2. k # q.active /\ q.active = p.active
    BY <1>1, <1>4 DEF Calm, SameSlots
  <2>3. /\ Calm(SwapTo(q, k)) /\ SwapTo(q, k).active = k
        /\ ~SwapTo(q, k).slot[q.active].swap
        /\ \A j \in Keys : SwapTo(q, k).slot[j].clip = q.slot[j].clip
    BY <1>1, <2>2, SwapCalm
  <2>4. k = OtherKey(q.active) /\ q.active = OtherKey(k)
    BY <1>0, <2>2, OtherKeys
  <2>5. ASSUME NEW c, Shows(q, c)
        PROVE  Shows(SwapTo(q, k), c)
    BY <1>4, <2>3, <2>4, <2>5 DEF Shows
  <2>. QED  BY <1>2, <2>1, <2>2, <2>3, <2>5
<1>5. CASE p.video[k].loaded /\ ~q.slot[k].swap /\ k = q.active
  <2>. DEFINE r == Playback(q, q.slot[k].autoplay)
  <2>1. Finalize(p, k) = r
    BY <1>5 DEF Finalize, q
  <2>2. q.slot[k].autoplay \in BOOLEAN
    BY <1>1 DEF Calm, PlayerShape, SlotShape
  <2>3. Calm(r) /\ SameSlots(q, r)
    BY <1>1, <2>2, PlaybackCalm
  <2>. HIDE DEF r
  <2>4. SameSlots(p, r)
    BY <1>1, <2>3 DEF SameSlots
  <2>. QED  BY <1>0, <2>1, <2>3, <2>4, SameShows
<1>6. CASE p.video[k].loaded /\ ~q.slot[k].swap /\ k # q.active
  <2>1. Finalize(p, k) = q
    BY <1>6 DEF Finalize, q
  <2>. QED  BY <1>1, <1>2, <2>1
<1>. QED  BY <1>3, <1>4, <1>5, <1>6

(* What is asked of the hidden element is shown if that is how it was asked. *)
LEMMA PrepareCalm ==
    ASSUME NEW p, Calm(p), NEW request, SlotShape(request), NEW c,
           IF p.slot[p.active].clip = c THEN ~request.swap ELSE request.swap /\ request.clip = c
    PROVE  LET q == Prepare(p, OtherKey(p.active), request)
           IN  Calm(q) /\ Shows(q, c)
<1>. DEFINE k == OtherKey(p.active)
            q == [p EXCEPT !.slot[k] = request]
            r == [q EXCEPT !.video[k] = FreshVideo(request.clip)]
<1>0. p.active \in Keys /\ k \in Keys /\ k # p.active
  BY OtherKeys DEF Calm, PlayerShape
<1>1. /\ q.active = p.active /\ {"active", "slot", "video"} \subseteq DOMAIN q
      /\ q.video = p.video /\ q.slot = [p.slot EXCEPT ![k] = request]
  BY DEF Calm, PlayerShape
<1>. HIDE DEF q
<1>2. /\ DOMAIN q.slot = Keys /\ \A j \in Keys : SlotShape(q.slot[j])
      /\ q.slot[k] = request /\ q.slot[p.active] = p.slot[p.active]
  BY <1>0, <1>1 DEF Calm, PlayerShape
<1>3. Calm(q)
  BY <1>0, <1>1, <1>2 DEF Calm, PlayerShape
<1>4. Shows(q, c)
  BY <1>1, <1>2 DEF Shows
<1>5. /\ r.active = p.active /\ {"active", "slot", "video"} \subseteq DOMAIN r
      /\ r.slot = q.slot /\ r.video = [p.video EXCEPT ![k] = FreshVideo(request.clip)]
  BY <1>1
<1>6. VideoShape(FreshVideo(request.clip)) /\ ~FreshVideo(request.clip).playing
  BY DEF VideoShape, FreshVideo
<1>. HIDE DEF r
<1>7. /\ DOMAIN r.video = Keys /\ \A j \in Keys : VideoShape(r.video[j])
      /\ \A j \in Keys : r.video[j].playing => j = r.active
  <2>1. DOMAIN r.video = Keys /\ r.video[k] = FreshVideo(request.clip)
    BY <1>0, <1>5 DEF Calm, PlayerShape
  <2>2. \A j \in Keys : j # k => r.video[j] = p.video[j]
    BY <1>5 DEF Calm, PlayerShape
  <2>. QED  BY <1>5, <1>6, <2>1, <2>2 DEF Calm, PlayerShape
<1>8. Calm(r) /\ Shows(r, c)
  BY <1>1, <1>2, <1>3, <1>4, <1>5, <1>7 DEF Calm, PlayerShape, Shows
<1>9. Calm(Finalize(q, k)) /\ Shows(Finalize(q, k), c)
  BY <1>0, <1>3, <1>4, FinalizeCalm
<1>10. Prepare(p, k, request) \in {r, Finalize(q, k)}
  BY DEF Prepare, q, r
<1>. QED  BY <1>8, <1>9, <1>10

(* After that the hidden element waits for nothing. *)
LEMMA CancelCalm ==
    ASSUME NEW p, Calm(p)
    PROVE  LET q == CancelStandby(p)
           IN  /\ Calm(q) /\ q.active = p.active
               /\ q.slot[q.active] = p.slot[p.active]
               /\ ~q.slot[OtherKey(q.active)].swap
<1>. DEFINE k == OtherKey(p.active)
            s == [EmptySlot EXCEPT !.clip = p.slot[k].clip, !.seek = p.slot[k].seek]
            q == CancelStandby(p)
<1>0. p.active \in Keys /\ k \in Keys /\ k # p.active
  BY OtherKeys DEF Calm, PlayerShape
<1>1. SlotShape(s) /\ ~s.swap
  BY DEF SlotShape, EmptySlot
<1>2. q = [p EXCEPT !.video = [p.video EXCEPT ![k] = [p.video[k] EXCEPT !.playing = FALSE]],
                    !.slot = [p.slot EXCEPT ![k] = s]]
  BY DEF CancelStandby
<1>. HIDE DEF s, q
<1>3. /\ q.active = p.active /\ {"active", "slot", "video"} \subseteq DOMAIN q
      /\ q.slot = [p.slot EXCEPT ![k] = s]
      /\ q.video = [p.video EXCEPT ![k] = [p.video[k] EXCEPT !.playing = FALSE]]
  BY <1>2 DEF Calm, PlayerShape
<1>4. /\ DOMAIN q.slot = Keys /\ \A j \in Keys : SlotShape(q.slot[j])
      /\ q.slot[k] = s /\ q.slot[p.active] = p.slot[p.active]
  BY <1>0, <1>1, <1>3 DEF Calm, PlayerShape
<1>5. /\ DOMAIN q.video = Keys /\ \A j \in Keys : VideoShape(q.video[j])
      /\ \A j \in Keys : q.video[j].playing => j = p.active
  <2>1. DOMAIN q.video = Keys /\ q.video[k] = [p.video[k] EXCEPT !.playing = FALSE]
    BY <1>0, <1>3 DEF Calm, PlayerShape
  <2>2. \A j \in Keys : j # k => q.video[j] = p.video[j]
    BY <1>3 DEF Calm, PlayerShape
  <2>. QED  BY <1>0, <2>1, <2>2 DEF Calm, PlayerShape, VideoShape
<1>6. Calm(q)
  BY <1>3, <1>4, <1>5 DEF Calm, PlayerShape
<1>. QED  BY <1>1, <1>3, <1>4, <1>6 DEF q

(* The slot that is shown changes otherwise than in its clip, and waits for no swap. *)
LEMMA ActiveCalm ==
    ASSUME NEW p, NEW q, NEW s, Calm(p), q = [p EXCEPT !.slot = [p.slot EXCEPT ![p.active] = s]],
           SlotShape(s), s.clip = p.slot[p.active].clip, ~s.swap
    PROVE  Calm(q) /\ SameSlots(p, q)
<1>1. /\ q.active = p.active /\ {"active", "slot", "video"} \subseteq DOMAIN q
      /\ q.video = p.video /\ q.slot = [p.slot EXCEPT ![p.active] = s]
  BY DEF Calm, PlayerShape
<1>2. /\ p.active \in Keys /\ DOMAIN q.slot = Keys /\ q.slot[p.active] = s
      /\ \A j \in Keys : j # p.active => q.slot[j] = p.slot[j]
  BY <1>1 DEF Calm, PlayerShape
<1>. QED  BY <1>1, <1>2 DEF Calm, PlayerShape, SameSlots, SlotShape

LEMMA StayOnCalm ==
    ASSUME NEW p, Calm(p), NEW seg, NEW t, NEW autoplay \in BOOLEAN, NEW intent
    PROVE  LET q == StayOn(p, seg, t, autoplay, intent)
           IN  /\ Calm(q)
               /\ q.slot[q.active].clip = p.slot[p.active].clip
               /\ ~q.slot[OtherKey(q.active)].swap
<1>. DEFINE k == p.active
            q == CancelStandby(p)
            s == [q.slot[k] EXCEPT !.seek = SeekFor(seg, t), !.ready = FALSE,
                      !.autoplay = autoplay, !.swap = FALSE, !.tolerance = Tolerance(intent)]
            u == [q.slot[k] EXCEPT !.autoplay = autoplay, !.tolerance = Tolerance(intent)]
            r == [q EXCEPT !.slot = [q.slot EXCEPT ![q.active] = s]]
            v == [q EXCEPT !.slot = [q.slot EXCEPT ![q.active] = u]]
<1>1. /\ Calm(q) /\ q.active = k /\ q.slot[k] = p.slot[k] /\ ~q.slot[OtherKey(k)].swap
  BY CancelCalm
<1>. HIDE DEF q
<1>2. k \in Keys /\ SlotShape(q.slot[k]) /\ OtherKey(k) \in Keys /\ ~q.slot[k].swap
  BY <1>1, OtherKeys DEF Calm, PlayerShape
<1>3. SlotShape(s) /\ s.clip = q.slot[k].clip /\ ~s.swap
  BY <1>2 DEF SlotShape
<1>4. SlotShape(u) /\ u.clip = q.slot[k].clip /\ ~u.swap
  BY <1>2 DEF SlotShape
<1>5. [q EXCEPT !.slot[k].autoplay = autoplay, !.slot[k].tolerance = Tolerance(intent)] = v
  BY <1>1, <1>2 DEF Calm, PlayerShape
<1>6. [q EXCEPT !.slot[q.active] = [@ EXCEPT
          !.seek = SeekFor(seg, t), !.ready = FALSE, !.autoplay = autoplay, !.swap = FALSE,
          !.tolerance = Tolerance(intent)]] = r
  BY <1>1, <1>2 DEF Calm, PlayerShape
<1>. HIDE DEF s, u
<1>7. Calm(r) /\ SameSlots(q, r)
  BY <1>1, <1>3, ActiveCalm
<1>8. Calm(v) /\ SameSlots(q, v)
  BY <1>1, <1>4, ActiveCalm
<1>. HIDE DEF r, v
<1>9. Calm(Finalize(r, q.active)) /\ SameSlots(r, Finalize(r, q.active))
  BY <1>1, <1>2, <1>7, FinalizeCalm DEF SameSlots
<1>10. Calm(Playback(v, autoplay)) /\ SameSlots(v, Playback(v, autoplay))
  BY <1>8, PlaybackCalm
<1>11. StayOn(p, seg, t, autoplay, intent) \in {Finalize(r, q.active), Playback(v, autoplay)}
  BY <1>5, <1>6 DEF StayOn, SyncActive, q
<1>. QED  BY <1>1, <1>2, <1>7, <1>8, <1>9, <1>10, <1>11 DEF SameSlots

(* The segment at hand is shown, or fetched to be shown. *)
LEMMA ShowSegmentCalm ==
    ASSUME NEW p, Calm(p), NEW tl, NEW i, NEW t, NEW autoplay \in BOOLEAN, NEW intent
    PROVE  LET q == ShowSegment(p, tl, i, t, autoplay, intent)
           IN  Calm(q) /\ Shows(q, tl[i].clip)
<1>1. CASE p.slot[p.active].clip = tl[i].clip
  <2>. DEFINE q == StayOn(p, tl[i], t, autoplay, intent)
              request == [EmptySlot EXCEPT !.clip = tl[i + 1].clip, !.seek = SeekFor(tl[i + 1], t)]
  <2>1. Calm(q) /\ q.slot[q.active].clip = tl[i].clip /\ ~q.slot[OtherKey(q.active)].swap
    BY <1>1, StayOnCalm
  <2>. HIDE DEF q
  <2>2. SlotShape(request) /\ ~request.swap
    BY DEF SlotShape, EmptySlot
  <2>. HIDE DEF request
  <2>3. /\ Calm(Prepare(q, OtherKey(q.active), request))
        /\ Shows(Prepare(q, OtherKey(q.active), request), tl[i].clip)
    BY <2>1, <2>2, PrepareCalm
  <2>4. Calm(q) /\ Shows(q, tl[i].clip)
    BY <2>1 DEF Shows
  <2>5. WarmNext(q, tl, i, t, autoplay, intent) \in {q, Prepare(q, OtherKey(q.active), request)}
    BY DEF WarmNext, request
  <2>6. ShowSegment(p, tl, i, t, autoplay, intent) = WarmNext(q, tl, i, t, autoplay, intent)
    BY <1>1 DEF ShowSegment, q
  <2>. QED  BY <2>3, <2>4, <2>5, <2>6
<1>2. CASE p.slot[p.active].clip # tl[i].clip
  <2>. DEFINE tolerance == IF autoplay /\ p.slot[p.active].clip # Blank
                           THEN 0 ELSE Tolerance(intent)
              request == [clip |-> tl[i].clip, seek |-> SeekFor(tl[i], t), ready |-> FALSE,
                          autoplay |-> autoplay, swap |-> TRUE, tolerance |-> tolerance]
  <2>1. SlotShape(request) /\ request.swap /\ request.clip = tl[i].clip
    BY DEF SlotShape
  <2>2. ShowSegment(p, tl, i, t, autoplay, intent) = Prepare(p, OtherKey(p.active), request)
    BY <1>2 DEF ShowSegment
  <2>. HIDE DEF request
  <2>. QED  BY <1>2, <2>1, <2>2, PrepareCalm
<1>. QED  BY <1>1, <1>2

LEMMA NoPlayerCalm == Calm(NoPlayer)
BY DEF NoPlayer, Calm, PlayerShape, SlotShape, VideoShape, EmptySlot, FreshVideo, Keys

LEMMA SyncKeepsPlayer ==
    ASSUME Calm(player), NEW tl, NEW a, NEW intent, SyncAt(tl, a, player, intent), timeline' = tl
    PROVE  PlayerInv'
<1>. DEFINE i == SegmentAt(tl, a.time)
<1>1. card' = i /\ player' = ShowSegment(player, tl, i, a.time, ~a.paused, intent)
  BY DEF SyncAt
<1>2. (~a.paused) \in BOOLEAN
  OBVIOUS
<1>3. Calm(player') /\ Shows(player', tl[i].clip)
  BY <1>1, <1>2, ShowSegmentCalm
<1>. QED  BY <1>1, <1>3 DEF PlayerInv

LEMMA UserKeepsPlayer ==
    ASSUME PlayerInv, UserStep
    PROVE  PlayerInv'
<1>1. CASE PlayAudio
  <2>1. Calm(player') /\ SameSlots(player, player')
    BY <1>1, PlaybackCalm DEF PlayAudio, PlayerInv
  <2>2. player.active \in Keys
    BY DEF PlayerInv, Calm, PlayerShape
  <2>. QED  BY <1>1, <2>1, <2>2, SameShows DEF PlayAudio, PlayerInv
<1>2. CASE PauseAudio
  <2>1. Calm(player') /\ SameSlots(player, player')
    BY <1>2, PauseCalm DEF PauseAudio, PlayerInv
  <2>2. player.active \in Keys
    BY DEF PlayerInv, Calm, PlayerShape
  <2>. QED  BY <1>2, <2>1, <2>2, SameShows DEF PauseAudio, PlayerInv
<1>3. ASSUME NEW t, Scrub(t)
      PROVE  PlayerInv'
  BY <1>3, SyncKeepsPlayer DEF Scrub, PlayerInv
<1>4. ASSUME NEW i, JumpTo(i)
      PROVE  PlayerInv'
  <2>. DEFINE p == ShowSegment(player, timeline, i, audio'.time, ~audio.paused, RefreshIntent(audio))
              q == ShowSegment(p, timeline, i, audio'.time, ~audio.paused, "seek")
  <2>1. (~audio.paused) \in BOOLEAN /\ Calm(player)
    BY DEF PlayerInv
  <2>2. Calm(p)
    BY <2>1, ShowSegmentCalm
  <2>. HIDE DEF p
  <2>3. Calm(q) /\ Shows(q, timeline[i].clip)
    BY <2>1, <2>2, ShowSegmentCalm
  <2>4. player' = q /\ card' = i /\ timeline' = timeline
    BY <1>4 DEF JumpTo, p
  <2>. HIDE DEF q
  <2>. QED  BY <2>3, <2>4 DEF PlayerInv
<1>5. ASSUME NEW tl, NEW newAudio, SessionChanges(tl, newAudio)
      PROVE  PlayerInv'
  <2>1. CASE tl = Blank
    BY <1>5, <2>1, NoPlayerCalm DEF SessionChanges, PlayerInv
  <2>2. CASE tl # Blank
    BY <1>5, <2>2, SyncKeepsPlayer DEF SessionChanges, PlayerInv
  <2>. QED  BY <2>1, <2>2
<1>. QED  BY <1>1, <1>2, <1>3, <1>4, <1>5 DEF UserStep

LEMMA MediaKeepsPlayer ==
    ASSUME PlayerInv, MediaStep
    PROVE  PlayerInv'
<1>0. /\ Calm(player) /\ player.active \in Keys /\ PlayerShape(player)
  BY DEF PlayerInv, Calm, PlayerShape
<1>1. CASE TimeUpdate
  BY <1>1, SyncKeepsPlayer DEF TimeUpdate, PlayerInv
<1>2. ASSUME UNCHANGED <<timeline, card>>, Calm(player'), SameSlots(player, player')
      PROVE  PlayerInv'
  BY <1>0, <1>2, SameShows DEF PlayerInv
<1>3. CASE PlayOn
  <2>. DEFINE Moved(step) == [k \in Keys |->
                  LET v == player.video[k]
                  IN  IF v.playing /\ v.loaded /\ v.at < EndOf(timeline) + MaxStall
                      THEN [v EXCEPT !.at = @ + step[k]] ELSE v]
  <2>1. PICK step \in [Keys -> 0..1] :
            LET p == [player EXCEPT !.video = Moved(step)]
            IN  player' = p \/ player' = PauseVideo(p)
    BY <1>3 DEF PlayOn
  <2>. DEFINE moved == Moved(step)
              p == [player EXCEPT !.video = moved]
  <2>2. player' = p \/ player' = PauseVideo(p)
    BY <2>1
  <2>3. DOMAIN moved = Keys
    OBVIOUS
  <2>4. \A k \in Keys : "playing" \in DOMAIN moved[k] /\ moved[k].playing = player.video[k].playing
    BY <1>0 DEF PlayerShape, VideoShape
  <2>. HIDE DEF moved
  <2>5. /\ p.active = player.active /\ {"active", "slot", "video"} \subseteq DOMAIN p
        /\ p.slot = player.slot /\ p.video = moved
    BY <1>0 DEF PlayerShape
  <2>. HIDE DEF p
  <2>6. Calm(p) /\ SameSlots(player, p)
    BY <1>0, <2>3, <2>4, <2>5, AsideCalm DEF PlayerShape, SlotShape
  <2>7. Calm(PauseVideo(p)) /\ SameSlots(p, PauseVideo(p))
    BY <2>6, PauseCalm
  <2>8. Calm(player') /\ SameSlots(player, player')
    BY <2>2, <2>6, <2>7 DEF SameSlots
  <2>. QED  BY <1>2, <1>3, <2>8 DEF PlayOn
<1>4. ASSUME NEW k \in Keys, ClipLoads(k)
      PROVE  PlayerInv'
  <2>1. player' = [player EXCEPT !.video = [player.video EXCEPT ![k] =
                      [player.video[k] EXCEPT !.loaded = TRUE, !.due = {"loadedmetadata"}]]]
    BY <1>0, <1>4 DEF ClipLoads, PlayerShape
  <2>2. /\ player'.active = player.active /\ {"active", "slot", "video"} \subseteq DOMAIN player'
        /\ player'.slot = player.slot
        /\ player'.video = [player.video EXCEPT ![k] =
                      [player.video[k] EXCEPT !.loaded = TRUE, !.due = {"loadedmetadata"}]]
    BY <1>0, <2>1 DEF PlayerShape
  <2>3. /\ DOMAIN player'.video = Keys
        /\ \A j \in Keys : /\ "playing" \in DOMAIN player'.video[j]
                           /\ player'.video[j].playing = player.video[j].playing
    BY <1>0, <2>2 DEF PlayerShape, VideoShape
  <2>4. /\ DOMAIN player'.slot = Keys
        /\ \A j \in Keys : /\ SlotShape(player'.slot[j])
                           /\ player'.slot[j].clip = player.slot[j].clip
                           /\ player'.slot[j].swap = player.slot[j].swap
    BY <1>0, <2>2 DEF PlayerShape
  <2>5. Calm(player') /\ SameSlots(player, player')
    BY <1>0, <2>2, <2>3, <2>4, AsideCalm DEF SlotShape
  <2>. QED  BY <1>2, <1>4, <2>5 DEF ClipLoads
<1>5. ASSUME NEW k \in Keys, ClipFails(k)
      PROVE  PlayerInv'
  <2>. DEFINE ready == player.slot[k].ready /\ player.active # k
  <2>1. player' = [player EXCEPT !.video = [player.video EXCEPT ![k] =
                                     [player.video[k] EXCEPT !.failed = TRUE]],
                                 !.slot = [player.slot EXCEPT ![k] =
                                     [player.slot[k] EXCEPT !.ready = ready]]]
    BY <1>0, <1>5 DEF ClipFails, PlayerShape
  <2>. HIDE DEF ready
  <2>2. /\ player'.active = player.active /\ {"active", "slot", "video"} \subseteq DOMAIN player'
        /\ player'.slot = [player.slot EXCEPT ![k] = [player.slot[k] EXCEPT !.ready = ready]]
        /\ player'.video = [player.video EXCEPT ![k] = [player.video[k] EXCEPT !.failed = TRUE]]
    BY <1>0, <2>1 DEF PlayerShape
  <2>3. /\ DOMAIN player'.video = Keys
        /\ \A j \in Keys : /\ "playing" \in DOMAIN player'.video[j]
                           /\ player'.video[j].playing = player.video[j].playing
    BY <1>0, <2>2 DEF PlayerShape, VideoShape
  <2>4. /\ DOMAIN player'.slot = Keys
        /\ \A j \in Keys : /\ SlotShape(player'.slot[j])
                           /\ player'.slot[j].clip = player.slot[j].clip
                           /\ player'.slot[j].swap = player.slot[j].swap
    BY <1>0, <2>2 DEF PlayerShape, SlotShape
  <2>5. Calm(player') /\ SameSlots(player, player')
    BY <1>0, <2>2, <2>3, <2>4, AsideCalm DEF SlotShape
  <2>. QED  BY <1>2, <1>5, <2>5 DEF ClipFails
<1>6. ASSUME NEW k \in Keys, NEW e, VideoEvent(k, e)
      PROVE  PlayerInv'
  <2>. DEFINE p == [player EXCEPT !.video = [player.video EXCEPT ![k] =
                        [player.video[k] EXCEPT !.due = @ \ {e}]]]
  <2>1. player' = Finalize(p, k)
    BY <1>0, <1>6 DEF VideoEvent, PlayerShape
  <2>2. /\ p.active = player.active /\ {"active", "slot", "video"} \subseteq DOMAIN p
        /\ p.slot = player.slot
        /\ p.video = [player.video EXCEPT ![k] = [player.video[k] EXCEPT !.due = @ \ {e}]]
    BY <1>0 DEF PlayerShape
  <2>. HIDE DEF p
  <2>3. /\ DOMAIN p.video = Keys
        /\ \A j \in Keys : /\ "playing" \in DOMAIN p.video[j]
                           /\ p.video[j].playing = player.video[j].playing
    BY <1>0, <2>2 DEF PlayerShape, VideoShape
  <2>4. Calm(p) /\ SameSlots(player, p)
    BY <1>0, <2>2, <2>3, AsideCalm, SMTT(30) DEF PlayerShape, SlotShape
  <2>5. \A c : Shows(player, c) => Shows(p, c)
    BY <1>0, <2>4, SameShows
  <2>6. Calm(player') /\ \A c : Shows(p, c) => Shows(player', c)
    BY <2>1, <2>4, FinalizeCalm
  <2>. QED  BY <1>6, <2>5, <2>6 DEF VideoEvent, PlayerInv
<1>. QED  BY <1>1, <1>3, <1>4, <1>5, <1>6 DEF MediaStep

(* The element that is shown waits for no swap and plays alone, and the other
   fetches the wanted clip whenever that is not shown: jumps, warm-ups, late
   events and failures of either element, in any order and of any timelines. *)
THEOREM PlayerInvariance == PlayerSpec => []PlayerInv
<1>1. PlayerInit => PlayerInv
  BY NoPlayerCalm DEF PlayerInit, PlayerInv
<1>2. PlayerInv /\ [PlayerNext]_playerVars => PlayerInv'
  <2>1. ASSUME PlayerInv, UNCHANGED playerVars
        PROVE  PlayerInv'
    BY <2>1 DEF playerVars, PlayerInv
  <2>. QED  BY <2>1, UserKeepsPlayer, MediaKeepsPlayer DEF PlayerNext
<1>. QED  BY <1>1, <1>2, PTL DEF PlayerSpec

(* PlaysWhatIsWanted of every behaviour of the player: what plays is what is
   shown, and what is shown is wanted or about to be replaced by what is. *)
THEOREM PlayerPlaysWanted == PlayerSpec => []PlaysWhatIsWanted
<1>1. PlayerInv => PlaysWhatIsWanted
  BY DEF PlayerInv, Calm, Shows, PlaysWhatIsWanted, OnlyActivePlays, ShowsOrFetches, Wanted
<1>. QED  BY <1>1, PlayerInvariance, PTL

-----------------------------------------------------------------------------
(* The drawer of clips *)

Shot == [offers : SUBSET ClipIds, chosen : ClipIds \cup {NoOne}]
GoodShot == {s \in Shot : s.chosen # NoOne => s.chosen \in s.offers}

(* The page, as far as the shots it shows depend on it: without a session the
   drawer is that of a draft. *)
DeskOK(d) ==
    /\ {"session", "shots", "open", "kind", "page", "draft", "found", "sure"} \subseteq DOMAIN d
    /\ d.session \in BOOLEAN /\ d.open \in BOOLEAN /\ d.sure \in BOOLEAN
    /\ d.shots \in Seq(GoodShot)
    /\ d.page \in Nat \ {0}
    /\ d.draft \in [DraftBeats -> ClipIds \cup {NoOne}]
    /\ d.found \subseteq ClipIds
    /\ ~d.session /\ d.open => d.kind = "draft"

AskShape(r) ==
    /\ {"kind", "at", "index", "page", "append", "clip", "existing", "copy", "got"} \subseteq DOMAIN r
    /\ r.existing \subseteq ClipIds /\ r.clip \in ClipIds \cup {NoOne} /\ r.append \in BOOLEAN

(* A search that is appended is one of a later page. *)
AskPaged(r) ==
    r.kind = "search" /\ r.at # "failed" => r.page \in Nat \ {0} /\ (r.append => r.page # 1)

AskFilled(r) ==
    /\ r.at = "loaded" => r.copy \in Seq(GoodShot)
    /\ r.at = "ok" =>
           /\ r.kind = "search" => r.got \in GoodShot
           /\ r.kind = "options" => r.got \subseteq ClipIds
           /\ r.kind \in {"pick", "insert", "delete", "fetch"} => r.got \in Seq(GoodShot)

AskOK(r) ==
    /\ AskShape(r) /\ AskPaged(r) /\ AskFilled(r)
    /\ \/ r.at = "idle"
       \/ /\ r.at \in {"sent", "loaded", "ok", "failed"}
          /\ r.kind \in {"search", "pick", "insert", "delete", "fetch", "options"}

PickerOK ==
    /\ DeskOK(desk)
    /\ kept \in Seq(GoodShot)
    /\ DOMAIN asks = Asks
    /\ \A q \in Asks : AskOK(asks[q])
    /\ ~desk.session => \A q \in Asks : Idle(q) \/ asks[q].kind = "options"

(* How the page's shots and those stored differ while r is the only request
   under way *)
Knows(r, shots, stored) ==
    /\ r.at # "failed"
    /\ r.kind = "options" => shots = stored
    /\ r.kind = "search" /\ r.at \in {"sent", "loaded"} =>
           /\ shots = stored
           /\ r.append /\ r.index \in DOMAIN stored => r.existing \subseteq stored[r.index].offers
    /\ r.kind \in {"search", "fetch"} /\ r.at = "loaded" => r.copy = stored
    /\ r.kind = "search" /\ r.at = "ok" =>
           /\ r.index \in DOMAIN shots
           /\ stored = [shots EXCEPT ![r.index] = r.got]
           /\ r.append => r.existing \subseteq r.got.offers
    /\ r.kind \in {"pick", "insert", "delete", "fetch"} /\ r.at = "ok" => r.got = stored

KnowsInv ==
    desk.sure =>
        /\ \A p, q \in Asks : Idle(p) \/ Idle(q) \/ p = q
        /\ \A q \in Asks : ~Idle(q) => Knows(asks[q], desk.shots, kept)
        /\ (\A q \in Asks : Idle(q)) => desk.shots = kept

PickerInv == PickerOK /\ KnowsInv

-----------------------------------------------------------------------------
(* Shots *)

LEMMA ResultsAreGood == Results \subseteq GoodShot
BY DEF Results, GoodShot, Shot

LEMMA SearchedIsGood ==
    ASSUME NEW shot \in GoodShot, NEW paged, NEW result \in Results
    PROVE  /\ Searched(shot, paged, result) \in GoodShot
           /\ paged # 1 => shot.offers \subseteq Searched(shot, paged, result).offers
<1>1. /\ result.offers \subseteq ClipIds /\ result.chosen \in ClipIds \cup {NoOne}
      /\ result.chosen # NoOne => result.chosen \in result.offers
  BY DEF Results
<1>2. shot.offers \subseteq ClipIds /\ shot.chosen \in ClipIds \cup {NoOne}
  BY DEF GoodShot, Shot
<1>. QED  BY <1>1, <1>2 DEF Searched, GoodShot, Shot

LEMMA ShotsChange ==
    ASSUME NEW shots \in Seq(GoodShot), NEW i, NEW shot \in GoodShot
    PROVE  /\ [shots EXCEPT ![i] = shot] \in Seq(GoodShot)
           /\ i \in DOMAIN shots => Without(shots, i) \in Seq(GoodShot)
           /\ i \in 1..Len(shots) + 1 => With(shots, i, shot) \in Seq(GoodShot)
<1>1. [shots EXCEPT ![i] = shot] \in Seq(GoodShot)
  <2>1. shots \in [1..Len(shots) -> GoodShot] /\ Len(shots) \in Nat
    OBVIOUS
  <2>2. [shots EXCEPT ![i] = shot] \in [1..Len(shots) -> GoodShot]
    BY <2>1
  <2>. QED  BY <2>1, <2>2
<1>2. ASSUME i \in DOMAIN shots
      PROVE  Without(shots, i) \in Seq(GoodShot)
  <2>1. i \in 1..Len(shots) /\ Len(shots) \in Nat
    BY <1>2
  <2>2. SubSeq(shots, 1, i - 1) \in Seq(GoodShot) /\ SubSeq(shots, i + 1, Len(shots)) \in Seq(GoodShot)
    BY <2>1
  <2>. QED  BY <2>2, ConcatProperties DEF Without
<1>3. ASSUME i \in 1..Len(shots) + 1
      PROVE  With(shots, i, shot) \in Seq(GoodShot)
  <2>1. i \in Nat /\ i >= 1 /\ i <= Len(shots) + 1 /\ Len(shots) \in Nat
    BY <1>3
  <2>2. /\ SubSeq(shots, 1, i - 1) \in Seq(GoodShot) /\ SubSeq(shots, i, Len(shots)) \in Seq(GoodShot)
        /\ <<shot>> \in Seq(GoodShot)
    BY <2>1
  <2>. QED  BY <2>2, ConcatProperties DEF With
<1>. QED  BY <1>1, <1>2, <1>3

(* The clips of a draft become the shots of a session. *)
LEMMA DraftShots ==
    ASSUME NEW draft \in [DraftBeats -> ClipIds \cup {NoOne}],
           NEW filled, filled = {b \in DraftBeats : draft[b] # NoOne},
           NEW order \in [1..Cardinality(filled) -> filled]
    PROVE  [i \in DOMAIN order |-> OneOffer(draft[order[i]])] \in Seq(GoodShot)
<1>1. IsFiniteSet(1..MaxLength) /\ filled \subseteq 1..MaxLength
  <2>1. 1 \in Int /\ MaxLength \in Int /\ DraftBeats \subseteq 1..MaxLength
    BY DraftsAreShort
  <2>. QED  BY <2>1, FS_Interval
<1>2. IsFiniteSet(filled)
  BY <1>1, FS_Subset
<1>3. Cardinality(filled) \in Nat
  BY <1>2, FS_CardinalityType
<1>4. \A i \in 1..Cardinality(filled) : OneOffer(draft[order[i]]) \in GoodShot
  BY DEF OneOffer, GoodShot, Shot
<1>. QED  BY <1>3, <1>4

-----------------------------------------------------------------------------
(* What the user starts *)

(* A page that shows the same shots of the same session *)
SameShots(d, e) == e.shots = d.shots /\ e.session = d.session /\ e.sure = d.sure

(* What a request that begins on page d asks for *)
RequestOK(r, d) ==
    /\ r.kind \in {"search", "pick", "insert", "delete", "options"}
    /\ ~d.session => r.kind = "options"
    /\ r.existing \subseteq ClipIds /\ r.clip \in ClipIds \cup {NoOne} /\ r.append \in BOOLEAN
    /\ r.kind = "search" =>
           /\ r.page \in Nat \ {0}
           /\ r.append => r.page # 1
           /\ r.append /\ r.index \in DOMAIN d.shots => r.existing \subseteq d.shots[r.index].offers

LEMMA NoAskOK == AskOK(NoAsk) /\ NoAsk.at = "idle"
BY DEF NoAsk, AskOK, AskShape, AskPaged, AskFilled

LEMMA BeginKeepsPicker ==
    ASSUME PickerInv, NEW q \in Asks, NEW d, DeskOK(d), SameShots(desk, d),
           NEW r, RequestOK(r, d), Begin(q, r, d), UNCHANGED kept
    PROVE  PickerInv'
<1>. DEFINE a == [NoAsk EXCEPT !.at = "sent", !.kind = r.kind, !.index = r.index,
                      !.page = r.page, !.append = r.append, !.clip = r.clip,
                      !.existing = r.existing]
            sure == d.sure /\ \A p \in Asks : Idle(p)
<1>1. asks' = [asks EXCEPT ![q] = a] /\ desk' = [d EXCEPT !.sure = sure]
  BY DEF Begin
<1>2. /\ a.at = "sent" /\ a.kind = r.kind /\ a.index = r.index /\ a.page = r.page
      /\ a.append = r.append /\ a.clip = r.clip /\ a.existing = r.existing
      /\ DOMAIN a = DOMAIN NoAsk
  BY DEF NoAsk
<1>3. sure \in BOOLEAN
  OBVIOUS
<1>. HIDE DEF a, sure
<1>4. /\ DeskOK(desk') /\ desk'.shots = desk.shots /\ desk'.session = desk.session
      /\ desk'.sure = sure
  BY <1>1, <1>3 DEF DeskOK, SameShots
<1>5. AskOK(a)
  BY <1>2 DEF RequestOK, AskOK, AskShape, AskPaged, AskFilled, NoAsk
<1>6. DOMAIN asks' = Asks /\ asks'[q] = a /\ \A p \in Asks : p # q => asks'[p] = asks[p]
  BY <1>1 DEF PickerInv, PickerOK
<1>7. ~desk.session => r.kind = "options"
  BY DEF RequestOK, SameShots
<1>8. PickerOK'
  BY <1>2, <1>4, <1>5, <1>6, <1>7 DEF PickerInv, PickerOK, Idle
<1>9. ASSUME sure
      PROVE  /\ \A p \in Asks : p # q => asks'[p].at = "idle"
             /\ desk'.shots = kept
             /\ Knows(a, desk'.shots, kept)
  <2>1. desk.sure /\ \A p \in Asks : Idle(p)
    BY <1>9 DEF sure, SameShots
  <2>2. desk'.shots = kept
    BY <1>4, <2>1 DEF PickerInv, KnowsInv
  <2>3. kept = d.shots
    BY <1>4, <2>2 DEF SameShots
  <2>4. /\ a.at = "sent" /\ a.kind \in {"search", "pick", "insert", "delete", "options"}
        /\ a.kind = "search" /\ a.append /\ a.index \in DOMAIN kept =>
               a.existing \subseteq kept[a.index].offers
    BY <1>2, <2>3 DEF RequestOK
  <2>5. Knows(a, desk'.shots, kept)
    BY <2>2, <2>4 DEF Knows
  <2>. QED  BY <1>6, <2>1, <2>2, <2>5 DEF Idle
<1>10. KnowsInv'
  BY <1>2, <1>4, <1>6, <1>9 DEF KnowsInv, Idle
<1>. QED  BY <1>8, <1>10 DEF PickerInv

(* The page changes, and asks for nothing. *)
LEMMA PageKeepsPicker ==
    ASSUME PickerInv, DeskOK(desk'), SameShots(desk, desk'), UNCHANGED <<kept, asks>>
    PROVE  PickerInv'
<1>1. PickerOK'
  BY DEF PickerInv, PickerOK, SameShots, Idle
<1>2. KnowsInv'
  BY DEF PickerInv, KnowsInv, SameShots, Idle
<1>. QED  BY <1>1, <1>2 DEF PickerInv

LEMMA SearchKeepsPicker ==
    ASSUME PickerInv, NEW q \in Asks, NEW d, DeskOK(d), SameShots(desk, d),
           d.session \/ d.kind = "draft",
           NEW paged, NEW append \in BOOLEAN,
           d.kind # "draft" => paged \in Nat \ {0} /\ (append => paged # 1),
           Search(q, d, paged, append), UNCHANGED kept
    PROVE  PickerInv'
<1>. DEFINE draft == d.kind = "draft"
            known == IF draft THEN d.found
                     ELSE IF d.target \in DOMAIN d.shots THEN d.shots[d.target].offers ELSE {}
            r == [kind |-> IF draft THEN "options" ELSE "search", index |-> d.target,
                  page |-> paged, append |-> append, clip |-> NoOne,
                  existing |-> IF append THEN known ELSE {}]
            e == [d EXCEPT !.locked = TRUE, !.draftPage = IF draft THEN paged ELSE @]
<1>1. CASE d.target = NoOne
  BY <1>1, PageKeepsPicker DEF Search
<1>2. CASE d.target # NoOne
  <2>1. Begin(q, r, e)
    BY <1>2 DEF Search
  <2>2. DeskOK(e) /\ SameShots(desk, e) /\ e.shots = d.shots /\ e.session = d.session
    BY DEF DeskOK, SameShots
  <2>3. known \subseteq ClipIds
    BY DEF DeskOK, GoodShot, Shot
  <2>4. RequestOK(r, e)
    BY <2>2, <2>3 DEF RequestOK
  <2>. QED  BY <2>1, <2>2, <2>4, BeginKeepsPicker
<1>. QED  BY <1>1, <1>2

LEMMA OpenKeepsPicker ==
    ASSUME PickerInv, NEW q \in Asks, NEW b, Open(q, b), UNCHANGED kept
    PROVE  PickerInv'
<1>0. DeskOK(desk)
  BY DEF PickerInv, PickerOK
<1>1. CASE desk.session
  <2>. DEFINE d == Grid([desk EXCEPT !.open = TRUE, !.kind = "session", !.target = b,
                                     !.page = 1, !.more = FALSE], desk.shots[b].offers)
  <2>0. /\ {"session", "shots", "open", "kind", "page", "draft", "found", "sure"} \subseteq DOMAIN d
        /\ d.session = desk.session /\ d.shots = desk.shots /\ d.open = TRUE
        /\ d.kind = "session" /\ d.page = 1 /\ d.draft = desk.draft /\ d.found = desk.found
        /\ d.sure = desk.sure
    BY <1>0 DEF DeskOK, Grid
  <2>1. DeskOK(d) /\ SameShots(desk, d) /\ d.session /\ d.kind = "session"
    <3>. HIDE DEF d
    <3>1. d.session /\ d.session \in BOOLEAN /\ d.open \in BOOLEAN /\ d.sure \in BOOLEAN
      BY <1>0, <1>1, <2>0 DEF DeskOK
    <3>2. d.shots \in Seq(GoodShot) /\ d.page \in Nat \ {0}
      BY <1>0, <2>0 DEF DeskOK
    <3>3. d.draft \in [DraftBeats -> ClipIds \cup {NoOne}] /\ d.found \subseteq ClipIds
      BY <1>0, <2>0 DEF DeskOK
    <3>. QED  BY <2>0, <3>1, <3>2, <3>3 DEF DeskOK, SameShots
  <2>2. Search(q, d, 1, FALSE) \/ (desk' = d /\ UNCHANGED asks)
    BY <1>1 DEF Open
  <2>. HIDE DEF d
  <2>3. CASE Search(q, d, 1, FALSE)
    <3>1. 1 \in Nat \ {0} /\ FALSE \in BOOLEAN
      OBVIOUS
    <3>. QED  BY <2>1, <2>3, <3>1, SearchKeepsPicker
  <2>4. CASE desk' = d /\ UNCHANGED asks
    BY <2>1, <2>4, PageKeepsPicker
  <2>. QED  BY <2>2, <2>3, <2>4
<1>2. CASE ~desk.session
  <2>1. /\ UNCHANGED asks
        /\ desk' = Grid([desk EXCEPT !.open = TRUE, !.kind = "draft", !.target = b,
                                     !.draftPage = 1, !.draftMore = FALSE, !.found = {}], {})
    BY <1>2 DEF Open
  <2>2. DeskOK(desk') /\ SameShots(desk, desk')
    BY <1>0, <2>1 DEF DeskOK, SameShots, Grid
  <2>. QED  BY <2>1, <2>2, PageKeepsPicker
<1>. QED  BY <1>1, <1>2

LEMMA DrawerKeepsPicker ==
    ASSUME PickerInv, NEW q \in Asks, InDrawer(q), UNCHANGED kept
    PROVE  PickerInv'
<1>0. DeskOK(desk) /\ SameShots(desk, desk) /\ desk.open /\ (desk.session \/ desk.kind = "draft")
  BY DEF PickerInv, PickerOK, DeskOK, InDrawer, SameShots
<1>1. CASE NewSearch(q)
  <2>. DEFINE d == [desk EXCEPT !.page = 1]
  <2>0. /\ {"session", "shots", "open", "kind", "page", "draft", "found", "sure"} \subseteq DOMAIN d
        /\ d.session = desk.session /\ d.shots = desk.shots /\ d.open = desk.open
        /\ d.kind = desk.kind /\ d.page = 1 /\ d.draft = desk.draft /\ d.found = desk.found
        /\ d.sure = desk.sure
    BY <1>0 DEF DeskOK
  <2>1. DeskOK(d) /\ SameShots(desk, d) /\ d.session = desk.session /\ d.kind = desk.kind
    <3>. HIDE DEF d
    <3>. QED  BY <1>0, <2>0 DEF DeskOK, SameShots
  <2>2. Search(q, d, 1, FALSE)
    BY <1>1 DEF NewSearch
  <2>. HIDE DEF d
  <2>3. 1 \in Nat \ {0} /\ FALSE \in BOOLEAN
    OBVIOUS
  <2>. QED  BY <1>0, <2>1, <2>2, <2>3, SearchKeepsPicker
<1>2. CASE MoreClips(q)
  <2>1. desk.page + 1 \in Nat \ {0} /\ desk.page + 1 # 1
    BY <1>0 DEF DeskOK
  <2>2. CASE desk.kind = "session" /\ Search(q, desk, desk.page + 1, TRUE)
    BY <1>0, <2>1, <2>2, SearchKeepsPicker
  <2>3. CASE desk.kind = "draft" /\ Search(q, desk, desk.draftPage + 1, TRUE)
    BY <1>0, <2>3, SearchKeepsPicker
  <2>. QED  BY <1>2, <2>2, <2>3 DEF MoreClips
<1>3. CASE PreviousClips(q)
  <2>1. CASE desk.kind = "session" /\ desk.page > 1
             /\ Search(q, [desk EXCEPT !.page = @ - 1], desk.page - 1, FALSE)
    <3>. DEFINE d == [desk EXCEPT !.page = desk.page - 1]
    <3>1. desk.page - 1 \in Nat \ {0} /\ FALSE \in BOOLEAN
      BY <1>0, <2>1 DEF DeskOK
    <3>2. DeskOK(d) /\ SameShots(desk, d) /\ d.session = desk.session /\ d.kind = desk.kind
      BY <1>0, <3>1 DEF DeskOK, SameShots
    <3>3. Search(q, d, desk.page - 1, FALSE)
      BY <2>1
    <3>. HIDE DEF d
    <3>. QED  BY <1>0, <3>1, <3>2, <3>3, SearchKeepsPicker
  <2>2. CASE desk.kind = "draft" /\ Search(q, desk, desk.draftPage - 1, FALSE)
    BY <1>0, <2>2, SearchKeepsPicker
  <2>. QED  BY <1>3, <2>1, <2>2 DEF PreviousClips
<1>4. CASE ClosePicker
  <2>1. DeskOK(desk') /\ SameShots(desk, desk')
    BY <1>0, <1>4 DEF ClosePicker, Shut, DeskOK, SameShots
  <2>. QED  BY <1>4, <2>1, PageKeepsPicker DEF ClosePicker
<1>5. ASSUME NEW c \in ClipIds, ClickClip(q, c)
      PROVE  PickerInv'
  <2>1. CASE desk.kind = "session" /\ Send(q, "pick", desk.target, c, [desk EXCEPT !.locked = TRUE])
    <3>. DEFINE d == [desk EXCEPT !.locked = TRUE]
                r == [kind |-> "pick", index |-> desk.target, page |-> 0, append |-> FALSE,
                      clip |-> c, existing |-> {}]
    <3>1. DeskOK(d) /\ SameShots(desk, d) /\ d.session
      BY <1>0, <2>1 DEF DeskOK, SameShots
    <3>2. RequestOK(r, d)
      BY <3>1 DEF RequestOK
    <3>3. Begin(q, r, d)
      BY <2>1 DEF Send
    <3>. HIDE DEF d, r
    <3>. QED  BY <3>1, <3>2, <3>3, BeginKeepsPicker
  <2>2. CASE desk' = Shut([desk EXCEPT !.draft[desk.target] = c]) /\ UNCHANGED asks
    <3>1. desk' = Shut([desk EXCEPT !.draft = [desk.draft EXCEPT ![desk.target] = c]])
      BY <1>0, <2>2 DEF DeskOK
    <3>2. [desk.draft EXCEPT ![desk.target] = c] \in [DraftBeats -> ClipIds \cup {NoOne}]
      BY <1>0 DEF DeskOK
    <3>3. DeskOK(desk') /\ SameShots(desk, desk')
      BY <1>0, <3>1, <3>2 DEF Shut, DeskOK, SameShots
    <3>. QED  BY <2>2, <3>3, PageKeepsPicker
  <2>. QED  BY <1>5, <2>1, <2>2 DEF ClickClip
<1>. QED  BY <1>1, <1>2, <1>3, <1>4, <1>5 DEF InDrawer

LEMMA BeatsKeepPicker ==
    ASSUME PickerInv, NEW q \in Asks, ChangeBeats(q), UNCHANGED kept
    PROVE  PickerInv'
<1>0. DeskOK(desk) /\ SameShots(desk, desk) /\ desk.session
  BY DEF PickerInv, PickerOK, DeskOK, ChangeBeats, SameShots
<1>1. ASSUME NEW kind \in {"insert", "delete"}, NEW i, Send(q, kind, i, NoOne, desk)
      PROVE  PickerInv'
  <2>. DEFINE r == [kind |-> kind, index |-> i, page |-> 0, append |-> FALSE,
                    clip |-> NoOne, existing |-> {}]
  <2>1. RequestOK(r, desk)
    BY <1>0 DEF RequestOK
  <2>2. Begin(q, r, desk)
    BY <1>1 DEF Send
  <2>. HIDE DEF r
  <2>. QED  BY <1>0, <2>1, <2>2, BeginKeepsPicker
<1>. QED  BY <1>1 DEF ChangeBeats

LEMMA DraftKeepsPicker ==
    ASSUME PickerInv, SessionOfDraft
    PROVE  PickerInv'
<1>. DEFINE filled == {b \in DraftBeats : desk.draft[b] # NoOne}
<1>1. PICK order \in [1..Cardinality(filled) -> filled] :
          kept' = [i \in DOMAIN order |-> OneOffer(desk.draft[order[i]])]
  BY DEF SessionOfDraft
<1>2. desk.draft \in [DraftBeats -> ClipIds \cup {NoOne}] /\ DeskOK(desk) /\ ~desk.session
  BY DEF PickerInv, PickerOK, DeskOK, SessionOfDraft
<1>3. kept' \in Seq(GoodShot)
  BY <1>1, <1>2, DraftShots
<1>4. asks' = asks /\ desk' = Cards([desk EXCEPT !.session = TRUE,
                                         !.draft = [b \in DraftBeats |-> NoOne]], kept')
  BY DEF SessionOfDraft
<1>5. /\ {"session", "shots", "open", "kind", "page", "draft", "found", "sure"} \subseteq DOMAIN desk'
      /\ desk'.session = TRUE /\ desk'.shots = kept' /\ desk'.open = desk.open
      /\ desk'.kind = desk.kind /\ desk'.page = desk.page /\ desk'.found = desk.found
      /\ desk'.sure = desk.sure /\ desk'.draft = [b \in DraftBeats |-> NoOne]
  BY <1>2, <1>4 DEF DeskOK, Cards
<1>6. DeskOK(desk')
  BY <1>2, <1>3, <1>5 DEF DeskOK
<1>7. PickerOK'
  BY <1>3, <1>4, <1>5, <1>6 DEF PickerInv, PickerOK
<1>8. \A q \in Asks : Idle(q) \/ asks[q].kind = "options"
  BY <1>2 DEF PickerInv, PickerOK
<1>9. KnowsInv'
  BY <1>4, <1>5, <1>8 DEF PickerInv, KnowsInv, Knows, Idle
<1>. QED  BY <1>7, <1>9 DEF PickerInv

-----------------------------------------------------------------------------
(* What the API and the network do *)

LEMMA AskTurns ==
    ASSUME PickerInv, NEW q \in Asks, ~Idle(q), NEW a, asks' = [asks EXCEPT ![q] = a],
           AskOK(a), a.at # "idle", ~desk.session => a.kind = "options",
           desk' = desk, kept' \in Seq(GoodShot),
           desk.sure => Knows(a, desk.shots, kept')
    PROVE  PickerInv'
<1>1. DOMAIN asks' = Asks /\ asks'[q] = a /\ \A p \in Asks : p # q => asks'[p] = asks[p]
  BY DEF PickerInv, PickerOK
<1>2. PickerOK'
  BY <1>1 DEF PickerInv, PickerOK, Idle
<1>3. KnowsInv'
  BY <1>1 DEF PickerInv, KnowsInv, Idle
<1>. QED  BY <1>2, <1>3 DEF PickerInv

LEMMA LoadKeepsPicker ==
    ASSUME PickerInv, NEW q \in Asks, Load(q)
    PROVE  PickerInv'
<1>. DEFINE r == asks[q]
            a == [r EXCEPT !.at = "loaded", !.copy = kept]
<1>1. r.at = "sent" /\ AskOK(r) /\ ~Idle(q) /\ kept \in Seq(GoodShot) /\ DOMAIN asks = Asks
  BY DEF Load, Idle, PickerInv, PickerOK
<1>2. asks' = [asks EXCEPT ![q] = a] /\ desk' = desk /\ kept' = kept /\ r.kind # "options"
  BY <1>1 DEF Load
<1>3. /\ a.at = "loaded" /\ a.copy = kept /\ a.kind = r.kind /\ a.index = r.index
      /\ a.page = r.page /\ a.append = r.append /\ a.clip = r.clip /\ a.existing = r.existing
      /\ DOMAIN a = DOMAIN r
  BY <1>1 DEF AskOK, AskShape
<1>. HIDE DEF a
<1>4. AskOK(a)
  BY <1>1, <1>3 DEF AskOK, AskShape, AskPaged, AskFilled
<1>5. desk.session
  BY <1>1, <1>2 DEF PickerInv, PickerOK
<1>6. ASSUME desk.sure
      PROVE  Knows(a, desk.shots, kept)
  <2>1. Knows(r, desk.shots, kept)
    BY <1>1, <1>6 DEF PickerInv, KnowsInv
  <2>. QED  BY <1>1, <1>2, <1>3, <2>1 DEF Knows
<1>. QED  BY <1>1, <1>2, <1>3, <1>4, <1>5, <1>6, AskTurns

LEMMA SaveKeepsPicker ==
    ASSUME PickerInv, NEW q \in Asks, asks[q].at = "loaded",
           NEW shots \in Seq(GoodShot), NEW gained, NEW more, Save(q, shots, gained, more),
           asks[q].kind = "search" =>
               /\ gained \in GoodShot
               /\ desk.sure =>
                      /\ asks[q].index \in DOMAIN desk.shots
                      /\ shots = [desk.shots EXCEPT ![asks[q].index] = gained]
                      /\ asks[q].append => asks[q].existing \subseteq gained.offers,
           asks[q].kind # "search" => gained \in Seq(GoodShot) /\ (desk.sure => gained = shots),
           asks[q].kind # "options"
    PROVE  PickerInv'
<1>. DEFINE r == asks[q]
            a == [r EXCEPT !.at = "ok", !.got = gained, !.more = more, !.copy = NoOne]
<1>1. AskOK(r) /\ ~Idle(q) /\ DOMAIN asks = Asks
  BY DEF Idle, PickerInv, PickerOK
<1>2. asks' = [asks EXCEPT ![q] = a] /\ desk' = desk /\ kept' = shots
  BY <1>1 DEF Save
<1>3. /\ a.at = "ok" /\ a.got = gained /\ a.kind = r.kind /\ a.index = r.index
      /\ a.page = r.page /\ a.append = r.append /\ a.clip = r.clip /\ a.existing = r.existing
      /\ DOMAIN a = DOMAIN r
  BY <1>1 DEF AskOK, AskShape
<1>. HIDE DEF a
<1>4. AskOK(a)
  BY <1>1, <1>3 DEF AskOK, AskShape, AskPaged, AskFilled
<1>5. desk.session
  BY <1>1, <1>2 DEF PickerInv, PickerOK
<1>6. ASSUME desk.sure
      PROVE  Knows(a, desk.shots, shots)
  BY <1>3, <1>6 DEF Knows
<1>. QED  BY <1>1, <1>2, <1>3, <1>4, <1>5, <1>6, AskTurns

LEMMA HandleKeepsPicker ==
    ASSUME PickerInv, NEW q \in Asks, Handle(q)
    PROVE  PickerInv'
<1>. DEFINE r == asks[q]
            copy == r.copy
            i == r.index
<1>1. r.at = "loaded" /\ AskOK(r) /\ copy \in Seq(GoodShot) /\ ~Idle(q) /\ kept \in Seq(GoodShot)
  BY DEF Handle, Idle, PickerInv, PickerOK, AskOK, AskFilled
<1>2. r.clip \in ClipIds \cup {NoOne}
  BY <1>1 DEF AskOK, AskShape
<1>3. ASSUME desk.sure
      PROVE  Knows(r, desk.shots, kept)
  BY <1>1, <1>3 DEF PickerInv, KnowsInv
<1>4. ASSUME r.kind = "search", i \in DOMAIN copy, NEW result \in Results, NEW more,
             Save(q, [copy EXCEPT ![i] = Searched(copy[i], r.page, result)],
                  Searched(copy[i], r.page, result), more)
      PROVE  PickerInv'
  <2>. DEFINE shot == Searched(copy[i], r.page, result)
              shots == [copy EXCEPT ![i] = shot]
  <2>1. copy[i] \in GoodShot
    BY <1>1, <1>4
  <2>2. shot \in GoodShot /\ (r.page # 1 => copy[i].offers \subseteq shot.offers)
    BY <2>1, <1>4, SearchedIsGood
  <2>3. Save(q, shots, shot, more)
    BY <1>4
  <2>. HIDE DEF shot
  <2>4. shots \in Seq(GoodShot)
    BY <1>1, <2>2, ShotsChange
  <2>5. ASSUME desk.sure
        PROVE  /\ i \in DOMAIN desk.shots /\ shots = [desk.shots EXCEPT ![i] = shot]
               /\ r.append => r.existing \subseteq shot.offers
    <3>1. desk.shots = kept /\ copy = kept
      BY <1>1, <1>3, <1>4, <2>5 DEF Knows
    <3>2. r.append => r.existing \subseteq copy[i].offers
      BY <1>1, <1>3, <1>4, <2>5, <3>1 DEF Knows
    <3>3. r.append => r.page # 1
      BY <1>1, <1>4 DEF AskOK, AskPaged
    <3>. QED  BY <1>4, <2>2, <3>1, <3>2, <3>3
  <2>. HIDE DEF shots
  <2>. QED  BY <1>1, <1>4, <2>2, <2>3, <2>4, <2>5, SaveKeepsPicker
<1>5. ASSUME r.kind \in {"pick", "insert", "delete"}, NEW shots \in Seq(GoodShot),
             Save(q, shots, shots, FALSE)
      PROVE  PickerInv'
  BY <1>1, <1>5, SaveKeepsPicker
<1>6. CASE r.kind = "pick" /\ i \in DOMAIN copy /\ r.clip \in copy[i].offers
            /\ Save(q, [copy EXCEPT ![i].chosen = r.clip], [copy EXCEPT ![i].chosen = r.clip], FALSE)
  <2>. DEFINE shot == [copy[i] EXCEPT !.chosen = r.clip]
  <2>1. copy[i] \in GoodShot
    BY <1>1, <1>6
  <2>2. shot \in GoodShot
    BY <1>2, <1>6, <2>1 DEF GoodShot, Shot
  <2>3. [copy EXCEPT ![i] = shot] \in Seq(GoodShot)
    BY <1>1, <2>2, ShotsChange
  <2>4. [copy EXCEPT ![i].chosen = r.clip] = [copy EXCEPT ![i] = shot]
    OBVIOUS
  <2>. QED  BY <1>5, <1>6, <2>3, <2>4
<1>7. ASSUME r.kind = "insert", i \in 1..Len(copy) + 1, NEW result \in Results,
             Save(q, With(copy, i, result), With(copy, i, result), FALSE)
      PROVE  PickerInv'
  <2>1. With(copy, i, result) \in Seq(GoodShot)
    BY <1>1, <1>7, ResultsAreGood, ShotsChange
  <2>. QED  BY <1>5, <1>7, <2>1
<1>8. CASE r.kind = "delete" /\ i \in DOMAIN copy
            /\ Save(q, Without(copy, i), Without(copy, i), FALSE)
  <2>1. copy[i] \in GoodShot
    BY <1>1, <1>8
  <2>2. Without(copy, i) \in Seq(GoodShot)
    BY <1>1, <1>8, <2>1, ShotsChange
  <2>. QED  BY <1>5, <1>8, <2>2
<1>9. CASE r.kind = "fetch" /\ Save(q, kept, copy, FALSE)
  <2>1. desk.sure => copy = kept
    BY <1>1, <1>3, <1>9 DEF Knows
  <2>. QED  BY <1>1, <1>9, <2>1, SaveKeepsPicker
<1>. QED  BY <1>4, <1>6, <1>7, <1>8, <1>9 DEF Handle

LEMMA OfferKeepsPicker ==
    ASSUME PickerInv, NEW q \in Asks, Offer(q)
    PROVE  PickerInv'
<1>. DEFINE r == asks[q]
<1>1. r.at = "sent" /\ r.kind = "options" /\ AskOK(r) /\ ~Idle(q) /\ DOMAIN asks = Asks
  BY DEF Offer, Idle, PickerInv, PickerOK
<1>2. PICK clips \in SUBSET ClipIds, more \in BOOLEAN :
          asks' = [asks EXCEPT ![q].at = "ok", ![q].got = clips, ![q].more = more]
  BY DEF Offer
<1>. DEFINE a == [r EXCEPT !.at = "ok", !.got = clips, !.more = more]
<1>3. asks' = [asks EXCEPT ![q] = a] /\ desk' = desk /\ kept' = kept
  BY <1>1, <1>2 DEF Offer
<1>4. /\ a.at = "ok" /\ a.got = clips /\ a.kind = "options"
      /\ a.page = r.page /\ a.append = r.append /\ a.clip = r.clip /\ a.existing = r.existing
      /\ DOMAIN a = DOMAIN r
  BY <1>1 DEF AskOK, AskShape
<1>. HIDE DEF a
<1>5. AskOK(a)
  BY <1>1, <1>4 DEF AskOK, AskShape, AskPaged, AskFilled
<1>6. desk.sure => Knows(a, desk.shots, kept)
  BY <1>1, <1>4 DEF Knows, PickerInv, KnowsInv
<1>7. kept \in Seq(GoodShot)
  BY DEF PickerInv, PickerOK
<1>. QED  BY <1>1, <1>3, <1>4, <1>5, <1>6, <1>7, AskTurns

LEMMA FailKeepsPicker ==
    ASSUME PickerInv, NEW q \in Asks, Fail(q)
    PROVE  PickerInv'
<1>. DEFINE r == asks[q]
            a == [NoAsk EXCEPT !.at = "failed", !.kind = r.kind]
<1>1. AskOK(r) /\ r.at # "idle" /\ DOMAIN asks = Asks /\ DeskOK(desk)
  BY DEF Fail, PickerInv, PickerOK
<1>2. asks' = [asks EXCEPT ![q] = a] /\ desk' = [desk EXCEPT !.sure = FALSE] /\ kept' = kept
  BY DEF Fail
<1>3. AskOK(a) /\ a.kind = r.kind
  BY <1>1 DEF NoAsk, AskOK, AskShape, AskPaged, AskFilled
<1>. HIDE DEF a
<1>4. DeskOK(desk') /\ desk'.session = desk.session /\ ~desk'.sure
  BY <1>1, <1>2 DEF DeskOK
<1>5. asks'[q] = a /\ DOMAIN asks' = Asks /\ \A p \in Asks : p # q => asks'[p] = asks[p]
  BY <1>1, <1>2
<1>6. PickerOK'
  BY <1>1, <1>2, <1>3, <1>4, <1>5 DEF PickerInv, PickerOK, Idle
<1>. QED  BY <1>4, <1>6 DEF PickerInv, KnowsInv

-----------------------------------------------------------------------------
(* What the page does with an answer *)

LEMMA ReturnKeepsPicker ==
    ASSUME PickerInv, NEW q \in Asks, NEW d, Return(q, d), UNCHANGED kept,
           DeskOK(d), d.session = desk.session, d.sure = desk.sure,
           ~Idle(q), desk.sure => d.shots = kept
    PROVE  PickerInv'
<1>1. /\ desk' = d /\ DOMAIN asks' = Asks /\ asks'[q] = NoAsk
      /\ \A p \in Asks : p # q => asks'[p] = asks[p]
  BY DEF Return, PickerInv, PickerOK
<1>2. PickerOK'
  BY <1>1, NoAskOK DEF PickerInv, PickerOK, Idle
<1>3. KnowsInv'
  BY <1>1, NoAskOK DEF PickerInv, KnowsInv, Idle
<1>. QED  BY <1>2, <1>3 DEF PickerInv

(* The requests of the page: what is known of one that is under way *)
LEMMA AskKnown ==
    ASSUME PickerInv, NEW q \in Asks, ~Idle(q)
    PROVE  /\ AskOK(asks[q]) /\ DeskOK(desk) /\ kept \in Seq(GoodShot) /\ DOMAIN asks = Asks
           /\ desk.sure => Knows(asks[q], desk.shots, kept)
BY DEF PickerInv, PickerOK, KnowsInv

LEMMA SearchAnswerKeepsPicker ==
    ASSUME PickerInv, NEW q \in Asks, SearchAnswered(q)
    PROVE  PickerInv'
<1>. DEFINE r == asks[q]
<1>1. r.at = "ok" /\ ~Idle(q) /\ UNCHANGED kept /\ r.kind \in {"search", "options"}
  BY DEF SearchAnswered, Idle
<1>2. AskOK(r) /\ DeskOK(desk) /\ (desk.sure => Knows(r, desk.shots, kept))
  BY <1>1, AskKnown
<1>3. r.existing \subseteq ClipIds /\ r.append \in BOOLEAN
  BY <1>2 DEF AskOK, AskShape
<1>4. CASE r.kind = "search"
  <2>. DEFINE offers == IF r.append THEN r.existing \cup r.got.offers ELSE r.got.offers
              shot == [r.got EXCEPT !.offers = offers]
              shots == IF r.index \in DOMAIN desk.shots
                       THEN [desk.shots EXCEPT ![r.index] = shot] ELSE desk.shots
              d == SearchShown(desk, r)
  <2>1. r.got \in GoodShot /\ r.page \in Nat \ {0}
    BY <1>1, <1>2, <1>4 DEF AskOK, AskPaged, AskFilled
  <2>2. shot \in GoodShot
    BY <1>3, <2>1 DEF GoodShot, Shot
  <2>3. (r.append => r.existing \subseteq r.got.offers) => shot = r.got
    <3>1. (r.append => r.existing \subseteq r.got.offers) => offers = r.got.offers
      BY <1>3
    <3>2. [r.got EXCEPT !.offers = r.got.offers] = r.got
      BY <2>1 DEF GoodShot, Shot
    <3>. QED  BY <3>1, <3>2
  <2>. HIDE DEF shot
  <2>4. shots \in Seq(GoodShot)
    BY <1>2, <2>2, ShotsChange DEF DeskOK
  <2>5. /\ {"session", "shots", "open", "kind", "page", "draft", "found", "sure"} \subseteq DOMAIN d
        /\ d.session = desk.session /\ d.shots = shots /\ d.open = desk.open
        /\ d.kind = desk.kind /\ d.page = r.page /\ d.draft = desk.draft
        /\ d.found = desk.found /\ d.sure = desk.sure
    BY <1>2 DEF DeskOK, SearchShown, Grid, shot
  <2>6. desk.sure => shots = kept
    BY <1>1, <1>2, <1>4, <2>3 DEF Knows
  <2>7. Return(q, d)
    BY <1>4 DEF SearchAnswered
  <2>. HIDE DEF d, shots
  <2>8. DeskOK(d)
    BY <1>2, <2>1, <2>4, <2>5 DEF DeskOK
  <2>. QED  BY <1>1, <2>5, <2>6, <2>7, <2>8, ReturnKeepsPicker
<1>5. CASE r.kind = "options"
  <2>. DEFINE d == OptionsShown(desk, r)
              clips == IF r.append THEN r.existing \cup r.got ELSE r.got
  <2>1. clips \subseteq ClipIds
    BY <1>1, <1>2, <1>3, <1>5 DEF AskOK, AskFilled
  <2>2. /\ {"session", "shots", "open", "kind", "page", "draft", "found", "sure"} \subseteq DOMAIN d
        /\ d.session = desk.session /\ d.shots = desk.shots /\ d.open = desk.open
        /\ d.kind = desk.kind /\ d.page = desk.page /\ d.draft = desk.draft
        /\ d.found = clips /\ d.sure = desk.sure
    BY <1>2 DEF DeskOK, OptionsShown, Grid
  <2>3. Return(q, d)
    BY <1>5 DEF SearchAnswered
  <2>4. desk.sure => desk.shots = kept
    BY <1>2, <1>5 DEF Knows
  <2>. HIDE DEF d, clips
  <2>5. DeskOK(d)
    BY <1>2, <2>1, <2>2 DEF DeskOK
  <2>. QED  BY <1>1, <2>2, <2>3, <2>4, <2>5, ReturnKeepsPicker
<1>. QED  BY <1>1, <1>4, <1>5

(* Shots that are drawn, with the drawer as it is or shut *)
LEMMA CardsOK ==
    ASSUME DeskOK(desk), NEW shots \in Seq(GoodShot)
    PROVE  \A d \in {Cards(desk, shots), Unlocked(Shut(Cards(desk, shots)))} :
               DeskOK(d) /\ d.session = desk.session /\ d.sure = desk.sure /\ d.shots = shots
<1>1. ASSUME NEW d \in {Cards(desk, shots), Unlocked(Shut(Cards(desk, shots)))}
      PROVE  /\ {"session", "shots", "open", "kind", "page", "draft", "found", "sure"} \subseteq DOMAIN d
             /\ d.session = desk.session /\ d.shots = shots /\ d.open \in {desk.open, FALSE}
             /\ d.kind = desk.kind /\ d.page = desk.page /\ d.draft = desk.draft
             /\ d.found = desk.found /\ d.sure = desk.sure
  BY <1>1 DEF DeskOK, Cards, Shut, Unlocked
<1>2. ASSUME NEW d, {"session", "shots", "open", "kind", "page", "draft", "found", "sure"} \subseteq DOMAIN d,
             d.session = desk.session, d.shots = shots, d.open \in {desk.open, FALSE},
             d.kind = desk.kind, d.page = desk.page, d.draft = desk.draft,
             d.found = desk.found, d.sure = desk.sure
      PROVE  DeskOK(d)
  BY <1>2 DEF DeskOK
<1>. QED  BY <1>1, <1>2

LEMMA AnswerKeepsPicker ==
    ASSUME PickerInv, NEW q \in Asks, PickAnswered(q) \/ BeatsAnswered(q)
    PROVE  PickerInv'
<1>. DEFINE r == asks[q]
            a == [NoAsk EXCEPT !.at = "sent", !.kind = "fetch"]
<1>1. /\ r.at = "ok" /\ ~Idle(q) /\ UNCHANGED kept
      /\ r.kind \in {"pick", "fetch", "insert", "delete"}
  BY DEF PickAnswered, BeatsAnswered, Idle
<1>2. /\ AskOK(r) /\ DeskOK(desk) /\ kept \in Seq(GoodShot)
      /\ desk.sure => Knows(r, desk.shots, kept)
  BY <1>1, AskKnown
<1>3. r.got \in Seq(GoodShot) /\ (desk.sure => r.got = kept)
  BY <1>1, <1>2 DEF AskOK, AskFilled, Knows
<1>4. \A d \in {Cards(desk, r.got), Unlocked(Shut(Cards(desk, r.got)))} :
          DeskOK(d) /\ d.session = desk.session /\ d.sure = desk.sure /\ d.shots = r.got
  BY <1>2, <1>3, CardsOK
<1>5. ASSUME NEW d \in {Cards(desk, r.got), Unlocked(Shut(Cards(desk, r.got)))}, Return(q, d)
      PROVE  PickerInv'
  BY <1>1, <1>3, <1>4, <1>5, ReturnKeepsPicker
<1>6. CASE r.kind = "pick" /\ asks' = [asks EXCEPT ![q] = a] /\ UNCHANGED desk
  <2>1. AskOK(a) /\ a.at = "sent" /\ a.kind = "fetch"
    BY DEF NoAsk, AskOK, AskShape, AskPaged, AskFilled
  <2>. HIDE DEF a
  <2>2. Knows(a, desk.shots, kept)
    BY <2>1 DEF Knows
  <2>3. desk.session
    BY <1>1, <1>6 DEF PickerInv, PickerOK
  <2>. QED  BY <1>1, <1>2, <1>6, <2>1, <2>2, <2>3, AskTurns
<1>. QED  BY <1>5, <1>6 DEF PickAnswered, BeatsAnswered

LEMMA GiveUpKeepsPicker ==
    ASSUME PickerInv, NEW q \in Asks, GivesUp(q)
    PROVE  PickerInv'
<1>1. asks[q].at = "failed" /\ ~Idle(q) /\ UNCHANGED kept
  BY DEF GivesUp, Idle
<1>2. DeskOK(desk) /\ ~desk.sure
  BY <1>1, AskKnown DEF Knows, DeskOK
<1>3. PICK d \in {desk, Unlocked(desk)} : Return(q, d)
  BY DEF GivesUp
<1>4. DeskOK(d) /\ d.session = desk.session /\ d.sure = desk.sure
  BY <1>2 DEF DeskOK, Unlocked
<1>. QED  BY <1>1, <1>2, <1>3, <1>4, ReturnKeepsPicker

LEMMA PickerStarts == PickerInit => PickerInv
<1>. SUFFICES ASSUME PickerInit
              PROVE  PickerInv
  OBVIOUS
<1>1. \A q \in Asks : asks[q] = NoAsk
  BY DEF PickerInit
<1>2. DOMAIN asks = Asks /\ \A q \in Asks : AskOK(asks[q]) /\ Idle(q)
  BY <1>1, NoAskOK DEF PickerInit, Idle
<1>3. \A q \in Asks : Idle(q)
  BY <1>2
<1>4. DeskOK(desk) /\ kept \in Seq(GoodShot) /\ desk.shots = kept
  <2>1. CASE /\ \E draft \in [DraftBeats -> ClipIds \cup {NoOne}] :
                    desk = [EmptyDesk EXCEPT !.draft = draft]
             /\ kept = <<>>
    BY <2>1 DEF EmptyDesk, DeskOK
  <2>2. ASSUME NEW first \in Results, NEW second \in Results, kept = <<first, second>>,
               LET d == Cards([EmptyDesk EXCEPT !.session = TRUE], kept)
               IN  \/ desk = d
                   \/ desk = [d EXCEPT !.open = TRUE, !.target = 1, !.grid = first.offers,
                                       !.more = first.offers # {}]
        PROVE  DeskOK(desk) /\ kept \in Seq(GoodShot) /\ desk.shots = kept
    <3>1. first \in GoodShot /\ second \in GoodShot
      BY ResultsAreGood
    <3>2. kept \in Seq(GoodShot)
      BY <2>2, <3>1
    <3>. HIDE DEF GoodShot
    <3>3. /\ {"session", "shots", "open", "kind", "page", "draft", "found", "sure"} \subseteq DOMAIN desk
          /\ desk.session = TRUE /\ desk.shots = kept /\ desk.open \in BOOLEAN
          /\ desk.page = 1 /\ desk.found = {} /\ desk.sure = TRUE
          /\ desk.draft = [b \in DraftBeats |-> NoOne]
      BY <2>2, ZenonT(60) DEF EmptyDesk, Cards
    <3>4. desk.draft \in [DraftBeats -> ClipIds \cup {NoOne}]
      BY <3>3
    <3>5. desk.session /\ desk.session \in BOOLEAN /\ desk.sure \in BOOLEAN
      BY <3>3
    <3>. QED  BY <3>2, <3>3, <3>4, <3>5 DEF DeskOK
  <2>. QED  BY <2>1, <2>2 DEF PickerInit
<1>. QED  BY <1>2, <1>3, <1>4 DEF PickerInv, PickerOK, KnowsInv

(* Every shot that is stored, shown or under way has its chosen clip among its
   offers; and while requests run one after the other and none has failed, what
   the one under way will store or show leads back to what is stored. *)
THEOREM PickerInvariance == PickerSpec => []PickerInv
<1>1. PickerInv /\ [PickerNext]_pickerVars => PickerInv'
  <2>. SUFFICES ASSUME PickerInv, [PickerNext]_pickerVars
                PROVE  PickerInv'
    OBVIOUS
  <2>1. ASSUME NEW q \in Asks, Click(q)
        PROVE  PickerInv'
    BY <2>1, DraftKeepsPicker, OpenKeepsPicker, DrawerKeepsPicker, BeatsKeepPicker DEF Click
  <2>2. ASSUME NEW q \in Asks, AskGoesOn(q)
        PROVE  PickerInv'
    BY <2>2, LoadKeepsPicker, HandleKeepsPicker, OfferKeepsPicker, FailKeepsPicker,
       SearchAnswerKeepsPicker, AnswerKeepsPicker, GiveUpKeepsPicker DEF AskGoesOn
  <2>3. CASE UNCHANGED pickerVars
    BY <2>3 DEF pickerVars, PickerInv, PickerOK, KnowsInv, Idle
  <2>. QED  BY <2>1, <2>2, <2>3 DEF PickerNext
<1>. QED  BY <1>1, PickerStarts, PTL DEF PickerSpec

(* ClipsAgree of every behaviour of the drawer, also of those in which searches,
   picks and changes of the beats overlap, fail or are lost: what is chosen is
   offered, and the page joins the pages of a search to the clips that the API has
   stored. *)
THEOREM DrawerClipsAgree == PickerSpec => []ClipsAgree
<1>1. PickerInv => ChosenIsOffered
  <2>. SUFFICES ASSUME PickerInv, NEW shots \in {kept, desk.shots}, NEW i \in DOMAIN shots
                PROVE  shots[i].chosen # NoOne => shots[i].chosen \in shots[i].offers
    BY DEF ChosenIsOffered
  <2>1. shots \in Seq(GoodShot)
    BY DEF PickerInv, PickerOK, DeskOK
  <2>2. shots[i] \in GoodShot
    BY <2>1
  <2>. QED  BY <2>2 DEF GoodShot
<1>2. PickerInv => PageKnowsClips
  BY DEF PickerInv, KnowsInv, PageKnowsClips
<1>3. PickerInv => ClipsAgree
  BY <1>1, <1>2 DEF ClipsAgree
<1>. QED  BY <1>3, PickerInvariance, PTL

-----------------------------------------------------------------------------
(* The render slots, for any number of executions, processes and slots: a slot
   can be taken from its owner only after its lease has run out once, and the
   counter of a process counts its renders. *)

RendersIn(p) == {o \in Rendering : proc[o] = p}

(* Types, without the bounds of the counter. *)
Types ==
    /\ slot \in [Slots -> Lease]
    /\ pc \in [Owners -> Holding \cup {"idle", "reaping", "ended"}]
    /\ proc \in [Owners -> Procs \cup {None}]
    /\ due \in [Owners -> LeaseTime - Slack..LeaseTime]
    /\ wipe \in [Owners -> SUBSET Slots]
    /\ got \in [Owners -> Slots \cup {None}]
    /\ beat \in [Owners -> Beat \cup {None}]
    /\ activeRenders \in [Procs -> Int]
    /\ lapsed \subseteq Slots

(* An owner that has begun runs somewhere; one that holds was granted a slot. *)
Placed ==
    \A o \in Owners :
        /\ pc[o] # "idle" => proc[o] \in Procs
        /\ pc[o] \in Holding => got[o] \in Slots

(* What has run out is on record, and only what is on record is wiped. *)
LapsesRecorded ==
    /\ \A s \in Slots : Expired(s) => s \in lapsed
    /\ \A o \in Owners : wipe[o] \subseteq lapsed

(* The counters, with the finiteness their cardinalities need. *)
Counted ==
    \A p \in Procs :
        /\ IsFiniteSet(RendersIn(p))
        /\ activeRenders[p] = Cardinality(RendersIn(p))
        /\ activeRenders[p] <= LocalLimit

SlotInv == Types /\ Placed /\ LapsesRecorded /\ SlotKeptUntilLapse

-----------------------------------------------------------------------------
(* Slots *)

LEMMA SlotInvInit == Init => SlotInv
<1> SUFFICES ASSUME Init PROVE SlotInv
  OBVIOUS
<1>1. Free \in Lease
  BY TimesAreNat DEF Free, Lease
<1>2. Types
  BY <1>1, TimesAreNat DEF Init, Types
<1>3. Placed /\ SlotKeptUntilLapse
  BY DEF Init, Placed, SlotKeptUntilLapse, Holding
<1>4. LapsesRecorded
  BY DEF Init, LapsesRecorded, Expired, Free
<1> QED  BY <1>2, <1>3, <1>4 DEF SlotInv

(* What a step does to slots and owners.  Only a reset, a grant, a release, a
   heartbeat and time change a slot. *)
LEMMA WipeKeeps ==
    ASSUME SlotInv, NEW o \in Owners, NEW s \in Slots, WipeSlot(o, s)
    PROVE  SlotInv'
<1> USE DEF SlotInv
<1>1. s \in lapsed
  BY DEF WipeSlot, LapsesRecorded
<1>2. Types'
  BY TimesAreNat DEF WipeSlot, Types, Free, Lease
<1>3. Placed'
  BY DEF WipeSlot, Placed
<1>4. LapsesRecorded'
  BY DEF WipeSlot, LapsesRecorded, Expired, Free, Types
<1>5. SlotKeptUntilLapse'
  BY <1>1 DEF WipeSlot, SlotKeptUntilLapse, Types
<1> QED  BY <1>2, <1>3, <1>4, <1>5

(* A slot that counts as free for the newcomer is leased by nobody or has
   lapsed, so no owner that is still protected loses it. *)
LEMMA CandidatesAreFree ==
    ASSUME SlotInv, NEW o \in Owners, NEW s \in Candidates(o), pc[o] = "reaping"
    PROVE  /\ s \in Slots
           /\ slot[s].owner \in {None, o} \/ s \in lapsed
<1> USE DEF SlotInv
<1>1. s \in Slots
  BY DEF Candidates
<1>2. CASE slot[s].owner = o
  BY <1>1, <1>2
<1>3. CASE slot[s].owner # o
  <2>1. ~ActiveFor(o, s)
    BY <1>3 DEF Candidates
  <2>2. due[o] \in LeaseTime - Slack..LeaseTime /\ slot[s].left \in -Slack..LeaseTime
    BY <1>1 DEF Types, Lease
  <2>3. slot[s].owner = None \/ Expired(s)
    BY <2>1, <2>2, TimesAreNat DEF ActiveFor, Expired
  <2> QED  BY <1>1, <2>3 DEF LapsesRecorded
<1> QED  BY <1>2, <1>3

LEMMA AcquireKeeps ==
    ASSUME SlotInv, NEW o \in Owners, Acquire(o)
    PROVE  SlotInv'
<1> USE DEF SlotInv
<1>1. PICK s \in Slots :
         /\ IsFirst(s, Candidates(o))
         /\ slot' = [slot EXCEPT ![s] = [owner |-> o, left |-> due[o]]]
         /\ got' = [got EXCEPT ![o] = s]
  BY DEF Acquire
<1>2. slot[s].owner \in {None, o} \/ s \in lapsed
  BY <1>1, CandidatesAreFree DEF Acquire, IsFirst
<1>3. /\ pc' = [pc EXCEPT ![o] = "granted"]
      /\ due' = [due EXCEPT ![o] = LeaseTime]
      /\ lapsed' = lapsed \cup {t \in Slots : Expired(t)'}
      /\ UNCHANGED <<proc, wipe, beat, activeRenders>>
      /\ pc[o] = "reaping"
  BY DEF Acquire, RecordLapses
<1>4. [owner |-> o, left |-> due[o]] \in Lease
  BY TimesAreNat DEF Types, Lease
<1>5. Types'
  BY <1>1, <1>3, <1>4, TimesAreNat DEF Types, Holding
<1>6. Placed'
  BY <1>1, <1>3 DEF Placed, Types, Holding
<1>7. LapsesRecorded'
  BY <1>3 DEF LapsesRecorded
<1>8. ASSUME NEW b \in Owners, pc'[b] \in Holding, got'[b] \notin lapsed'
      PROVE  slot'[got'[b]].owner = b
  <2>1. CASE b = o
    BY <2>1, <1>1 DEF Types
  <2>2. CASE b # o
    <3>1. pc[b] \in Holding /\ got'[b] = got[b] /\ got[b] \notin lapsed
      BY <2>2, <1>1, <1>3, <1>8 DEF Types
    <3>2. slot[got[b]].owner = b /\ got[b] \in Slots
      BY <3>1 DEF SlotKeptUntilLapse, Placed
    <3>3. got[b] # s
      BY <3>1, <3>2, <1>2, <2>2, NoneIsNoOwner
    <3> QED  BY <3>1, <3>2, <3>3, <1>1 DEF Types
  <2> QED  BY <2>1, <2>2
<1> QED  BY <1>5, <1>6, <1>7, <1>8 DEF SlotKeptUntilLapse

LEMMA HeartbeatWriteKeeps ==
    ASSUME SlotInv, NEW o \in Owners, HeartbeatWrite(o)
    PROVE  SlotInv'
<1> USE DEF SlotInv
<1> DEFINE t == beat[o].slot
           renewed == IF slot[t].owner = None THEN slot[t]
                      ELSE [slot[t] EXCEPT !.left = beat[o].left]
<1>1. /\ slot' = [slot EXCEPT ![t] = renewed]
      /\ beat' = [beat EXCEPT ![o] = None]
      /\ lapsed' = lapsed \cup {s \in Slots : Expired(s)'}
      /\ UNCHANGED <<pc, proc, due, wipe, got, activeRenders>>
  BY DEF HeartbeatWrite, RecordLapses
<1>2. t \in Slots /\ renewed \in Lease /\ renewed.owner = slot[t].owner
  BY NoneIsNoOwner DEF HeartbeatWrite, Types, Beat, Lease
<1> HIDE DEF t, renewed
<1>3. \A s \in Slots : slot'[s].owner = slot[s].owner
  BY <1>1, <1>2 DEF Types
<1>4. Types'
  BY <1>1, <1>2 DEF Types
<1>5. Placed'
  BY <1>1 DEF Placed
<1>6. LapsesRecorded'
  BY <1>1 DEF LapsesRecorded
<1>7. SlotKeptUntilLapse'
  BY <1>1, <1>3 DEF SlotKeptUntilLapse, Placed
<1> QED  BY <1>4, <1>5, <1>6, <1>7

(* The owner that releases an unlapsed slot is the one that leases it. *)
LEMMA ReleaseWriteKeeps ==
    ASSUME SlotInv, NEW o \in Owners, ReleaseWrite(o)
    PROVE  SlotInv'
<1> USE DEF SlotInv
<1>1. got[o] \in Slots /\ pc[o] \in Holding
  BY DEF ReleaseWrite, Placed, Holding
<1>2. Types'
  BY <1>1, TimesAreNat DEF ReleaseWrite, Types, Free, Lease
<1>3. Placed'
  BY DEF ReleaseWrite, Placed, Holding, Types
<1>4. LapsesRecorded'
  BY <1>1 DEF ReleaseWrite, LapsesRecorded, Expired, Free, Types
<1>5. ASSUME NEW b \in Owners, pc'[b] \in Holding, got'[b] \notin lapsed'
      PROVE  slot'[got'[b]].owner = b
  <2>1. b # o /\ pc[b] \in Holding /\ got[b] \notin lapsed /\ got'[b] = got[b]
    BY <1>5 DEF ReleaseWrite, Types, Holding
  <2>2. got[b] # got[o]
    BY <2>1, <1>1 DEF SlotKeptUntilLapse
  <2> QED  BY <2>1, <2>2, <1>1 DEF ReleaseWrite, SlotKeptUntilLapse, Types, Placed
<1> QED  BY <1>2, <1>3, <1>4, <1>5 DEF SlotKeptUntilLapse

LEMMA TickKeeps ==
    ASSUME SlotInv, Tick
    PROVE  SlotInv'
<1> USE DEF SlotInv
<1>1. \A n \in -Slack..LeaseTime : Later(n) \in -Slack..LeaseTime
  BY TimesAreNat DEF Later
<1>2. \A s \in Slots : /\ slot'[s] \in Lease
                       /\ slot'[s].owner = slot[s].owner
  BY <1>1 DEF Tick, Types, Lease
<1>3. \A o \in Owners : due'[o] \in LeaseTime - Slack..LeaseTime
  BY TimesAreNat DEF Tick, Types
<1>4. \A o \in Owners : beat'[o] \in Beat \cup {None}
  BY <1>1 DEF Tick, Types, Beat
<1>5. /\ UNCHANGED <<pc, proc, wipe, got, activeRenders>>
      /\ lapsed' = lapsed \cup {s \in Slots : Expired(s)'}
  BY DEF Tick, RecordLapses
<1>6. Types'
  <2>1. slot' \in [Slots -> Lease]
    BY <1>2 DEF Tick
  <2>2. due' \in [Owners -> LeaseTime - Slack..LeaseTime]
    BY <1>3 DEF Tick
  <2>3. beat' \in [Owners -> Beat \cup {None}]
    BY <1>4 DEF Tick
  <2> QED  BY <2>1, <2>2, <2>3, <1>5 DEF Types
<1>7. Placed'
  BY <1>5 DEF Placed
<1>8. LapsesRecorded'
  BY <1>5 DEF LapsesRecorded
<1>9. SlotKeptUntilLapse'
  BY <1>2, <1>5 DEF SlotKeptUntilLapse, Placed
<1> QED  BY <1>6, <1>7, <1>8, <1>9

(* The other steps leave the slots alone. *)
LEMMA SlotInvNext == SlotInv /\ [Next]_vars => SlotInv'
<1> SUFFICES ASSUME SlotInv, [Next]_vars PROVE SlotInv'
  OBVIOUS
<1> USE DEF SlotInv
<1>1. ASSUME NEW o \in Owners, NEW p \in Procs, ReadSlots(o, p) PROVE SlotInv'
  <2>1. Types'
    BY <1>1, TimesAreNat DEF ReadSlots, Types
  <2>2. Placed'
    BY <1>1 DEF ReadSlots, Placed, Types, Holding
  <2>3. LapsesRecorded'
    BY <1>1 DEF ReadSlots, LapsesRecorded, Expired, Types
  <2>4. SlotKeptUntilLapse'
    BY <1>1 DEF ReadSlots, SlotKeptUntilLapse, Types, Holding
  <2> QED  BY <2>1, <2>2, <2>3, <2>4
<1>2. ASSUME NEW o \in Owners, FindNoSlot(o) \/ AcquireThrows(o) PROVE SlotInv'
  <2>1. Types'
    BY <1>2, TimesAreNat DEF FindNoSlot, AcquireThrows, Types
  <2>2. Placed'
    BY <1>2 DEF FindNoSlot, AcquireThrows, Placed, Types, Holding
  <2>3. LapsesRecorded'
    BY <1>2 DEF FindNoSlot, AcquireThrows, LapsesRecorded, Expired, Types
  <2>4. SlotKeptUntilLapse'
    BY <1>2 DEF FindNoSlot, AcquireThrows, SlotKeptUntilLapse, Types, Holding
  <2> QED  BY <2>1, <2>2, <2>3, <2>4
<1>3. ASSUME NEW o \in Owners, EnterRender(o) \/ LeaveRender(o) PROVE SlotInv'
  <2>1. /\ pc[o] \in Holding /\ proc[o] \in Procs
        /\ \E st \in Holding : pc' = [pc EXCEPT ![o] = st]
        /\ UNCHANGED <<slot, proc, due, wipe, got, beat, lapsed>>
    BY <1>3 DEF EnterRender, LeaveRender, Placed, Holding
  <2>2. activeRenders' \in [Procs -> Int]
    BY <1>3, <2>1 DEF EnterRender, LeaveRender, Types
  <2>3. Types'
    BY <2>1, <2>2 DEF Types
  <2>4. Placed'
    BY <2>1 DEF Placed, Types, Holding
  <2>5. LapsesRecorded'
    BY <2>1 DEF LapsesRecorded, Expired
  <2>6. SlotKeptUntilLapse'
    BY <2>1 DEF SlotKeptUntilLapse, Types
  <2> QED  BY <2>3, <2>4, <2>5, <2>6
<1>4. ASSUME NEW o \in Owners, ReleaseRead(o) PROVE SlotInv'
  <2>1. Types'
    BY <1>4 DEF ReleaseRead, Types, Holding
  <2>2. Placed'
    BY <1>4 DEF ReleaseRead, Placed, Types, Holding
  <2>3. LapsesRecorded'
    BY <1>4 DEF ReleaseRead, LapsesRecorded, Expired
  <2>4. SlotKeptUntilLapse'
    BY <1>4 DEF ReleaseRead, SlotKeptUntilLapse, Types, Holding, IsFirst, OwnedBy
  <2> QED  BY <2>1, <2>2, <2>3, <2>4
<1>5. ASSUME NEW o \in Owners, ReleaseThrows(o) PROVE SlotInv'
  BY <1>5 DEF ReleaseThrows, Types, Placed, LapsesRecorded, Expired,
              SlotKeptUntilLapse, Holding
<1>6. ASSUME NEW o \in Owners, HeartbeatRead(o) \/ HeartbeatFails(o) PROVE SlotInv'
  <2>1. /\ UNCHANGED <<slot, pc, proc, due, wipe, got, activeRenders, lapsed>>
        /\ \E b \in Beat \cup {None} : beat' = [beat EXCEPT ![o] = b]
    BY <1>6, TimesAreNat DEF HeartbeatRead, HeartbeatFails, Beat
  <2> QED  BY <2>1 DEF Types, Placed, LapsesRecorded, Expired, SlotKeptUntilLapse
<1>7. ASSUME NEW p \in Procs, Crash(p) PROVE SlotInv'
  <2>1. Types'
    BY <1>7, TimesAreNat DEF Crash, Types
  <2>2. Placed'
    BY <1>7 DEF Crash, Placed, Types, Holding
  <2>3. LapsesRecorded'
    BY <1>7 DEF Crash, LapsesRecorded, Expired, Types
  <2>4. SlotKeptUntilLapse'
    BY <1>7 DEF Crash, SlotKeptUntilLapse, Types, Holding
  <2> QED  BY <2>1, <2>2, <2>3, <2>4
<1>8. CASE UNCHANGED vars
  BY <1>8 DEF vars, Types, Placed, LapsesRecorded, Expired, SlotKeptUntilLapse
<1> QED
  BY <1>1, <1>2, <1>3, <1>4, <1>5, <1>6, <1>7, <1>8, WipeKeeps, AcquireKeeps,
     HeartbeatWriteKeeps, ReleaseWriteKeeps, TickKeeps
  DEF Next, OwnerStep, AcquireStep

-----------------------------------------------------------------------------
(* Counters *)

LEMMA CountedInit == Init => Counted
<1> SUFFICES ASSUME Init, NEW p \in Procs
             PROVE  RendersIn(p) = {} /\ activeRenders[p] = 0
  BY FS_EmptySet, LimitsAreNat DEF Counted
<1> QED  BY DEF Init, RendersIn, Rendering

LEMMA CountedNext == SlotInv /\ Counted /\ [Next]_vars => Counted'
<1> SUFFICES ASSUME SlotInv, Counted, [Next]_vars, NEW p \in Procs
             PROVE  /\ IsFiniteSet(RendersIn(p)')
                    /\ activeRenders'[p] = Cardinality(RendersIn(p)')
                    /\ activeRenders'[p] <= LocalLimit
  BY DEF Counted
<1> USE DEF SlotInv
<1>0. /\ IsFiniteSet(RendersIn(p))
      /\ activeRenders[p] = Cardinality(RendersIn(p))
      /\ activeRenders[p] \in Nat
      /\ activeRenders[p] <= LocalLimit
  BY FS_CardinalityType DEF Counted
<1>1. CASE RendersIn(p)' = RendersIn(p) /\ activeRenders'[p] = activeRenders[p]
  BY <1>0, <1>1
<1>2. ASSUME NEW o \in Owners, EnterRender(o),
             activeRenders[proc[o]] < LocalLimit, proc[o] = p
      PROVE  /\ RendersIn(p)' = RendersIn(p) \cup {o}
             /\ o \notin RendersIn(p)
             /\ activeRenders'[p] = activeRenders[p] + 1
  BY <1>2, LimitsAreNat DEF EnterRender, RendersIn, Rendering, Types
<1>3. ASSUME NEW o \in Owners, LeaveRender(o), proc[o] = p
      PROVE  /\ RendersIn(p)' = RendersIn(p) \ {o}
             /\ o \in RendersIn(p)
             /\ activeRenders'[p] = activeRenders[p] - 1
  BY <1>3 DEF LeaveRender, RendersIn, Rendering, Types
<1>4. ASSUME NEW q \in Procs, Crash(q)
      PROVE  IF q = p THEN RendersIn(p)' = {} /\ activeRenders'[p] = 0
             ELSE RendersIn(p)' = RendersIn(p) /\ activeRenders'[p] = activeRenders[p]
  BY <1>4 DEF Crash, RendersIn, Rendering, Types
<1>5. ASSUME NEW o \in Owners, EnterRender(o),
             ~(activeRenders[proc[o]] < LocalLimit) \/ proc[o] # p
      PROVE  RendersIn(p)' = RendersIn(p) /\ activeRenders'[p] = activeRenders[p]
  <2>1. proc[o] \in Procs /\ activeRenders[proc[o]] \in Int
    BY <1>5 DEF EnterRender, Placed, Types
  <2> QED  BY <1>5, <2>1, LimitsAreNat DEF EnterRender, RendersIn, Rendering, Types
<1>6. ASSUME NEW o \in Owners, LeaveRender(o), proc[o] # p
      PROVE  RendersIn(p)' = RendersIn(p) /\ activeRenders'[p] = activeRenders[p]
  BY <1>6 DEF LeaveRender, RendersIn, Rendering, Types
<1>7. ASSUME NEW o \in Owners,
             \/ \E q \in Procs : ReadSlots(o, q)
             \/ AcquireStep(o) \/ ReleaseRead(o) \/ ReleaseWrite(o) \/ ReleaseThrows(o)
             \/ HeartbeatRead(o) \/ HeartbeatWrite(o) \/ HeartbeatFails(o)
      PROVE  RendersIn(p)' = RendersIn(p) /\ activeRenders'[p] = activeRenders[p]
  <2>1. /\ UNCHANGED activeRenders
        /\ \A b \in Owners : pc'[b] = "rendering" <=> pc[b] = "rendering"
        /\ \A b \in Owners : pc[b] = "rendering" => proc'[b] = proc[b]
    BY <1>7 DEF ReadSlots, AcquireStep, WipeSlot, Acquire, FindNoSlot, AcquireThrows,
                ReleaseRead, ReleaseWrite, ReleaseThrows, HeartbeatRead,
                HeartbeatWrite, HeartbeatFails, Types
  <2> QED  BY <2>1 DEF RendersIn, Rendering
<1>8. CASE Tick \/ UNCHANGED vars
  BY <1>8, <1>1 DEF Tick, vars, RendersIn, Rendering
<1>9. CASE \E o \in Owners : OwnerStep(o)
  <2>1. PICK o \in Owners : OwnerStep(o)
    BY <1>9
  <2>2. CASE EnterRender(o) /\ activeRenders[proc[o]] < LocalLimit /\ proc[o] = p
    <3>1. /\ RendersIn(p)' = RendersIn(p) \cup {o} /\ o \notin RendersIn(p)
          /\ activeRenders'[p] = activeRenders[p] + 1 /\ activeRenders[p] < LocalLimit
      BY <2>2, <1>2
    <3>2. /\ IsFiniteSet(RendersIn(p) \cup {o})
          /\ Cardinality(RendersIn(p) \cup {o}) = Cardinality(RendersIn(p)) + 1
      BY <3>1, <1>0, FS_AddElement
    <3> QED  BY <3>1, <3>2, <1>0, LimitsAreNat
  <2>3. CASE LeaveRender(o) /\ proc[o] = p
    <3>1. /\ RendersIn(p)' = RendersIn(p) \ {o} /\ o \in RendersIn(p)
          /\ activeRenders'[p] = activeRenders[p] - 1
      BY <2>3, <1>3
    <3>2. /\ IsFiniteSet(RendersIn(p) \ {o})
          /\ Cardinality(RendersIn(p) \ {o}) = Cardinality(RendersIn(p)) - 1
      BY <3>1, <1>0, FS_RemoveElement
    <3> QED  BY <3>1, <3>2, <1>0, LimitsAreNat
  <2> QED  BY <2>1, <2>2, <2>3, <1>1, <1>5, <1>6, <1>7 DEF OwnerStep
<1>10. CASE \E q \in Procs : Crash(q)
  BY <1>10, <1>0, <1>1, <1>4, FS_EmptySet, LimitsAreNat
<1> QED  BY <1>8, <1>9, <1>10 DEF Next

-----------------------------------------------------------------------------
(* Theorems *)

(* Slots, owners and counters are as they should be in every reachable state. *)
THEOREM SlotInvariance == Spec => [](SlotInv /\ Counted)
<1>1. Init => SlotInv /\ Counted
  BY SlotInvInit, CountedInit
<1>2. (SlotInv /\ Counted) /\ [Next]_vars => (SlotInv /\ Counted)'
  BY SlotInvNext, CountedNext
<1> QED  BY <1>1, <1>2, PTL DEF Spec

(* Every variable keeps its type; the counters stay within the local limit. *)
THEOREM SlotTypes == Spec => []TypeOK
<1>1. SlotInv /\ Counted => TypeOK
  <2> SUFFICES ASSUME SlotInv, Counted PROVE TypeOK
    OBVIOUS
  <2>1. \A p \in Procs : activeRenders[p] \in 0..LocalLimit
    BY FS_CardinalityType, LimitsAreNat DEF Counted
  <2> QED  BY <2>1 DEF SlotInv, Types, TypeOK
<1> QED  BY <1>1, SlotInvariance, PTL

(* A slot whose lease has never run out belongs to the owner it was granted
   to, from the grant to the release. *)
THEOREM SlotsKept == Spec => []SlotKeptUntilLapse
<1>1. SlotInv /\ Counted => SlotKeptUntilLapse
  BY DEF SlotInv
<1> QED  BY <1>1, SlotInvariance, PTL

(* Until some lease runs out, all processes together render no more than the
   shared limit: the slots of the renders are all different. *)
THEOREM SharedLimitUntilLapse == Spec => []LimitUntilLapse
<1>1. SlotInv /\ Counted => LimitUntilLapse
  <2> SUFFICES ASSUME SlotInv, lapsed = {} PROVE Cardinality(Rendering) <= Limit
    BY DEF LimitUntilLapse
  <2> DEFINE f == [o \in Rendering |-> got[o]]
  <2>1. \A o \in Rendering : got[o] \in Slots /\ slot[got[o]].owner = o
    BY DEF SlotInv, Placed, SlotKeptUntilLapse, Rendering, Holding
  <2>2. f \in Injection(Rendering, Slots)
    BY <2>1 DEF Injection, IsInjective
  <2>3. IsFiniteSet(Slots) /\ Cardinality(Slots) = Limit
    BY FS_Interval, LimitsAreNat DEF Slots
  <2> HIDE DEF f
  <2> QED  BY <2>2, <2>3, FS_Injection
<1> QED  BY <1>1, SlotInvariance, PTL

(* The counter of every process is the number of its renders, and no more
   than the local limit. *)
THEOREM CountersExact == Spec => []CounterExact
<1>1. SlotInv /\ Counted => CounterExact
  BY DEF Counted, CounterExact, RendersIn
<1> QED  BY <1>1, SlotInvariance, PTL
=============================================================================
