---------------------------- MODULE StorySession ----------------------------
(***************************************************************************)
(* The session document of a story and the operations of story.service.js  *)
(* that change it: script, shots, clips, cuts, captions, voice sync and    *)
(* the final render.                                                       *)
(*                                                                         *)
(* Every operation loads the document, changes it, perhaps after waiting   *)
(* for a provider, and saves it whole.  So what is saved is always what    *)
(* one operation makes of a document saved earlier, and overlapping        *)
(* requests, which lose one another's changes, reach no document that      *)
(* single steps do not reach.  The invariants speak of the document only.  *)
(*                                                                         *)
(* Beats are numbered from 1 here.  A narration is the text and the voice  *)
(* that its fingerprint hashes.                                            *)
(***************************************************************************)
EXTENDS Naturals, Sequences, SequencesExt

CONSTANTS
    Lines,      \* texts of a sentence
    Voices,     \* voice presets
    DefaultVoice, \* DEFAULT_VOICE_PRESET_KEY
    Clips,      \* stock clips
    MaxBeats,   \* MAX_BEATS
    MaxShots,   \* bound of the model: shots and beats that a session keeps
    CutsEnabled,\* ENABLE_VIDEO_CUTS_V1
    Absent      \* null, or a field that is not there

ASSUME MaxBeatsPositive == MaxBeats \in Nat \ {0}
ASSUME ShotsForBeats == MaxShots \in Nat /\ MaxShots >= MaxBeats
ASSUME DefaultIsVoice == DefaultVoice \in Voices
ASSUME CutsFlag == CutsEnabled \in BOOLEAN
ASSUME AbsentIsNothing ==
    Absent \notin Clips \cup Lines \cup SeqOf(Lines, MaxBeats) \cup
                  [text : SeqOf(Lines, MaxBeats), voice : Voices]

VARIABLE session

Beat == 1..MaxBeats
Script == SeqOf(Lines, MaxBeats)
Narration == [text : Lines, voice : Voices]
Shot == [beat : 1..MaxShots, clip : Clips \cup {Absent}]
VoiceSync == [state : {"never_synced", "stale", "current"}, stale : SUBSET Beat,
              print : [text : Script, voice : Voices] \cup {Absent}]

NeverSynced == [state |-> "never_synced", stale |-> {}, print |-> Absent]

Indices(s) == 1..Len(s)

-----------------------------------------------------------------------------
(* Reading a session *)

(* getShotBySentenceIndex *)
ShotsOf(s, b) ==
    IF s.shots = Absent THEN {} ELSE {i \in Indices(s.shots) : s.shots[i].beat = b}

FirstOf(I) == CHOOSE i \in I : \A j \in I : i <= j

ClipOf(s, b) == IF ShotsOf(s, b) = {} THEN Absent ELSE s.shots[FirstOf(ShotsOf(s, b))].clip

AllClips(s) == [b \in Indices(s.text) |-> ClipOf(s, b)]

NarrationOf(s, b) == IF b \in Indices(s.beats) THEN s.beats[b] ELSE Absent

(* hasValidVideoCutsV1: a cut for every boundary, none before its own beat.
   A cut is the beat it falls in. *)
ValidCuts(s) ==
    /\ Len(s.cuts) = Len(s.text) - 1
    /\ \A i \in Indices(s.cuts) : s.cuts[i] \in i + 1..Len(s.text)

(* resolveStoryVideoCutsPlan *)
MayCut(s) ==
    /\ CutsEnabled
    /\ Len(s.text) >= 2
    /\ \A b \in Indices(s.text) : ClipOf(s, b) # Absent
    /\ ~s.cutsDisabled

(* No cuts: each clip plays its own beat. *)
Classic == Absent

AutoCuts(s) == [i \in 1..Len(s.text) - 1 |-> i + 1]

PlayedCuts(s) ==
    CASE ~MayCut(s) -> Classic
      [] MayCut(s) /\ ~ValidCuts(s) /\ s.cuts # <<>> -> Classic
      [] MayCut(s) /\ ~ValidCuts(s) /\ s.cuts = <<>> -> AutoCuts(s)
      [] MayCut(s) /\ ValidCuts(s) -> s.cuts

-----------------------------------------------------------------------------
(* Helpers of the operations *)

(* Mutant: the rendered video stays. *)
StillRendered(s) == s

(* invalidateRenderedOutput *)
NotRendered(s) == [s EXCEPT !.final = Absent]

(* Mutant: the voice sync is not reset. *)
StillSynced(s) == NotRendered(s)

(* resetVoiceSyncForNewScript *)
VoiceReset(s) == NotRendered([s EXCEPT !.voiceSync = NeverSynced])

(* Mutant: only the beat of this change is remembered. *)
StaleAlone(v, b) ==
    IF v.state = "never_synced" THEN v
    ELSE [v EXCEPT !.state = "stale", !.stale = {b}]

(* markVoiceSyncStale *)
StaleBeat(v, b) ==
    IF v.state = "never_synced" THEN v
    ELSE [v EXCEPT !.state = "stale", !.stale = @ \cup {b}]

(* Array.prototype.splice at an index that may lie behind the end *)
SpliceIn(seq, i, x) == InsertAt(seq, IF i <= Len(seq) THEN i ELSE Len(seq) + 1, x)
SpliceOut(seq, i) == IF i \in Indices(seq) THEN RemoveAt(seq, i) ELSE seq

(* Mutant: the shots behind the edited one keep their numbers. *)
AsNumbered(shots) == shots

Renumbered(shots) == [i \in Indices(shots) |-> [shots[i] EXCEPT !.beat = i]]

Store(s) == session' = s

-----------------------------------------------------------------------------
(* The script *)

(* generateStory: the shots, captions and beats of an earlier script stay. *)
Generate(text) == Store(VoiceReset([session EXCEPT !.text = text]))

(* updateStorySentences, clearScriptDerivedArtifacts *)
UpdateScript(text) ==
    Store(VoiceReset([session EXCEPT
        !.text = text, !.beats = <<>>, !.plan = Absent, !.shots = Absent,
        !.captions = Absent, !.cuts = <<>>, !.cutsDisabled = FALSE]))

(* validateStoryCharacterLimits, with the beat added *)
RoomForBeat == Len(session.text) + 1 <= MaxBeats

(* insertBeatWithSearch: behind the end of the shots the search finds no shot
   to fill, and what it throws is caught. *)
InsertBeat(i, line) ==
    /\ RoomForBeat
    /\ i \in 1..Len(session.text) + 1
    /\ LET old == IF session.shots = Absent THEN <<>> ELSE session.shots
       IN  /\ Len(old) < MaxShots
           /\ Len(session.beats) < MaxShots
           /\ \E clip \in IF i <= Len(old) + 1 THEN Clips \cup {Absent} ELSE {Absent} :
                  Store(VoiceReset([session EXCEPT
                      !.text = SpliceIn(@, i, line),
                      !.beats = SpliceIn(@, i, Absent),
                      !.shots = Renumbered(SpliceIn(old, i, [beat |-> i, clip |-> clip]))]))

(* deleteBeat *)
DeleteBeat(i) ==
    /\ session.shots # Absent
    /\ i \in Indices(session.text)
    /\ LET found == ShotsOf(session, i)
       IN  Store(VoiceReset([session EXCEPT
               !.text = RemoveAt(@, i),
               !.beats = SpliceOut(@, i),
               !.shots = Renumbered(IF found = {} THEN @ ELSE RemoveAt(@, FirstOf(found)))]))

(* updateBeatText *)
UpdateBeat(i, line) ==
    /\ i \in Indices(session.text)
    /\ Store(NotRendered([session EXCEPT !.text[i] = line, !.voiceSync = StaleBeat(@, i)]))

-----------------------------------------------------------------------------
(* Shots and clips *)

(* planShots: the model answers with one shot per sentence, for any beats. *)
PlanShots ==
    /\ session.text # <<>>
    /\ \E plan \in [Indices(session.text) -> Indices(session.text)] :
           Store([session EXCEPT !.plan = plan])

(* searchShots, in the order of the plan *)
SearchShots ==
    /\ session.plan # Absent
    /\ \E clips \in [Indices(session.plan) -> Clips \cup {Absent}] :
           Store(NotRendered([session EXCEPT
               !.shots = [i \in Indices(session.plan) |->
                   [beat |-> session.plan[i], clip |-> clips[i]]]]))

(* searchClipsForShot and updateShotSelectedClip *)
ChangeClip(b, clip) ==
    /\ ShotsOf(session, b) # {}
    /\ Store(NotRendered([session EXCEPT !.shots[FirstOf(ShotsOf(session, b))].clip = clip]))

(* updateVideoCuts: any beat of the story, in order. *)
UpdateCuts(cuts) ==
    /\ session.text # <<>>
    /\ cuts = <<>> \/ Len(cuts) = Len(session.text) - 1
    /\ \A i \in Indices(cuts) : cuts[i] <= Len(session.text)
    /\ \A i, j \in Indices(cuts) : i <= j => cuts[i] <= cuts[j]
    /\ Store(NotRendered([session EXCEPT !.cuts = cuts, !.cutsDisabled = cuts = <<>>]))

(* update-caption-style and update-caption-meta *)
Restyle == Store(NotRendered(session))

-----------------------------------------------------------------------------
(* Captions and voice *)

(* generateCaptionTimings, from reading speed, over synced captions too *)
TimeCaptions ==
    /\ session.text # <<>>
    /\ session.plan # Absent
    /\ Store(NotRendered([session EXCEPT !.captions = session.text]))

(* buildVoiceSyncPlan *)
PrintFor(voice) == [text |-> session.text, voice |-> voice]
AlreadySynced(voice) ==
    session.voiceSync.print = PrintFor(voice) /\ voice = session.voice

Targets(mode, voice) ==
    IF \/ mode = "full" \/ voice # session.voice
       \/ session.voiceSync.state = "never_synced"
       \/ session.voiceSync.stale \cap Indices(session.text) = {}
    THEN Indices(session.text)
    ELSE session.voiceSync.stale \cap Indices(session.text)

(* Beats that a sync generates: what it is for, and what does not fit. *)
Generated(mode, voice) ==
    Targets(mode, voice) \cup
        {b \in Indices(session.text) :
            NarrationOf(session, b) # [text |-> session.text[b], voice |-> voice]}

Synced(voice) == [state |-> "current", stale |-> {}, print |-> PrintFor(voice)]

(* syncStoryVoice with the narration that is there *)
SyncCached(voice) ==
    /\ session.text # <<>>
    /\ AlreadySynced(voice)
    /\ Store([session EXCEPT !.voiceSync = Synced(voice)])

(* syncStoryVoice that generates: the final video stays. *)
SyncGenerating(mode, voice) ==
    /\ session.text # <<>>
    /\ ~AlreadySynced(voice)
    /\ Store([session EXCEPT
           !.beats = [b \in 1..IF Len(@) > Len(session.text) THEN Len(@) ELSE Len(session.text) |->
               IF b \in Generated(mode, voice)
               THEN [text |-> session.text[b], voice |-> voice] ELSE NarrationOf(session, b)],
           !.captions = session.text,
           !.voice = voice,
           !.voiceSync = Synced(voice)])

-----------------------------------------------------------------------------
(* renderStory: with cuts every beat must render; without, one is enough. *)
Rendered(s) == [text |-> s.text, clips |-> AllClips(s), cuts |-> PlayedCuts(s)]

Render ==
    /\ session.voiceSync.state = "current"
    /\ session.shots # Absent
    /\ session.captions # Absent
    /\ \E i \in Indices(session.shots) : session.shots[i].clip # Absent
    /\ LET s == [session EXCEPT !.cuts = IF PlayedCuts(session) = Classic THEN @ ELSE PlayedCuts(session)]
       IN  Store([s EXCEPT !.final = Rendered(s)])

-----------------------------------------------------------------------------
EmptySession == [text |-> <<>>, voice |-> DefaultVoice, plan |-> Absent,
                 shots |-> Absent, captions |-> Absent, beats |-> <<>>,
                 voiceSync |-> NeverSynced, cuts |-> <<>>, cutsDisabled |-> FALSE,
                 final |-> Absent]

(* createStorySession, createManualStorySession and create-manual-session *)
SessionInit ==
    \/ session = EmptySession
    \/ \E text \in Script \ {<<>>} :
           session = [EmptySession EXCEPT !.text = text]
    \/ \E text \in Script \ {<<>>} : \E clips \in [Indices(text) -> Clips] :
           session = [EmptySession EXCEPT !.text = text,
               !.shots = [i \in Indices(text) |-> [beat |-> i, clip |-> clips[i]]]]

ScriptStep ==
    \/ \E text \in Script \ {<<>>} : Generate(text) \/ UpdateScript(text)
    \/ \E i \in Beat, line \in Lines : InsertBeat(i, line) \/ UpdateBeat(i, line)
    \/ \E i \in Beat : DeleteBeat(i)

ClipStep ==
    \/ PlanShots
    \/ SearchShots
    \/ \E b \in Beat, clip \in Clips \cup {Absent} : ChangeClip(b, clip)
    \/ \E cuts \in SeqOf(Beat, MaxBeats - 1) : UpdateCuts(cuts)
    \/ Restyle

VoiceStep ==
    \/ TimeCaptions
    \/ \E voice \in Voices : SyncCached(voice)
    \/ \E mode \in {"stale", "full"}, voice \in Voices : SyncGenerating(mode, voice)

SessionNext == ScriptStep \/ ClipStep \/ VoiceStep \/ Render

SessionSpec == SessionInit /\ [][SessionNext]_session

-----------------------------------------------------------------------------
(* Properties *)

(* Every field keeps its type. *)
SessionTypeOK ==
    /\ session.text \in Script
    /\ session.voice \in Voices
    /\ session.plan \in SeqOf(Beat, MaxBeats) \cup {Absent}
    /\ session.shots = Absent \/ \A i \in Indices(session.shots) : session.shots[i] \in Shot
    /\ session.captions \in Script \cup {Absent}
    /\ \A b \in Indices(session.beats) : session.beats[b] \in Narration \cup {Absent}
    /\ session.voiceSync \in VoiceSync
    /\ session.cuts \in SeqOf(Beat, MaxBeats - 1)
    /\ session.cutsDisabled \in BOOLEAN

(* The session knows which beats its narration does not speak: all the others
   have the narration of their text in the session's voice, so that a current
   session is rendered with the words it shows and a sync charges every beat
   that it generates. *)
NarrationKnown ==
    session.voiceSync.state # "never_synced" =>
        \A b \in Indices(session.text) \ session.voiceSync.stale :
            NarrationOf(session, b) = [text |-> session.text[b], voice |-> session.voice]

(* A session with a final video is the session of that video: no edit of the
   script, the clips or the cuts leaves a video behind that shows something
   else.  (A sync with another voice does: it keeps the video.) *)
RenderedIsCurrent ==
    session.final # Absent => session.final = Rendered(session)

(* A current session has one caption for each beat, whatever has been inserted,
   deleted, generated and taken back since its last sync: each beat can render. *)
CaptionPerBeat ==
    session.voiceSync.state = "current" =>
        session.captions # Absent /\ Len(session.captions) = Len(session.text)

(* What a current session says, beat for beat, is spoken and captioned. *)
SessionIsVoiced == NarrationKnown /\ CaptionPerBeat

(* Inserting or deleting a beat moves the clips with their sentences, where each
   sentence had its shot. *)
Aligned(s) ==
    /\ s.shots # Absent
    /\ Len(s.shots) = Len(s.text)
    /\ \A i \in Indices(s.shots) : s.shots[i].beat = i

ClipsFollowSentences ==
    [][/\ Aligned(session)
       /\ session'.shots # Absent
       /\ session'.text # session.text
       /\ session'.shots # session.shots
       => /\ Aligned(session')
          /\ \/ \E i \in Indices(session'.text) :
                   /\ session'.text = InsertAt(session.text, i, session'.text[i])
                   /\ AllClips(session)' = InsertAt(AllClips(session), i, AllClips(session)'[i])
             \/ \E i \in Indices(session.text) :
                   /\ session'.text = RemoveAt(session.text, i)
                   /\ AllClips(session)' = RemoveAt(AllClips(session), i)]_session

(* "successful sync ... updates backend-owned caption timing": the captions of a
   current session are those of its sentences. *)
CaptionsAreSynced ==
    session.voiceSync.state = "current" => session.captions = session.text
=============================================================================
