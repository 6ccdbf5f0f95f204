----------------------------- MODULE StoryProofs -----------------------------
(***************************************************************************)
(* Proofs about what a story keeps: that its session says what is spoken,  *)
(* captioned and rendered, that its draft preview shows it as it is, and   *)
(* what its voice syncs hold and take: for any number of beats, shots,     *)
(* attempts, runners, requests and stories.                                *)
(***************************************************************************)
EXTENDS StorySession, StoryPreview, StorySync, TotalsProofs, SequenceTheorems,
        WellFoundedInduction, TLAPS

-----------------------------------------------------------------------------
(* Sequences *)

(* A sequence of bounded length is a sequence, and conversely. *)
LEMMA BoundedSequence ==
    ASSUME NEW S, NEW n \in Nat, NEW s
    PROVE  s \in SeqOf(S, n) <=> s \in Seq(S) /\ Len(s) <= n
<1>1. ASSUME s \in SeqOf(S, n) PROVE s \in Seq(S) /\ Len(s) <= n
  <2>1. PICK m \in 0..n : s \in [1..m -> S]
    BY <1>1 DEF SeqOf
  <2>2. m \in Nat
    OBVIOUS
  <2> QED  BY <2>1, <2>2
<1>2. ASSUME s \in Seq(S), Len(s) <= n PROVE s \in SeqOf(S, n)
  <2>1. Len(s) \in 0..n /\ s \in [1..Len(s) -> S]
    BY <1>2
  <2> QED  BY <2>1 DEF SeqOf
<1> QED  BY <1>1, <1>2

(* The part of a sequence between two of its places *)
LEMMA Part ==
    ASSUME NEW S, NEW s \in Seq(S), NEW m \in 1..Len(s) + 1, NEW n \in 0..Len(s), m <= n + 1
    PROVE  SubSeq(s, m, n) \in Seq(S) /\ Len(SubSeq(s, m, n)) = n - m + 1
<1>1. m \in Int /\ n \in Int /\ \A i \in m..n : s[i] \in S
  OBVIOUS
<1>2. /\ SubSeq(s, m, n) \in Seq(S)
      /\ Len(SubSeq(s, m, n)) = IF m <= n THEN n - m + 1 ELSE 0
  BY <1>1, SubSeqProperties
<1> QED  BY <1>2

(* An element more, where there is a place for it. *)
LEMMA Inserted ==
    ASSUME NEW S, NEW s \in Seq(S), NEW i \in 1..Len(s) + 1, NEW x \in S
    PROVE  InsertAt(s, i, x) \in Seq(S) /\ Len(InsertAt(s, i, x)) = Len(s) + 1
<1> DEFINE head == SubSeq(s, 1, i - 1)
           tail == SubSeq(s, i, Len(s))
<1>1. head \in Seq(S) /\ Len(head) = i - 1
  BY Part
<1>2. tail \in Seq(S) /\ Len(tail) = Len(s) - i + 1
  BY Part
<1>3. InsertAt(s, i, x) = head \o <<x>> \o tail
  BY DEF InsertAt
<1> HIDE DEF head, tail
<1> QED  BY <1>1, <1>2, <1>3

LEMMA Removed ==
    ASSUME NEW S, NEW s \in Seq(S), NEW i \in 1..Len(s)
    PROVE  RemoveAt(s, i) \in Seq(S) /\ Len(RemoveAt(s, i)) = Len(s) - 1
<1> DEFINE head == SubSeq(s, 1, i - 1)
           tail == SubSeq(s, i + 1, Len(s))
<1>1. head \in Seq(S) /\ Len(head) = i - 1
  BY Part
<1>2. tail \in Seq(S) /\ Len(tail) = Len(s) - i
  BY Part
<1>3. RemoveAt(s, i) = head \o tail
  BY DEF RemoveAt
<1> HIDE DEF head, tail
<1> QED  BY <1>1, <1>2, <1>3

LEMMA Spliced ==
    ASSUME NEW S, NEW s \in Seq(S), NEW i \in Nat \ {0}, NEW x \in S
    PROVE  /\ SpliceIn(s, i, x) \in Seq(S) /\ Len(SpliceIn(s, i, x)) = Len(s) + 1
           /\ SpliceOut(s, i) \in Seq(S) /\ Len(SpliceOut(s, i)) <= Len(s)
<1>1. /\ i <= Len(s) => i \in 1..Len(s) + 1 /\ i \in 1..Len(s)
      /\ Len(s) + 1 \in 1..Len(s) + 1
      /\ Len(s) \in Nat
  OBVIOUS
<1>2. SpliceIn(s, i, x) \in Seq(S) /\ Len(SpliceIn(s, i, x)) = Len(s) + 1
  BY <1>1, Inserted DEF SpliceIn
<1>3. SpliceOut(s, i) \in Seq(S) /\ Len(SpliceOut(s, i)) <= Len(s)
  <2>1. CASE i \in 1..Len(s)
    BY <1>1, <2>1, Removed DEF SpliceOut, Indices
  <2>2. CASE i \notin 1..Len(s)
    BY <1>1, <2>2 DEF SpliceOut, Indices
  <2> QED  BY <2>1, <2>2
<1> QED  BY <1>2, <1>3

(* A beat without a narration among those that may have one *)
LEMMA BeatSpliced ==
    ASSUME NEW S, NEW s \in Seq(S \cup {Absent}), NEW i \in Nat \ {0}
    PROVE  /\ SpliceIn(s, i, Absent) \in Seq(S \cup {Absent})
           /\ Len(SpliceIn(s, i, Absent)) = Len(s) + 1
<1> DEFINE T == S \cup {Absent}
<1>1. s \in Seq(T) /\ Absent \in T
  OBVIOUS
<1> HIDE DEF T
<1>2. SpliceIn(s, i, Absent) \in Seq(T) /\ Len(SpliceIn(s, i, Absent)) = Len(s) + 1
  BY <1>1, Spliced, ZenonT(60)
<1> QED  BY <1>2 DEF T

-----------------------------------------------------------------------------
(* The session of a story *)

Fields == {"text", "voice", "plan", "shots", "captions", "beats", "voiceSync", "cuts",
           "cutsDisabled", "final"}

Shape == session = [f \in Fields |-> session[f]]

(* A document as large as sessions get *)
SessionTyped ==
    /\ Shape
    /\ session.text \in Script
    /\ session.voice \in Voices
    /\ session.plan \in SeqOf(Beat, MaxBeats) \cup {Absent}
    /\ session.shots = Absent \/ session.shots \in SeqOf(Shot, MaxShots)
    /\ session.captions \in Script \cup {Absent}
    /\ session.beats \in SeqOf(Narration \cup {Absent}, MaxShots)
    /\ session.voiceSync \in VoiceSync
    /\ session.cuts \in SeqOf(Beat, MaxBeats - 1)
    /\ session.cutsDisabled \in BOOLEAN

(* After its first sync a session has, for every sentence, a caption and the
   narration that the fingerprint of its last sync stands for, and knows each
   sentence that has changed since.  NarrationKnown and CaptionPerBeat speak of
   what is current only; a sync that finds the fingerprint unchanged makes the
   session current again without generating, and needs more. *)
Voiced ==
    /\ session.voiceSync.state = "never_synced" => session.voiceSync.print = Absent
    /\ session.voiceSync.state # "never_synced" =>
           /\ session.captions # Absent /\ Len(session.captions) = Len(session.text)
           /\ session.voiceSync.print # Absent
           /\ Len(session.voiceSync.print.text) = Len(session.text)
           /\ session.voiceSync.print.voice = session.voice
           /\ \A b \in Indices(session.text) :
                  /\ NarrationOf(session, b) =
                         [text |-> session.voiceSync.print.text[b], voice |-> session.voice]
                  /\ b \notin session.voiceSync.stale =>
                         session.voiceSync.print.text[b] = session.text[b]

SessionInv == SessionTyped /\ Voiced /\ RenderedIsCurrent

-----------------------------------------------------------------------------
(* What is rendered *)

(* A video shows the script, the shots and the cuts. *)
LEMMA RenderedSame ==
    ASSUME NEW s, NEW t, s.text = t.text, s.shots = t.shots, s.cuts = t.cuts,
           s.cutsDisabled = t.cutsDisabled
    PROVE  Rendered(s) = Rendered(t)
<1>1. \A b : ShotsOf(s, b) = ShotsOf(t, b)
  BY DEF ShotsOf
<1>2. \A b : ClipOf(s, b) = ClipOf(t, b)
  BY <1>1 DEF ClipOf
<1>3. AllClips(s) = AllClips(t)
  BY <1>2 DEF AllClips
<1>4. MayCut(s) <=> MayCut(t)
  BY <1>2 DEF MayCut
<1>5. ValidCuts(s) <=> ValidCuts(t)
  BY DEF ValidCuts
<1>6. AutoCuts(s) = AutoCuts(t)
  BY DEF AutoCuts
<1>7. PlayedCuts(s) = PlayedCuts(t)
  BY <1>4, <1>5, <1>6 DEF PlayedCuts
<1> QED  BY <1>3, <1>7 DEF Rendered

-----------------------------------------------------------------------------
(* Steps, by the fields they change *)

Changes(F) == Shape' /\ \A f \in Fields \ F : session'[f] = session[f]

(* A new script: the voice sync starts again. *)
Resets == session'.voiceSync = NeverSynced /\ session'.final = Absent

LEMMA ScriptChanges ==
    ASSUME Shape, NEW text, Generate(text) \/ UpdateScript(text)
    PROVE  /\ Changes({"text", "beats", "plan", "shots", "captions", "cuts", "cutsDisabled",
                       "voiceSync", "final"})
           /\ Resets
           /\ session'.text = text
           /\ Generate(text) => Changes({"text", "voiceSync", "final"})
           /\ UpdateScript(text) =>
                  /\ session'.beats = <<>> /\ session'.plan = Absent /\ session'.shots = Absent
                  /\ session'.captions = Absent /\ session'.cuts = <<>>
                  /\ session'.cutsDisabled = FALSE
BY DEF Generate, UpdateScript, Store, VoiceReset, NotRendered, Shape, Fields, Changes, Resets

LEMMA UpdateBeatChanges ==
    ASSUME Shape, NEW i, NEW line, UpdateBeat(i, line)
    PROVE  /\ Changes({"text", "voiceSync", "final"})
           /\ session'.text = [session.text EXCEPT ![i] = line]
           /\ session'.voiceSync = StaleBeat(session.voiceSync, i)
           /\ session'.final = Absent
BY DEF UpdateBeat, Store, NotRendered, Shape, Fields, Changes

LEMMA InsertBeatChanges ==
    ASSUME Shape, NEW i, NEW line, InsertBeat(i, line)
    PROVE  LET old == IF session.shots = Absent THEN <<>> ELSE session.shots
           IN  /\ Changes({"text", "beats", "shots", "voiceSync", "final"})
               /\ Resets
               /\ session'.text = SpliceIn(session.text, i, line)
               /\ session'.beats = SpliceIn(session.beats, i, Absent)
               /\ \E clip \in Clips \cup {Absent} :
                      session'.shots = Renumbered(SpliceIn(old, i, [beat |-> i, clip |-> clip]))
               /\ i \in 1..Len(session.text) + 1 /\ RoomForBeat
               /\ Len(old) < MaxShots /\ Len(session.beats) < MaxShots
<1> DEFINE old == IF session.shots = Absent THEN <<>> ELSE session.shots
           shot(clip) == [beat |-> i, clip |-> clip]
<1>1. PICK clip \in Clips \cup {Absent} :
          session' = NotRendered([[session EXCEPT
                         !.text = SpliceIn(@, i, line),
                         !.beats = SpliceIn(@, i, Absent),
                         !.shots = Renumbered(SpliceIn(old, i, shot(clip)))]
                     EXCEPT !.voiceSync = NeverSynced])
  BY DEF InsertBeat, Store, VoiceReset
<1>2. i \in 1..Len(session.text) + 1 /\ RoomForBeat
      /\ Len(old) < MaxShots /\ Len(session.beats) < MaxShots
  BY DEF InsertBeat
<1> HIDE DEF old, shot
<1>3. /\ Changes({"text", "beats", "shots", "voiceSync", "final"})
      /\ Resets
      /\ session'.text = SpliceIn(session.text, i, line)
      /\ session'.beats = SpliceIn(session.beats, i, Absent)
      /\ session'.shots = Renumbered(SpliceIn(old, i, shot(clip)))
  BY <1>1 DEF NotRendered, Shape, Fields, Changes, Resets
<1> QED  BY <1>2, <1>3 DEF old, shot

LEMMA DeleteBeatChanges ==
    ASSUME Shape, NEW i, DeleteBeat(i)
    PROVE  LET found == ShotsOf(session, i)
           IN  /\ Changes({"text", "beats", "shots", "voiceSync", "final"})
               /\ Resets
               /\ session.shots # Absent /\ i \in Indices(session.text)
               /\ session'.text = RemoveAt(session.text, i)
               /\ session'.beats = SpliceOut(session.beats, i)
               /\ session'.shots = Renumbered(IF found = {} THEN session.shots
                                              ELSE RemoveAt(session.shots, FirstOf(found)))
BY DEF DeleteBeat, Store, VoiceReset, NotRendered, Shape, Fields, Changes, Resets

(* Clips, cuts and styles *)
LEMMA ClipChanges ==
    ASSUME Shape, ClipStep
    PROVE  /\ Changes({"plan", "shots", "cuts", "cutsDisabled", "final"})
           /\ session'.final = Absent \/ Changes({"plan"})
<1>1. CASE PlanShots
  <2>1. PICK plan : session' = [session EXCEPT !.plan = plan]
    BY <1>1 DEF PlanShots, Store
  <2> QED  BY <2>1 DEF Shape, Fields, Changes
<1>2. CASE SearchShots
  <2>1. PICK shots : session' = [[session EXCEPT !.shots = shots] EXCEPT !.final = Absent]
    BY <1>2 DEF SearchShots, Store, NotRendered
  <2> QED  BY <2>1 DEF Shape, Fields, Changes
<1>3. ASSUME NEW b, NEW clip, ChangeClip(b, clip)
      PROVE  Changes({"shots", "final"}) /\ session'.final = Absent
  BY <1>3 DEF ChangeClip, Store, NotRendered, Shape, Fields, Changes
<1>4. ASSUME NEW cuts, UpdateCuts(cuts)
      PROVE  Changes({"cuts", "cutsDisabled", "final"}) /\ session'.final = Absent
  BY <1>4 DEF UpdateCuts, Store, NotRendered, Shape, Fields, Changes
<1>5. CASE Restyle
  BY <1>5 DEF Restyle, Store, NotRendered, Shape, Fields, Changes
<1> QED  BY <1>1, <1>2, <1>3, <1>4, <1>5 DEF ClipStep, Changes

LEMMA VoiceChanges ==
    ASSUME Shape
    PROVE  /\ TimeCaptions =>
                  /\ Changes({"captions", "final"})
                  /\ session'.captions = session.text /\ session'.final = Absent
           /\ \A voice \in Voices : SyncCached(voice) =>
                  /\ Changes({"voiceSync"})
                  /\ session'.voiceSync = Synced(voice)
           /\ \A mode, voice : SyncGenerating(mode, voice) =>
                  /\ Changes({"beats", "captions", "voice", "voiceSync"})
                  /\ session'.captions = session.text /\ session'.voice = voice
                  /\ session'.voiceSync = Synced(voice)
<1>1. ASSUME NEW mode, NEW voice, SyncGenerating(mode, voice)
      PROVE  /\ Changes({"beats", "captions", "voice", "voiceSync"})
             /\ session'.captions = session.text /\ session'.voice = voice
             /\ session'.voiceSync = Synced(voice)
  <2>1. PICK beats : session' = [session EXCEPT !.beats = beats, !.captions = session.text,
                                                !.voice = voice, !.voiceSync = Synced(voice)]
    BY <1>1 DEF SyncGenerating, Store
  <2> QED  BY <2>1 DEF Shape, Fields, Changes
<1>2. ASSUME NEW voice \in Voices, SyncCached(voice)
      PROVE  Changes({"voiceSync"}) /\ session'.voiceSync = Synced(voice)
  BY <1>2 DEF SyncCached, Store, Shape, Fields, Changes
<1>3. ASSUME TimeCaptions
      PROVE  /\ Changes({"captions", "final"})
             /\ session'.captions = session.text /\ session'.final = Absent
  BY <1>3 DEF TimeCaptions, Store, NotRendered, Shape, Fields, Changes
<1> QED  BY <1>1, <1>2, <1>3

LEMMA RenderChanges ==
    ASSUME Shape, Render
    PROVE  /\ Changes({"cuts", "final"})
           /\ session'.cuts = IF PlayedCuts(session) = Classic THEN session.cuts
                              ELSE PlayedCuts(session)
           /\ session'.final = Rendered(session)'
<1> DEFINE cuts == IF PlayedCuts(session) = Classic THEN session.cuts ELSE PlayedCuts(session)
           s == [session EXCEPT !.cuts = cuts]
<1>1. session' = [s EXCEPT !.final = Rendered(s)]
  BY DEF Render, Store
<1> HIDE DEF cuts
<1>2. /\ Changes({"cuts", "final"})
      /\ session'.cuts = cuts /\ session'.final = Rendered(s)
      /\ s.text = session.text /\ s.shots = session.shots
      /\ s.cuts = cuts /\ s.cutsDisabled = session.cutsDisabled
  BY <1>1 DEF Shape, Fields, Changes
<1>3. /\ session'.text = session.text /\ session'.shots = session.shots
      /\ session'.cutsDisabled = session.cutsDisabled
  BY <1>2 DEF Changes, Fields
<1> HIDE DEF s
<1>4. Rendered(s) = Rendered(session')
  BY <1>2, <1>3, RenderedSame
<1> QED  BY <1>2, <1>4 DEF cuts

-----------------------------------------------------------------------------
(* The types of the fields *)

LEMMA Sizes ==
    ASSUME SessionTyped
    PROVE  /\ MaxBeats \in Nat /\ MaxBeats - 1 \in Nat /\ MaxShots \in Nat
           /\ session.text \in Seq(Lines) /\ Len(session.text) \in Nat
           /\ Len(session.text) <= MaxBeats
           /\ session.beats \in Seq(Narration \cup {Absent}) /\ Len(session.beats) <= MaxShots
           /\ session.shots # Absent =>
                  session.shots \in Seq(Shot) /\ Len(session.shots) <= MaxShots
BY BoundedSequence, MaxBeatsPositive, ShotsForBeats DEF SessionTyped, Script

(* Fields that a step does not change keep their types. *)
LEMMA TypesFollow ==
    ASSUME SessionTyped, Shape',
           session'.text # session.text => session'.text \in Script,
           session'.voice # session.voice => session'.voice \in Voices,
           session'.plan # session.plan => session'.plan \in SeqOf(Beat, MaxBeats) \cup {Absent},
           session'.shots # session.shots =>
               session'.shots = Absent \/ session'.shots \in SeqOf(Shot, MaxShots),
           session'.captions # session.captions => session'.captions \in Script \cup {Absent},
           session'.beats # session.beats =>
               session'.beats \in SeqOf(Narration \cup {Absent}, MaxShots),
           session'.voiceSync # session.voiceSync => session'.voiceSync \in VoiceSync,
           session'.cuts # session.cuts => session'.cuts \in SeqOf(Beat, MaxBeats - 1),
           session'.cutsDisabled # session.cutsDisabled => session'.cutsDisabled \in BOOLEAN
    PROVE  SessionTyped'
BY DEF SessionTyped

LEMMA NeverSyncedType == NeverSynced \in VoiceSync
BY DEF NeverSynced, VoiceSync

LEMMA EmptyTypes ==
    /\ <<>> \in SeqOf(Narration \cup {Absent}, MaxShots)
    /\ <<>> \in SeqOf(Beat, MaxBeats - 1)
    /\ <<>> \in Script
<1>1. MaxBeats \in Nat /\ MaxBeats - 1 \in Nat /\ MaxShots \in Nat
  BY MaxBeatsPositive, ShotsForBeats
<1>2. \A S, n : n \in Nat => <<>> \in SeqOf(S, n)
  <2> SUFFICES ASSUME NEW S, NEW n \in Nat PROVE <<>> \in SeqOf(S, n)
    OBVIOUS
  <2>1. <<>> \in Seq(S) /\ Len(<<>>) = 0 /\ 0 <= n
    OBVIOUS
  <2> QED  BY <2>1, BoundedSequence
<1> QED  BY <1>1, <1>2 DEF Script

AnyShot == [beat : Int, clip : Clips \cup {Absent}]

LEMMA SplicedShot ==
    ASSUME NEW s \in Seq(AnyShot), NEW i \in Nat \ {0}, NEW x \in AnyShot
    PROVE  SpliceIn(s, i, x) \in Seq(AnyShot) /\ Len(SpliceIn(s, i, x)) = Len(s) + 1
BY Spliced, ZenonT(60)

(* Shots that are numbered as they stand *)
LEMMA RenumberedType ==
    ASSUME NEW shots \in Seq(AnyShot), Len(shots) <= MaxShots
    PROVE  Renumbered(shots) \in SeqOf(Shot, MaxShots)
<1>0. Len(shots) \in Nat /\ MaxShots \in Nat
  BY ShotsForBeats
<1>1. ASSUME NEW i \in 1..Len(shots) PROVE [shots[i] EXCEPT !.beat = i] \in Shot
  <2>1. shots[i] \in AnyShot
    OBVIOUS
  <2>2. i \in 1..MaxShots
    BY <1>0
  <2> QED  BY <2>1, <2>2 DEF Shot, AnyShot
<1>2. Renumbered(shots) \in [1..Len(shots) -> Shot]
  BY <1>1 DEF Renumbered, Indices
<1>3. Len(shots) \in 0..MaxShots
  BY <1>0
<1> QED  BY <1>2, <1>3 DEF SeqOf

LEMMA ShotsAreNumbered ==
    ASSUME NEW s \in Seq(Shot)
    PROVE  s \in Seq(AnyShot)
<1>1. \A x \in Shot : x \in AnyShot
  BY ShotsForBeats DEF Shot, AnyShot
<1>2. Len(s) \in Nat /\ s \in [1..Len(s) -> Shot]
  OBVIOUS
<1>3. s \in [1..Len(s) -> AnyShot]
  BY <1>1, <1>2
<1> QED  BY <1>2, <1>3

LEMMA ScriptTypes ==
    ASSUME SessionTyped, ScriptStep
    PROVE  SessionTyped'
<1>0. Shape /\ NeverSynced \in VoiceSync
  BY NeverSyncedType DEF SessionTyped
<1>1. ASSUME NEW text \in Script, Generate(text) \/ UpdateScript(text) PROVE SessionTyped'
  <2>1. CASE Generate(text)
    <3>1. /\ Changes({"text", "voiceSync", "final"}) /\ session'.text = text
          /\ session'.voiceSync = NeverSynced
      BY <1>0, <2>1, ScriptChanges DEF Resets
    <3> QED  BY <1>0, <1>1, <3>1, TypesFollow DEF Changes, Fields
  <2>2. CASE UpdateScript(text)
    <3>1. /\ Changes({"text", "beats", "plan", "shots", "captions", "cuts", "cutsDisabled",
                      "voiceSync", "final"})
          /\ session'.text = text /\ session'.voiceSync = NeverSynced
          /\ session'.beats = <<>> /\ session'.plan = Absent /\ session'.shots = Absent
          /\ session'.captions = Absent /\ session'.cuts = <<>>
          /\ session'.cutsDisabled = FALSE
      BY <1>0, <2>2, ScriptChanges DEF Resets
    <3> QED  BY <1>0, <1>1, <3>1, EmptyTypes, TypesFollow DEF Changes, Fields
  <2> QED  BY <1>1, <2>1, <2>2
<1>2. ASSUME NEW i \in Beat, NEW line \in Lines, InsertBeat(i, line) PROVE SessionTyped'
  <2> DEFINE old == IF session.shots = Absent THEN <<>> ELSE session.shots
  <2>1. /\ Changes({"text", "beats", "shots", "voiceSync", "final"})
        /\ session'.voiceSync = NeverSynced
        /\ session'.text = SpliceIn(session.text, i, line)
        /\ session'.beats = SpliceIn(session.beats, i, Absent)
        /\ i \in 1..Len(session.text) + 1 /\ RoomForBeat
        /\ Len(old) < MaxShots /\ Len(session.beats) < MaxShots
    BY <1>0, <1>2, InsertBeatChanges DEF Resets
  <2>2. PICK clip \in Clips \cup {Absent} :
            session'.shots = Renumbered(SpliceIn(old, i, [beat |-> i, clip |-> clip]))
    BY <1>0, <1>2, InsertBeatChanges
  <2>3. i \in Nat \ {0}
    BY MaxBeatsPositive DEF Beat
  <2>4. session'.text \in Script
    <3>1. SpliceIn(session.text, i, line) \in Seq(Lines)
          /\ Len(SpliceIn(session.text, i, line)) = Len(session.text) + 1
      <4>1. session.text \in Seq(Lines)
        BY Sizes
      <4> QED  BY <2>3, <4>1, Spliced, ZenonT(60)
    <3>2. Len(session.text) + 1 <= MaxBeats
      BY <2>1 DEF RoomForBeat
    <3> QED  BY <2>1, <3>1, <3>2, Sizes, BoundedSequence DEF Script
  <2>5. session'.beats \in SeqOf(Narration \cup {Absent}, MaxShots)
    <3>1. SpliceIn(session.beats, i, Absent) \in Seq(Narration \cup {Absent})
          /\ Len(SpliceIn(session.beats, i, Absent)) = Len(session.beats) + 1
      BY <2>3, Sizes, BeatSpliced
    <3>2. Len(session.beats) + 1 <= MaxShots
      BY <2>1, Sizes
    <3> QED  BY <2>1, <3>1, <3>2, Sizes, BoundedSequence
  <2>6. session'.shots \in SeqOf(Shot, MaxShots)
    <3> DEFINE shot == [beat |-> i, clip |-> clip]
    <3>1. old \in Seq(AnyShot)
      <4>1. CASE session.shots = Absent
        BY <4>1
      <4>2. CASE session.shots # Absent
        BY <4>2, Sizes, ShotsAreNumbered
      <4> QED  BY <4>1, <4>2
    <3>2. shot \in AnyShot
      BY <2>2, <2>3 DEF AnyShot
    <3> HIDE DEF shot, old
    <3>3. SpliceIn(old, i, shot) \in Seq(AnyShot)
          /\ Len(SpliceIn(old, i, shot)) = Len(old) + 1
      BY <2>3, <3>1, <3>2, SplicedShot
    <3>4. Len(old) + 1 <= MaxShots /\ Len(old) \in Nat
      BY <2>1, <3>1, Sizes
    <3> QED  BY <2>2, <3>3, <3>4, RenumberedType DEF shot
  <2> HIDE DEF old
  <2> QED  BY <1>0, <2>1, <2>4, <2>5, <2>6, TypesFollow DEF Changes, Fields
<1>3. ASSUME NEW i \in Beat, NEW line \in Lines, UpdateBeat(i, line) PROVE SessionTyped'
  <2>1. /\ Changes({"text", "voiceSync", "final"})
        /\ session'.text = [session.text EXCEPT ![i] = line]
        /\ session'.voiceSync = StaleBeat(session.voiceSync, i)
    BY <1>0, <1>3, UpdateBeatChanges
  <2>2. session'.text \in Script
    <3>1. PICK m \in 0..MaxBeats : session.text \in [1..m -> Lines]
      BY DEF SessionTyped, Script, SeqOf
    <3>2. session'.text \in [1..m -> Lines]
      BY <2>1, <3>1
    <3> QED  BY <3>1, <3>2 DEF Script, SeqOf
  <2>3. session'.voiceSync \in VoiceSync
    <3>1. session.voiceSync \in VoiceSync
      BY DEF SessionTyped
    <3>2. StaleBeat(session.voiceSync, i) \in VoiceSync
      BY <3>1 DEF StaleBeat, VoiceSync
    <3> QED  BY <2>1, <3>2
  <2> QED  BY <1>0, <2>1, <2>2, <2>3, TypesFollow DEF Changes, Fields
<1>4. ASSUME NEW i \in Beat, DeleteBeat(i) PROVE SessionTyped'
  <2> DEFINE found == ShotsOf(session, i)
             left == IF found = {} THEN session.shots ELSE RemoveAt(session.shots, FirstOf(found))
  <2>1. /\ Changes({"text", "beats", "shots", "voiceSync", "final"})
        /\ session'.voiceSync = NeverSynced
        /\ session.shots # Absent /\ i \in Indices(session.text)
        /\ session'.text = RemoveAt(session.text, i)
        /\ session'.beats = SpliceOut(session.beats, i)
        /\ session'.shots = Renumbered(left)
    BY <1>0, <1>4, DeleteBeatChanges DEF Resets
  <2>2. i \in Nat \ {0} /\ i \in 1..Len(session.text)
    BY <2>1, Sizes DEF Indices
  <2>3. session'.text \in Script
    <3>1. RemoveAt(session.text, i) \in Seq(Lines)
          /\ Len(RemoveAt(session.text, i)) = Len(session.text) - 1
      BY <2>2, Sizes, Removed
    <3> QED  BY <2>1, <3>1, Sizes, BoundedSequence DEF Script
  <2>4. session'.beats \in SeqOf(Narration \cup {Absent}, MaxShots)
    <3>1. Absent \in Narration \cup {Absent}
      OBVIOUS
    <3>2. SpliceOut(session.beats, i) \in Seq(Narration \cup {Absent})
          /\ Len(SpliceOut(session.beats, i)) <= Len(session.beats)
      BY <2>2, <3>1, Sizes, Spliced
    <3>3. Len(SpliceOut(session.beats, i)) <= MaxShots
      BY <3>2, Sizes
    <3> QED  BY <2>1, <3>2, <3>3, Sizes, BoundedSequence
  <2>5. session'.shots \in SeqOf(Shot, MaxShots)
    <3>1. session.shots \in Seq(Shot) /\ Len(session.shots) <= MaxShots
          /\ Len(session.shots) \in Nat
      BY <2>1, Sizes
    <3>2. left \in Seq(Shot) /\ Len(left) <= MaxShots
      <4>1. CASE found = {}
        BY <3>1, <4>1
      <4>2. CASE found # {}
        <5>1. found \subseteq 1..Len(session.shots)
          BY <2>1 DEF ShotsOf, Indices
        <5>2. FirstOf(found) \in found
          <6>1. \E n \in found : \A m \in found : n <= m
            <7>1. found \subseteq Nat
              BY <3>1, <5>1
            <7> QED  BY <4>2, <7>1, LeastOf
          <6> QED  BY <6>1 DEF FirstOf
        <5>3. RemoveAt(session.shots, FirstOf(found)) \in Seq(Shot)
              /\ Len(RemoveAt(session.shots, FirstOf(found))) = Len(session.shots) - 1
          BY <3>1, <5>1, <5>2, Removed
        <5>4. left = RemoveAt(session.shots, FirstOf(found))
          BY <4>2
        <5>5. left \in Seq(Shot) /\ Len(left) = Len(session.shots) - 1
          BY <5>3, <5>4
        <5> HIDE DEF left
        <5> QED  BY <3>1, <5>5, ShotsForBeats
      <4> QED  BY <4>1, <4>2
    <3> HIDE DEF left
    <3> QED  BY <2>1, <3>2, ShotsAreNumbered, RenumberedType
  <2> HIDE DEF left
  <2> QED  BY <1>0, <2>1, <2>3, <2>4, <2>5, TypesFollow DEF Changes, Fields
<1> QED  BY <1>1, <1>2, <1>3, <1>4 DEF ScriptStep

LEMMA ClipTypes ==
    ASSUME SessionTyped, ClipStep
    PROVE  SessionTyped'
<1>0. Shape
  BY DEF SessionTyped
<1>1. CASE PlanShots
  <2>1. PICK plan \in [Indices(session.text) -> Indices(session.text)] :
            session' = [session EXCEPT !.plan = plan]
    BY <1>1 DEF PlanShots, Store
  <2>2. plan \in SeqOf(Beat, MaxBeats)
    <3>1. Indices(session.text) = 1..Len(session.text) /\ Len(session.text) \in 0..MaxBeats
      BY Sizes DEF Indices
    <3>2. Indices(session.text) \subseteq Beat
      BY <3>1, MaxBeatsPositive DEF Beat
    <3>3. plan \in [1..Len(session.text) -> Beat]
      BY <3>1, <3>2
    <3> QED  BY <3>1, <3>3 DEF SeqOf
  <2>3. Changes({"plan"}) /\ session'.plan = plan
    BY <1>0, <2>1 DEF Shape, Fields, Changes
  <2> QED  BY <2>2, <2>3, TypesFollow DEF Changes, Fields
<1>2. CASE SearchShots
  <2>1. PICK clips \in [Indices(session.plan) -> Clips \cup {Absent}] :
            session' = NotRendered([session EXCEPT
                !.shots = [i \in Indices(session.plan) |->
                    [beat |-> session.plan[i], clip |-> clips[i]]]])
    BY <1>2 DEF SearchShots, Store
  <2> DEFINE shots == [i \in Indices(session.plan) |->
                          [beat |-> session.plan[i], clip |-> clips[i]]]
  <2>2. PICK m \in 0..MaxBeats : session.plan \in [1..m -> Beat]
    BY <1>2 DEF SessionTyped, SearchShots, SeqOf
  <2>3. m \in Nat /\ m \in 0..MaxShots /\ Indices(session.plan) = 1..m
    BY <2>2, ShotsForBeats, MaxBeatsPositive DEF Indices
  <2>4. ASSUME NEW i \in 1..m
        PROVE  [beat |-> session.plan[i], clip |-> clips[i]] \in Shot
    <3>1. session.plan[i] \in 1..MaxShots
      BY <2>2, ShotsForBeats, MaxBeatsPositive DEF Beat
    <3>2. clips[i] \in Clips \cup {Absent}
      BY <2>3
    <3> QED  BY <3>1, <3>2 DEF Shot
  <2>5. shots \in [1..m -> Shot]
    BY <2>3, <2>4
  <2>6. shots \in SeqOf(Shot, MaxShots)
    BY <2>3, <2>5 DEF SeqOf
  <2> HIDE DEF shots
  <2>7. Changes({"shots", "final"}) /\ session'.shots = shots
    BY <1>0, <2>1 DEF NotRendered, Shape, Fields, Changes, shots
  <2> QED  BY <2>6, <2>7, TypesFollow DEF Changes, Fields
<1>3. ASSUME NEW b \in Beat, NEW clip \in Clips \cup {Absent}, ChangeClip(b, clip)
      PROVE  SessionTyped'
  <2> DEFINE k == FirstOf(ShotsOf(session, b))
             shots == [session.shots EXCEPT ![k] = [@ EXCEPT !.clip = clip]]
  <2>1. session.shots # Absent
    BY <1>3 DEF ChangeClip, ShotsOf
  <2>2. PICK m \in 0..MaxShots : session.shots \in [1..m -> Shot]
    BY <2>1 DEF SessionTyped, SeqOf
  <2>3. \A x \in Shot : [x EXCEPT !.clip = clip] \in Shot
    BY DEF Shot
  <2>4. shots \in [1..m -> Shot]
    <3>1. ASSUME NEW i \in 1..m PROVE shots[i] \in Shot
      BY <2>2, <2>3
    <3> QED  BY <2>2, <3>1
  <2>5. shots \in SeqOf(Shot, MaxShots)
    BY <2>4 DEF SeqOf
  <2>6. session' = NotRendered([session EXCEPT !.shots = shots])
    BY <1>0, <1>3 DEF ChangeClip, Store, Shape, Fields
  <2> HIDE DEF shots, k
  <2>7. Changes({"shots", "final"}) /\ session'.shots = shots
    BY <1>0, <2>6 DEF NotRendered, Shape, Fields, Changes
  <2> QED  BY <2>5, <2>7, TypesFollow DEF Changes, Fields
<1>4. ASSUME NEW cuts \in SeqOf(Beat, MaxBeats - 1), UpdateCuts(cuts) PROVE SessionTyped'
  <2>1. /\ Changes({"cuts", "cutsDisabled", "final"}) /\ session'.cuts = cuts
        /\ session'.cutsDisabled \in BOOLEAN
    BY <1>0, <1>4 DEF UpdateCuts, Store, NotRendered, Shape, Fields, Changes
  <2> QED  BY <1>4, <2>1, TypesFollow DEF Changes, Fields
<1>5. CASE Restyle
  <2>1. Changes({"final"})
    BY <1>0, <1>5 DEF Restyle, Store, NotRendered, Shape, Fields, Changes
  <2> QED  BY <2>1, TypesFollow DEF Changes, Fields
<1> QED  BY <1>1, <1>2, <1>3, <1>4, <1>5 DEF ClipStep

LEMMA SyncedType ==
    ASSUME SessionTyped, NEW voice \in Voices
    PROVE  Synced(voice) \in VoiceSync
<1>1. PrintFor(voice) \in [text : Script, voice : Voices]
  BY DEF SessionTyped, PrintFor
<1> QED  BY <1>1 DEF Synced, VoiceSync

(* What a sync generates, beat for beat *)
BeatsAfter(mode, voice) ==
    [b \in 1..IF Len(session.beats) > Len(session.text)
              THEN Len(session.beats) ELSE Len(session.text) |->
        IF b \in Generated(mode, voice)
        THEN [text |-> session.text[b], voice |-> voice] ELSE NarrationOf(session, b)]

LEMMA Generates ==
    ASSUME SessionTyped, NEW mode, NEW voice \in Voices, SyncGenerating(mode, voice)
    PROVE  /\ session'.beats = BeatsAfter(mode, voice)
           /\ BeatsAfter(mode, voice) \in SeqOf(Narration \cup {Absent}, MaxShots)
           /\ \A b \in Indices(session.text) :
                  BeatsAfter(mode, voice)[b] = [text |-> session.text[b], voice |-> voice]
           /\ Len(BeatsAfter(mode, voice)) \in Nat
           /\ Len(BeatsAfter(mode, voice)) >= Len(session.text)
<1> DEFINE n == IF Len(session.beats) > Len(session.text)
                THEN Len(session.beats) ELSE Len(session.text)
<1>0. Shape /\ Len(session.beats) \in Nat /\ Len(session.text) \in Nat
  BY Sizes DEF SessionTyped
<1>1. n \in 0..MaxShots /\ n \in Nat /\ n >= Len(session.text) /\ n >= Len(session.beats)
  BY <1>0, Sizes, ShotsForBeats
<1>2. session'.beats = BeatsAfter(mode, voice)
  <2>1. session' = [session EXCEPT
             !.beats = BeatsAfter(mode, voice), !.captions = session.text,
             !.voice = voice, !.voiceSync = Synced(voice)]
    BY DEF SyncGenerating, Store, BeatsAfter
  <2> QED  BY <1>0, <2>1 DEF Shape, Fields
<1>3. BeatsAfter(mode, voice) = [b \in 1..n |->
          IF b \in Generated(mode, voice)
          THEN [text |-> session.text[b], voice |-> voice] ELSE NarrationOf(session, b)]
  BY DEF BeatsAfter
<1> HIDE DEF n
<1>4. ASSUME NEW b \in Indices(session.text)
      PROVE  BeatsAfter(mode, voice)[b] = [text |-> session.text[b], voice |-> voice]
  <2>1. b \in 1..n
    BY <1>0, <1>1 DEF Indices
  <2> QED  BY <1>3, <2>1 DEF Generated
<1>5. ASSUME NEW b \in 1..n
      PROVE  BeatsAfter(mode, voice)[b] \in Narration \cup {Absent}
  <2>1. CASE b \in Indices(session.text)
    <3>1. session.text[b] \in Lines
      BY <2>1, Sizes DEF Indices
    <3>2. [text |-> session.text[b], voice |-> voice] \in Narration
      BY <3>1 DEF Narration
    <3> QED  BY <1>4, <2>1, <3>2
  <2>2. CASE b \notin Indices(session.text)
    <3>1. b \notin Generated(mode, voice)
      BY <2>2 DEF Generated, Targets
    <3>2. NarrationOf(session, b) \in Narration \cup {Absent}
      BY Sizes DEF NarrationOf, Indices
    <3> QED  BY <1>3, <3>1, <3>2
  <2> QED  BY <2>1, <2>2
<1>6. BeatsAfter(mode, voice) \in [1..n -> Narration \cup {Absent}]
  BY <1>3, <1>5
<1>7. BeatsAfter(mode, voice) \in SeqOf(Narration \cup {Absent}, MaxShots)
  BY <1>1, <1>6 DEF SeqOf
<1>8. Len(BeatsAfter(mode, voice)) = n
  BY <1>1, <1>6
<1> QED  BY <1>1, <1>2, <1>4, <1>7, <1>8

LEMMA VoiceTypes ==
    ASSUME SessionTyped, VoiceStep
    PROVE  SessionTyped'
<1>0. Shape /\ session.text \in Script
  BY DEF SessionTyped
<1>1. CASE TimeCaptions
  <2>1. Changes({"captions", "final"}) /\ session'.captions = session.text
    BY <1>0, <1>1, VoiceChanges
  <2> QED  BY <1>0, <2>1, TypesFollow DEF Changes, Fields
<1>2. ASSUME NEW voice \in Voices, SyncCached(voice) PROVE SessionTyped'
  <2>1. Changes({"voiceSync"}) /\ session'.voiceSync = Synced(voice)
    BY <1>0, <1>2, VoiceChanges
  <2> QED  BY <2>1, SyncedType, TypesFollow DEF Changes, Fields
<1>3. ASSUME NEW mode, NEW voice \in Voices, SyncGenerating(mode, voice) PROVE SessionTyped'
  <2>1. /\ Changes({"beats", "captions", "voice", "voiceSync"})
        /\ session'.captions = session.text /\ session'.voice = voice
        /\ session'.voiceSync = Synced(voice)
    BY <1>0, <1>3, VoiceChanges
  <2>2. session'.beats \in SeqOf(Narration \cup {Absent}, MaxShots)
    BY <1>3, Generates
  <2> QED  BY <1>0, <2>1, <2>2, SyncedType, TypesFollow DEF Changes, Fields
<1> QED  BY <1>1, <1>2, <1>3 DEF VoiceStep

LEMMA RenderTypes ==
    ASSUME SessionTyped, Render
    PROVE  SessionTyped'
<1>1. /\ Changes({"cuts", "final"})
      /\ session'.cuts = IF PlayedCuts(session) = Classic THEN session.cuts
                         ELSE PlayedCuts(session)
  BY RenderChanges DEF SessionTyped
<1>2. session'.cuts \in SeqOf(Beat, MaxBeats - 1)
  <2>1. session.cuts \in SeqOf(Beat, MaxBeats - 1)
    BY DEF SessionTyped
  <2>2. ASSUME MayCut(session) PROVE AutoCuts(session) \in SeqOf(Beat, MaxBeats - 1)
    <3> DEFINE n == Len(session.text) - 1
    <3>1. n \in Nat /\ n \in 0..MaxBeats - 1
      BY <2>2, Sizes DEF MayCut
    <3>2. \A i \in 1..n : i + 1 \in Beat
      BY <3>1, Sizes DEF Beat
    <3>3. AutoCuts(session) \in [1..n -> Beat]
      BY <3>2 DEF AutoCuts
    <3> HIDE DEF n
    <3> QED  BY <3>1, <3>3 DEF SeqOf
  <2>3. \/ PlayedCuts(session) = Classic
        \/ MayCut(session) /\ PlayedCuts(session) = AutoCuts(session)
        \/ PlayedCuts(session) = session.cuts
    BY DEF PlayedCuts
  <2> QED  BY <1>1, <2>1, <2>2, <2>3
<1> QED  BY <1>1, <1>2, TypesFollow DEF Changes, Fields

-----------------------------------------------------------------------------
(* What is spoken and captioned *)

(* A step that changes no script, voice or narration, and captions only with
   the script. *)
LEMMA VoicedSame ==
    ASSUME SessionTyped, Voiced,
           session'.text = session.text, session'.voice = session.voice,
           session'.beats = session.beats, session'.voiceSync = session.voiceSync,
           session'.captions = session.captions \/ session'.captions = session.text
    PROVE  Voiced'
<1>1. session.text # Absent
  BY AbsentIsNothing DEF SessionTyped, Script
<1>2. \A b : NarrationOf(session, b)' = NarrationOf(session, b)
  BY DEF NarrationOf
<1> QED  BY <1>1, <1>2 DEF Voiced

LEMMA VoicedReset == ASSUME session'.voiceSync = NeverSynced PROVE Voiced'
BY DEF Voiced, NeverSynced

(* A sync, of whatever was to be generated. *)
LEMMA VoicedSync ==
    ASSUME SessionTyped, NEW voice \in Voices,
           session'.voiceSync = Synced(voice),
           session'.text = session.text, session'.voice = voice,
           session'.captions # Absent, Len(session'.captions) = Len(session.text),
           \A b \in Indices(session.text) :
               NarrationOf(session, b)' = [text |-> session.text[b], voice |-> voice]
    PROVE  Voiced'
<1> DEFINE print == session'.voiceSync.print
<1>1. /\ session'.voiceSync.state = "current"
      /\ session'.voiceSync.stale = {}
      /\ print = PrintFor(voice)
  BY DEF Synced
<1>2. print \in [text : SeqOf(Lines, MaxBeats), voice : Voices]
  BY <1>1 DEF PrintFor, SessionTyped, Script
<1>3. print # Absent /\ print.text = session.text /\ print.voice = voice
  <2>1. print # Absent
    <3> HIDE DEF print
    <3> QED  BY <1>2, AbsentIsNothing
  <2> QED  BY <1>1, <2>1 DEF PrintFor
<1> QED  BY <1>1, <1>3 DEF Voiced

LEMMA VoicedKept ==
    ASSUME SessionTyped, Voiced, SessionNext
    PROVE  Voiced'
<1>0. Shape /\ session.text # Absent
  BY AbsentIsNothing DEF SessionTyped, Script
<1>1. ASSUME NEW text, Generate(text) \/ UpdateScript(text) PROVE Voiced'
  BY <1>0, <1>1, ScriptChanges, VoicedReset DEF Resets
<1>2. ASSUME NEW i, NEW line, InsertBeat(i, line) PROVE Voiced'
  BY <1>0, <1>2, InsertBeatChanges, VoicedReset DEF Resets
<1>3. ASSUME NEW i, DeleteBeat(i) PROVE Voiced'
  BY <1>0, <1>3, DeleteBeatChanges, VoicedReset DEF Resets
<1>4. ASSUME NEW i \in Beat, NEW line \in Lines, UpdateBeat(i, line) PROVE Voiced'
  <2>1. /\ Changes({"text", "voiceSync", "final"})
        /\ session'.text = [session.text EXCEPT ![i] = line]
        /\ session'.voiceSync = StaleBeat(session.voiceSync, i)
    BY <1>0, <1>4, UpdateBeatChanges
  <2>2. /\ session'.voice = session.voice /\ session'.beats = session.beats
        /\ session'.captions = session.captions
    BY <2>1 DEF Changes, Fields
  <2>3. /\ Len(session'.text) = Len(session.text)
        /\ Indices(session'.text) = Indices(session.text)
        /\ \A b \in Indices(session.text) : b # i => session'.text[b] = session.text[b]
    BY <2>1, Sizes DEF Indices
  <2>4. \A b : NarrationOf(session, b)' = NarrationOf(session, b)
    BY <2>2 DEF NarrationOf
  <2>5. CASE session.voiceSync.state = "never_synced"
    <3>1. session'.voiceSync = session.voiceSync
      BY <2>1, <2>5 DEF StaleBeat
    <3> QED  BY <2>5, <3>1 DEF Voiced
  <2>6. CASE session.voiceSync.state # "never_synced"
    <3>1. /\ session'.voiceSync.state = "stale"
          /\ session'.voiceSync.stale = session.voiceSync.stale \cup {i}
          /\ session'.voiceSync.print = session.voiceSync.print
      BY <2>1, <2>6 DEF StaleBeat, SessionTyped, VoiceSync
    <3> QED  BY <2>2, <2>3, <2>4, <2>6, <3>1 DEF Voiced
  <2> QED  BY <2>5, <2>6
<1>5. CASE ClipStep
  <2>1. Changes({"plan", "shots", "cuts", "cutsDisabled", "final"})
    BY <1>0, <1>5, ClipChanges
  <2> QED  BY <2>1, VoicedSame DEF Changes, Fields
<1>6. CASE Render
  <2>1. Changes({"cuts", "final"})
    BY <1>0, <1>6, RenderChanges
  <2> QED  BY <2>1, VoicedSame DEF Changes, Fields
<1>7. CASE TimeCaptions
  <2>1. Changes({"captions", "final"}) /\ session'.captions = session.text
    BY <1>0, <1>7, VoiceChanges
  <2> QED  BY <2>1, VoicedSame DEF Changes, Fields
<1>8. ASSUME NEW voice \in Voices, SyncCached(voice) PROVE Voiced'
  <2>1. Changes({"voiceSync"}) /\ session'.voiceSync = Synced(voice)
    BY <1>0, <1>8, VoiceChanges
  <2>2. /\ session'.text = session.text /\ session'.voice = session.voice
        /\ session'.beats = session.beats /\ session'.captions = session.captions
    BY <2>1 DEF Changes, Fields
  <2>3. /\ session.voiceSync.print = PrintFor(voice)
        /\ session.voice = voice
    BY <1>8 DEF SyncCached, AlreadySynced
  <2>4. session.voiceSync.print # Absent /\ session.voiceSync.print.text = session.text
    <3>1. PrintFor(voice) \in [text : SeqOf(Lines, MaxBeats), voice : Voices]
      BY DEF PrintFor, SessionTyped, Script
    <3>2. PrintFor(voice) # Absent
      BY <3>1, AbsentIsNothing
    <3> QED  BY <2>3, <3>2 DEF PrintFor
  <2>5. /\ session.captions # Absent /\ Len(session.captions) = Len(session.text)
        /\ \A b \in Indices(session.text) :
               NarrationOf(session, b) = [text |-> session.text[b], voice |-> voice]
    BY <2>3, <2>4 DEF Voiced
  <2>6. \A b : NarrationOf(session, b)' = NarrationOf(session, b)
    BY <2>2 DEF NarrationOf
  <2> QED  BY <2>1, <2>2, <2>3, <2>5, <2>6, VoicedSync
<1>9. ASSUME NEW mode, NEW voice \in Voices, SyncGenerating(mode, voice) PROVE Voiced'
  <2>1. /\ Changes({"beats", "captions", "voice", "voiceSync"})
        /\ session'.captions = session.text /\ session'.voice = voice
        /\ session'.voiceSync = Synced(voice)
    BY <1>0, <1>9, VoiceChanges
  <2>2. session'.text = session.text
    BY <2>1 DEF Changes, Fields
  <2>3. ASSUME NEW b \in Indices(session.text)
        PROVE  NarrationOf(session, b)' = [text |-> session.text[b], voice |-> voice]
    <3>1. b \in Indices(session'.beats)
      BY <1>9, Generates, Sizes DEF Indices
    <3>2. session'.beats[b] = [text |-> session.text[b], voice |-> voice]
      BY <1>9, Generates
    <3> QED  BY <3>1, <3>2 DEF NarrationOf
  <2> QED  BY <1>0, <2>1, <2>2, <2>3, VoicedSync
<1> QED
  BY <1>1, <1>2, <1>3, <1>4, <1>5, <1>6, <1>7, <1>8, <1>9
  DEF SessionNext, ScriptStep, VoiceStep

-----------------------------------------------------------------------------
(* The video of a session *)

LEMMA VideoSame ==
    ASSUME RenderedIsCurrent,
           \/ session'.final = Absent
           \/ /\ session'.final = session.final
              /\ session'.text = session.text /\ session'.shots = session.shots
              /\ session'.cuts = session.cuts
              /\ session'.cutsDisabled = session.cutsDisabled
    PROVE  RenderedIsCurrent'
<1>1. CASE session'.final = Absent
  BY <1>1 DEF RenderedIsCurrent
<1>2. CASE /\ session'.final = session.final
           /\ session'.text = session.text /\ session'.shots = session.shots
           /\ session'.cuts = session.cuts
           /\ session'.cutsDisabled = session.cutsDisabled
  <2>1. Rendered(session') = Rendered(session)
    BY <1>2, RenderedSame
  <2> QED  BY <1>2, <2>1 DEF RenderedIsCurrent
<1> QED  BY <1>1, <1>2

LEMMA VideoKept ==
    ASSUME SessionTyped, RenderedIsCurrent, SessionNext
    PROVE  RenderedIsCurrent'
<1>0. Shape
  BY DEF SessionTyped
<1>1. ASSUME NEW text, Generate(text) \/ UpdateScript(text) PROVE RenderedIsCurrent'
  BY <1>0, <1>1, ScriptChanges, VideoSame DEF Resets
<1>2. ASSUME NEW i, NEW line, InsertBeat(i, line) \/ UpdateBeat(i, line)
      PROVE  RenderedIsCurrent'
  BY <1>0, <1>2, InsertBeatChanges, UpdateBeatChanges, VideoSame DEF Resets
<1>3. ASSUME NEW i, DeleteBeat(i) PROVE RenderedIsCurrent'
  BY <1>0, <1>3, DeleteBeatChanges, VideoSame DEF Resets
<1>4. CASE ClipStep
  <2>1. session'.final = Absent \/ Changes({"plan"})
    BY <1>0, <1>4, ClipChanges
  <2> QED  BY <2>1, VideoSame DEF Changes, Fields
<1>5. CASE TimeCaptions
  BY <1>0, <1>5, VoiceChanges, VideoSame
<1>6. ASSUME NEW voice \in Voices, SyncCached(voice) PROVE RenderedIsCurrent'
  <2>1. Changes({"voiceSync"})
    BY <1>0, <1>6, VoiceChanges
  <2> QED  BY <2>1, VideoSame DEF Changes, Fields
<1>7. ASSUME NEW mode, NEW voice, SyncGenerating(mode, voice) PROVE RenderedIsCurrent'
  <2>1. Changes({"beats", "captions", "voice", "voiceSync"})
    BY <1>0, <1>7, VoiceChanges
  <2> QED  BY <2>1, VideoSame DEF Changes, Fields
<1>8. CASE Render
  BY <1>0, <1>8, RenderChanges DEF RenderedIsCurrent
<1> QED
  BY <1>1, <1>2, <1>3, <1>4, <1>5, <1>6, <1>7, <1>8
  DEF SessionNext, ScriptStep, VoiceStep

-----------------------------------------------------------------------------
(* The theorems about sessions *)

LEMMA InitSession == ASSUME SessionInit PROVE SessionInv
<1>0. /\ NeverSynced \in VoiceSync
      /\ <<>> \in SeqOf(Narration \cup {Absent}, MaxShots)
      /\ <<>> \in SeqOf(Beat, MaxBeats - 1) /\ <<>> \in Script
      /\ DefaultVoice \in Voices
  BY NeverSyncedType, EmptyTypes, DefaultIsVoice
<1>1. ASSUME NEW text \in Script, NEW shots, shots = Absent \/ shots \in SeqOf(Shot, MaxShots),
             session \in {[EmptySession EXCEPT !.text = text, !.shots = shots],
                         [EmptySession EXCEPT !.text = text], EmptySession},
             session.text = text, session.shots = shots
      PROVE  SessionInv
  <2>1. /\ Shape /\ session.text = text /\ session.shots = shots
        /\ session.voice = DefaultVoice
        /\ session.plan = Absent /\ session.captions = Absent /\ session.final = Absent
        /\ session.beats = <<>> /\ session.cuts = <<>> /\ session.cutsDisabled = FALSE
        /\ session.voiceSync = NeverSynced
    <3>1. CASE session = EmptySession
      BY <1>1, <3>1 DEF EmptySession, Shape, Fields
    <3>2. CASE session = [EmptySession EXCEPT !.text = text]
      BY <1>1, <3>2 DEF EmptySession, Shape, Fields
    <3>3. CASE session = [EmptySession EXCEPT !.text = text, !.shots = shots]
      BY <1>1, <3>3 DEF EmptySession, Shape, Fields
    <3> QED  BY <1>1, <3>1, <3>2, <3>3
  <2>2. SessionTyped
    BY <1>0, <1>1, <2>1 DEF SessionTyped
  <2>3. Voiced
    BY <2>1 DEF Voiced, NeverSynced
  <2>4. RenderedIsCurrent
    BY <2>1 DEF RenderedIsCurrent
  <2> QED  BY <2>2, <2>3, <2>4 DEF SessionInv
<1>2. CASE session = EmptySession
  <2>1. session.text = <<>> /\ session.shots = Absent
    BY <1>2 DEF EmptySession
  <2> QED  BY <1>0, <1>1, <1>2, <2>1
<1>3. ASSUME NEW text \in Script, session = [EmptySession EXCEPT !.text = text]
      PROVE  SessionInv
  <2>1. session.text = text /\ session.shots = Absent
    BY <1>3 DEF EmptySession
  <2> QED  BY <1>1, <1>3, <2>1
<1>4. ASSUME NEW text \in Script, NEW clips \in [Indices(text) -> Clips],
             session = [EmptySession EXCEPT !.text = text,
                 !.shots = [i \in Indices(text) |-> [beat |-> i, clip |-> clips[i]]]]
      PROVE  SessionInv
  <2> DEFINE shots == [i \in Indices(text) |-> [beat |-> i, clip |-> clips[i]]]
  <2>1. Len(text) \in 0..MaxShots /\ Indices(text) = 1..Len(text)
    BY BoundedSequence, MaxBeatsPositive, ShotsForBeats DEF Script, Indices
  <2>2. \A i \in 1..Len(text) : [beat |-> i, clip |-> clips[i]] \in Shot
    BY <2>1, ShotsForBeats DEF Shot
  <2>3. shots \in [1..Len(text) -> Shot]
    BY <2>1, <2>2
  <2>4. shots \in SeqOf(Shot, MaxShots)
    BY <2>1, <2>3 DEF SeqOf
  <2> HIDE DEF shots
  <2>5. session = [EmptySession EXCEPT !.text = text, !.shots = shots]
    BY <1>4 DEF shots
  <2>6. session.text = text /\ session.shots = shots
    BY <2>5 DEF EmptySession
  <2> QED  BY <1>1, <2>4, <2>5, <2>6
<1> QED  BY <1>2, <1>3, <1>4 DEF SessionInit

LEMMA NextSession == ASSUME SessionInv, [SessionNext]_session PROVE SessionInv'
<1>1. CASE SessionNext
  <2>1. SessionTyped'
    BY <1>1, ScriptTypes, ClipTypes, VoiceTypes, RenderTypes DEF SessionNext, SessionInv
  <2> QED  BY <1>1, <2>1, VoicedKept, VideoKept DEF SessionInv
<1>2. CASE UNCHANGED session
  <2>1. SessionTyped'
    BY <1>2 DEF SessionInv, SessionTyped, Shape
  <2>2. Voiced'
    BY <1>2 DEF SessionInv, Voiced, NarrationOf
  <2>3. RenderedIsCurrent'
    BY <1>2 DEF SessionInv, RenderedIsCurrent
  <2> QED  BY <2>1, <2>2, <2>3 DEF SessionInv
<1> QED  BY <1>1, <1>2

(* The invariant holds of every session that the operations of story.service.js
   can store, and so do the types of its fields. *)
THEOREM SessionInvariance == SessionSpec => []SessionInv
<1>1. SessionInit => SessionInv
  BY InitSession
<1>2. SessionInv /\ [SessionNext]_session => SessionInv'
  BY NextSession
<1> QED  BY <1>1, <1>2, PTL DEF SessionSpec

(* Every field keeps its type, whatever a sequence of operations makes of beats,
   shots and cuts: no list outgrows its bound. *)
THEOREM SessionTypes == SessionSpec => []SessionTypeOK
<1>1. SessionInv => SessionTypeOK
  <2> SUFFICES ASSUME SessionInv PROVE SessionTypeOK
    OBVIOUS
  <2>1. session.shots # Absent => \A i \in Indices(session.shots) : session.shots[i] \in Shot
    BY Sizes DEF SessionInv, Indices
  <2>2. \A b \in Indices(session.beats) : session.beats[b] \in Narration \cup {Absent}
    BY Sizes DEF SessionInv, Indices
  <2> QED  BY <2>1, <2>2 DEF SessionInv, SessionTyped, SessionTypeOK
<1> QED  BY <1>1, SessionInvariance, PTL

(* A session whose voice is current has the narration and a caption of every
   beat, and one that is stale knows the beats that it lacks: for any number of
   edits, insertions, deletions and syncs between two of them. *)
THEOREM Voicing == SessionSpec => []SessionIsVoiced
<1>1. SessionInv => SessionIsVoiced
  BY DEF SessionInv, Voiced, SessionIsVoiced, NarrationKnown, CaptionPerBeat
<1> QED  BY <1>1, SessionInvariance, PTL

(* No operation leaves a final video behind that shows another script, other
   clips or other cuts than the session. *)
THEOREM VideoIsCurrent == SessionSpec => []RenderedIsCurrent
<1>1. SessionInv => RenderedIsCurrent
  BY DEF SessionInv
<1> QED  BY <1>1, SessionInvariance, PTL

-----------------------------------------------------------------------------
(* The draft preview of a session *)

(* No document, stored or held by somebody who will store it, offers a preview
   of something else. *)
Honest(d) == d.state = "ready" => d.print = d.content /\ d.content \in Renderable

Known(k) == k \in PreviewKeys /\ preview[k] # None

Loaded == [pc : {"loaded", "blocked"}, key : PreviewKeys, copy : Draft]
Marking == [pc : {"marking"}, key : PreviewKeys, copy : Draft, state : Pending]

CallerOK(c) ==
    \/ c = Resting
    \/ c \in Loaded /\ Honest(c.copy) /\ (c.pc = "loaded" => c.copy.content \in Renderable)
    \/ c \in Marking /\ Known(c.key)

Rendering == [pc : {"found", "claimed", "rendering", "settling", "unlocking"}, key : PreviewKeys]
Saving == [pc : {"blocking", "starting", "uploading"}, key : PreviewKeys, copy : Draft]
Ending == [pc : {"failing", "ending"}, key : PreviewKeys, as : {"failed", "superseded"}]
RenderFailing == [pc : {"saving failure"}, key : PreviewKeys, as : {"failed", "superseded"}, copy : Draft]

Attempts == {k \in PreviewKeys : preview[k] # None}

(* What uploads shows what its attempt was prepared for, and an attempt is over
   before its lock is deleted. *)
RunnerOK(r) ==
    \/ r = Resting
    \/ /\ r \in Rendering \cup Saving \cup Ending \cup RenderFailing
       /\ Known(r.key)
       /\ r.pc = "uploading" =>
              r.copy.content = preview[r.key].print /\ r.copy.content \in Renderable
       /\ r.pc = "unlocking" => ~preview[r.key].isActive

Scanning == [found : SUBSET PreviewKeys, unlock : PreviewKeys \cup {None}]

ReaperOK(p) ==
    /\ p \in Scanning
    /\ \A k \in p.found : Known(k)
    /\ p.unlock # None => Known(p.unlock) /\ ~preview[p.unlock].isActive

PreviewInv ==
    /\ draft \in Draft /\ Honest(draft)
    /\ preview \in [PreviewKeys -> PreviewAttempt \cup {None}]
    /\ IsFiniteSet(Attempts)
    /\ \A k \in PreviewKeys : Active(k) => preview[k].state \in Pending
    /\ holder \in PreviewKeys \cup {None}
    /\ \A c \in Callers : CallerOK(caller[c])
    /\ DOMAIN caller = Callers
    /\ \A r \in Runners : RunnerOK(runner[r])
    /\ DOMAIN runner = Runners
    /\ \A p \in Reapers : ReaperOK(reaper[p])
    /\ reaper \in [Reapers -> Scanning]
    /\ writing \in [Writers -> Draft \cup {None}]
    /\ \A w \in Writers : writing[w] # None => Honest(writing[w])
    /\ saves \in 0..MaxSaves
    /\ lockLost \in BOOLEAN
    /\ OneActivePreview

(* Attempts stay, for what they were prepared for, and none becomes active that
   was not. *)
Keeps(a, b) == b # None /\ b.print = a.print /\ (b.isActive => a.isActive)

AttemptsStay ==
    /\ preview' \in [PreviewKeys -> PreviewAttempt \cup {None}]
    /\ IsFiniteSet(Attempts')
    /\ \A k \in PreviewKeys : preview[k] # None => Keeps(preview[k], preview'[k])
    /\ \A k \in PreviewKeys : Active(k)' => preview'[k].state \in Pending

NoneBegins == \A k \in PreviewKeys : preview[k] = None => preview'[k] = None

LEMMA UnchangedStay ==
    ASSUME PreviewInv, UNCHANGED preview
    PROVE  AttemptsStay /\ NoneBegins
<1>1. Attempts' = Attempts
  BY DEF Attempts
<1> QED  BY <1>1 DEF PreviewInv, AttemptsStay, NoneBegins, Keeps, Active

LEMMA OneChanges ==
    ASSUME PreviewInv, NEW k \in PreviewKeys, preview[k] # None, NEW a \in PreviewAttempt,
           preview' = [preview EXCEPT ![k] = a], a.print = preview[k].print,
           a.isActive => preview[k].isActive /\ a.state \in Pending
    PROVE  AttemptsStay /\ NoneBegins
<1>1. preview \in [PreviewKeys -> PreviewAttempt \cup {None}]
  BY DEF PreviewInv
<1>2. \A j \in PreviewKeys : preview'[j] = IF j = k THEN a ELSE preview[j]
  BY <1>1
<1>3. preview' \in [PreviewKeys -> PreviewAttempt \cup {None}]
  BY <1>1
<1>4. Attempts' = Attempts
  BY <1>2, NoneIsNoRecord DEF Attempts
<1> QED  BY <1>2, <1>3, <1>4, NoneIsNoRecord DEF PreviewInv, AttemptsStay, NoneBegins, Keeps, Active

LEMMA EndedStay ==
    ASSUME PreviewInv, NEW k \in PreviewKeys, preview[k] # None,
           NEW state \in AttemptStates, Ended(k, state)
    PROVE  AttemptsStay /\ NoneBegins /\ ~preview'[k].isActive
<1> DEFINE a == [preview[k] EXCEPT !.state = state, !.isActive = FALSE]
<1>1. preview[k] \in PreviewAttempt /\ preview \in [PreviewKeys -> PreviewAttempt \cup {None}]
  BY DEF PreviewInv
<1>2. a \in PreviewAttempt /\ a.print = preview[k].print /\ a.isActive = FALSE
  BY <1>1 DEF PreviewAttempt
<1>3. preview' = [preview EXCEPT ![k] = a]
  BY <1>1 DEF Ended
<1> HIDE DEF a
<1>4. preview'[k] = a
  BY <1>1, <1>3
<1> QED  BY <1>2, <1>3, <1>4, OneChanges

(* What somebody holds stays in order while attempts stay. *)
LEMMA HoldersStay ==
    ASSUME AttemptsStay
    PROVE  /\ \A c : CallerOK(c) => CallerOK(c)'
           /\ \A r : RunnerOK(r) => RunnerOK(r)'
           /\ \A p : ReaperOK(p) => ReaperOK(p)'
BY DEF AttemptsStay, Keeps, CallerOK, RunnerOK, ReaperOK, Known

CallerMoves == \/ UNCHANGED caller
               \/ \E c \in Callers : \E x : caller' = [caller EXCEPT ![c] = x] /\ CallerOK(x)'
RunnerMoves == \/ UNCHANGED runner
               \/ \E r \in Runners : \E x : runner' = [runner EXCEPT ![r] = x] /\ RunnerOK(x)'
ReaperMoves == \/ UNCHANGED reaper
               \/ \E p \in Reapers : \E x : reaper' = [reaper EXCEPT ![p] = x] /\ ReaperOK(x)'
WriterMoves == \/ UNCHANGED writing
               \/ \E w \in Writers, x \in Draft \cup {None} :
                      writing' = [writing EXCEPT ![w] = x] /\ (x # None => Honest(x))
DraftMoves == draft' \in Draft /\ Honest(draft')

LEMMA Frame ==
    ASSUME PreviewInv, AttemptsStay, CallerMoves, RunnerMoves, ReaperMoves, WriterMoves,
           DraftMoves, saves' \in 0..MaxSaves, lockLost' \in BOOLEAN,
           holder' \in PreviewKeys \cup {None}, OneActivePreview'
    PROVE  PreviewInv'
<1>1. DOMAIN caller' = Callers /\ \A c \in Callers : CallerOK(caller[c])'
  <2>1. DOMAIN caller = Callers /\ \A c \in Callers : CallerOK(caller[c])'
                                                     \/ caller'[c] # caller[c]
    BY HoldersStay DEF PreviewInv
  <2>2. \A c \in Callers : CallerOK(caller[c])
    BY DEF PreviewInv
  <2>3. CASE UNCHANGED caller
    BY <2>1, <2>3
  <2>4. ASSUME NEW c \in Callers, NEW x, caller' = [caller EXCEPT ![c] = x], CallerOK(x)'
        PROVE  DOMAIN caller' = Callers /\ \A d \in Callers : CallerOK(caller[d])'
    <3>1. DOMAIN caller' = Callers /\ \A d \in Callers : caller'[d] = IF d = c THEN x ELSE caller[d]
      BY <2>1, <2>4
    <3> SUFFICES ASSUME NEW d \in Callers PROVE CallerOK(caller[d])'
      BY <3>1
    <3>2. CASE d = c
      <4>1. caller'[d] = x
        BY <3>1, <3>2
      <4> QED  BY <2>4, <4>1 DEF CallerOK, Known
    <3>3. CASE d # c
      <4>1. caller'[d] = caller[d]
        BY <3>1, <3>3
      <4> QED  BY <2>1, <4>1
    <3> QED  BY <3>2, <3>3
  <2> QED  BY <2>3, <2>4 DEF CallerMoves
<1>2. DOMAIN runner' = Runners /\ \A r \in Runners : RunnerOK(runner[r])'
  <2>1. DOMAIN runner = Runners /\ \A r \in Runners : RunnerOK(runner[r])'
                                                     \/ runner'[r] # runner[r]
    BY HoldersStay DEF PreviewInv
  <2>3. CASE UNCHANGED runner
    BY <2>1, <2>3
  <2>4. ASSUME NEW r \in Runners, NEW x, runner' = [runner EXCEPT ![r] = x], RunnerOK(x)'
        PROVE  DOMAIN runner' = Runners /\ \A d \in Runners : RunnerOK(runner[d])'
    <3>1. DOMAIN runner' = Runners /\ \A d \in Runners : runner'[d] = IF d = r THEN x ELSE runner[d]
      BY <2>1, <2>4
    <3> SUFFICES ASSUME NEW d \in Runners PROVE RunnerOK(runner[d])'
      BY <3>1
    <3>2. CASE d = r
      <4>1. runner'[d] = x
        BY <3>1, <3>2
      <4> QED  BY <2>4, <4>1 DEF RunnerOK, Known
    <3>3. CASE d # r
      <4>1. runner'[d] = runner[d]
        BY <3>1, <3>3
      <4> QED  BY <2>1, <4>1
    <3> QED  BY <3>2, <3>3
  <2> QED  BY <2>3, <2>4 DEF RunnerMoves
<1>3. reaper' \in [Reapers -> Scanning] /\ \A p \in Reapers : ReaperOK(reaper[p])'
  <2>1. reaper \in [Reapers -> Scanning] /\ \A p \in Reapers : ReaperOK(reaper[p])'
                                                     \/ reaper'[p] # reaper[p]
    BY HoldersStay DEF PreviewInv
  <2>3. CASE UNCHANGED reaper
    BY <2>1, <2>3
  <2>4. ASSUME NEW p \in Reapers, NEW x, reaper' = [reaper EXCEPT ![p] = x], ReaperOK(x)'
        PROVE  reaper' \in [Reapers -> Scanning] /\ \A d \in Reapers : ReaperOK(reaper[d])'
    <3>1. reaper' \in [Reapers -> Scanning] /\ \A d \in Reapers : reaper'[d] = IF d = p THEN x ELSE reaper[d]
      BY <2>1, <2>4 DEF ReaperOK
    <3> SUFFICES ASSUME NEW d \in Reapers PROVE ReaperOK(reaper[d])'
      BY <3>1
    <3>2. CASE d = p
      <4>1. reaper'[d] = x
        BY <3>1, <3>2
      <4> QED  BY <2>4, <4>1 DEF ReaperOK, Known
    <3>3. CASE d # p
      <4>1. reaper'[d] = reaper[d]
        BY <3>1, <3>3
      <4> QED  BY <2>1, <4>1
    <3> QED  BY <3>2, <3>3
  <2> QED  BY <2>3, <2>4 DEF ReaperMoves
<1>4. writing' \in [Writers -> Draft \cup {None}]
      /\ \A w \in Writers : writing'[w] # None => Honest(writing'[w])
  <2>1. writing \in [Writers -> Draft \cup {None}]
        /\ \A w \in Writers : writing[w] # None => Honest(writing[w])
    BY DEF PreviewInv
  <2>2. ASSUME NEW w \in Writers, NEW x \in Draft \cup {None},
               writing' = [writing EXCEPT ![w] = x], x # None => Honest(x)
        PROVE  writing' \in [Writers -> Draft \cup {None}]
               /\ \A v \in Writers : writing'[v] # None => Honest(writing'[v])
    <3>1. \A v \in Writers : writing'[v] = IF v = w THEN x ELSE writing[v]
      BY <2>1, <2>2
    <3> QED  BY <2>1, <2>2, <3>1
  <2> QED  BY <2>1, <2>2 DEF WriterMoves
<1> QED  BY <1>1, <1>2, <1>3, <1>4 DEF PreviewInv, AttemptsStay, DraftMoves, Honest

(* While the lock of the session stays, so does what holds it. *)
LEMMA LockStays ==
    ASSUME PreviewInv, AttemptsStay, NoneBegins, UNCHANGED <<holder, lockLost>>
    PROVE  /\ holder' \in PreviewKeys \cup {None} /\ lockLost' \in BOOLEAN
           /\ OneActivePreview'
<1>2. \A k \in PreviewKeys : Active(k)' => Active(k)
  BY DEF AttemptsStay, NoneBegins, Keeps, Active
<1>3. holder' = holder /\ lockLost' = lockLost
  OBVIOUS
<1> QED  BY <1>2, <1>3 DEF PreviewInv, OneActivePreview

(* A lock that is deleted held nothing that is still active, or it is lost. *)
LEMMA LockDeleted ==
    ASSUME PreviewInv, AttemptsStay, UNCHANGED preview, NEW k \in PreviewKeys,
           preview[k] # None, ~preview[k].isActive, DeleteLock(k)
    PROVE  /\ holder' \in PreviewKeys \cup {None} /\ lockLost' \in BOOLEAN
           /\ OneActivePreview'
<1>1. ASSUME ~lockLost', NEW j \in PreviewKeys, Active(j)' PROVE FALSE
  <2>1. Active(j) /\ ~lockLost /\ holder \in {None, k}
    BY <1>1 DEF DeleteLock, Active, PreviewInv
  <2>2. holder = j
    BY <2>1 DEF PreviewInv, OneActivePreview
  <2> QED  BY <2>1, <2>2, NoneIsNothing DEF Active
<1> QED  BY <1>1 DEF DeleteLock, OneActivePreview, PreviewInv

-----------------------------------------------------------------------------
(* Requests *)

LEMMA CallersKept ==
    ASSUME PreviewInv, NEW c \in Callers, CallerStep(c)
    PROVE  PreviewInv'
<1>0. /\ draft \in Draft /\ Honest(draft) /\ CallerOK(caller[c])
      /\ preview \in [PreviewKeys -> PreviewAttempt \cup {None}]
      /\ saves \in 0..MaxSaves /\ lockLost \in BOOLEAN
      /\ holder \in PreviewKeys \cup {None}
  BY DEF PreviewInv
<1>1. /\ caller[c].pc \in {"loaded", "blocked"} =>
             /\ caller[c] \in Loaded /\ Honest(caller[c].copy)
             /\ caller[c].pc = "loaded" => caller[c].copy.content \in Renderable
      /\ caller[c].pc = "marking" => caller[c] \in Marking /\ Known(caller[c].key)
  BY <1>0 DEF CallerOK, Resting, Loaded, Marking
<1>2. ASSUME UNCHANGED <<preview, holder, runner, reaper, writing, saves, lockLost>>,
             CallerMoves, DraftMoves
      PROVE  PreviewInv'
  <2>1. AttemptsStay /\ NoneBegins
    BY <1>2, UnchangedStay
  <2>2. RunnerMoves /\ ReaperMoves /\ WriterMoves /\ saves' \in 0..MaxSaves
    BY <1>0, <1>2 DEF RunnerMoves, ReaperMoves, WriterMoves
  <2>3. /\ holder' \in PreviewKeys \cup {None} /\ lockLost' \in BOOLEAN
        /\ OneActivePreview'
    BY <1>2, <2>1, LockStays
  <2> QED  BY <1>2, <2>1, <2>2, <2>3, Frame
<1>3. ASSUME UNCHANGED draft PROVE DraftMoves
  BY <1>0, <1>3 DEF DraftMoves
<1>4. ASSUME caller' = [caller EXCEPT ![c] = Resting] PROVE CallerMoves
  BY <1>4 DEF CallerMoves, CallerOK
<1>5. ASSUME NEW k \in PreviewKeys, Receive(c, k) PROVE PreviewInv'
  <2> DEFINE pc == IF draft.content \in Renderable THEN "loaded" ELSE "blocked"
             x == Holding(pc, k, draft)
  <2>1. x \in Loaded /\ x.copy = draft /\ x.pc = pc
    BY <1>0 DEF Holding, Loaded
  <2>2. caller' = [caller EXCEPT ![c] = x]
    BY <1>5 DEF Receive
  <2> HIDE DEF x
  <2>3. CallerMoves
    BY <1>0, <2>1, <2>2 DEF CallerMoves, CallerOK
  <2> QED  BY <1>2, <1>3, <1>5, <2>3 DEF Receive
<1>6. CASE AnswerBlocked(c)
  <2>1. caller[c].copy.content \in Contents
    BY <1>1, <1>6 DEF AnswerBlocked, Loaded, Draft
  <2>2. DraftMoves
    BY <1>6, <2>1 DEF AnswerBlocked, Blocked, DraftMoves, Draft, DraftStates, Honest
  <2> QED  BY <1>2, <1>4, <1>6, <2>2 DEF AnswerBlocked
<1>7. CASE Reuse(c)
  <2> DEFINE k == Shared(c)
             a == preview[k]
             st == IF a.state = "running" THEN "running" ELSE "queued"
             x == [pc |-> "marking", key |-> k, copy |-> caller[c].copy, state |-> st]
  <2>1. caller[c] \in Loaded
    BY <1>1, <1>7 DEF Reuse
  <2>2. Known(k)
    <3>1. caller[c].key \in PreviewKeys
      BY <2>1 DEF Loaded
    <3> QED  BY <1>0, <1>7, <3>1 DEF Reuse, MayEnqueue, HeldBy, Shared, Known
  <2>3. x \in Marking
    <3>1. st \in Pending
      BY DEF Pending
    <3> HIDE DEF st, k
    <3> QED  BY <2>1, <2>2, <3>1 DEF Marking, Loaded, Known
  <2>4. UNCHANGED preview /\ (caller' = [caller EXCEPT ![c] = x]
                              \/ caller' = [caller EXCEPT ![c] = Resting])
    BY <1>7 DEF Reuse
  <2>5. x.key = k
    OBVIOUS
  <2> HIDE DEF x, k
  <2>6. CallerMoves
    BY <1>4, <2>2, <2>3, <2>4, <2>5 DEF CallerMoves, CallerOK, Known
  <2> QED  BY <1>2, <1>3, <1>7, <2>6 DEF Reuse
<1>8. CASE Enqueue(c)
  <2> DEFINE k == caller[c].key
             age == Cardinality({j \in PreviewKeys : preview[j] # None})
             new == [print |-> caller[c].copy.content, state |-> "queued", isActive |-> TRUE,
                     lapsed |-> FALSE, age |-> age]
             x == [pc |-> "marking", key |-> k, copy |-> caller[c].copy, state |-> "queued"]
  <2>1. /\ k \in PreviewKeys /\ preview[k] = None
        /\ caller[c].copy \in Draft /\ caller[c].copy.content \in Renderable
    BY <1>1, <1>8 DEF Enqueue, MayEnqueue, Loaded
  <2>2. age \in Nat
    BY FS_CardinalityType DEF PreviewInv, Attempts
  <2>3. new \in PreviewAttempt
    <3> HIDE DEF age
    <3> QED  BY <2>1, <2>2 DEF PreviewAttempt, AttemptStates
  <2>4. x \in Marking /\ x.key = k
    BY <2>1 DEF Marking, Pending
  <2>5. /\ preview' = [j \in PreviewKeys |->
               CASE j = k -> new
                 [] j = holder /\ HeldBy(holder) -> Superseded(preview[j])
                 [] OTHER -> preview[j]]
        /\ holder' = k
        /\ caller' = [caller EXCEPT ![c] = x]
        /\ UNCHANGED <<draft, runner, reaper, writing, saves, lockLost>>
    BY <1>8 DEF Enqueue
  <2>6. new.isActive = TRUE /\ new.state = "queued"
    OBVIOUS
  <2> HIDE DEF k, new, x, age
  <2>7. \A j \in PreviewKeys :
           /\ j = k => preview'[j] = new
           /\ j # k /\ j = holder /\ HeldBy(holder) => preview'[j] = Superseded(preview[j])
           /\ j # k /\ ~(j = holder /\ HeldBy(holder)) => preview'[j] = preview[j]
    BY <2>1, <2>5 DEF HeldBy
  <2>8. ASSUME NEW j \in PreviewKeys, HeldBy(j)
        PROVE  /\ Superseded(preview[j]) \in PreviewAttempt
               /\ Superseded(preview[j]).print = preview[j].print
               /\ Superseded(preview[j]).isActive = FALSE
    <3>1. preview[j] \in PreviewAttempt
      BY <1>0, <2>8 DEF HeldBy
    <3> QED  BY <3>1 DEF Superseded, PreviewAttempt, AttemptStates
  <2>9. \A j \in PreviewKeys : preview'[j] \in PreviewAttempt \cup {None}
    BY <1>0, <2>3, <2>7, <2>8
  <2>10. preview' \in [PreviewKeys -> PreviewAttempt \cup {None}]
    BY <2>5, <2>9
  <2>11. IsFiniteSet(Attempts')
    <3>1. Attempts' \subseteq Attempts \cup {k}
      BY <2>7 DEF Attempts, HeldBy
    <3>2. IsFiniteSet(Attempts \cup {k})
      BY FS_AddElement DEF PreviewInv
    <3> QED  BY <3>1, <3>2, FS_Subset
  <2>12. \A j \in PreviewKeys : preview[j] # None => Keeps(preview[j], preview'[j])
    BY <2>1, <2>7, <2>8, NoneIsNoRecord DEF Keeps
  <2>13. \A j \in PreviewKeys :
            Active(j)' => j = k \/ (Active(j) /\ ~(j = holder /\ HeldBy(holder)))
    <3> SUFFICES ASSUME NEW j \in PreviewKeys, Active(j)'
                 PROVE  j = k \/ (Active(j) /\ ~(j = holder /\ HeldBy(holder)))
      OBVIOUS
    <3> SUFFICES ASSUME j # k
                 PROVE  Active(j) /\ ~(j = holder /\ HeldBy(holder))
      OBVIOUS
    <3>1. CASE j = holder /\ HeldBy(holder)
      BY <2>7, <2>8, <3>1 DEF Active
    <3>2. CASE ~(j = holder /\ HeldBy(holder))
      BY <2>7, <3>2 DEF Active
    <3> QED  BY <3>1, <3>2
  <2>14. \A j \in PreviewKeys : Active(j)' => preview'[j].state \in Pending
    BY <2>6, <2>7, <2>13 DEF PreviewInv, Pending
  <2>15. AttemptsStay
    BY <2>10, <2>11, <2>12, <2>14 DEF AttemptsStay
  <2>16. OneActivePreview'
    <3>1. ASSUME ~lockLost, NEW j \in PreviewKeys, Active(j) PROVE j = holder /\ HeldBy(holder)
      <4>1. holder = j /\ preview[j].state \in Pending
        BY <3>1 DEF PreviewInv, OneActivePreview
      <4> QED  BY <3>1, <4>1, NoneIsNothing DEF Active, HeldBy
    <3> QED  BY <2>5, <2>13, <3>1 DEF OneActivePreview
  <2>17. CallerMoves
    <3>1. preview'[k] # None
      BY <2>1, <2>3, <2>7, NoneIsNoRecord
    <3> QED  BY <2>1, <2>4, <2>5, <3>1 DEF CallerMoves, CallerOK, Known
  <2>18. RunnerMoves /\ ReaperMoves /\ WriterMoves
    BY <2>5 DEF RunnerMoves, ReaperMoves, WriterMoves
  <2>19. DraftMoves
    BY <1>3, <2>5
  <2>20. saves' \in 0..MaxSaves /\ lockLost' \in BOOLEAN /\ holder' \in PreviewKeys \cup {None}
    BY <1>0, <2>1, <2>5
  <2> QED  BY <2>15, <2>16, <2>17, <2>18, <2>19, <2>20, Frame
<1>9. CASE MarkQueued(c)
  <2>1. /\ caller[c] \in Marking /\ Known(caller[c].key)
    BY <1>1, <1>9 DEF MarkQueued
  <2>2. /\ caller[c].copy.content \in Contents /\ caller[c].state \in Pending
        /\ caller[c].key \in PreviewKeys
        /\ preview[caller[c].key].print \in Contents
    <3>1. preview[caller[c].key] \in PreviewAttempt
      BY <1>0, <2>1 DEF Known
    <3> QED  BY <2>1, <3>1, SomeRenderable DEF Marking, Draft, PreviewAttempt
  <2>3. DraftMoves
    BY <1>9, <2>2 DEF MarkQueued, Marked, DraftMoves, Draft, DraftStates, Honest, Pending
  <2> QED  BY <1>2, <1>4, <1>9, <2>3 DEF MarkQueued
<1>10. CASE CallerLost(c)
  BY <1>2, <1>3, <1>4, <1>10 DEF CallerLost
<1> QED  BY <1>5, <1>6, <1>7, <1>8, <1>9, <1>10 DEF CallerStep

-----------------------------------------------------------------------------
(* Runners *)

LEMMA RunnersKept ==
    ASSUME PreviewInv, NEW r \in Runners, RunnerStep(r)
    PROVE  PreviewInv'
<1> DEFINE k == runner[r].key
<1>0. /\ draft \in Draft /\ Honest(draft) /\ RunnerOK(runner[r])
      /\ preview \in [PreviewKeys -> PreviewAttempt \cup {None}]
      /\ \A j \in PreviewKeys : Active(j) => preview[j].state \in Pending
      /\ saves \in 0..MaxSaves /\ lockLost \in BOOLEAN
      /\ holder \in PreviewKeys \cup {None}
  BY DEF PreviewInv
<1>1. runner[r].pc # "idle" =>
         /\ runner[r] \in Rendering \cup Saving \cup Ending \cup RenderFailing
         /\ Known(k) /\ preview[k] \in PreviewAttempt
         /\ runner[r].pc = "uploading" =>
               /\ runner[r].copy.content = preview[k].print
               /\ runner[r].copy.content \in Renderable
         /\ runner[r].pc = "unlocking" => ~preview[k].isActive
  BY <1>0 DEF RunnerOK, Resting, Known
<1>2. ASSUME UNCHANGED <<preview, holder, caller, reaper, writing, saves, lockLost>>,
             RunnerMoves, DraftMoves
      PROVE  PreviewInv'
  <2>1. AttemptsStay /\ NoneBegins
    BY <1>2, UnchangedStay
  <2>2. CallerMoves /\ ReaperMoves /\ WriterMoves /\ saves' \in 0..MaxSaves
    BY <1>0, <1>2 DEF CallerMoves, ReaperMoves, WriterMoves
  <2>3. /\ holder' \in PreviewKeys \cup {None} /\ lockLost' \in BOOLEAN
        /\ OneActivePreview'
    BY <1>2, <2>1, LockStays
  <2> QED  BY <1>2, <2>1, <2>2, <2>3, Frame
<1>3. ASSUME UNCHANGED draft PROVE DraftMoves
  BY <1>0, <1>3 DEF DraftMoves
<1>4. ASSUME UNCHANGED <<draft, holder, caller, reaper, writing, saves, lockLost>>,
             AttemptsStay, NoneBegins, RunnerMoves
      PROVE  PreviewInv'
  <2>1. CallerMoves /\ ReaperMoves /\ WriterMoves /\ saves' \in 0..MaxSaves
    BY <1>0, <1>4 DEF CallerMoves, ReaperMoves, WriterMoves
  <2>2. /\ holder' \in PreviewKeys \cup {None} /\ lockLost' \in BOOLEAN
        /\ OneActivePreview'
    BY <1>4, LockStays
  <2> QED  BY <1>3, <1>4, <2>1, <2>2, Frame
<1>5. ASSUME runner' = [runner EXCEPT ![r] = Resting] PROVE RunnerMoves
  BY <1>5 DEF RunnerMoves, RunnerOK
<1>6. ASSUME NEW x \in Rendering \cup Saving \cup Ending \cup RenderFailing,
             runner' = [runner EXCEPT ![r] = x], UNCHANGED preview, Known(x.key),
             x.pc \notin {"uploading", "unlocking"}
      PROVE  RunnerMoves
  BY <1>6 DEF RunnerMoves, RunnerOK, Known
<1>7. ASSUME NEW j \in PreviewKeys, FindOldest(r, j) PROVE PreviewInv'
  <2>1. At("found", j) \in Rendering /\ At("found", j).key = j /\ At("found", j).pc = "found"
    BY DEF At, Rendering
  <2>2. Known(j)
    BY <1>7 DEF FindOldest, Oldest, Queued, Known
  <2>3. runner' = [runner EXCEPT ![r] = At("found", j)] /\ UNCHANGED preview
    BY <1>7 DEF FindOldest
  <2>4. RunnerMoves
    BY <1>6, <2>1, <2>2, <2>3
  <2> QED  BY <1>2, <1>3, <1>7, <2>4 DEF FindOldest
<1>8. CASE Claim(r)
  <2> DEFINE a == [preview[k] EXCEPT !.state = "running", !.lapsed = FALSE]
             x == [runner[r] EXCEPT !.pc = "claimed"]
  <2>1. runner[r] \in Rendering /\ Known(k) /\ preview[k] \in PreviewAttempt
    BY <1>1, <1>8 DEF Claim, Saving, Ending, RenderFailing
  <2>2. /\ a \in PreviewAttempt /\ a.print = preview[k].print
        /\ a.isActive = preview[k].isActive /\ a.state \in Pending
    BY <2>1 DEF PreviewAttempt, AttemptStates, Pending
  <2>3. preview' = [preview EXCEPT ![k] = a]
    BY <1>0, <1>8, <2>1 DEF Claim, Known
  <2>4. x \in Rendering /\ x.key = k /\ x.pc = "claimed"
    BY <2>1 DEF Rendering
  <2>5. runner' = [runner EXCEPT ![r] = x]
    BY <1>8 DEF Claim, PreviewInv
  <2> HIDE DEF a, x, k
  <2>6. AttemptsStay /\ NoneBegins
    BY <2>1, <2>2, <2>3, OneChanges DEF Known
  <2>7. RunnerMoves
    <3>1. k \in PreviewKeys /\ preview'[k] # None
      BY <2>1, <2>6 DEF Known, AttemptsStay, Keeps
    <3> QED  BY <2>4, <2>5, <3>1 DEF RunnerMoves, RunnerOK, Known
  <2> QED  BY <1>4, <1>8, <2>6, <2>7 DEF Claim
<1>9. CASE Heartbeat(r)
  <2> DEFINE a == [preview[k] EXCEPT !.lapsed = FALSE]
  <2>1. Known(k) /\ preview[k] \in PreviewAttempt
    BY <1>1, <1>9 DEF Heartbeat
  <2>2. /\ a \in PreviewAttempt /\ a.print = preview[k].print
        /\ a.isActive = preview[k].isActive /\ a.state = preview[k].state
    BY <2>1 DEF PreviewAttempt
  <2>3. preview' = [preview EXCEPT ![k] = a]
    BY <1>0, <1>9, <2>1 DEF Heartbeat, Known
  <2>4. a.isActive => a.state \in Pending
    BY <1>0, <2>1, <2>2 DEF Known, Active
  <2> HIDE DEF a, k
  <2>5. AttemptsStay /\ NoneBegins
    BY <2>1, <2>2, <2>3, <2>4, OneChanges DEF Known
  <2> QED  BY <1>4, <1>9, <2>5 DEF Heartbeat, RunnerMoves
<1>10. CASE BeginRender(r)
  <2>1. Known(k)
    BY <1>1, <1>10 DEF BeginRender
  <2>2. \A pc \in {"blocking", "starting"} :
           /\ Holding(pc, k, draft) \in Saving
           /\ Holding(pc, k, draft).key = k /\ Holding(pc, k, draft).pc = pc
    BY <1>0, <2>1 DEF Holding, Saving, Known
  <2> DEFINE f == [pc |-> "failing", key |-> k, as |-> "superseded"]
  <2>3. f \in Ending /\ f.key = k /\ f.pc = "failing"
    BY <2>1 DEF Ending, Known
  <2>4. /\ UNCHANGED preview
        /\ \/ runner' = [runner EXCEPT ![r] = Holding("blocking", k, draft)]
           \/ runner' = [runner EXCEPT ![r] = Holding("starting", k, draft)]
           \/ runner' = [runner EXCEPT ![r] = f]
    BY <1>10 DEF BeginRender, StillCurrent
  <2> HIDE DEF f, k
  <2>5. RunnerMoves
    BY <1>6, <2>1, <2>2, <2>3, <2>4
  <2> QED  BY <1>2, <1>3, <1>10, <2>5 DEF BeginRender
<1>11. CASE SaveBlocked(r)
  <2>1. Known(k) /\ runner[r] \in Saving
    BY <1>1, <1>11 DEF SaveBlocked, Rendering, Ending, RenderFailing
  <2> DEFINE f == [pc |-> "failing", key |-> k, as |-> "failed"]
  <2>2. f \in Ending /\ f.key = k /\ f.pc = "failing"
    BY <2>1 DEF Ending, Known
  <2>3. runner' = [runner EXCEPT ![r] = f] /\ UNCHANGED preview
    BY <1>11 DEF SaveBlocked
  <2>4. runner[r].copy.content \in Contents
    BY <2>1 DEF Saving, Draft
  <2>5. DraftMoves
    BY <1>11, <2>4 DEF SaveBlocked, Blocked, DraftMoves, Draft, DraftStates, Honest
  <2> HIDE DEF f, k
  <2>6. RunnerMoves
    BY <1>6, <2>1, <2>2, <2>3
  <2> QED  BY <1>2, <1>11, <2>5, <2>6 DEF SaveBlocked
<1>12. CASE SaveRunning(r)
  <2>1. Known(k) /\ runner[r] \in Saving /\ preview[k] \in PreviewAttempt
    BY <1>1, <1>12 DEF SaveRunning, Rendering, Ending, RenderFailing
  <2>2. /\ At("rendering", k) \in Rendering
        /\ At("rendering", k).key = k /\ At("rendering", k).pc = "rendering"
    BY <2>1 DEF At, Rendering, Known
  <2>3. runner' = [runner EXCEPT ![r] = At("rendering", k)] /\ UNCHANGED preview
    BY <1>12 DEF SaveRunning
  <2>4. runner[r].copy.content \in Contents /\ preview[k].print \in Contents /\ k \in PreviewKeys
    BY <2>1, SomeRenderable DEF Saving, Draft, PreviewAttempt
  <2>5. DraftMoves
    BY <1>12, <2>4 DEF SaveRunning, Marked, DraftMoves, Draft, DraftStates, Honest
  <2> HIDE DEF k
  <2>6. RunnerMoves
    BY <1>6, <2>1, <2>2, <2>3
  <2> QED  BY <1>2, <1>12, <2>5, <2>6 DEF SaveRunning
<1>13. CASE CheckAgain(r)
  <2>1. Known(k)
    BY <1>1, <1>13 DEF CheckAgain
  <2> DEFINE f == [pc |-> "failing", key |-> k, as |-> "superseded"]
             x == Holding("uploading", k, draft)
  <2>2. f \in Ending /\ f.key = k /\ f.pc = "failing"
    BY <2>1 DEF Ending, Known
  <2>3. x \in Saving /\ x.key = k /\ x.pc = "uploading" /\ x.copy = draft
    BY <1>0, <2>1 DEF Holding, Saving, Known
  <2>4. /\ UNCHANGED preview
        /\ \/ runner' = [runner EXCEPT ![r] = f]
           \/ /\ runner' = [runner EXCEPT ![r] = x]
              /\ draft.content \in Renderable /\ draft.content = preview[k].print
    BY <1>13 DEF CheckAgain, StillCurrent
  <2> HIDE DEF f, x, k
  <2>5. RunnerMoves
    <3>1. CASE runner' = [runner EXCEPT ![r] = f]
      BY <1>6, <2>1, <2>2, <2>4, <3>1
    <3>2. CASE /\ runner' = [runner EXCEPT ![r] = x]
               /\ draft.content \in Renderable /\ draft.content = preview[k].print
      BY <2>1, <2>3, <2>4, <3>2 DEF RunnerMoves, RunnerOK, Known
    <3> QED  BY <2>4, <3>1, <3>2
  <2> QED  BY <1>2, <1>3, <1>13, <2>5 DEF CheckAgain
<1>14. CASE SaveReady(r)
  <2>1. /\ Known(k) /\ runner[r] \in Saving /\ preview[k] \in PreviewAttempt
        /\ runner[r].copy.content = preview[k].print
        /\ runner[r].copy.content \in Renderable
    BY <1>1, <1>14 DEF SaveReady, Rendering, Ending, RenderFailing
  <2>2. /\ At("settling", k) \in Rendering
        /\ At("settling", k).key = k /\ At("settling", k).pc = "settling"
    BY <2>1 DEF At, Rendering, Known
  <2>3. runner' = [runner EXCEPT ![r] = At("settling", k)] /\ UNCHANGED preview
    BY <1>14 DEF SaveReady
  <2>4. draft' = [content |-> runner[r].copy.content, state |-> "ready",
                  print |-> preview[k].print, owner |-> None]
    BY <1>14 DEF SaveReady
  <2> HIDE DEF k
  <2>5. DraftMoves
    BY <2>1, <2>4, SomeRenderable DEF DraftMoves, Draft, DraftStates, Honest
  <2>6. RunnerMoves
    BY <1>6, <2>1, <2>2, <2>3
  <2> QED  BY <1>2, <1>14, <2>5, <2>6 DEF SaveReady
<1>15. CASE RenderThrows(r)
  <2>1. Known(k)
    BY <1>1, <1>15 DEF RenderThrows
  <2> DEFINE f == [pc |-> "failing", key |-> k, as |-> "failed"]
  <2>2. f \in Ending /\ f.key = k /\ f.pc = "failing"
    BY <2>1 DEF Ending, Known
  <2>3. runner' = [runner EXCEPT ![r] = f] /\ UNCHANGED preview
    BY <1>15 DEF RenderThrows
  <2> HIDE DEF f, k
  <2>4. RunnerMoves
    BY <1>6, <2>1, <2>2, <2>3
  <2> QED  BY <1>2, <1>3, <1>15, <2>4 DEF RenderThrows
<1>16. ASSUME NEW state \in AttemptStates, Ended(k, state), Known(k),
              runner' = [runner EXCEPT ![r] = At("unlocking", k)],
              UNCHANGED <<draft, holder, caller, reaper, writing, saves, lockLost>>
       PROVE  PreviewInv'
  <2>1. AttemptsStay /\ NoneBegins /\ ~preview'[k].isActive
    BY <1>16, EndedStay DEF Known
  <2>2. /\ At("unlocking", k) \in Rendering
        /\ At("unlocking", k).key = k /\ At("unlocking", k).pc = "unlocking"
    BY <1>16 DEF At, Rendering, Known
  <2>3. k \in PreviewKeys /\ preview'[k] # None
    BY <1>16, <2>1 DEF Known, AttemptsStay, Keeps
  <2> HIDE DEF k
  <2>4. RunnerMoves
    BY <1>16, <2>1, <2>2, <2>3 DEF RunnerMoves, RunnerOK, Known
  <2> QED  BY <1>4, <1>16, <2>1, <2>4
<1>17. CASE Settle(r)
  BY <1>1, <1>16, <1>17 DEF Settle, AttemptStates
<1>18. CASE LoadFailed(r)
  <2>1. Known(k) /\ runner[r] \in Ending
    BY <1>1, <1>18 DEF LoadFailed, Rendering, Saving, RenderFailing
  <2> DEFINE s == [pc |-> "saving failure", key |-> k, as |-> runner[r].as, copy |-> draft]
             e == [pc |-> "ending", key |-> k, as |-> runner[r].as]
  <2>2. s \in RenderFailing /\ s.key = k /\ s.pc = "saving failure"
    BY <1>0, <2>1 DEF RenderFailing, Ending, Known
  <2>3. e \in Ending /\ e.key = k /\ e.pc = "ending"
    BY <2>1 DEF Ending, Known
  <2>4. /\ UNCHANGED preview
        /\ runner' = [runner EXCEPT ![r] = s] \/ runner' = [runner EXCEPT ![r] = e]
    BY <1>18 DEF LoadFailed, PreviewInv
  <2> HIDE DEF s, e, k
  <2>5. RunnerMoves
    BY <1>6, <2>1, <2>2, <2>3, <2>4
  <2> QED  BY <1>2, <1>3, <1>18, <2>5 DEF LoadFailed
<1>19. ASSUME runner[r].pc \in {"failing", "saving failure"}, UNCHANGED preview,
              runner' = [runner EXCEPT ![r] = [pc |-> "ending", key |-> @.key, as |-> @.as]]
       PROVE  RunnerMoves
  <2>1. Known(k) /\ runner[r] \in Ending \cup RenderFailing
    BY <1>1, <1>19 DEF Rendering, Saving
  <2> DEFINE e == [pc |-> "ending", key |-> k, as |-> runner[r].as]
  <2>2. e \in Ending /\ e.key = k /\ e.pc = "ending"
    BY <2>1 DEF Ending, RenderFailing, Known
  <2>3. runner' = [runner EXCEPT ![r] = e]
    BY <1>19 DEF PreviewInv
  <2> HIDE DEF e, k
  <2> QED  BY <1>6, <1>19, <2>1, <2>2, <2>3
<1>20. CASE SaveFailed(r)
  <2>1. runner[r] \in RenderFailing
    BY <1>1, <1>20 DEF SaveFailed, Rendering, Saving, Ending
  <2>2. draft' = [runner[r].copy EXCEPT !.state = "failed"] /\ runner[r].copy \in Draft
    BY <1>20, <2>1 DEF SaveFailed, RenderFailing
  <2>3. DraftMoves
    BY <2>2 DEF DraftMoves, Draft, DraftStates, Honest
  <2> QED  BY <1>2, <1>19, <1>20, <2>3 DEF SaveFailed
<1>21. CASE SaveFailedThrows(r)
  BY <1>2, <1>3, <1>19, <1>21 DEF SaveFailedThrows
<1>22. CASE EndFailed(r)
  <2>1. Known(k) /\ runner[r].as \in AttemptStates
    BY <1>1, <1>22 DEF EndFailed, Rendering, Saving, Ending, RenderFailing, AttemptStates
  <2> QED  BY <1>16, <1>22, <2>1 DEF EndFailed
<1>23. CASE Unlock(r)
  <2>1. Known(k) /\ ~preview[k].isActive
    BY <1>1, <1>23 DEF Unlock
  <2>2. DeleteLock(k) /\ UNCHANGED <<draft, preview, caller, reaper, writing, saves>>
    BY <1>23 DEF Unlock
  <2>3. AttemptsStay
    BY <2>2, UnchangedStay
  <2>4. RunnerMoves
    BY <1>5, <1>23 DEF Unlock
  <2>5. CallerMoves /\ ReaperMoves /\ WriterMoves /\ saves' \in 0..MaxSaves /\ DraftMoves
    BY <1>0, <1>3, <2>2 DEF CallerMoves, ReaperMoves, WriterMoves
  <2> HIDE DEF k
  <2>6. /\ holder' \in PreviewKeys \cup {None} /\ lockLost' \in BOOLEAN
        /\ OneActivePreview'
    BY <2>1, <2>2, <2>3, LockDeleted DEF Known
  <2> QED  BY <2>3, <2>4, <2>5, <2>6, Frame
<1>24. CASE RunnerLost(r)
  BY <1>2, <1>3, <1>5, <1>24 DEF RunnerLost
<1> QED  BY <1>7, <1>8, <1>9, <1>10, <1>11, <1>12, <1>13, <1>14, <1>15, <1>17, <1>18, <1>20,
            <1>21, <1>22, <1>23, <1>24 DEF RunnerStep, Advance

-----------------------------------------------------------------------------
(* The reaper, time, and the other requests of the session *)

LEMMA ReapersKept ==
    ASSUME PreviewInv, NEW p \in Reapers, ReaperStep(p)
    PROVE  PreviewInv'
<1>0. /\ ReaperOK(reaper[p]) /\ draft \in Draft /\ Honest(draft)
      /\ saves \in 0..MaxSaves /\ reaper \in [Reapers -> Scanning]
  BY DEF PreviewInv
<1>1. ASSUME UNCHANGED <<draft, caller, runner, writing, saves>>
      PROVE  CallerMoves /\ RunnerMoves /\ WriterMoves /\ DraftMoves /\ saves' \in 0..MaxSaves
  BY <1>0, <1>1 DEF CallerMoves, RunnerMoves, WriterMoves, DraftMoves
<1>2. ASSUME UNCHANGED <<draft, holder, caller, runner, writing, saves, lockLost>>,
             AttemptsStay, NoneBegins, ReaperMoves
      PROVE  PreviewInv'
  BY <1>1, <1>2, LockStays, Frame
<1>3. CASE Scan(p)
  <2> DEFINE found == {k \in PreviewKeys : Stale(k)}
             x == [found |-> found, unlock |-> None]
  <2>1. x \in Scanning
        /\ x.found = found /\ x.unlock = None
    BY DEF Scanning
  <2>2. \A k \in found : Known(k)
    BY DEF Stale, Known
  <2>3. reaper' = [reaper EXCEPT ![p] = x] /\ UNCHANGED preview
    <3>1. [reaper[p] EXCEPT !.found = found] = x
      BY <1>3 DEF Scan
    <3> HIDE DEF x
    <3> QED  BY <1>0, <1>3, <3>1 DEF Scan
  <2> HIDE DEF x, found
  <2>4. ReaperMoves
    BY <2>1, <2>2, <2>3 DEF ReaperMoves, ReaperOK, Known
  <2> QED  BY <1>2, <1>3, <2>4, UnchangedStay DEF Scan
<1>4. ASSUME NEW k \in PreviewKeys, Expire(p, k) PROVE PreviewInv'
  <2> DEFINE x == [found |-> reaper[p].found \ {k}, unlock |-> k]
  <2>1. /\ x \in Scanning
        /\ x.found \subseteq reaper[p].found /\ x.unlock = k
    BY <1>0 DEF ReaperOK, Scanning
  <2>2. Known(k)
    BY <1>0, <1>4 DEF Expire, ReaperOK, Scanning
  <2>3. AttemptsStay /\ NoneBegins /\ ~preview'[k].isActive
    BY <1>4, <2>2, EndedStay DEF Expire, Known, AttemptStates
  <2>4. reaper' = [reaper EXCEPT ![p] = x]
    BY <1>0, <1>4 DEF Expire, Scanning
  <2> HIDE DEF x
  <2>5. \A j \in x.found \cup {k} : j \in PreviewKeys /\ preview'[j] # None
    BY <1>0, <2>1, <2>2, <2>3 DEF Scanning, ReaperOK, Known, AttemptsStay, Keeps
  <2>6. ReaperMoves
    BY <2>1, <2>3, <2>4, <2>5 DEF ReaperMoves, ReaperOK, Known
  <2> QED  BY <1>2, <1>4, <2>3, <2>6 DEF Expire
<1>5. CASE ReaperUnlock(p)
  <2> DEFINE k == reaper[p].unlock
             x == [found |-> reaper[p].found, unlock |-> None]
  <2>1. Known(k) /\ ~preview[k].isActive
    BY <1>0, <1>5 DEF ReaperUnlock, ReaperOK, Scanning
  <2>2. /\ x \in Scanning
        /\ x.found = reaper[p].found /\ x.unlock = None
    BY <1>0 DEF ReaperOK, Scanning
  <2>3. /\ DeleteLock(k) /\ UNCHANGED <<draft, preview, caller, runner, writing, saves>>
        /\ reaper' = [reaper EXCEPT ![p] = x]
    <3>1. reaper[p] \in Scanning
      BY <1>0 DEF ReaperOK, Scanning
    <3>2. [reaper[p] EXCEPT !.unlock = None] = x
      BY <3>1 DEF Scanning
    <3> HIDE DEF x
    <3> QED  BY <1>0, <1>5, <3>2 DEF ReaperUnlock
  <2> HIDE DEF x, k
  <2>4. AttemptsStay
    BY <2>3, UnchangedStay
  <2>5. ReaperMoves
    BY <1>0, <2>2, <2>3 DEF ReaperMoves, ReaperOK, Known
  <2>6. /\ holder' \in PreviewKeys \cup {None} /\ lockLost' \in BOOLEAN
        /\ OneActivePreview'
    BY <2>1, <2>3, <2>4, LockDeleted DEF Known
  <2> QED  BY <1>1, <2>3, <2>4, <2>5, <2>6, Frame
<1>6. CASE ReaperLost(p)
  <2> DEFINE x == [found |-> {}, unlock |-> None]
  <2>1. /\ x \in Scanning
        /\ x.found = {} /\ x.unlock = None
    BY DEF Scanning
  <2>2. reaper' = [reaper EXCEPT ![p] = x]
    BY <1>6 DEF ReaperLost
  <2> HIDE DEF x
  <2>3. ReaperMoves
    BY <2>1, <2>2 DEF ReaperMoves, ReaperOK
  <2> QED  BY <1>2, <1>6, <2>3, UnchangedStay DEF ReaperLost
<1> QED  BY <1>3, <1>4, <1>5, <1>6 DEF ReaperStep

LEMMA LapseKept ==
    ASSUME PreviewInv, NEW k \in PreviewKeys, Lapse(k)
    PROVE  PreviewInv'
<1> DEFINE a == [preview[k] EXCEPT !.lapsed = TRUE]
<1>1. preview[k] # None /\ preview[k].isActive /\ preview[k] \in PreviewAttempt
  BY DEF Lapse, PreviewInv
<1>2. /\ a \in PreviewAttempt /\ a.print = preview[k].print
      /\ a.isActive = preview[k].isActive /\ a.state = preview[k].state
  BY <1>1 DEF PreviewAttempt
<1>3. preview' = [preview EXCEPT ![k] = a]
  BY <1>1 DEF Lapse, PreviewInv
<1>4. a.isActive => a.state \in Pending
  BY <1>1, <1>2 DEF PreviewInv, Active
<1> HIDE DEF a
<1>5. AttemptsStay /\ NoneBegins
  BY <1>1, <1>2, <1>3, <1>4, OneChanges
<1>6. CallerMoves /\ RunnerMoves /\ ReaperMoves /\ WriterMoves /\ DraftMoves /\ saves' \in 0..MaxSaves
  BY DEF Lapse, PreviewInv, CallerMoves, RunnerMoves, ReaperMoves, WriterMoves, DraftMoves
<1> QED  BY <1>5, <1>6, LockStays, Frame DEF Lapse

LEMMA WritersKept ==
    ASSUME PreviewInv, NEW w \in Writers, LoadSession(w) \/ SaveSession(w)
    PROVE  PreviewInv'
<1>0. /\ draft \in Draft /\ Honest(draft) /\ saves \in 0..MaxSaves
      /\ writing[w] # None => writing[w] \in Draft /\ Honest(writing[w])
  BY DEF PreviewInv
<1>1. UNCHANGED <<preview, holder, caller, runner, reaper, lockLost>>
  BY DEF LoadSession, SaveSession
<1>2. AttemptsStay /\ NoneBegins
  BY <1>1, UnchangedStay
<1>3. CallerMoves /\ RunnerMoves /\ ReaperMoves
  BY <1>1 DEF CallerMoves, RunnerMoves, ReaperMoves
<1>4. WriterMoves /\ DraftMoves /\ saves' \in 0..MaxSaves
  <2>1. CASE LoadSession(w)
    BY <1>0, <2>1 DEF LoadSession, WriterMoves, DraftMoves
  <2>2. CASE SaveSession(w)
    <3>1. WriterMoves
      BY <2>2 DEF SaveSession, WriterMoves
    <3>2. saves' \in 0..MaxSaves
      BY <1>0, <2>2, MaxSavesIsNat DEF SaveSession
    <3>3. DraftMoves
      BY <1>0, <2>2 DEF SaveSession, Invalidated, DraftMoves, Draft, DraftStates, Honest
    <3> QED  BY <3>1, <3>2, <3>3
  <2> QED  BY <2>1, <2>2
<1> QED  BY <1>1, <1>2, <1>3, <1>4, LockStays, Frame

LEMMA InitPreview == ASSUME PreviewInit PROVE PreviewInv
<1>1. draft \in Draft /\ Honest(draft)
  BY DEF PreviewInit, Draft, DraftStates, Honest
<1>2. Attempts = {}
  BY DEF PreviewInit, Attempts
<1>3. IsFiniteSet(Attempts)
  BY <1>2, FS_EmptySet
<1>4. /\ DOMAIN caller = Callers /\ \A c \in Callers : CallerOK(caller[c])
      /\ DOMAIN runner = Runners /\ \A r \in Runners : RunnerOK(runner[r])
      /\ reaper \in [Reapers -> Scanning] /\ \A p \in Reapers : ReaperOK(reaper[p])
  BY DEF PreviewInit, CallerOK, RunnerOK, ReaperOK, Scanning
<1>5. saves \in 0..MaxSaves
  BY MaxSavesIsNat DEF PreviewInit
<1>6. /\ preview \in [PreviewKeys -> PreviewAttempt \cup {None}]
      /\ \A k \in PreviewKeys : ~Active(k)
      /\ writing \in [Writers -> Draft \cup {None}] /\ \A w \in Writers : writing[w] = None
  BY DEF PreviewInit, Active
<1> QED  BY <1>1, <1>3, <1>4, <1>5, <1>6 DEF PreviewInv, PreviewInit, OneActivePreview

LEMMA NextPreview == ASSUME PreviewInv, [PreviewNext]_previewVars PROVE PreviewInv'
<1>1. CASE UNCHANGED previewVars
  <2>1. AttemptsStay /\ NoneBegins
    BY <1>1, UnchangedStay DEF previewVars
  <2>2. CallerMoves /\ RunnerMoves /\ ReaperMoves /\ WriterMoves /\ DraftMoves
        /\ saves' \in 0..MaxSaves
    BY <1>1 DEF previewVars, PreviewInv, CallerMoves, RunnerMoves, ReaperMoves, WriterMoves,
                DraftMoves
  <2> QED  BY <1>1, <2>1, <2>2, LockStays, Frame DEF previewVars
<1> QED  BY <1>1, CallersKept, RunnersKept, ReapersKept, LapseKept, WritersKept DEF PreviewNext

(* PreviewInv holds in every reachable state, whatever the requests, runners,
   reapers and other writers do and wherever they die. *)
THEOREM PreviewInvariance == PreviewSpec => []PreviewInv
<1> QED  BY InitPreview, NextPreview, PTL DEF PreviewSpec

(* Every variable keeps its type, an attempt that counts as active is queued or
   running, and what a runner works on is there. *)
THEOREM PreviewTypes == PreviewSpec => []PreviewTypeOK
<1>1. ASSUME PreviewInv PROVE PreviewTypeOK
  <2>1. \A c \in Callers : caller[c].pc \in {"idle", "loaded", "blocked", "marking"}
    BY <1>1 DEF PreviewInv, CallerOK, Resting, Loaded, Marking
  <2>2. \A r \in Runners : runner[r].pc # "idle" => preview[runner[r].key] # None
    BY <1>1 DEF PreviewInv, RunnerOK, Resting, Known
  <2> QED  BY <1>1, <2>1, <2>2 DEF PreviewInv, PreviewTypeOK, Scanning
<1> QED  BY <1>1, PreviewInvariance, PTL

(* However requests, renders, edits and reapings overlap, and whatever copy of
   the session is saved over which other, a preview that the session offers as
   ready shows the session as it is (renderStoryDraftPreview). *)
THEOREM PreviewIsCurrent == PreviewSpec => []ReadyIsCurrent
<1>1. PreviewInv => ReadyIsCurrent
  BY DEF PreviewInv, Honest, ReadyIsCurrent
<1> QED  BY <1>1, PreviewInvariance, PTL

(* While no ending attempt has deleted the lock of another one, only the
   attempt the lock of the session names is active. *)
THEOREM OnePreview == PreviewSpec => []OneActivePreview
<1>1. PreviewInv => OneActivePreview
  BY DEF PreviewInv
<1> QED  BY <1>1, PreviewInvariance, PTL
-----------------------------------------------------------------------------
(* Voice syncs: the lock of a story, reservations, and what overdraws *)

(* A request between admission and answer: it has a running attempt. *)
Working(c) == request[c].pc \in {"started", "syncing", "saved", "failing"}

(* Only the request that started an attempt ends it: while that request works,
   its attempt runs, for the story it was asked for, and no other request works
   under its key.  So a settlement always finds its attempt running. *)
WorkersOwnAttempts ==
    /\ \A c \in Requests : Working(c) =>
           /\ Running(request[c].key)
           /\ request[c].pc = "started" =>
                  attempt[request[c].key].story = request[c].print.story
    /\ \A c, d \in Requests :
           Working(c) /\ Working(d) /\ request[c].key = request[d].key => c = d

KnownSyncs == {k \in SyncKeys : attempt[k] # Null}

SyncInv ==
    /\ SyncTypeOK
    /\ WorkersOwnAttempts
    /\ SyncLockExact
    /\ IsFiniteSet(KnownSyncs)

(* Attempts are records; Null is none. *)
LEMMA RunningIsAttempt ==
    ASSUME SyncTypeOK, NEW k \in SyncKeys, Running(k)
    PROVE  attempt[k] \in SyncAttempt /\ attempt[k].story \in Stories
BY DEF SyncTypeOK, Running, SyncAttempt

(* A working request knows its key. *)
LEMMA WorkingRequest ==
    ASSUME SyncTypeOK, NEW c \in Requests, request[c].pc # "idle"
    PROVE  /\ request[c].key \in SyncKeys
           /\ request[c].pc = "planned" => request[c] \in Planned
           /\ request[c].pc = "started" => request[c] \in Started
           /\ request[c].pc = "syncing" => request[c] \in Syncing
           /\ request[c].pc = "saved" => request[c] \in Saved
           /\ request[c].pc \in {"planned", "started", "syncing", "saved", "failing"}
BY DEF SyncTypeOK, IdleSync, Planned, Started, Syncing, Saved, Failing

-----------------------------------------------------------------------------
(* Steps, by what they do to attempts, locks and reservations *)

(* Nothing begins or ends; what an attempt is owed may be noted. *)
NoneEnds ==
    /\ attempt' \in [SyncKeys -> SyncAttempt \cup {Null}]
    /\ \A k \in SyncKeys :
          /\ attempt'[k] = Null <=> attempt[k] = Null
          /\ Running(k)' <=> Running(k)
          /\ attempt[k] # Null => /\ attempt'[k].story = attempt[k].story
                                  /\ attempt'[k].reserved = attempt[k].reserved
    /\ UNCHANGED syncLock

(* A new attempt, and nothing else in its story. *)
Begins(k, s, est) ==
    /\ attempt[k] = Null
    /\ ~HeldByOther(s)
    /\ SyncAvailable >= est
    /\ \E a \in SyncAttempt :
           /\ a.story = s /\ a.reserved = est /\ a.state = "running"
           /\ attempt' = [attempt EXCEPT ![k] = a]
    /\ syncLock' = [syncLock EXCEPT ![s] = k]
    /\ ledger' = SyncDelta(0, est)
    /\ UNCHANGED rendering

(* A running attempt that ends *)
Finishes(k, bill) ==
    /\ Running(k)
    /\ \E a \in SyncAttempt :
           /\ a.state \in {"done", "failed"}
           /\ a.state = "failed" => bill = 0
           /\ a.state = "done" => bill = a.billed
           /\ a.reserved = attempt[k].reserved
           /\ attempt' = [attempt EXCEPT ![k] = a]
    /\ syncLock' = [syncLock EXCEPT ![attempt[k].story] = Null]
    /\ ledger' = SyncDelta(bill, -attempt[k].reserved)
    /\ UNCHANGED rendering

SyncEffect ==
    \/ NoneEnds /\ UNCHANGED <<ledger, rendering>>
    \/ \E k \in SyncKeys, s \in Stories, est \in SyncEstimates \cup {0} : Begins(k, s, est)
    \/ \E k \in SyncKeys, bill \in SyncCharges \cup {0} : Finishes(k, bill)
    \/ AccountStep

LEMMA SyncEffects ==
    ASSUME SyncTypeOK, WorkersOwnAttempts, SyncNext
    PROVE  SyncEffect
<1>0. ASSUME UNCHANGED <<attempt, syncLock, ledger, rendering>> PROVE SyncEffect
  BY <1>0 DEF SyncEffect, NoneEnds, Running, SyncTypeOK
<1>1. ASSUME NEW c \in Requests, RequestStep(c) PROVE SyncEffect
  <2>1. CASE \/ \E k \in SyncKeys, s \in Stories, mode \in Modes : Preflight(c, k, s, mode)
             \/ AnswerPrepared(c) \/ Refresh(c) \/ SyncThrows(c) \/ SettleThrows(c)
             \/ RequestLost(c)
    BY <1>0, <2>1 DEF Preflight, AnswerPrepared, Refresh, SyncThrows, SettleThrows, RequestLost
  <2>2. CASE StartSync(c)
    <3> DEFINE k == request[c].key
               s == request[c].print.story
               est == request[c].estimate
               a == [story |-> s, reserved |-> est, state |-> "running",
                     billed |-> 0, owed |-> 0]
    <3>1. request[c] \in Planned
      BY <2>2, WorkingRequest DEF StartSync, MayStart
    <3>2. k \in SyncKeys /\ s \in Stories /\ est \in SyncEstimates \cup {0}
      BY <3>1 DEF Planned, PlanPrint
    <3>3. a \in SyncAttempt
      <4> HIDE DEF s, est
      <4> QED  BY <3>2 DEF SyncAttempt
    <3>4. Begins(k, s, est)
      BY <2>2, <3>3 DEF StartSync, MayStart, Begins
    <3> HIDE DEF k, s, est
    <3> QED  BY <3>2, <3>4 DEF SyncEffect
  <2>3. CASE SaveNarration(c)
    <3> DEFINE k == request[c].key
    <3>1. k \in SyncKeys /\ Running(k) /\ request[c] \in Syncing
      BY <2>3, WorkingRequest DEF SaveNarration, WorkersOwnAttempts, Working
    <3>2. attempt[k] \in SyncAttempt
      BY <3>1, RunningIsAttempt
    <3>3. PICK bill \in BillsOf(request[c].copy) : attempt' = [attempt EXCEPT ![k].owed = bill]
      BY <2>3 DEF SaveNarration
    <3> DEFINE a == [attempt[k] EXCEPT !.owed = bill]
    <3>4. a \in SyncAttempt
      BY <3>2, <3>3 DEF SyncAttempt, BillsOf
    <3>5. /\ a.story = attempt[k].story /\ a.state = attempt[k].state
          /\ a.reserved = attempt[k].reserved
      BY <3>2 DEF SyncAttempt
    <3>6. \A b \in SyncKeys : attempt'[b] = IF b = k THEN a ELSE attempt[b]
      BY <3>3 DEF SyncTypeOK
    <3>7. attempt' \in [SyncKeys -> SyncAttempt \cup {Null}]
      BY <3>3, <3>4 DEF SyncTypeOK
    <3> HIDE DEF a, k
    <3>8. NoneEnds
      BY <2>3, <3>1, <3>2, <3>4, <3>5, <3>6, <3>7, NullIsNoRecord
      DEF NoneEnds, Running, SaveNarration
    <3> QED  BY <2>3, <3>8 DEF SaveNarration, SyncEffect
  <2>4. CASE SettleSync(c)
    <3> DEFINE k == request[c].key
               bill == request[c].bill
               a == [attempt[k] EXCEPT !.state = "done", !.billed = bill]
    <3>1. k \in SyncKeys /\ Running(k) /\ request[c] \in Saved
      BY <2>4, WorkingRequest DEF SettleSync, WorkersOwnAttempts, Working
    <3>2. attempt[k] \in SyncAttempt /\ bill \in SyncCharges \cup {0}
      BY <3>1, RunningIsAttempt DEF Saved
    <3> HIDE DEF bill
    <3>3. a \in SyncAttempt /\ a.state = "done" /\ a.billed = bill
          /\ a.reserved = attempt[k].reserved
      BY <3>2 DEF SyncAttempt
    <3>4. attempt' = [attempt EXCEPT ![k] = a]
      BY <2>4, <3>1 DEF SettleSync, SyncTypeOK, bill
    <3>5. /\ syncLock' = [syncLock EXCEPT ![attempt[k].story] = Null]
          /\ ledger' = SyncDelta(bill, -attempt[k].reserved)
          /\ UNCHANGED rendering
      BY <2>4 DEF SettleSync, bill
    <3> HIDE DEF a, k
    <3>6. Finishes(k, bill)
      BY <3>1, <3>3, <3>4, <3>5 DEF Finishes
    <3> QED  BY <3>1, <3>2, <3>6 DEF SyncEffect
  <2>5. CASE FailSync(c)
    <3> DEFINE k == request[c].key
               a == [attempt[k] EXCEPT !.state = "failed"]
    <3>1. k \in SyncKeys /\ Running(k)
      BY <2>5, WorkingRequest DEF FailSync, WorkersOwnAttempts, Working
    <3>2. attempt[k] \in SyncAttempt
      BY <3>1, RunningIsAttempt
    <3>3. a \in SyncAttempt /\ a.state = "failed" /\ a.reserved = attempt[k].reserved
      BY <3>2 DEF SyncAttempt
    <3>4. /\ attempt' = [attempt EXCEPT ![k] = a]
          /\ syncLock' = [syncLock EXCEPT ![attempt[k].story] = Null]
          /\ ledger' = SyncDelta(0, -attempt[k].reserved)
          /\ UNCHANGED rendering
      BY <2>5, <3>1 DEF FailSync
    <3> HIDE DEF a, k
    <3>5. Finishes(k, 0)
      BY <3>1, <3>3, <3>4 DEF Finishes
    <3> QED  BY <3>1, <3>5 DEF SyncEffect
  <2> QED  BY <1>1, <2>1, <2>2, <2>3, <2>4, <2>5 DEF RequestStep
<1>2. ASSUME NEW e \in StoryEditors, EditorStep(e) PROVE SyncEffect
  BY <1>0, <1>2 DEF EditorStep, OpenStory, ReviseStory, ReplaceScript
<1> QED  BY <1>1, <1>2 DEF SyncNext, SyncEffect

-----------------------------------------------------------------------------
(* Types *)

LEMMA LedgerKept ==
    ASSUME SyncTypeOK, NEW used \in Int, NEW n \in Int
    PROVE  SyncDelta(used, n) \in LedgerType
BY DEF SyncTypeOK, LedgerType, SyncDelta, SyncAtLeastZero

(* The plan of a story that has a type has one, too. *)
LEMMA PrintType ==
    ASSUME SyncTypeOK, NEW s \in Stories, NEW mode \in Modes
    PROVE  PrintOf(s, mode) \in PlanPrint
<1>1. ScopeOf(story[s], mode) \in Scopes
  BY DEF ScopeOf, Scopes
<1>2. story[s].text \in Texts
  BY DEF SyncTypeOK, Story
<1> QED  BY <1>1, <1>2 DEF PrintOf, PlanPrint

LEMMA RequestTypes ==
    ASSUME SyncTypeOK, NEW c \in Requests, RequestStep(c)
    PROVE  request' \in [Requests -> {IdleSync} \cup Planned \cup Started \cup Syncing
                                        \cup Saved \cup Failing]
<1> DEFINE Wait == {IdleSync} \cup Planned \cup Started \cup Syncing \cup Saved \cup Failing
<1>1. SUFFICES \E r \in Wait : request' = [request EXCEPT ![c] = r]
  BY DEF SyncTypeOK
<1>2. ASSUME NEW k \in SyncKeys, NEW s \in Stories, NEW mode \in Modes, Preflight(c, k, s, mode)
      PROVE  \E r \in Wait : request' = [request EXCEPT ![c] = r]
  <2>1. PICK e \in EstimatesOf(story[s]) : request' = [request EXCEPT ![c] =
               [pc |-> "planned", key |-> k, print |-> PrintOf(s, mode), estimate |-> e]]
    BY <1>2 DEF Preflight
  <2>2. e \in SyncEstimates \cup {0}
    BY <2>1 DEF EstimatesOf
  <2>3. [pc |-> "planned", key |-> k, print |-> PrintOf(s, mode), estimate |-> e] \in Planned
    BY <2>2, PrintType DEF Planned
  <2> QED  BY <2>1, <2>3
<1>3. CASE AnswerPrepared(c) \/ SettleSync(c) \/ FailSync(c) \/ RequestLost(c)
  BY <1>3 DEF AnswerPrepared, SettleSync, FailSync, RequestLost
<1>4. CASE StartSync(c)
  <2>1. request[c] \in Planned
    BY <1>4, WorkingRequest DEF StartSync, MayStart
  <2>2. [pc |-> "started", key |-> request[c].key, print |-> request[c].print] \in Started
    BY <2>1 DEF Planned, Started
  <2> QED  BY <1>4, <2>2 DEF StartSync
<1>5. CASE Refresh(c)
  <2>1. request[c] \in Started
    BY <1>5, WorkingRequest DEF Refresh
  <2>2. story[request[c].print.story] \in Story
    BY <2>1 DEF Started, PlanPrint, SyncTypeOK
  <2>3. [pc |-> "syncing", key |-> request[c].key, copy |-> story[request[c].print.story]]
          \in Syncing
    BY <2>1, <2>2 DEF Started, Syncing
  <2>4. [pc |-> "failing", key |-> request[c].key] \in Failing
    BY <2>1 DEF Started, Failing
  <2> QED  BY <1>5, <2>3, <2>4 DEF Refresh
<1>6. CASE SaveNarration(c)
  <2>1. request[c] \in Syncing
    BY <1>6, WorkingRequest DEF SaveNarration
  <2>2. PICK bill \in BillsOf(request[c].copy) : request' = [request EXCEPT ![c] =
               [pc |-> "saved", key |-> request[c].key, bill |-> bill]]
    BY <1>6 DEF SaveNarration
  <2>3. [pc |-> "saved", key |-> request[c].key, bill |-> bill] \in Saved
    BY <2>1, <2>2 DEF BillsOf, Syncing, Saved
  <2> QED  BY <2>2, <2>3
<1>7. CASE SyncThrows(c) \/ SettleThrows(c)
  <2>1. request[c].key \in SyncKeys
    BY <1>7, WorkingRequest DEF SyncThrows, SettleThrows
  <2>2. [pc |-> "failing", key |-> request[c].key] \in Failing
    BY <2>1 DEF Failing
  <2> QED  BY <1>7, <2>2 DEF SyncThrows, SettleThrows
<1> HIDE DEF Wait
<1> QED  BY <1>2, <1>3, <1>4, <1>5, <1>6, <1>7 DEF RequestStep

LEMMA StoryTypes ==
    ASSUME SyncTypeOK, WorkersOwnAttempts, SyncNext
    PROVE  /\ story' \in [Stories -> Story]
           /\ opened' \in [StoryEditors -> [story : Stories, copy : Story] \cup {Null}]
<1>0. /\ story \in [Stories -> Story]
      /\ opened \in [StoryEditors -> [story : Stories, copy : Story] \cup {Null}]
  BY DEF SyncTypeOK
<1>1. ASSUME NEW s, NEW st \in Story, story' = [story EXCEPT ![s] = st]
      PROVE  story' \in [Stories -> Story]
  BY <1>0, <1>1
<1>2. ASSUME NEW c \in Requests, RequestStep(c)
      PROVE  story' \in [Stories -> Story] /\ opened' = opened
  <2>1. CASE SaveNarration(c)
    <3> DEFINE copy == request[c].copy
               st == [copy EXCEPT !.voice = "current", !.synced = copy.text]
    <3>1. copy \in Story
      BY <2>1, WorkingRequest DEF SaveNarration, Syncing
    <3>2. st \in Story
      BY <3>1 DEF Story, VoiceStates
    <3>3. story' = [story EXCEPT ![attempt[request[c].key].story] = st] /\ opened' = opened
      BY <2>1 DEF SaveNarration
    <3> QED  BY <1>1, <3>2, <3>3
  <2> QED
    BY <1>0, <1>2, <2>1
    DEF RequestStep, Preflight, AnswerPrepared, StartSync, Refresh, SyncThrows, SettleSync,
        SettleThrows, FailSync, RequestLost
<1>3. ASSUME NEW e \in StoryEditors, NEW s \in Stories, OpenStory(e, s)
      PROVE  /\ story' \in [Stories -> Story]
             /\ opened' \in [StoryEditors -> [story : Stories, copy : Story] \cup {Null}]
  BY <1>0, <1>3 DEF OpenStory
<1>4. ASSUME NEW e \in StoryEditors, NEW t \in Texts, ReviseStory(e, t) \/ ReplaceScript(e, t)
      PROVE  /\ story' \in [Stories -> Story]
             /\ opened' \in [StoryEditors -> [story : Stories, copy : Story] \cup {Null}]
  <2>1. opened[e].copy \in Story
    BY <1>0, <1>4 DEF ReviseStory, ReplaceScript
  <2>2. PICK st \in Story : story' = [story EXCEPT ![opened[e].story] = st]
    <3> DEFINE old == opened[e].copy
    <3>1. CASE ReviseStory(e, t)
      <4> DEFINE v == IF old.voice = "never_synced" \/ t = old.text THEN old.voice ELSE "stale"
                 st == [old EXCEPT !.text = t, !.voice = v]
      <4>1. v \in VoiceStates
        BY <2>1 DEF Story, VoiceStates
      <4>2. story' = [story EXCEPT ![opened[e].story] = st]
        BY <3>1, <2>1 DEF ReviseStory, Story
      <4> HIDE DEF v, old
      <4>3. st \in Story
        BY <2>1, <4>1 DEF Story, old
      <4> QED  BY <4>2, <4>3
    <3>2. CASE ReplaceScript(e, t)
      <4>1. [text |-> t, voice |-> "never_synced", synced |-> Null] \in Story
        BY DEF Story, VoiceStates
      <4> QED  BY <3>2, <4>1 DEF ReplaceScript
    <3> QED  BY <1>4, <3>1, <3>2
  <2> QED  BY <1>0, <1>1, <1>4, <2>2 DEF ReviseStory, ReplaceScript
<1>5. CASE AccountStep
  BY <1>0, <1>5 DEF AccountStep, RenderReserves, RenderEnds, NewPeriod, ReadLedger, WriteLedger
<1> QED  BY <1>0, <1>2, <1>3, <1>4, <1>5 DEF SyncNext, EditorStep

LEMMA AccountTypes ==
    ASSUME SyncTypeOK, SyncEffect
    PROVE  ledger' \in LedgerType /\ rendering' \in Nat
<1>0. /\ ledger \in LedgerType /\ rendering \in Nat
      /\ SyncEstimates \subseteq Nat /\ SyncCharges \subseteq Nat
  BY SyncAmounts DEF SyncTypeOK
<1>1. ASSUME NEW k \in SyncKeys, NEW bill \in SyncCharges \cup {0}, Finishes(k, bill)
      PROVE  ledger' \in LedgerType /\ rendering' \in Nat
  <2>0. attempt[k] \in SyncAttempt
    BY <1>1, RunningIsAttempt DEF Finishes
  <2>1. attempt[k].reserved \in SyncEstimates \cup {0}
    BY <2>0 DEF SyncAttempt
  <2>2. bill \in Int /\ -attempt[k].reserved \in Int
    BY <1>0, <2>1
  <2> QED  BY <1>0, <1>1, <2>2, LedgerKept DEF Finishes
<1>2. ASSUME NEW k \in SyncKeys, NEW s \in Stories, NEW est \in SyncEstimates \cup {0},
             Begins(k, s, est)
      PROVE  ledger' \in LedgerType /\ rendering' \in Nat
  <2>1. 0 \in Int /\ est \in Int
    BY <1>0
  <2> QED  BY <1>0, <1>2, <2>1, LedgerKept DEF Begins
<1>3. CASE AccountStep
  <2>1. ASSUME NEW n \in SyncEstimates, RenderReserves(n)
        PROVE  ledger' \in LedgerType /\ rendering' \in Nat
    <3>1. 0 \in Int /\ n \in Int
      BY <1>0
    <3> QED  BY <1>0, <2>1, <3>1, LedgerKept DEF RenderReserves
  <2>2. ASSUME NEW n \in 0..rendering, RenderEnds(n)
        PROVE  ledger' \in LedgerType /\ rendering' \in Nat
    <3>1. n \in Int /\ -rendering \in Int
      BY <1>0
    <3> QED  BY <1>0, <2>2, <3>1, LedgerKept DEF RenderEnds
  <2>3. ASSUME NewPeriod PROVE ledger' \in LedgerType /\ rendering' \in Nat
    BY <1>0, <2>3 DEF NewPeriod, LedgerType
  <2>4. ASSUME NEW q \in SyncReaders, ReadLedger(q) \/ WriteLedger(q)
        PROVE  ledger' \in LedgerType /\ rendering' \in Nat
    BY <1>0, <2>4 DEF ReadLedger, WriteLedger, SyncTypeOK
  <2> QED  BY <1>0, <1>3, <2>1, <2>2, <2>3, <2>4 DEF AccountStep
<1> QED  BY <1>0, <1>1, <1>2, <1>3 DEF SyncEffect

(* A usage summary remembers a ledger. *)
LEMMA ReportTypes ==
    ASSUME SyncTypeOK, SyncNext
    PROVE  report' \in [SyncReaders -> LedgerType \cup {Null}]
<1>1. ASSUME NEW q \in SyncReaders, ReadLedger(q) \/ WriteLedger(q)
      PROVE  report' \in [SyncReaders -> LedgerType \cup {Null}]
  BY <1>1 DEF ReadLedger, WriteLedger, SyncTypeOK
<1>2. CASE UNCHANGED report
  BY <1>2 DEF SyncTypeOK
<1> QED
  BY <1>1, <1>2
  DEF SyncNext, RequestStep, EditorStep, AccountStep, Preflight, AnswerPrepared, StartSync, Refresh,
      SaveNarration, SyncThrows, SettleSync, SettleThrows, FailSync, RequestLost, OpenStory,
      ReviseStory, ReplaceScript, RenderReserves, RenderEnds, NewPeriod

LEMMA SyncTypesKept ==
    ASSUME SyncTypeOK, WorkersOwnAttempts, SyncNext
    PROVE  SyncTypeOK'
<1>0. SyncEffect
  BY SyncEffects
<1>1. /\ attempt' \in [SyncKeys -> SyncAttempt \cup {Null}]
      /\ syncLock' \in [Stories -> SyncKeys \cup {Null}]
  <2>1. ASSUME NEW k \in SyncKeys, NEW bill \in SyncCharges \cup {0}, Finishes(k, bill)
        PROVE  /\ attempt' \in [SyncKeys -> SyncAttempt \cup {Null}]
               /\ syncLock' \in [Stories -> SyncKeys \cup {Null}]
    BY <2>1 DEF Finishes, SyncTypeOK
  <2>2. ASSUME NEW k \in SyncKeys, NEW s \in Stories, NEW est \in SyncEstimates \cup {0},
               Begins(k, s, est)
        PROVE  /\ attempt' \in [SyncKeys -> SyncAttempt \cup {Null}]
               /\ syncLock' \in [Stories -> SyncKeys \cup {Null}]
    BY <2>2 DEF Begins, SyncTypeOK
  <2>3. CASE NoneEnds \/ AccountStep
    BY <2>3
    DEF NoneEnds, AccountStep, RenderReserves, RenderEnds, NewPeriod, ReadLedger, WriteLedger,
        SyncTypeOK
  <2> QED  BY <1>0, <2>1, <2>2, <2>3 DEF SyncEffect
<1>2. request' \in [Requests -> {IdleSync} \cup Planned \cup Started \cup Syncing
                                    \cup Saved \cup Failing]
  <2>1. CASE request' = request
    BY <2>1 DEF SyncTypeOK
  <2> QED
    BY <2>1, RequestTypes
    DEF SyncNext, EditorStep, OpenStory, ReviseStory, ReplaceScript, AccountStep,
        RenderReserves, RenderEnds, NewPeriod, ReadLedger, WriteLedger
<1> QED  BY <1>0, <1>1, <1>2, StoryTypes, AccountTypes, ReportTypes DEF SyncTypeOK

-----------------------------------------------------------------------------
(* Requests and their attempts *)

(* What any step but an admission and an ending does to the requests at work. *)
OwnersKept(c) ==
    \E r : /\ request' = [request EXCEPT ![c] = r]
           /\ \/ r.pc \in {"idle", "planned"}
              \/ Working(c) /\ r.key = request[c].key /\ r.pc \in {"syncing", "saved", "failing"}

LEMMA WorkersKept ==
    ASSUME SyncTypeOK, WorkersOwnAttempts, SyncNext
    PROVE  WorkersOwnAttempts'
<1>0. request = [d \in Requests |-> request[d]]
  BY DEF SyncTypeOK
<1>1. ASSUME NEW c \in Requests, OwnersKept(c), NoneEnds
      PROVE  WorkersOwnAttempts'
  <2>1. PICK r : /\ request' = [request EXCEPT ![c] = r]
                 /\ \/ r.pc \in {"idle", "planned"}
                    \/ /\ Working(c) /\ r.key = request[c].key
                       /\ r.pc \in {"syncing", "saved", "failing"}
    BY <1>1 DEF OwnersKept
  <2>2. \A d \in Requests : request'[d] = IF d = c THEN r ELSE request[d]
    BY <1>0, <2>1
  <2>3. \A d \in Requests : Working(d)' => /\ Working(d)
                                           /\ request'[d].key = request[d].key
                                           /\ request'[d].pc = "started" => request'[d] = request[d]
    BY <2>1, <2>2 DEF Working
  <2>4. \A d \in Requests : Working(d) => request[d].key \in SyncKeys /\ attempt[request[d].key] # Null
    BY WorkingRequest DEF WorkersOwnAttempts, Running, Working
  <2> QED  BY <1>1, <2>3, <2>4 DEF WorkersOwnAttempts, NoneEnds
<1>2. ASSUME NEW c \in Requests, StartSync(c) PROVE WorkersOwnAttempts'
  <2> DEFINE k == request[c].key
             s == request[c].print.story
             a == [story |-> s, reserved |-> request[c].estimate, state |-> "running",
                   billed |-> 0, owed |-> 0]
             r == [pc |-> "started", key |-> k, print |-> request[c].print]
  <2>1. k \in SyncKeys /\ attempt[k] = Null /\ request[c].pc = "planned"
    BY <1>2, WorkingRequest DEF StartSync, MayStart
  <2>1a. s \in Stories /\ request[c].estimate \in SyncEstimates \cup {0}
    BY <2>1, WorkingRequest DEF Planned, PlanPrint
  <2>1b. a \in SyncAttempt
    <3> DEFINE est == request[c].estimate
    <3> HIDE DEF s, est
    <3> QED  BY <2>1a DEF SyncAttempt, s, est
  <2>2. \A b \in SyncKeys : attempt'[b] = IF b = k THEN a ELSE attempt[b]
    BY <1>2 DEF StartSync, SyncTypeOK
  <2>3. \A d \in Requests : request'[d] = IF d = c THEN r ELSE request[d]
    BY <1>0, <1>2 DEF StartSync
  <2>4. a.story = s /\ a.state = "running" /\ a # Null
    <3>1. a # Null
      <4> HIDE DEF a
      <4> QED  BY <2>1b, NullIsNoRecord
    <3> QED  BY <3>1
  <2>5. r.pc = "started" /\ r.key = k /\ r.print.story = s
    OBVIOUS
  <2>6. attempt'[k] # Null /\ attempt'[k].state = "running" /\ attempt'[k].story = s
    <3> HIDE DEF a
    <3> QED  BY <2>1, <2>2, <2>4
  <2>7. \A d \in Requests : d # c /\ Working(d) =>
            /\ request[d].key \in SyncKeys /\ request[d].key # k
    BY <2>1, WorkingRequest DEF WorkersOwnAttempts, Working, Running
  <2> HIDE DEF r, a, s, k
  <2>8. \A d \in Requests : d # c => request'[d] = request[d]
    BY <2>3
  <2>9. request'[c].pc = "started" /\ request'[c].key = k /\ request'[c].print.story = s
    BY <2>3, <2>5
  <2>10. \A d \in Requests : d # c /\ Working(d) => attempt'[request[d].key] = attempt[request[d].key]
    BY <2>2, <2>7
  <2>11. ASSUME NEW d \in Requests, Working(d)'
         PROVE  /\ Running(request[d].key)'
                /\ request'[d].pc = "started" =>
                       attempt'[request'[d].key].story = request'[d].print.story
                /\ request'[d].key = k => d = c
    <3>1. CASE d = c
      BY <2>6, <2>9, <3>1 DEF Running
    <3>2. CASE d # c
      <4>1. request'[d] = request[d] /\ Working(d)
        BY <2>8, <2>11, <3>2 DEF Working
      <4> QED  BY <2>7, <2>10, <3>2, <4>1 DEF WorkersOwnAttempts, Running
    <3> QED  BY <3>1, <3>2
  <2>12. ASSUME NEW d \in Requests, NEW e \in Requests, Working(d)', Working(e)',
                request'[d].key = request'[e].key
         PROVE  d = e
    <3>1. CASE d = c \/ e = c
      BY <2>9, <2>11, <2>12, <3>1
    <3>2. CASE d # c /\ e # c
      <4>1. request'[d] = request[d] /\ Working(d) /\ request'[e] = request[e] /\ Working(e)
        BY <2>8, <2>12, <3>2 DEF Working
      <4> QED  BY <2>12, <4>1 DEF WorkersOwnAttempts
    <3> QED  BY <3>1, <3>2
  <2> QED  BY <2>11, <2>12 DEF WorkersOwnAttempts
<1>3. ASSUME NEW c \in Requests, SettleSync(c) \/ FailSync(c) PROVE WorkersOwnAttempts'
  <2> DEFINE k == request[c].key
  <2>1. k \in SyncKeys /\ Working(c) /\ Running(k)
    BY <1>3, WorkingRequest DEF SettleSync, FailSync, WorkersOwnAttempts, Working
  <2>2. \A b \in SyncKeys : b # k => attempt'[b] = attempt[b]
    BY <1>3, <2>1 DEF SettleSync, FailSync, SyncTypeOK
  <2>3. \A d \in Requests : request'[d] = IF d = c THEN IdleSync ELSE request[d]
    BY <1>0, <1>3 DEF SettleSync, FailSync
  <2>4. \A d \in Requests : Working(d)' => d # c /\ Working(d) /\ request'[d] = request[d]
    BY <2>3 DEF Working, IdleSync
  <2>5. \A d \in Requests : d # c /\ Working(d) =>
            request[d].key \in SyncKeys /\ request[d].key # k
    BY <2>1, WorkingRequest DEF WorkersOwnAttempts, Working
  <2> HIDE DEF k
  <2> QED  BY <2>2, <2>4, <2>5 DEF WorkersOwnAttempts, Running
<1>4. ASSUME NEW c \in Requests, UNCHANGED attempt, UNCHANGED syncLock PROVE NoneEnds
  BY <1>4 DEF NoneEnds, Running, SyncTypeOK
<1>5. ASSUME NEW c \in Requests, RequestStep(c) PROVE WorkersOwnAttempts'
  <2>1. ASSUME NEW k \in SyncKeys, NEW s \in Stories, NEW mode \in Modes, Preflight(c, k, s, mode)
        PROVE  OwnersKept(c) /\ NoneEnds
    <3>1. PICK e : request' = [request EXCEPT ![c] =
                 [pc |-> "planned", key |-> k, print |-> PrintOf(s, mode), estimate |-> e]]
      BY <2>1 DEF Preflight
    <3> QED  BY <1>4, <2>1, <3>1 DEF Preflight, OwnersKept
  <2>2. CASE AnswerPrepared(c) \/ RequestLost(c)
    <3>1. IdleSync.pc = "idle" /\ request' = [request EXCEPT ![c] = IdleSync]
      BY <2>2 DEF AnswerPrepared, RequestLost, IdleSync
    <3>2. OwnersKept(c)
      BY <3>1 DEF OwnersKept
    <3> QED  BY <1>1, <1>4, <2>2, <3>2 DEF AnswerPrepared, RequestLost
  <2>3. CASE Refresh(c) \/ SyncThrows(c) \/ SettleThrows(c)
    <3>1. Working(c)
      BY <2>3 DEF Refresh, SyncThrows, SettleThrows, Working
    <3>2. OwnersKept(c)
      BY <2>3, <3>1 DEF Refresh, SyncThrows, SettleThrows, OwnersKept
    <3> QED  BY <1>1, <1>4, <2>3, <3>2 DEF Refresh, SyncThrows, SettleThrows
  <2>4. CASE SaveNarration(c)
    <3> DEFINE k == request[c].key
    <3>1. k \in SyncKeys /\ Running(k) /\ Working(c)
      BY <2>4, WorkingRequest DEF SaveNarration, WorkersOwnAttempts, Working
    <3>2. attempt[k] \in SyncAttempt /\ request[c] \in Syncing
      BY <2>4, <3>1, RunningIsAttempt, WorkingRequest DEF SaveNarration
    <3>3. PICK bill \in BillsOf(request[c].copy) :
              /\ attempt' = [attempt EXCEPT ![k].owed = bill]
              /\ request' = [request EXCEPT ![c] = [pc |-> "saved", key |-> k, bill |-> bill]]
      BY <2>4 DEF SaveNarration
    <3> DEFINE r == [pc |-> "saved", key |-> k, bill |-> bill]
    <3>3a. r.pc = "saved" /\ r.key = k
      OBVIOUS
    <3>3b. request' = [request EXCEPT ![c] = r]
      BY <3>3
    <3> HIDE DEF r
    <3>4. OwnersKept(c)
      BY <3>1, <3>3a, <3>3b DEF OwnersKept
    <3> DEFINE a == [attempt[k] EXCEPT !.owed = bill]
    <3>5. /\ a \in SyncAttempt
          /\ a.story = attempt[k].story /\ a.state = attempt[k].state
          /\ a.reserved = attempt[k].reserved
      BY <3>2, <3>3 DEF SyncAttempt, BillsOf
    <3>6. \A b \in SyncKeys : attempt'[b] = IF b = k THEN a ELSE attempt[b]
      BY <3>3 DEF SyncTypeOK
    <3>7. attempt' \in [SyncKeys -> SyncAttempt \cup {Null}]
      BY <3>3, <3>5 DEF SyncTypeOK
    <3> HIDE DEF a, k
    <3>8. NoneEnds
      BY <2>4, <3>1, <3>2, <3>5, <3>6, <3>7, NullIsNoRecord DEF NoneEnds, Running, SaveNarration
    <3> QED  BY <1>1, <3>4, <3>8
  <2> QED  BY <1>1, <1>2, <1>3, <1>5, <2>1, <2>2, <2>3, <2>4 DEF RequestStep
<1>6. CASE UNCHANGED <<attempt, request>>
  BY <1>6 DEF WorkersOwnAttempts, Working, Running
<1> QED
  BY <1>5, <1>6
  DEF SyncNext, EditorStep, OpenStory, ReviseStory, ReplaceScript, AccountStep,
      RenderReserves, RenderEnds, NewPeriod, ReadLedger, WriteLedger

-----------------------------------------------------------------------------
(* The lock of a story *)

LEMMA LocksKept ==
    ASSUME SyncTypeOK, SyncLockExact, SyncEffect
    PROVE  SyncLockExact'
<1>0. /\ \A s \in Stories : syncLock[s] # Null => syncLock[s] \in SyncKeys
      /\ syncLock \in [Stories -> SyncKeys \cup {Null}]
      /\ attempt \in [SyncKeys -> SyncAttempt \cup {Null}]
  BY DEF SyncTypeOK
<1>1. CASE NoneEnds
  BY <1>0, <1>1 DEF SyncLockExact, NoneEnds, Running
<1>2. ASSUME NEW k \in SyncKeys, NEW s \in Stories, NEW est, Begins(k, s, est)
      PROVE  SyncLockExact'
  <2>1. PICK a \in SyncAttempt : /\ a.story = s /\ a.state = "running"
                                 /\ attempt' = [attempt EXCEPT ![k] = a]
    BY <1>2 DEF Begins
  <2>2. \A b \in SyncKeys : attempt'[b] = IF b = k THEN a ELSE attempt[b]
    BY <1>0, <2>1
  <2>3. \A t \in Stories : syncLock'[t] = IF t = s THEN k ELSE syncLock[t]
    BY <1>0, <1>2 DEF Begins
  <2>4. Running(k)' /\ attempt'[k].story = s /\ ~Running(k)
    BY <1>2, <2>1, <2>2, NullIsNoRecord DEF Running, Begins
  <2>5. \A b \in SyncKeys : b # k /\ Running(b) => attempt[b].story # s /\ attempt[b].story \in Stories
    <3>1. \A b \in SyncKeys : Running(b) => attempt[b].story \in Stories
      BY RunningIsAttempt
    <3> QED  BY <1>2, <3>1, NullIsNothing DEF SyncLockExact, Begins, HeldByOther
  <2>6. ASSUME NEW b \in SyncKeys, Running(b)' PROVE syncLock'[attempt'[b].story] = b
    BY <2>2, <2>3, <2>4, <2>5, <2>6 DEF SyncLockExact, Running
  <2>7. ASSUME NEW t \in Stories, syncLock'[t] # Null
        PROVE  Running(syncLock[t])' /\ attempt'[syncLock'[t]].story = t
    <3>1. CASE t = s
      <4> QED  BY <2>3, <2>4, <3>1 DEF Running
    <3>2. CASE t # s
      <4>1. syncLock'[t] = syncLock[t] /\ syncLock[t] \in SyncKeys /\ Running(syncLock[t])
        BY <1>0, <2>3, <2>7, <3>2 DEF SyncLockExact
      <4>2. attempt'[syncLock[t]] = attempt[syncLock[t]]
        BY <2>2, <2>4, <4>1
      <4> QED  BY <2>7, <3>2, <4>1, <4>2 DEF SyncLockExact, Running
    <3> QED  BY <3>1, <3>2
  <2> QED  BY <2>6, <2>7 DEF SyncLockExact
<1>3. ASSUME NEW k \in SyncKeys, NEW bill, Finishes(k, bill) PROVE SyncLockExact'
  <2> DEFINE s == attempt[k].story
  <2>1. PICK a \in SyncAttempt : /\ a.state \in {"done", "failed"}
                                 /\ attempt' = [attempt EXCEPT ![k] = a]
    BY <1>3 DEF Finishes
  <2>2. \A b \in SyncKeys : attempt'[b] = IF b = k THEN a ELSE attempt[b]
    BY <1>0, <2>1
  <2>3. s \in Stories /\ syncLock[s] = k
    BY <1>3, RunningIsAttempt DEF Finishes, SyncLockExact
  <2>4. \A t \in Stories : syncLock'[t] = IF t = s THEN Null ELSE syncLock[t]
    BY <1>0, <1>3 DEF Finishes
  <2>5. ~Running(k)'
    BY <2>1, <2>2 DEF Running
  <2>6. \A b \in SyncKeys : Running(b) => attempt[b].story \in Stories
    BY RunningIsAttempt
  <2> HIDE DEF s
  <2>7. ASSUME NEW b \in SyncKeys, Running(b)' PROVE syncLock'[attempt'[b].story] = b
    <3>1. b # k /\ attempt'[b] = attempt[b] /\ Running(b)
      BY <2>2, <2>5, <2>7 DEF Running
    <3> QED  BY <2>3, <2>4, <2>6, <3>1 DEF SyncLockExact
  <2>8. ASSUME NEW t \in Stories, syncLock'[t] # Null
        PROVE  Running(syncLock[t])' /\ attempt'[syncLock'[t]].story = t
    <3>1. t # s /\ syncLock'[t] = syncLock[t] /\ syncLock[t] \in SyncKeys
      BY <1>0, <2>4, <2>8
    <3>2. Running(syncLock[t]) /\ attempt[syncLock[t]].story = t
      BY <2>8, <3>1 DEF SyncLockExact
    <3>3. syncLock[t] # k
      BY <3>1, <3>2 DEF s
    <3>4. attempt'[syncLock[t]] = attempt[syncLock[t]]
      BY <2>2, <3>1, <3>3
    <3> QED  BY <3>1, <3>2, <3>4 DEF Running
  <2> QED  BY <2>7, <2>8 DEF SyncLockExact
<1>4. CASE AccountStep
  BY <1>4
  DEF AccountStep, RenderReserves, RenderEnds, NewPeriod, ReadLedger, WriteLedger, SyncLockExact,
      Running
<1> QED  BY <1>1, <1>2, <1>3, <1>4 DEF SyncEffect

-----------------------------------------------------------------------------
(* What the account has reserved *)

Syncs == {k \in SyncKeys : Running(k)}
Held == [k \in SyncKeys |-> attempt[k].reserved]

(* Keys that were ever used stay finitely many. *)
LEMMA KnownKept ==
    ASSUME SyncTypeOK, IsFiniteSet(KnownSyncs), SyncEffect
    PROVE  IsFiniteSet(KnownSyncs)'
<1>0. attempt \in [SyncKeys -> SyncAttempt \cup {Null}]
  BY DEF SyncTypeOK
<1>1. CASE NoneEnds \/ AccountStep
  <2>1. KnownSyncs' = KnownSyncs
    BY <1>0, <1>1
    DEF KnownSyncs, NoneEnds, AccountStep, RenderReserves, RenderEnds, NewPeriod, ReadLedger,
        WriteLedger
  <2> QED  BY <2>1
<1>2. ASSUME NEW k \in SyncKeys, NEW a \in SyncAttempt, attempt' = [attempt EXCEPT ![k] = a]
      PROVE  IsFiniteSet(KnownSyncs)'
  <2>1. KnownSyncs' = KnownSyncs \cup {k}
    BY <1>0, <1>2, NullIsNoRecord DEF KnownSyncs
  <2> QED  BY <2>1, FS_AddElement
<1> QED  BY <1>1, <1>2 DEF SyncEffect, Begins, Finishes

(* What running syncs hold can be added up. *)
LEMMA HeldTotal ==
    ASSUME SyncTypeOK, IsFiniteSet(KnownSyncs)
    PROVE  /\ IsFiniteSet(Syncs)
           /\ \A k \in Syncs : k \in SyncKeys /\ Held[k] \in Nat /\ attempt[k] \in SyncAttempt
           /\ Total(Held, Syncs) \in Nat
<1>1. IsFiniteSet(Syncs)
  <2>1. Syncs \subseteq KnownSyncs
    BY DEF Syncs, KnownSyncs, Running
  <2> QED  BY <2>1, FS_Subset
<1>2. \A k \in Syncs : k \in SyncKeys /\ attempt[k] \in SyncAttempt
  BY RunningIsAttempt DEF Syncs
<1>3. \A k \in Syncs : Held[k] \in SyncEstimates \cup {0}
  BY <1>2 DEF Held, SyncAttempt
<1>4. SyncEstimates \subseteq Nat
  BY SyncAmounts
<1>5. ASSUME NEW k \in Syncs PROVE Held[k] \in Nat
  <2>1. Held[k] \in SyncEstimates \/ Held[k] = 0
    BY <1>3
  <2>2. CASE Held[k] \in SyncEstimates
    BY <1>4, <2>2
  <2>3. CASE Held[k] = 0
    BY <2>3
  <2> QED  BY <2>1, <2>2, <2>3
<1> QED  BY <1>1, <1>2, <1>5, TotalType

(* The ledger and what is held, as numbers *)
LEMMA SyncNumbers ==
    ASSUME SyncTypeOK, IsFiniteSet(KnownSyncs)
    PROVE  /\ ledger.used \in Nat /\ ledger.reserved \in Nat /\ rendering \in Nat
           /\ SyncEstimates \subseteq Nat /\ SyncCharges \subseteq Nat /\ Included \in Nat
           /\ attempt \in [SyncKeys -> SyncAttempt \cup {Null}]
           /\ SyncHeld = rendering + Total(Held, Syncs)
           /\ SyncHeld \in Nat /\ rendering <= SyncHeld
           /\ SyncDrift = ledger.reserved - SyncHeld
           /\ SyncTaken = ledger.used + ledger.reserved
<1>1. SyncHeld = rendering + Total(Held, Syncs)
  BY DEF SyncHeld, Held, Syncs
<1>2. rendering \in Nat /\ ledger.used \in Nat /\ ledger.reserved \in Nat
  BY DEF SyncTypeOK, LedgerType
<1>3. SyncHeld \in Nat /\ rendering <= SyncHeld
  BY <1>1, <1>2, HeldTotal
<1> QED  BY <1>1, <1>2, <1>3, SyncAmounts DEF SyncTypeOK, SyncDrift, SyncTaken

(* An attempt that starts adds what it reserves to what is held. *)
LEMMA BeginsHolds ==
    ASSUME SyncTypeOK, IsFiniteSet(KnownSyncs), NEW k \in SyncKeys, NEW s \in Stories,
           NEW est \in SyncEstimates \cup {0}, Begins(k, s, est)
    PROVE  SyncHeld' = SyncHeld + est /\ est \in Nat
<1>1. PICK a \in SyncAttempt : /\ a.state = "running" /\ a.reserved = est
                               /\ attempt' = [attempt EXCEPT ![k] = a]
  BY DEF Begins
<1>2. \A b \in SyncKeys : attempt'[b] = IF b = k THEN a ELSE attempt[b]
  BY <1>1, SyncNumbers
<1>3. k \notin Syncs /\ Syncs' = Syncs \cup {k}
  BY <1>1, <1>2, NullIsNoRecord DEF Begins, Syncs, Running
<1>4. Held'[k] = est /\ \A b \in Syncs : Held'[b] = Held[b]
  BY <1>1, <1>2, <1>3 DEF Held, Syncs
<1>5. est \in Nat
  BY SyncNumbers
<1>6. Total(Held', Syncs \cup {k}) = Total(Held', Syncs) + est
  BY <1>3, <1>4, <1>5, HeldTotal, TotalAdd
<1>7. Total(Held', Syncs) = Total(Held, Syncs)
  BY <1>4, TotalSame
<1>8. SyncHeld' = rendering' + Total(Held', Syncs')
  BY DEF SyncHeld, Held, Syncs
<1>9. rendering' = rendering
  BY DEF Begins
<1> QED  BY <1>3, <1>5, <1>6, <1>7, <1>8, <1>9, SyncNumbers, HeldTotal

(* One that ends takes it away. *)
LEMMA FinishesHolds ==
    ASSUME SyncTypeOK, IsFiniteSet(KnownSyncs), NEW k \in SyncKeys,
           NEW bill \in SyncCharges \cup {0}, Finishes(k, bill)
    PROVE  /\ SyncHeld' = SyncHeld - attempt[k].reserved
           /\ attempt[k].reserved \in Nat /\ attempt[k].reserved <= SyncHeld
           /\ bill \in Nat
<1>1. PICK a \in SyncAttempt : /\ a.state \in {"done", "failed"}
                               /\ attempt' = [attempt EXCEPT ![k] = a]
  BY DEF Finishes
<1>2. \A b \in SyncKeys : attempt'[b] = IF b = k THEN a ELSE attempt[b]
  BY <1>1, SyncNumbers
<1>3. k \in Syncs /\ Syncs' = Syncs \ {k}
  BY <1>1, <1>2 DEF Finishes, Syncs, Running
<1>4. \A b \in Syncs \ {k} : Held'[b] = Held[b]
  BY <1>2 DEF Held, Syncs
<1>5. Total(Held', Syncs \ {k}) = Total(Held, Syncs \ {k})
  BY <1>4, TotalSame
<1>6. /\ Total(Held, Syncs \ {k}) = Total(Held, Syncs) - Held[k]
      /\ Held[k] <= Total(Held, Syncs)
      /\ Held[k] \in Nat
  BY <1>3, HeldTotal, TotalRemove
<1>7. Held[k] = attempt[k].reserved
  BY DEF Held
<1>8. SyncHeld' = rendering' + Total(Held', Syncs')
  BY DEF SyncHeld, Held, Syncs
<1>9. rendering' = rendering
  BY DEF Finishes
<1>10. bill \in Nat
  BY SyncNumbers
<1> HIDE DEF Held
<1> QED  BY <1>3, <1>5, <1>6, <1>7, <1>8, <1>9, <1>10, SyncNumbers, HeldTotal

(* What renders and the period do to the numbers; attempts stay. *)
LEMMA AccountHolds ==
    ASSUME SyncTypeOK, IsFiniteSet(KnownSyncs), AccountStep
    PROVE  \/ LedgerWrittenBack
           \/ UNCHANGED <<attempt, ledger, rendering>>
           \/ \E n \in Nat : /\ SyncAvailable >= n
                             /\ ledger' = SyncDelta(0, n)
                             /\ SyncHeld' = SyncHeld + n
           \/ \E n \in 0..rendering : /\ ledger' = SyncDelta(n, -rendering)
                                      /\ SyncHeld' = SyncHeld - rendering
           \/ /\ ledger'.used = 0 /\ ledger'.reserved = ledger.reserved
              /\ SyncHeld' = SyncHeld
<1>1. CASE UNCHANGED attempt
  <2>1. Syncs' = Syncs /\ Held' = Held
    BY <1>1 DEF Syncs, Held, Running
  <2>2. SyncHeld' = rendering' + Total(Held, Syncs)
    BY <2>1 DEF SyncHeld, Held, Syncs
  <2>3. ASSUME NEW n \in SyncEstimates, RenderReserves(n)
        PROVE  n \in Nat /\ SyncHeld' = SyncHeld + n
    BY <2>2, <2>3, SyncNumbers, HeldTotal DEF RenderReserves
  <2>4. ASSUME NEW n \in 0..rendering, RenderEnds(n) PROVE SyncHeld' = SyncHeld - rendering
    BY <2>2, <2>4, SyncNumbers, HeldTotal DEF RenderEnds
  <2>5. ASSUME NewPeriod
        PROVE  /\ ledger'.used = 0 /\ ledger'.reserved = ledger.reserved
               /\ SyncHeld' = SyncHeld
    BY <2>2, <2>5, SyncNumbers DEF NewPeriod, SyncTypeOK, LedgerType
  <2>6. ASSUME NEW q \in SyncReaders, WriteLedger(q) PROVE LedgerWrittenBack
    <3>1. report'[q] = Null
      BY <2>6 DEF WriteLedger, SyncTypeOK
    <3> QED  BY <2>6, <3>1 DEF WriteLedger, LedgerWrittenBack
  <2>7. CASE \E n \in SyncEstimates : RenderReserves(n)
    BY <2>3, <2>7 DEF RenderReserves
  <2>8. CASE \E n \in 0..rendering : RenderEnds(n)
    BY <2>4, <2>8 DEF RenderEnds
  <2> QED  BY <2>5, <2>6, <2>7, <2>8 DEF AccountStep, ReadLedger
<1> QED
  BY <1>1 DEF AccountStep, RenderReserves, RenderEnds, NewPeriod, ReadLedger, WriteLedger

(* A step that gives time back: what the ledger has not is not taken from it. *)
LEMMA GivenBack ==
    ASSUME NEW used \in Nat, NEW n \in Nat, ledger.used \in Nat, ledger.reserved \in Nat,
           ledger' = SyncDelta(used, -n)
    PROVE  /\ ledger'.used = ledger.used + used
           /\ ledger'.reserved = IF ledger.reserved < n THEN 0 ELSE ledger.reserved - n
BY DEF SyncDelta, SyncAtLeastZero

SyncBalanced ==
    \/ UNCHANGED <<attempt, ledger, rendering>>
    \/ LedgerWrittenBack
    \/ SyncDrift' = SyncDrift
    \/ SyncDrift < SyncDrift' /\ SyncDrift' <= 0

LEMMA SyncBalanceKept ==
    ASSUME SyncTypeOK, IsFiniteSet(KnownSyncs), SyncEffect
    PROVE  SyncBalanced
<1>0. /\ ledger.used \in Nat /\ ledger.reserved \in Nat
      /\ SyncHeld \in Nat /\ rendering \in Nat /\ rendering <= SyncHeld
      /\ SyncDrift = ledger.reserved - SyncHeld
      /\ SyncDrift' = ledger'.reserved - SyncHeld'
  BY SyncNumbers DEF SyncDrift
<1>1. ASSUME NEW n \in Nat, NEW used \in Nat, n <= SyncHeld,
             ledger' = SyncDelta(used, -n), SyncHeld' = SyncHeld - n
      PROVE  SyncBalanced
  <2>1. /\ ledger'.used = ledger.used + used
        /\ ledger'.reserved = IF ledger.reserved < n THEN 0 ELSE ledger.reserved - n
    BY <1>0, <1>1, GivenBack
  <2>2. CASE ledger.reserved < n
    BY <1>0, <1>1, <2>1, <2>2 DEF SyncBalanced
  <2>3. CASE ledger.reserved >= n
    BY <1>0, <1>1, <2>1, <2>3 DEF SyncBalanced
  <2> QED  BY <1>0, <1>1, <2>2, <2>3
<1>2. ASSUME NEW n \in Nat, ledger' = SyncDelta(0, n), SyncHeld' = SyncHeld + n
      PROVE  SyncBalanced
  BY <1>0, <1>2 DEF SyncBalanced, SyncDelta, SyncAtLeastZero
<1>3. CASE NoneEnds /\ UNCHANGED <<ledger, rendering>>
  <2>1. Syncs' = Syncs
    BY <1>3 DEF NoneEnds, Syncs
  <2>2. \A k \in Syncs : Held'[k] = Held[k]
    BY <1>3 DEF NoneEnds, Syncs, Held, Running
  <2>3. Total(Held', Syncs') = Total(Held, Syncs)
    BY <2>1, <2>2, TotalSame
  <2>4. SyncHeld' = SyncHeld
    BY <1>3, <2>3 DEF SyncHeld, Held, Syncs
  <2> QED  BY <1>0, <1>3, <2>4 DEF SyncBalanced
<1>4. ASSUME NEW k \in SyncKeys, NEW s \in Stories, NEW est \in SyncEstimates \cup {0},
             Begins(k, s, est)
      PROVE  SyncBalanced
  BY <1>2, <1>4, BeginsHolds DEF Begins
<1>5. ASSUME NEW k \in SyncKeys, NEW bill \in SyncCharges \cup {0}, Finishes(k, bill)
      PROVE  SyncBalanced
  BY <1>1, <1>5, FinishesHolds DEF Finishes
<1>6. CASE AccountStep
  <2>1. CASE \E n \in Nat : ledger' = SyncDelta(0, n) /\ SyncHeld' = SyncHeld + n
    BY <1>2, <2>1
  <2>2. CASE \E n \in 0..rendering : /\ ledger' = SyncDelta(n, -rendering)
                                     /\ SyncHeld' = SyncHeld - rendering
    BY <1>0, <1>1, <2>2
  <2>3. CASE ledger'.reserved = ledger.reserved /\ SyncHeld' = SyncHeld
    BY <1>0, <2>3 DEF SyncBalanced
  <2>4. CASE LedgerWrittenBack \/ UNCHANGED <<attempt, ledger, rendering>>
    BY <2>4 DEF SyncBalanced
  <2> QED  BY <1>6, <2>1, <2>2, <2>3, <2>4, AccountHolds
<1> QED  BY <1>3, <1>4, <1>5, <1>6 DEF SyncEffect

-----------------------------------------------------------------------------
(* What the account may take *)

SyncCovered ==
    SyncTaken' > SyncTaken /\ SyncTaken' > Included =>
        \/ \E k \in SyncKeys : Underestimated(k)
        \/ SyncTaken' <= SyncTaken - SyncDrift
        \/ LedgerWrittenBack

LEMMA TakenStep ==
    ASSUME SyncTypeOK, IsFiniteSet(KnownSyncs), SyncEffect
    PROVE  SyncCovered
<1>0. /\ ledger.used \in Nat /\ ledger.reserved \in Nat /\ Included \in Nat
      /\ SyncHeld \in Nat /\ rendering \in Nat /\ rendering <= SyncHeld
      /\ SyncDrift = ledger.reserved - SyncHeld
      /\ SyncTaken = ledger.used + ledger.reserved
      /\ SyncTaken' = ledger'.used + ledger'.reserved
  BY SyncNumbers DEF SyncTaken
<1>1. ASSUME NEW n \in Nat, NEW used \in Nat, n <= SyncHeld, used <= n,
             ledger' = SyncDelta(used, -n)
      PROVE  SyncCovered
  <2>1. /\ ledger'.used = ledger.used + used
        /\ ledger'.reserved = IF ledger.reserved < n THEN 0 ELSE ledger.reserved - n
    BY <1>0, <1>1, GivenBack
  <2>2. CASE ledger.reserved < n
    BY <1>0, <1>1, <2>1, <2>2 DEF SyncCovered
  <2>3. CASE ledger.reserved >= n
    BY <1>0, <1>1, <2>1, <2>3 DEF SyncCovered
  <2> QED  BY <1>0, <1>1, <2>2, <2>3
<1>2. ASSUME NEW n \in Nat, SyncAvailable >= n, ledger' = SyncDelta(0, n) PROVE SyncCovered
  BY <1>0, <1>2 DEF SyncCovered, SyncAvailable, SyncDelta, SyncAtLeastZero
<1>3. CASE NoneEnds /\ UNCHANGED <<ledger, rendering>>
  BY <1>0, <1>3 DEF SyncCovered
<1>4. ASSUME NEW k \in SyncKeys, NEW s \in Stories, NEW est \in SyncEstimates \cup {0},
             Begins(k, s, est)
      PROVE  SyncCovered
  BY <1>2, <1>4, BeginsHolds DEF Begins
<1>5. ASSUME NEW k \in SyncKeys, NEW bill \in SyncCharges \cup {0}, Finishes(k, bill)
      PROVE  SyncCovered
  <2>1. PICK a \in SyncAttempt : /\ a.state \in {"done", "failed"}
                                 /\ a.state = "failed" => bill = 0
                                 /\ a.state = "done" => bill = a.billed
                                 /\ attempt' = [attempt EXCEPT ![k] = a]
    BY <1>5 DEF Finishes
  <2>2. attempt'[k] = a
    BY <2>1, SyncNumbers
  <2>3. /\ attempt[k].reserved \in Nat /\ attempt[k].reserved <= SyncHeld /\ bill \in Nat
        /\ ledger' = SyncDelta(bill, -attempt[k].reserved)
    BY <1>5, FinishesHolds DEF Finishes
  <2>4. CASE bill <= attempt[k].reserved
    BY <1>1, <2>3, <2>4
  <2>5. CASE bill > attempt[k].reserved
    <3>1. Running(k) /\ a.state = "done" /\ a.billed > attempt[k].reserved
      BY <1>5, <2>1, <2>3, <2>5 DEF Finishes
    <3> QED  BY <2>2, <3>1 DEF Underestimated, SyncCovered
  <2> QED  BY <2>3, <2>4, <2>5
<1>6. CASE AccountStep
  <2>1. CASE \E n \in Nat : SyncAvailable >= n /\ ledger' = SyncDelta(0, n)
    BY <1>2, <2>1
  <2>2. CASE \E n \in 0..rendering : ledger' = SyncDelta(n, -rendering)
    BY <1>0, <1>1, <2>2
  <2>3. CASE ledger'.used = 0 /\ ledger'.reserved = ledger.reserved
    BY <1>0, <2>3 DEF SyncCovered
  <2>4. CASE LedgerWrittenBack \/ UNCHANGED <<attempt, ledger, rendering>>
    BY <1>0, <2>4 DEF SyncCovered
  <2> QED  BY <1>6, <2>1, <2>2, <2>3, <2>4, AccountHolds
<1> QED  BY <1>3, <1>4, <1>5, <1>6 DEF SyncEffect

-----------------------------------------------------------------------------
(* The theorems *)

LEMMA InitSyncInv == ASSUME SyncInit PROVE SyncInv
<1>1. SyncTypeOK
  BY DEF SyncInit, SyncTypeOK, Story, VoiceStates, LedgerType
<1>2. \A c \in Requests : request[c].pc = "idle"
  BY DEF SyncInit, IdleSync
<1>3. WorkersOwnAttempts
  BY <1>2 DEF WorkersOwnAttempts, Working
<1>4. \A k \in SyncKeys : ~Running(k)
  BY DEF SyncInit, Running
<1>5. SyncLockExact
  BY <1>4 DEF SyncInit, SyncLockExact
<1>6. IsFiniteSet(KnownSyncs)
  <2>1. KnownSyncs = {}
    BY DEF SyncInit, KnownSyncs
  <2> QED  BY <2>1, FS_EmptySet
<1> QED  BY <1>1, <1>3, <1>5, <1>6 DEF SyncInv

LEMMA NextSyncInv == ASSUME SyncInv, [SyncNext]_syncVars PROVE SyncInv'
<1>1. CASE SyncNext
  <2>1. SyncEffect
    BY <1>1, SyncEffects DEF SyncInv
  <2> QED
    BY <1>1, <2>1, SyncTypesKept, WorkersKept, LocksKept, KnownKept DEF SyncInv
<1>2. CASE UNCHANGED syncVars
  BY <1>2
  DEF syncVars, SyncInv, SyncTypeOK, WorkersOwnAttempts, Working, Running, SyncLockExact, KnownSyncs
<1> QED  BY <1>1, <1>2

(* The invariant holds of every reachable state.  With it, every variable keeps
   its type and a request that settles or fails its attempt finds it running, as
   completeStorySyncAttemptSuccess and failStorySyncAttempt expect. *)
THEOREM SyncInvariance == SyncSpec => []SyncInv
<1>1. SyncInit => SyncInv
  BY InitSyncInv
<1>2. SyncInv /\ [SyncNext]_syncVars => SyncInv'
  BY NextSyncInv
<1> QED  BY <1>1, <1>2, PTL DEF SyncSpec

(* No two syncs run for one session, and the lock of a session names the one
   that does: prepareStorySyncAttempt looks at the lock in the transaction that
   takes it, and only the attempt that holds it gives it back.  What the account
   has reserved moves with what running syncs and renders hold, but for what a
   usage summary writes over it. *)
THEOREM SyncsStayExact == SyncSpec => SyncsExact
<1>1. SyncInv => SyncLockExact
  BY DEF SyncInv
<1>2. SyncInv /\ SyncNext => SyncBalanced
  BY SyncEffects, SyncBalanceKept DEF SyncInv
<1>3. SyncInv /\ [SyncNext]_syncVars => [SyncBalanced]_syncVars
  BY <1>2
<1>4. SyncInv' => SyncLockExact'
  BY <1>1, PTL
<1>5. SyncInv /\ SyncInv' /\ [SyncNext]_syncVars
          => [SyncLockExact' /\ SyncReservationsBalance]_syncVars
  BY <1>3, <1>4 DEF SyncBalanced, SyncReservationsBalance
<1> QED  BY <1>5, SyncInvariance, PTL DEF SyncSpec, SyncsExact

(* Only a sync settled for more than it had reserved takes an account beyond
   its plan; a usage summary's write may, and what it erased may be taken again. *)
THEOREM SyncOverdraft == SyncSpec => OverdraftOnlyByUnderestimate
<1>1. SyncInv /\ SyncNext => SyncCovered
  BY SyncEffects, TakenStep DEF SyncInv
<1>2. SyncInv /\ [SyncNext]_syncVars => [SyncCovered]_syncVars
  BY <1>1
<1>3. SyncSpec => [][SyncCovered]_syncVars
  BY <1>2, SyncInvariance, PTL DEF SyncSpec
<1> QED  BY <1>3 DEF OverdraftOnlyByUnderestimate, SyncCovered

-----------------------------------------------------------------------------
(* Clips and sentences *)

(* Where the elements of a sequence are after one has been put in or taken out *)
LEMMA InsertedAt ==
    ASSUME NEW S, NEW s \in Seq(S), NEW i \in 1..Len(s) + 1, NEW x \in S
    PROVE  \A j \in 1..Len(s) + 1 :
               InsertAt(s, i, x)[j] = IF j < i THEN s[j] ELSE IF j = i THEN x ELSE s[j - 1]
<1> DEFINE head == SubSeq(s, 1, i - 1)
           tail == SubSeq(s, i, Len(s))
<1>0. Len(s) \in Nat /\ i \in Nat
  OBVIOUS
<1>1. /\ head \in Seq(S) /\ Len(head) = i - 1
      /\ \A j \in 1..i - 1 : head[j] = s[j]
  BY <1>0, Part
<1>2. /\ tail \in Seq(S) /\ Len(tail) = Len(s) - i + 1
      /\ \A j \in 1..Len(s) - i + 1 : tail[j] = s[i + j - 1]
  BY <1>0, Part
<1>3. InsertAt(s, i, x) = head \o <<x>> \o tail
  BY DEF InsertAt
<1> HIDE DEF head, tail
<1> DEFINE front == head \o <<x>>
<1>4. /\ front \in Seq(S) /\ Len(front) = i
      /\ \A j \in 1..i : front[j] = IF j < i THEN s[j] ELSE x
  BY <1>0, <1>1
<1> HIDE DEF front
<1>5. \A j \in 1..Len(s) + 1 : (front \o tail)[j] = IF j <= i THEN front[j] ELSE tail[j - i]
  BY <1>0, <1>2, <1>4
<1> SUFFICES ASSUME NEW j \in 1..Len(s) + 1
             PROVE  (front \o tail)[j] = IF j < i THEN s[j] ELSE IF j = i THEN x ELSE s[j - 1]
  BY <1>3 DEF front
<1>6. CASE j <= i
  BY <1>0, <1>4, <1>5, <1>6
<1>7. CASE ~(j <= i)
  <2>1. /\ j \in Int /\ i \in Int /\ j - i \in 1..Len(s) - i + 1
        /\ i + (j - i) - 1 = j - 1 /\ ~(j < i) /\ j # i
    BY <1>0, <1>7
  <2>2. tail[j - i] = s[i + (j - i) - 1]
    BY <1>2, <2>1
  <2>3. (front \o tail)[j] = tail[j - i]
    BY <1>5, <1>7
  <2> QED  BY <2>1, <2>2, <2>3
<1> QED  BY <1>6, <1>7

LEMMA RemovedAt ==
    ASSUME NEW S, NEW s \in Seq(S), NEW i \in 1..Len(s)
    PROVE  \A j \in 1..Len(s) - 1 : RemoveAt(s, i)[j] = IF j < i THEN s[j] ELSE s[j + 1]
<1> DEFINE head == SubSeq(s, 1, i - 1)
           tail == SubSeq(s, i + 1, Len(s))
<1>0. Len(s) \in Nat /\ i \in Nat
  OBVIOUS
<1>1. /\ head \in Seq(S) /\ Len(head) = i - 1
      /\ \A j \in 1..i - 1 : head[j] = s[j]
  BY <1>0, Part
<1>2. /\ tail \in Seq(S) /\ Len(tail) = Len(s) - i
      /\ \A j \in 1..Len(s) - i : tail[j] = s[i + j]
  BY <1>0, Part
<1>3. RemoveAt(s, i) = head \o tail
  BY DEF RemoveAt
<1> HIDE DEF head, tail
<1> SUFFICES ASSUME NEW j \in 1..Len(s) - 1
             PROVE  (head \o tail)[j] = IF j < i THEN s[j] ELSE s[j + 1]
  BY <1>3
<1>4. CASE j < i
  BY <1>0, <1>1, <1>2, <1>4
<1>5. CASE ~(j < i)
  <2>1. /\ j \in Int /\ i \in Int /\ j - (i - 1) \in 1..Len(s) - i
        /\ i + (j - (i - 1)) = j + 1
    BY <1>0, <1>5
  <2>2. tail[j - (i - 1)] = s[i + (j - (i - 1))]
    BY <1>2, <2>1
  <2>3. (head \o tail)[j] = tail[j - (i - 1)]
    BY <1>0, <1>1, <1>2, <2>1, <1>5
  <2> QED  BY <1>5, <2>1, <2>2, <2>3
<1> QED  BY <1>4, <1>5

(* Where each sentence has its shot, a sentence's clip is that of its shot. *)
LEMMA AlignedClips ==
    ASSUME NEW s, Aligned(s), s.text \in Seq(Lines), s.shots \in Seq(AnyShot)
    PROVE  /\ AllClips(s) \in Seq(Clips \cup {Absent}) /\ Len(AllClips(s)) = Len(s.text)
           /\ \A b \in 1..Len(s.text) : /\ ShotsOf(s, b) = {b}
                                        /\ FirstOf(ShotsOf(s, b)) = b
                                        /\ AllClips(s)[b] = s.shots[b].clip
<1>0. Len(s.text) \in Nat /\ Len(s.shots) = Len(s.text) /\ s.shots # Absent
  BY DEF Aligned
<1>1. ASSUME NEW b \in 1..Len(s.text)
      PROVE  /\ ShotsOf(s, b) = {b} /\ FirstOf(ShotsOf(s, b)) = b
             /\ AllClips(s)[b] = s.shots[b].clip
             /\ s.shots[b].clip \in Clips \cup {Absent}
  <2>1. ShotsOf(s, b) = {b}
    BY <1>0 DEF Aligned, ShotsOf, Indices
  <2>2. FirstOf({b}) = b
    BY <1>0 DEF FirstOf
  <2>3. s.shots[b] \in AnyShot
    BY <1>0
  <2>4. ClipOf(s, b) = s.shots[b].clip
    BY <2>1, <2>2 DEF ClipOf
  <2> QED  BY <2>1, <2>2, <2>3, <2>4 DEF AllClips, Indices, AnyShot
<1>2. AllClips(s) = [b \in 1..Len(s.text) |-> AllClips(s)[b]]
  BY DEF AllClips, Indices
<1>3. AllClips(s) \in [1..Len(s.text) -> Clips \cup {Absent}]
  BY <1>1, <1>2
<1> QED  BY <1>0, <1>1, <1>3

LEMMA RenumberedAt ==
    ASSUME NEW shots \in Seq(AnyShot)
    PROVE  /\ Renumbered(shots) \in Seq(AnyShot) /\ Len(Renumbered(shots)) = Len(shots)
           /\ \A i \in 1..Len(shots) : /\ Renumbered(shots)[i].beat = i
                                       /\ Renumbered(shots)[i].clip = shots[i].clip
<1>0. Len(shots) \in Nat
  OBVIOUS
<1>1. ASSUME NEW i \in 1..Len(shots)
      PROVE  /\ [shots[i] EXCEPT !.beat = i] \in AnyShot
             /\ [shots[i] EXCEPT !.beat = i].beat = i
             /\ [shots[i] EXCEPT !.beat = i].clip = shots[i].clip
  <2>1. shots[i] \in AnyShot /\ i \in Int
    BY <1>0
  <2> DEFINE shot == shots[i]
  <2>2. shot \in [beat : Int, clip : Clips \cup {Absent}]
    BY <2>1 DEF AnyShot
  <2> HIDE DEF shot
  <2>3. /\ [shot EXCEPT !.beat = i] \in [beat : Int, clip : Clips \cup {Absent}]
        /\ [shot EXCEPT !.beat = i].beat = i
        /\ [shot EXCEPT !.beat = i].clip = shot.clip
    BY <2>1, <2>2
  <2> QED  BY <2>3 DEF shot, AnyShot
<1>2. Renumbered(shots) = [i \in 1..Len(shots) |-> [shots[i] EXCEPT !.beat = i]]
  BY DEF Renumbered, Indices
<1>3. Renumbered(shots) \in [1..Len(shots) -> AnyShot]
  BY <1>1, <1>2
<1>4. Renumbered(shots) \in Seq(AnyShot) /\ Len(Renumbered(shots)) = Len(shots)
  BY <1>0, <1>3
<1>5. \A i \in 1..Len(shots) : Renumbered(shots)[i] = [shots[i] EXCEPT !.beat = i]
  BY <1>2
<1> QED  BY <1>1, <1>4, <1>5

LEMMA InsertFollows ==
    ASSUME SessionTyped, Aligned(session), NEW i, NEW line \in Lines, InsertBeat(i, line),
           session'.shots # Absent
    PROVE  /\ Aligned(session') /\ i \in Indices(session'.text)
           /\ session'.text = InsertAt(session.text, i, session'.text[i])
           /\ AllClips(session)' = InsertAt(AllClips(session), i, AllClips(session)'[i])
<1> DEFINE text == session.text
           shots == session.shots
           all == AllClips(session)
<1>0. /\ text \in Seq(Lines) /\ shots \in Seq(AnyShot) /\ Shape
      /\ Len(text) \in Nat /\ Len(shots) = Len(text) /\ shots # Absent
  BY Sizes, ShotsAreNumbered DEF SessionTyped, Aligned
<1>1. PICK clip \in Clips \cup {Absent} :
          session'.shots = Renumbered(SpliceIn(shots, i, [beat |-> i, clip |-> clip]))
  BY <1>0, InsertBeatChanges
<1>2. session'.text = SpliceIn(text, i, line) /\ i \in 1..Len(text) + 1
  BY <1>0, InsertBeatChanges
<1> DEFINE new == [beat |-> i, clip |-> clip]
<1>3. /\ SpliceIn(text, i, line) = InsertAt(text, i, line)
      /\ SpliceIn(shots, i, new) = InsertAt(shots, i, new)
  BY <1>0, <1>2 DEF SpliceIn
<1>4. new \in AnyShot /\ i \in Int
  BY <1>2 DEF AnyShot
<1> HIDE DEF new
<1> DEFINE spliced == InsertAt(shots, i, new)
<1>5. /\ spliced \in Seq(AnyShot) /\ Len(spliced) = Len(text) + 1
      /\ \A j \in 1..Len(text) + 1 :
             spliced[j] = IF j < i THEN shots[j] ELSE IF j = i THEN new ELSE shots[j - 1]
  <2>1. i \in 1..Len(shots) + 1 /\ shots \in Seq(AnyShot) /\ Len(shots) = Len(text)
    BY <1>0, <1>2
  <2> HIDE DEF shots, text
  <2>2. spliced \in Seq(AnyShot) /\ Len(spliced) = Len(shots) + 1
    BY <1>4, <2>1, Inserted
  <2>3. \A j \in 1..Len(shots) + 1 :
            spliced[j] = IF j < i THEN shots[j] ELSE IF j = i THEN new ELSE shots[j - 1]
    BY <1>4, <2>1, InsertedAt
  <2> QED  BY <2>1, <2>2, <2>3
<1>6. /\ session'.text \in Seq(Lines) /\ Len(session'.text) = Len(text) + 1
      /\ session'.text[i] = line
      /\ session'.text = InsertAt(text, i, line)
  <2>1. session'.text = InsertAt(text, i, line) /\ i \in 1..Len(text) + 1
    BY <1>2, <1>3
  <2>2. InsertAt(text, i, line) \in Seq(Lines) /\ Len(InsertAt(text, i, line)) = Len(text) + 1
    BY <1>0, <1>2, Inserted
  <2>3. InsertAt(text, i, line)[i] = IF i < i THEN text[i] ELSE IF i = i THEN line ELSE text[i - 1]
    BY <1>0, <1>2, InsertedAt
  <2> QED  BY <1>4, <2>1, <2>2, <2>3
<1>7. session'.shots = Renumbered(spliced)
  BY <1>1, <1>3 DEF new
<1> HIDE DEF spliced, text, shots
<1>8. /\ session'.shots \in Seq(AnyShot) /\ Len(session'.shots) = Len(text) + 1
      /\ \A j \in 1..Len(text) + 1 : /\ session'.shots[j].beat = j
                                     /\ session'.shots[j].clip = spliced[j].clip
  BY <1>5, <1>7, RenumberedAt
<1>9. Aligned(session')
  BY <1>6, <1>8 DEF Aligned, Indices
<1>10. /\ all \in Seq(Clips \cup {Absent}) /\ Len(all) = Len(text)
       /\ \A j \in 1..Len(text) : all[j] = shots[j].clip
  BY <1>0, AlignedClips DEF text, shots
<1>11. /\ all' \in Seq(Clips \cup {Absent}) /\ Len(all') = Len(text) + 1
       /\ \A j \in 1..Len(text) + 1 : all'[j] = spliced[j].clip
  BY <1>6, <1>8, <1>9, AlignedClips
<1> HIDE DEF all
<1>12. new.clip \in Clips \cup {Absent} /\ all'[i] = new.clip
  BY <1>2, <1>4, <1>5, <1>11 DEF AnyShot
<1>13. /\ InsertAt(all, i, new.clip) \in Seq(Clips \cup {Absent})
       /\ Len(InsertAt(all, i, new.clip)) = Len(text) + 1
       /\ \A j \in 1..Len(text) + 1 : InsertAt(all, i, new.clip)[j] =
              IF j < i THEN all[j] ELSE IF j = i THEN new.clip ELSE all[j - 1]
  <2> DEFINE clips == Clips \cup {Absent}
  <2>1. i \in 1..Len(all) + 1 /\ all \in Seq(clips) /\ new.clip \in clips
    BY <1>2, <1>10, <1>12
  <2> HIDE DEF clips
  <2>2. /\ InsertAt(all, i, new.clip) \in Seq(clips)
        /\ Len(InsertAt(all, i, new.clip)) = Len(all) + 1
    BY <2>1, Inserted
  <2>3. \A j \in 1..Len(all) + 1 : InsertAt(all, i, new.clip)[j] =
            IF j < i THEN all[j] ELSE IF j = i THEN new.clip ELSE all[j - 1]
    BY <2>1, InsertedAt
  <2> QED  BY <1>10, <2>2, <2>3 DEF clips
<1>14. ASSUME NEW j \in 1..Len(text) + 1
       PROVE  all'[j] = InsertAt(all, i, new.clip)[j]
  <2>1. j \in Int /\ i \in Int /\ Len(text) \in Nat
    BY <1>0, <1>4
  <2>2. CASE j < i
    <3>1. j \in 1..Len(text)
      BY <1>2, <2>1, <2>2
    <3> QED  BY <1>5, <1>10, <1>11, <1>13, <2>2, <3>1
  <2>3. CASE j = i
    <3>1. InsertAt(all, i, new.clip)[j] = new.clip
      BY <1>13, <2>1, <2>3
    <3> QED  BY <1>12, <2>3, <3>1
  <2>4. CASE ~(j < i) /\ j # i
    <3>1. j - 1 \in 1..Len(text)
      BY <1>2, <2>1, <2>4
    <3> QED  BY <1>5, <1>10, <1>11, <1>13, <2>4, <3>1
  <2> QED  BY <2>2, <2>3, <2>4
<1>15. all' = InsertAt(all, i, new.clip)
  BY <1>11, <1>13, <1>14
<1> QED  BY <1>2, <1>6, <1>9, <1>12, <1>15 DEF all, Indices, text

LEMMA DeleteFollows ==
    ASSUME SessionTyped, Aligned(session), NEW i, DeleteBeat(i), session'.shots # Absent
    PROVE  /\ Aligned(session') /\ i \in Indices(session.text)
           /\ session'.text = RemoveAt(session.text, i)
           /\ AllClips(session)' = RemoveAt(AllClips(session), i)
<1> DEFINE text == session.text
           shots == session.shots
           all == AllClips(session)
<1>0. /\ text \in Seq(Lines) /\ shots \in Seq(AnyShot) /\ Shape
      /\ Len(text) \in Nat /\ Len(shots) = Len(text) /\ shots # Absent
  BY Sizes, ShotsAreNumbered DEF SessionTyped, Aligned
<1>1. /\ session'.text = RemoveAt(text, i) /\ i \in 1..Len(text)
      /\ session'.shots = Renumbered(IF ShotsOf(session, i) = {} THEN shots
                                     ELSE RemoveAt(shots, FirstOf(ShotsOf(session, i))))
  BY <1>0, DeleteBeatChanges DEF Indices
<1>2. ShotsOf(session, i) = {i} /\ FirstOf(ShotsOf(session, i)) = i
  BY <1>0, <1>1, AlignedClips
<1> DEFINE left == RemoveAt(shots, i)
<1>3. session'.shots = Renumbered(left)
  BY <1>1, <1>2
<1>4. i \in 1..Len(shots) /\ i \in Int
  BY <1>0, <1>1
<1> HIDE DEF shots, text
<1>5. /\ left \in Seq(AnyShot) /\ Len(left) = Len(text) - 1
      /\ \A j \in 1..Len(text) - 1 : left[j] = IF j < i THEN shots[j] ELSE shots[j + 1]
  <2>1. left \in Seq(AnyShot) /\ Len(left) = Len(shots) - 1
    BY <1>0, <1>4, Removed
  <2>2. \A j \in 1..Len(shots) - 1 : left[j] = IF j < i THEN shots[j] ELSE shots[j + 1]
    BY <1>0, <1>4, RemovedAt
  <2> QED  BY <1>0, <2>1, <2>2
<1>6. session'.text \in Seq(Lines) /\ Len(session'.text) = Len(text) - 1
  BY <1>0, <1>1, Removed
<1> HIDE DEF left
<1>7. /\ session'.shots \in Seq(AnyShot) /\ Len(session'.shots) = Len(text) - 1
      /\ \A j \in 1..Len(text) - 1 : /\ session'.shots[j].beat = j
                                     /\ session'.shots[j].clip = left[j].clip
  BY <1>3, <1>5, RenumberedAt
<1>8. Aligned(session')
  BY <1>6, <1>7 DEF Aligned, Indices
<1>9. /\ all \in Seq(Clips \cup {Absent}) /\ Len(all) = Len(text)
      /\ \A j \in 1..Len(text) : all[j] = shots[j].clip
  BY <1>0, AlignedClips DEF text, shots
<1>10. /\ all' \in Seq(Clips \cup {Absent}) /\ Len(all') = Len(text) - 1
       /\ \A j \in 1..Len(text) - 1 : all'[j] = left[j].clip
  BY <1>6, <1>7, <1>8, AlignedClips
<1> HIDE DEF all
<1>11. /\ RemoveAt(all, i) \in Seq(Clips \cup {Absent})
       /\ Len(RemoveAt(all, i)) = Len(text) - 1
       /\ \A j \in 1..Len(text) - 1 : RemoveAt(all, i)[j] = IF j < i THEN all[j] ELSE all[j + 1]
  <2> DEFINE clips == Clips \cup {Absent}
  <2>1. i \in 1..Len(all) /\ all \in Seq(clips)
    BY <1>1, <1>9
  <2> HIDE DEF clips
  <2>2. RemoveAt(all, i) \in Seq(clips) /\ Len(RemoveAt(all, i)) = Len(all) - 1
    BY <2>1, Removed
  <2>3. \A j \in 1..Len(all) - 1 : RemoveAt(all, i)[j] = IF j < i THEN all[j] ELSE all[j + 1]
    BY <2>1, RemovedAt
  <2> QED  BY <1>9, <2>2, <2>3 DEF clips
<1>12. ASSUME NEW j \in 1..Len(text) - 1
       PROVE  all'[j] = RemoveAt(all, i)[j]
  <2>1. j \in Int /\ Len(text) \in Nat /\ j \in 1..Len(text) /\ j + 1 \in 1..Len(text)
    BY <1>0
  <2>2. CASE j < i
    BY <1>5, <1>9, <1>10, <1>11, <2>1, <2>2
  <2>3. CASE ~(j < i)
    BY <1>5, <1>9, <1>10, <1>11, <2>1, <2>3
  <2> QED  BY <2>2, <2>3
<1>13. all' = RemoveAt(all, i)
  BY <1>10, <1>11, <1>12
<1> QED  BY <1>1, <1>8, <1>13 DEF all, Indices, text

(* Only inserting and deleting a beat change both the sentences and the shots. *)
LEMMA BothChange ==
    ASSUME Shape, [SessionNext]_session,
           session'.shots # Absent, session'.text # session.text, session'.shots # session.shots
    PROVE  \/ \E i \in Beat, line \in Lines : InsertBeat(i, line)
           \/ \E i \in Beat : DeleteBeat(i)
<1>1. ASSUME NEW text, Generate(text) \/ UpdateScript(text) PROVE FALSE
  BY <1>1, ScriptChanges DEF Changes, Fields
<1>2. ASSUME NEW i, NEW line, UpdateBeat(i, line) PROVE FALSE
  BY <1>2, UpdateBeatChanges DEF Changes, Fields
<1>3. CASE ClipStep
  BY <1>3, ClipChanges DEF Changes, Fields
<1>4. CASE VoiceStep
  BY <1>4, VoiceChanges DEF VoiceStep, Changes, Fields
<1>5. CASE Render
  BY <1>5, RenderChanges DEF Changes, Fields
<1>6. CASE ScriptStep
  BY <1>1, <1>2, <1>6 DEF ScriptStep
<1> QED  BY <1>3, <1>4, <1>5, <1>6 DEF SessionNext

(* A sentence keeps its clip when a beat is inserted before it or deleted:
   whatever the edits before, if each sentence has its shot, insertBeatWithSearch
   and deleteBeat renumber the shots so that each still has it. *)
THEOREM ClipsFollow == SessionSpec => ClipsFollowSentences
<1>1. ASSUME SessionInv, [SessionNext]_session
      PROVE  [Aligned(session) /\ session'.shots # Absent
                /\ session'.text # session.text /\ session'.shots # session.shots
              => /\ Aligned(session')
                 /\ \/ \E i \in Indices(session'.text) :
                          /\ session'.text = InsertAt(session.text, i, session'.text[i])
                          /\ AllClips(session)' = InsertAt(AllClips(session), i, AllClips(session)'[i])
                    \/ \E i \in Indices(session.text) :
                          /\ session'.text = RemoveAt(session.text, i)
                          /\ AllClips(session)' = RemoveAt(AllClips(session), i)]_session
  <2> SUFFICES ASSUME Aligned(session), session'.shots # Absent,
                      session'.text # session.text, session'.shots # session.shots
               PROVE  /\ Aligned(session')
                      /\ \/ \E i \in Indices(session'.text) :
                               /\ session'.text = InsertAt(session.text, i, session'.text[i])
                               /\ AllClips(session)' =
                                      InsertAt(AllClips(session), i, AllClips(session)'[i])
                         \/ \E i \in Indices(session.text) :
                               /\ session'.text = RemoveAt(session.text, i)
                               /\ AllClips(session)' = RemoveAt(AllClips(session), i)
    OBVIOUS
  <2>1. SessionTyped /\ Shape
    BY <1>1 DEF SessionInv, SessionTyped
  <2>2. CASE \E i \in Beat, line \in Lines : InsertBeat(i, line)
    <3>1. PICK i \in Beat, line \in Lines : InsertBeat(i, line)
      BY <2>2
    <3>2. /\ Aligned(session') /\ i \in Indices(session'.text)
          /\ session'.text = InsertAt(session.text, i, session'.text[i])
          /\ AllClips(session)' = InsertAt(AllClips(session), i, AllClips(session)'[i])
      BY <2>1, <3>1, InsertFollows
    <3> QED  BY <3>2
  <2>3. CASE \E i \in Beat : DeleteBeat(i)
    <3>1. PICK i \in Beat : DeleteBeat(i)
      BY <2>3
    <3>2. /\ Aligned(session') /\ i \in Indices(session.text)
          /\ session'.text = RemoveAt(session.text, i)
          /\ AllClips(session)' = RemoveAt(AllClips(session), i)
      BY <2>1, <3>1, DeleteFollows
    <3> QED  BY <3>2
  <2> QED  BY <1>1, <2>1, <2>2, <2>3, BothChange
<1> QED  BY <1>1, SessionInvariance, PTL DEF SessionSpec, ClipsFollowSentences
=============================================================================
