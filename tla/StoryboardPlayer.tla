-------------------------- MODULE StoryboardPlayer --------------------------
(***************************************************************************)
(* The storyboard preview of the web client: one narration audio, and two  *)
(* video elements of which one is shown.  Wherever the audio is, the clip  *)
(* of that segment is to be seen; another clip is loaded in the hidden     *)
(* element and shown when it is there.                                     *)
(*                                                                         *)
(* The page has one thread, so a handler is one step.  A request token is  *)
(* always compared with itself (the media handlers read it from the slot)  *)
(* and left out, like the segment numbers of slots, which nothing reads,   *)
(* and the mark of a warm-up, which each update clears before it looks.    *)
(* Time is in steps of the tolerance against drift.  Playing and pausing   *)
(* are one step with the event they cause.                                 *)
(***************************************************************************)
EXTENDS Integers, Sequences

CONSTANTS
    Timelines,      \* playback timelines, of one length: sequences of segments
    DriftTolerance, \* STORYBOARD_PREVIEW_NORMAL_DRIFT_TOLERANCE_SEC
    WarmupLead,     \* STORYBOARD_PREVIEW_BOUNDARY_WARMUP_LEAD_SEC
    MaxStall,       \* bound of the model: how far a video falls behind
    Blank           \* no clip, no timeline, no card

VARIABLES
    timeline,   \* of the current session, Blank while its preview is not ready
    audio,      \* the narration
    card,       \* the segment whose card is highlighted
    player      \* active slot, the two slots and their video elements

playerVars == <<timeline, audio, card, player>>

Keys == {"a", "b"}
OtherKey(k) == IF k = "a" THEN "b" ELSE "a"
Events == {"loadedmetadata", "seeked"}
ShownClips == UNION {{tl[i].clip : i \in DOMAIN tl} : tl \in Timelines}

EmptySlot == [clip |-> Blank, seek |-> 0, ready |-> FALSE, autoplay |-> FALSE,
              swap |-> FALSE, tolerance |-> 0]

(* An element that has no source, or has just got one.  due: its events that
   wait for their handlers; loading discards them. *)
FreshVideo(clip) == [src |-> clip, loaded |-> FALSE, failed |-> FALSE, at |-> 0,
                     playing |-> FALSE, due |-> {}]

EndOf(tl) == tl[Len(tl)].end
Gap(x, y) == IF x >= y THEN x - y ELSE y - x

(* findPlaybackSegmentAtTime: the segments follow one another. *)
SegmentAt(tl, t) ==
    IF t >= EndOf(tl) THEN Len(tl)
    ELSE CHOOSE i \in DOMAIN tl : tl[i].start <= t /\ t < tl[i].end

(* getStoryboardPreviewDesiredSeekSec *)
SeekFor(seg, t) == seg.from + IF t > seg.start THEN t - seg.start ELSE 0

(* getStoryboardPreviewSyncPolicy; "seek" is any intent that forces one. *)
Tolerance(intent) == IF intent = "normal" THEN DriftTolerance ELSE 0

-----------------------------------------------------------------------------
(* Helpers: from a player to a player *)

(* syncStoryboardPreviewActivePlayback *)
Playback(p, autoplay) ==
    [p EXCEPT !.video[p.active].playing = autoplay /\ p.slot[p.active].clip # Blank]

(* pauseStoryboardPreviewVideo *)
PauseVideo(p) == [p EXCEPT !.video[p.active].playing = FALSE]

BroughtTo(v, seek, tolerance) ==
    IF Gap(v.at, seek) > tolerance
    THEN [v EXCEPT !.at = seek, !.due = @ \cup {"seeked"}] ELSE v

SwapTo(p, k) ==
    LET old == p.active
        q   == [p EXCEPT !.active = k, !.slot[k].swap = FALSE]
        r   == IF old = k THEN q
               ELSE [q EXCEPT !.slot[old].autoplay = FALSE, !.video[old].playing = FALSE]
    IN  Playback(r, p.slot[k].autoplay)

Settled(p, k) ==
    [p EXCEPT !.slot[k].ready = TRUE,
              !.video[k] = BroughtTo(@, p.slot[k].seek, p.slot[k].tolerance)]

(* finalizeStoryboardPreviewSlot *)
Finalize(p, k) ==
    IF ~p.video[k].loaded THEN p
    ELSE LET q == Settled(p, k)
         IN  IF q.slot[k].swap THEN SwapTo(q, k)
             ELSE IF k = q.active THEN Playback(q, q.slot[k].autoplay) ELSE q

(* Mutant: a clip that is being loaded is loaded again. *)
PrepareAgain(p, k, request) ==
    [p EXCEPT !.slot[k] = request, !.video[k] = FreshVideo(request.clip)]

(* prepareStoryboardPreviewSlot *)
Prepare(p, k, request) ==
    LET q == [p EXCEPT !.slot[k] = request]
    IN  IF p.slot[k].clip = request.clip THEN Finalize(q, k)
        ELSE [q EXCEPT !.video[k] = FreshVideo(request.clip)]

(* syncStoryboardPreviewExistingActiveSlot *)
SyncActive(p, seek, autoplay, intent) ==
    Finalize([p EXCEPT !.slot[p.active] = [@ EXCEPT
        !.seek = seek, !.ready = FALSE, !.autoplay = autoplay, !.swap = FALSE,
        !.tolerance = Tolerance(intent)]], p.active)

(* Mutant: a request of the hidden element is not taken back. *)
StandbyKept(p) == p

(* cancelStoryboardPreviewStandbyRequest *)
CancelStandby(p) ==
    LET k == OtherKey(p.active)
    IN  [p EXCEPT !.video[k].playing = FALSE,
                  !.slot[k] = [EmptySlot EXCEPT !.clip = p.slot[k].clip, !.seek = p.slot[k].seek]]

(* maybeWarmStoryboardPreviewNextSegment *)
WarmNext(p, tl, i, t, autoplay, intent) ==
    IF /\ autoplay /\ intent = "normal"
       /\ tl[i].end > t /\ tl[i].end - t <= WarmupLead
       /\ i < Len(tl)
       /\ p.slot[p.active].clip # tl[i + 1].clip
    THEN Prepare(p, OtherKey(p.active),
             [EmptySlot EXCEPT !.clip = tl[i + 1].clip, !.seek = SeekFor(tl[i + 1], t)])
    ELSE p

(* The branch of updateStoryboardPreviewSegment for the clip that is shown *)
StayOn(p, seg, t, autoplay, intent) ==
    LET k == p.active
        q == CancelStandby(p)
    IN  IF \/ intent = "seek" \/ ~q.slot[k].ready
           \/ Gap(q.video[k].at, SeekFor(seg, t)) > Tolerance(intent)
        THEN SyncActive(q, SeekFor(seg, t), autoplay, intent)
        ELSE Playback([q EXCEPT !.slot[k].autoplay = autoplay,
                                !.slot[k].tolerance = Tolerance(intent)], autoplay)

(* updateStoryboardPreviewSegment *)
ShowSegment(p, tl, i, t, autoplay, intent) ==
    IF p.slot[p.active].clip = tl[i].clip
    THEN WarmNext(StayOn(p, tl[i], t, autoplay, intent), tl, i, t, autoplay, intent)
    ELSE Prepare(p, OtherKey(p.active),
             [clip |-> tl[i].clip, seek |-> SeekFor(tl[i], t), ready |-> FALSE,
              autoplay |-> autoplay, swap |-> TRUE,
              tolerance |-> IF autoplay /\ p.slot[p.active].clip # Blank
                            THEN 0 ELSE Tolerance(intent)])

(* resetStoryboardPreviewSlots *)
NoPlayer == [active |-> "a", slot |-> [k \in Keys |-> EmptySlot],
             video |-> [k \in Keys |-> FreshVideo(Blank)]]

-----------------------------------------------------------------------------
(* syncStoryboardPreviewAtTime, with the audio as it is *)
SyncAt(tl, a, p, intent) ==
    /\ card' = SegmentAt(tl, a.time)
    /\ player' = ShowSegment(p, tl, SegmentAt(tl, a.time), a.time, ~a.paused, intent)

(* refreshStoryboardPreview with a preview that is ready *)
RefreshIntent(a) == IF a.paused THEN "seek" ELSE "normal"

(* timeupdate and loadedmetadata of the audio *)
TimeUpdate ==
    /\ timeline # Blank
    /\ SyncAt(timeline, audio, player, "normal")
    /\ UNCHANGED <<timeline, audio>>

(* seekStoryboardOverviewToRatio and the arrow keys.  The seeking and seeked
   events that follow do the same again, at the time it then is. *)
Scrub(t) ==
    /\ timeline # Blank
    /\ audio' = [audio EXCEPT !.time = t]
    /\ SyncAt(timeline, audio', player, "seek")
    /\ UNCHANGED timeline

(* syncStoryboardPreviewToCard *)
JumpTo(i) ==
    /\ timeline # Blank
    /\ i \in DOMAIN timeline
    /\ audio' = [audio EXCEPT !.time = timeline[i].start]
    /\ LET p == ShowSegment(player, timeline, i, audio'.time, ~audio.paused, RefreshIntent(audio))
       IN  player' = ShowSegment(p, timeline, i, audio'.time, ~audio.paused, "seek")
    /\ card' = i
    /\ UNCHANGED timeline

(* toggleStoryboardOverviewPlayback; audio that has ended plays from its start. *)
PlayAudio ==
    /\ timeline # Blank
    /\ audio.paused
    /\ audio' = IF audio.time = EndOf(timeline)
                THEN [time |-> 0, paused |-> FALSE] ELSE [audio EXCEPT !.paused = FALSE]
    /\ player' = Playback(player, TRUE)
    /\ UNCHANGED <<timeline, card>>

PauseAudio ==
    /\ timeline # Blank
    /\ ~audio.paused
    /\ audio' = [audio EXCEPT !.paused = TRUE]
    /\ player' = PauseVideo(player)
    /\ UNCHANGED <<timeline, card>>

(* Time passes: the videos that play may stall.  At the end the audio pauses. *)
PlayOn ==
    /\ timeline # Blank
    /\ ~audio.paused
    /\ audio.time < EndOf(timeline)
    /\ LET over == audio.time + 1 = EndOf(timeline)
           Moved(v, by) == IF v.playing /\ v.loaded /\ v.at < EndOf(timeline) + MaxStall
                           THEN [v EXCEPT !.at = @ + by] ELSE v
       IN  /\ audio' = [audio EXCEPT !.time = @ + 1, !.paused = over]
           /\ \E step \in [Keys -> 0..1] :
                  LET video == [k \in Keys |-> Moved(player.video[k], step[k])]
                      p     == [player EXCEPT !.video = video]
                  IN  player' = IF over THEN PauseVideo(p) ELSE p
    /\ UNCHANGED <<timeline, card>>

(* The clip of an element arrives, or does not. *)
ClipLoads(k) ==
    /\ player.video[k].src # Blank
    /\ ~player.video[k].loaded /\ ~player.video[k].failed
    /\ player' = [player EXCEPT !.video[k].loaded = TRUE, !.video[k].due = {"loadedmetadata"}]
    /\ UNCHANGED <<timeline, audio, card>>

ClipFails(k) ==
    /\ player.video[k].src # Blank
    /\ ~player.video[k].loaded /\ ~player.video[k].failed
    /\ player' = [player EXCEPT !.video[k].failed = TRUE,
                                !.slot[k].ready = @ /\ player.active # k]
    /\ UNCHANGED <<timeline, audio, card>>

(* The handlers of the video elements *)
VideoEvent(k, e) ==
    /\ e \in player.video[k].due
    /\ player' = Finalize([player EXCEPT !.video[k].due = @ \ {e}], k)
    /\ UNCHANGED <<timeline, audio, card>>

(* refreshStoryboardPreview after a change of the session: new audio starts
   paused at its beginning, and a preview that is not ready is taken away. *)
SessionChanges(tl, newAudio) ==
    /\ timeline' = tl
    /\ IF tl = Blank
       THEN /\ audio' = [audio EXCEPT !.paused = TRUE]
            /\ player' = NoPlayer
            /\ card' = Blank
       ELSE /\ audio' = IF newAudio THEN [time |-> 0, paused |-> TRUE] ELSE audio
            /\ SyncAt(tl, audio', player, RefreshIntent(audio'))

PlayerInit ==
    /\ timeline = Blank
    /\ audio = [time |-> 0, paused |-> TRUE]
    /\ card = Blank
    /\ player = NoPlayer

UserStep ==
    \/ PlayAudio
    \/ PauseAudio
    \/ \E tl \in Timelines : \E t \in 0..EndOf(tl) : Scrub(t)
    \/ \E tl \in Timelines : \E i \in DOMAIN tl : JumpTo(i)
    \/ \E tl \in Timelines \cup {Blank}, newAudio \in BOOLEAN : SessionChanges(tl, newAudio)

MediaStep ==
    \/ TimeUpdate
    \/ PlayOn
    \/ \E k \in Keys : ClipLoads(k) \/ ClipFails(k)
    \/ \E k \in Keys, e \in Events : VideoEvent(k, e)

PlayerNext == UserStep \/ MediaStep

(* An element goes on loading, and its events are handled. *)
PlayerFairness ==
    \A k \in Keys :
        /\ WF_playerVars(ClipLoads(k) \/ ClipFails(k))
        /\ \A e \in Events : WF_playerVars(VideoEvent(k, e))

PlayerSpec == PlayerInit /\ [][PlayerNext]_playerVars /\ PlayerFairness

-----------------------------------------------------------------------------
(* Properties *)

(* Every part keeps its type. *)
PlayerTypeOK ==
    /\ timeline \in Timelines \cup {Blank}
    /\ card = Blank <=> timeline = Blank
    /\ player.active \in Keys
    /\ \A k \in Keys :
           /\ DOMAIN player.slot[k] = DOMAIN EmptySlot
           /\ player.slot[k].clip \in ShownClips \cup {Blank}
           /\ player.video[k].src = player.slot[k].clip
           /\ player.video[k].due \subseteq Events

(* What plays is what is shown: through swaps, warm-ups, jumps and resets the
   hidden element never plays on. *)
OnlyActivePlays == \A k \in Keys : player.video[k].playing => k = player.active

(* The clip of the highlighted card is shown, or the hidden element is loading
   it to be shown; and when it is shown, nothing else is about to take its
   place. *)
Wanted == timeline[card].clip
ShowsOrFetches ==
    timeline # Blank =>
        LET hidden == player.slot[OtherKey(player.active)]
        IN  IF player.slot[player.active].clip = Wanted THEN ~hidden.swap
            ELSE hidden.swap /\ hidden.clip = Wanted

(* Both: late events of clips that load, seek or fail, and jumps in between, leave
   the element that is shown with the wanted clip, alone at play, or the hidden one
   on its way to it. *)
PlaysWhatIsWanted == OnlyActivePlays /\ ShowsOrFetches

(* The preview does not stay behind: unless its clip fails to load, the clip
   of a card that stays highlighted is shown. *)
Behind(c) ==
    /\ timeline # Blank
    /\ Wanted = c
    /\ player.slot[player.active].clip # c
    /\ ~player.video[OtherKey(player.active)].failed
CatchesUp == \A c \in ShownClips : []<>~Behind(c)

(* A paused preview is still.  It is not: a clip that was asked for while the
   audio played starts when it has loaded, also when the audio has been paused
   meanwhile; and new narration pauses the audio but not the video. *)
PausedIsStill == \A k \in Keys : ~(audio.paused /\ player.video[k].playing)
=============================================================================
