---------------------------- MODULE StoryRender ----------------------------
(***************************************************************************)
(* How a story becomes a video: renderStory for the final film, and the    *)
(* rendering part of renderStoryDraftPreview for the preview.              *)
(*                                                                         *)
(* With cuts, the segments of the timeline are trimmed from their clips    *)
(* and joined to one reel, which is sliced by beats; each slice gets the   *)
(* narration and captions of its beat.  Without, each beat is made from    *)
(* its own clip; the film then leaves out a beat that fails.               *)
(*                                                                         *)
(* A render works on the session it loaded and saves it over what it has   *)
(* become (StorySession), so nothing else happens to the story meanwhile.  *)
(* A video is the sequence of the films of its beats, the film of a beat   *)
(* the sequence of its half seconds, each a moment of a clip.              *)
(*                                                                         *)
(* A film goes by the lengths of the stored narrations, the page by the    *)
(* spans of the captions.  A sync makes them equal, POST /captions, which  *)
(* goes by reading speed, parts them.                                      *)
(***************************************************************************)
EXTENDS StoryTimeline

CONSTANTS
    Lineups,     \* lengths of the beats of a story
    CutLists,    \* what the editor may send as cuts
    Tastes(_),   \* for a number of beats, what the heuristics make of a script
    ClipLength,  \* of each clip
    MaxPad,      \* the most by which a film without cuts prolongs a clip
    Bt709,       \* clips that declare the colours the filter is meant for
    None         \* no render, no video

ASSUME LineupsAreLengths == \A l \in Lineups : l # <<>> /\ l \in Seq(Nat \ {0})
ASSUME CutListsArePlaces == \A c \in CutLists : c \in Seq([beat : Int, part : Int])
ASSUME TastesFit ==
    \A l \in Lineups : \A t \in Tastes(Len(l)) :
        /\ t.part \in 0..Grain
        /\ t.merged \in Mergings(Len(l))
        /\ t.start \in [1..Len(l) -> Nat]
ASSUME ClipsLast == ClipLength \in [Footage -> Nat \ {0}]
ASSUME PadIsLength == MaxPad \in Nat

VARIABLES
    tale,     \* the story
    spans,    \* the lengths of its beats by its captions
    work,     \* the render that is going on
    video     \* the last video made of the story as it is

filmVars == <<tale, spans, work, video>>

Kinds == {"film", "preview"}

-----------------------------------------------------------------------------
(* ffmpeg *)

(* Mutant: a clip that is too short is taken from its beginning. *)
TrimFromStart(clip, from, length) ==
    LET first == IF from >= ClipLength[clip] THEN 0 ELSE from
    IN  [i \in 1..length |-> [clip |-> clip,
            at |-> Min({first + i, ClipLength[clip]}) - 1]]

(* trimClipToSegment: past its end the last half second of a clip is used, and
   what is missing is filled with its last frame. *)
Trim(clip, from, length) ==
    LET first == IF from >= ClipLength[clip] THEN ClipLength[clip] - 1 ELSE from
    IN  [i \in 1..length |-> [clip |-> clip,
            at |-> Min({first + i, ClipLength[clip]}) - 1]]

(* extractSegmentFromFile: the slice of a beat *)
Slice(reel, lengths, beat) ==
    SubSeq(reel, BeatStart(lengths, beat) + 1, BeatStart(lengths, beat + 1))

(* renderVideoQuoteOverlay: the film of a beat, with its narration and captions *)
Captioned(beat, moments) == [beat |-> beat, moments |-> moments]

-----------------------------------------------------------------------------
(* What the page plays: the same pictures, timed by the captions
   (buildBeatDurationsFromSyncedCaptions). *)
Page == [tale EXCEPT !.lengths = spans]

(* A story is edited; its video is forgotten (invalidateRenderedOutput).  The
   voice is synced again before anything is rendered. *)
Edit(story) == tale' = story /\ video' = None /\ UNCHANGED work

(* updateShotSelectedClip *)
SelectClip(b, clip) ==
    /\ work = None
    /\ b \in Beats(tale)
    /\ Edit([tale EXCEPT !.shots[b] = clip])
    /\ UNCHANGED spans

(* updateVideoCuts *)
SendCuts(places) ==
    /\ work = None
    /\ Accepts(places, Len(tale.lengths))
    /\ Edit([tale EXCEPT !.disabled = places = <<>>,
                         !.cuts = [source |-> "manual", places |-> places, taste |-> None]])
    /\ UNCHANGED spans

(* Lengths for as many beats as the story has *)
LineupsFor(story) == {l \in Lineups : Len(l) = Len(story.lengths)}

(* updateBeatText, and the sync that must follow *)
Rewrite(taste, lengths) ==
    /\ work = None
    /\ Edit([tale EXCEPT !.taste = taste, !.lengths = lengths])
    /\ spans' = lengths

(* generateCaptionTimings: captions by reading speed; the voice stays current. *)
TimeByReading(read) ==
    /\ work = None
    /\ Edit(tale)
    /\ spans' = read

(* syncStoryVoice where no sentence has changed, in another voice or all over
   again: a preview is forgotten, a film is kept. *)
SyncAgain(lengths) ==
    /\ work = None
    /\ tale' = [tale EXCEPT !.lengths = lengths]
    /\ spans' = lengths
    /\ video' = IF video # None /\ video.kind = "preview" THEN None ELSE video
    /\ UNCHANGED work

-----------------------------------------------------------------------------
(* A render: the reel and the films as far as they are made, the segments and
   beats that are left, the beats that failed, and what it has learnt about
   the colour filter *)
Rendering(kind, story, reeled, beats) ==
    [kind |-> kind, story |-> story, reeled |-> reeled,
     segments |-> IF reeled THEN Timeline(story) ELSE <<>>, reel |-> <<>>,
     beats |-> beats, films |-> <<>>, failed |-> {}, learnt |-> FALSE]

WithPlannedCuts(story) ==
    LET plan == PlaybackPlan(story)
    IN  IF plan.source = "auto" THEN [story EXCEPT !.cuts = plan.cuts] ELSE story

(* The members of S in ascending order *)
Ascending(beats, S) ==
    /\ {beats[i] : i \in DOMAIN beats} = S
    /\ \A i, j \in DOMAIN beats : i < j => beats[i] < beats[j]

(* renderStory as far as its first await: beats without a clip are left out. *)
BeginFilm ==
    LET filmed == {b \in Beats(tale) : tale.shots[b] # NoClip}
    IN  /\ work = None
        /\ filmed # {}
        /\ \E beats \in [1..Cardinality(filmed) -> filmed] :
               /\ Ascending(beats, filmed)
               /\ work' = Rendering("film", WithPlannedCuts(tale),
                                    PlaybackPlan(tale).source # "classic", beats)
        /\ UNCHANGED <<tale, spans, video>>

(* renderStoryDraftPreview, for a story that buildStoryPreviewReadiness lets *)
BeginPreview ==
    /\ work = None
    /\ AllSelected(tale)
    /\ work' = Rendering("preview", tale, PlaybackPlan(tale).source # "classic",
                         [b \in Beats(tale) |-> b])
    /\ UNCHANGED <<tale, spans, video>>

(* The next segment is fetched, trimmed and joined to the reel. *)
TrimNext ==
    /\ work # None
    /\ work.segments # <<>>
    /\ LET segment == Head(work.segments)
       IN  /\ SegmentLength(segment) > 0
           /\ work' = [work EXCEPT !.segments = Tail(@),
                  !.reel = @ \o Trim(segment.clip, segment.from, SegmentLength(segment))]
    /\ UNCHANGED <<tale, spans, video>>

(* The pictures of the next beat, before its overlay: a slice of the reel, or
   its clip from the beginning.  A preview prolongs a clip that is too short to
   the end of the narration, a film by MaxPad at most, and not at all when
   ffprobe could not measure the clip. *)
NextPictures(measured) ==
    LET story  == work.story
        b      == Head(work.beats)
        clip   == story.shots[b]
        length == story.lengths[b]
        lasts  == ClipLength[clip] + IF measured THEN MaxPad ELSE 0
    IN  IF work.reeled THEN Slice(work.reel, story.lengths, b)
        ELSE Trim(clip, 0, IF work.kind = "preview" THEN length ELSE Min({length, lasts}))

(* resolveColorspaceDecision in its automatic mode.  Slices of a reel are made
   by the encoder, which may declare anything. *)
TriesColours(declared) ==
    /\ ~work.learnt
    /\ declared
    /\ work.reeled \/ work.story.shots[Head(work.beats)] \in Bt709

AtOverlay == work # None /\ work.segments = <<>> /\ work.beats # <<>>

BeatDone(measured) ==
    [work EXCEPT !.beats = Tail(@),
                 !.films = Append(@, Captioned(Head(work.beats), NextPictures(measured)))]

(* runFfmpegWithColorspaceFallback succeeds at once ... *)
Overlay ==
    /\ AtOverlay
    /\ \E measured \in BOOLEAN : work' = BeatDone(measured)
    /\ UNCHANGED <<tale, spans, video>>

(* ... or without the colour filter, which the rest of the render then leaves
   out. *)
OverlayRetried ==
    /\ AtOverlay
    /\ \E declared \in BOOLEAN : TriesColours(declared)
    /\ \E measured \in BOOLEAN : work' = [BeatDone(measured) EXCEPT !.learnt = TRUE]
    /\ UNCHANGED <<tale, spans, video>>

(* A beat of a film without cuts fails: the film goes on without it. *)
BeatFails ==
    /\ AtOverlay
    /\ work.kind = "film" /\ ~work.reeled
    /\ work' = [work EXCEPT !.beats = Tail(@), !.failed = @ \cup {Head(work.beats)}]
    /\ UNCHANGED <<tale, spans, video>>

(* Anything else that fails ends the render without a video: a fetch, a segment
   of no length (TRIM_DURATION_INVALID), every beat (NO_SEGMENTS_RENDERED). *)
RenderEndsInError ==
    /\ work # None
    /\ \/ work.segments # <<>>
       \/ work.beats # <<>> /\ (work.kind = "preview" \/ work.reeled)
       \/ work.beats = <<>>
    /\ work' = None
    /\ UNCHANGED <<tale, spans, video>>

(* concatenateClips, upload and save.  The lengths a video was made of are kept
   for the properties. *)
SaveVideo ==
    /\ work # None
    /\ work.segments = <<>> /\ work.beats = <<>>
    /\ work.films # <<>>
    /\ video' = [kind |-> work.kind, films |-> work.films, lengths |-> work.story.lengths,
                 left |-> {b \in Beats(work.story) : work.story.shots[b] = NoClip} \cup work.failed]
    /\ tale' = work.story
    /\ work' = None
    /\ UNCHANGED spans

-----------------------------------------------------------------------------
FilmInit ==
    /\ spans \in Lineups
    /\ \E shots \in [DOMAIN spans -> Footage], taste \in Tastes(Len(spans)) :
           tale = [lengths |-> spans, shots |-> shots, taste |-> taste,
                   cuts |-> Uncut, disabled |-> FALSE]
    /\ work = None
    /\ video = None

EditorAction ==
    \/ \E b \in Beats(tale), clip \in Footage \cup {NoClip} : SelectClip(b, clip)
    \/ \E places \in CutLists : SendCuts(places)
    \/ \E taste \in Tastes(Len(tale.lengths)), lengths \in LineupsFor(tale) : Rewrite(taste, lengths)
    \/ \E read \in LineupsFor(tale) : TimeByReading(read)
    \/ \E lengths \in LineupsFor(tale) : SyncAgain(lengths)

RenderAction ==
    \/ BeginFilm
    \/ BeginPreview
    \/ TrimNext
    \/ Overlay
    \/ OverlayRetried
    \/ BeatFails
    \/ RenderEndsInError
    \/ SaveVideo

FilmNext == EditorAction \/ RenderAction

FilmSpec == FilmInit /\ [][FilmNext]_filmVars

-----------------------------------------------------------------------------
(* Properties *)

(* The timeline of every story an editor can make covers its narration from
   end to end: what updateVideoCuts accepts without knowing the lengths of
   beats is in order for every length, those of the captions included. *)
TimelinesTile ==
    AllSelected(tale) => \A story \in {tale, Page} : TimelineTiles(story)

(* No automatic timeline shows a moment of a clip twice, for any merging of
   beats, any starts and any repetition of clips among the shots. *)
NoMomentTwice ==
    AllSelected(tale) => \A story \in {tale, Page} : NoFootageTwice(story)

(* Both, in a film and on the page: each moment of the narration has its place
   in one clip, each moment of a clip at most one in the narration. *)
TimelineExact == TimelinesTile /\ NoMomentTwice

(* The clip and the moment of it that segments name for a time; a clip that is
   too short shows its end. *)
ShownAt(segments, t) ==
    LET segment == segments[SegmentAtTime(segments, t)]
    IN  [clip |-> segment.clip,
         at |-> Min({segment.from + t - segment.start, ClipLength[segment.clip] - 1})]

(* A film made beat by beat, which may lack beats *)
MadeByBeats(v, story) == v.kind = "film" /\ PlaybackPlan(story).source = "classic"

(* The film of a beat begins where the timeline has the beat begin, and follows
   it to the end of the narration.  Only in a film without cuts may it end
   earlier, with all of its clip shown. *)
BeatAsPlayed(v, story, segments, film) ==
    LET size   == Len(film.moments)
        start  == BeatStart(story.lengths, film.beat)
        length == story.lengths[film.beat]
    IN  /\ size <= length
        /\ size < length =>
               MadeByBeats(v, story) /\ size >= ClipLength[story.shots[film.beat]]
        /\ \A i \in 1..size : film.moments[i] = ShownAt(segments, start + i - 1)

VideoAsPlayed(v, story) ==
    LET segments == Timeline(story)
    IN  /\ Ascending([k \in DOMAIN v.films |-> v.films[k].beat], Beats(story) \ v.left)
        /\ v.left # {} => MadeByBeats(v, story)
        /\ \A k \in DOMAIN v.films : BeatAsPlayed(v, story, segments, v.films[k])

(* A video shows what the timeline of the saved story names, by the narration it
   was made of: the beats that are there are in order, each with its own clip at
   the moment that is its turn.  It lacks only beats without a clip or that
   failed, and only if it was made beat by beat. *)
FilmAsPlayed ==
    video # None => VideoAsPlayed(video, [tale EXCEPT !.lengths = video.lengths])

(* A video shows what the page plays.  It need not: the captions may have been
   timed anew before it was made, the voice synced again after a film was. *)
PagePlaysVideo == video # None => VideoAsPlayed(video, Page)

(* Cuts that were accepted are used.  They are not always: updateVideoCuts also
   accepts a cut that lies before its beat, and playback then ignores all. *)
AcceptedCutsAreUsed ==
    tale.cuts # Uncut /\ tale.cuts.source = "manual" /\ ~tale.disabled
    /\ EnableCuts /\ AllSelected(tale) => PlaybackPlan(tale).source = "manual"

(* Every story with a timeline can be rendered.  One with two cuts at the same
   place cannot: the segment between them has no length, and trimming it fails. *)
TimelineCanBeTrimmed ==
    AllSelected(tale) /\ PlaybackPlan(tale).source # "classic" =>
        \A k \in Beats(tale) : SegmentLength(Timeline(tale)[k]) > 0
=============================================================================
