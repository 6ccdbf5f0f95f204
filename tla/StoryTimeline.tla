--------------------------- MODULE StoryTimeline ---------------------------
(***************************************************************************)
(* Which clip is on the screen when: the video cuts of a story, the plan   *)
(* that playback makes of them and its segments.                           *)
(*                                                                         *)
(* A cut says where clip k gives way to clip k + 1: at a place within a    *)
(* beat, which need not be the end of beat k.  Time is in half seconds,    *)
(* beats count from 1, a place within a beat is in parts of the beat.      *)
(***************************************************************************)
EXTENDS Integers, Sequences, FiniteSetsExt, Totals

CONSTANTS
    Footage,      \* stock clips
    NoClip,       \* a beat without a selected clip
    EnableCuts,   \* ENABLE_VIDEO_CUTS_V1
    Grain,        \* places within a beat that a cut may name
    Uncut         \* no videoCutsV1

ASSUME GrainPositive == Grain \in Nat \ {0}
ASSUME CutsAreOnOrOff == EnableCuts \in BOOLEAN
ASSUME NoClipIsNone == NoClip \notin Footage

(* A story as far as its pictures go: the length of each beat, the selected
   clip of each, what the heuristics make of its sentences (taste), its cuts
   and whether they are turned off.  Cuts remember the sentences that automatic
   ones were made for. *)
Beats(story) == DOMAIN story.lengths

BeatStart(lengths, k) == Total(lengths, 1..k - 1)
Duration(lengths) == BeatStart(lengths, Len(lengths) + 1)

(* boundariesToCutTimes: without cuts, a clip for each beat. *)
CutTime(lengths, place) ==
    BeatStart(lengths, place.beat) + (place.part * lengths[place.beat]) \div Grain

CutTimes(lengths, places) ==
    IF places = <<>> THEN [k \in 1..Len(lengths) + 1 |-> BeatStart(lengths, k)]
    ELSE <<0>> \o [k \in DOMAIN places |-> CutTime(lengths, places[k])] \o <<Duration(lengths)>>

(* updateVideoCuts: beats of equal length stand for the narration, whose
   lengths it does not know. *)
Ordered(times) == \A k \in 2..Len(times) : times[k - 1] <= times[k]

(* Mutant: cuts in any order are accepted. *)
AcceptsUnordered(places, n) ==
    places = <<>> \/ (Len(places) = n - 1 /\ \A k \in DOMAIN places : places[k].beat \in 1..n)

Accepts(places, n) ==
    \/ places = <<>>
    \/ /\ Len(places) = n - 1
       /\ \A k \in DOMAIN places : places[k].beat \in 1..n /\ places[k].part \in 0..Grain
       /\ Ordered(CutTimes([k \in 1..n |-> Grain], places))

(* hasValidVideoCutsV1: no clip may begin before its beat. *)
PlayableCuts(places, n) ==
    /\ Len(places) = n - 1
    /\ \A k \in DOMAIN places : places[k].beat \in k + 1 .. n /\ places[k].part \in 0..Grain

AllSelected(story) == \A b \in Beats(story) : story.shots[b] # NoClip

(* buildAutoVideoCutsV1: clip k runs into beat k + 1. *)
AutoPlaces(story) ==
    [k \in 1..Len(story.lengths) - 1 |-> [beat |-> k + 1, part |-> story.taste.part]]

AutoCutsFor(story) == [source |-> "auto", places |-> AutoPlaces(story), taste |-> story.taste]

(* resolveStoryVideoCutsPlan *)
PlaybackPlan(story) ==
    LET n       == Len(story.lengths)
        classic == [source |-> "classic", cuts |-> Uncut]
        auto    == [source |-> "auto", cuts |-> AutoCutsFor(story)]
    IN  IF ~EnableCuts \/ ~AllSelected(story) \/ n < 2 \/ story.disabled THEN classic
        ELSE IF story.cuts = Uncut THEN auto
        ELSE IF ~PlayableCuts(story.cuts.places, n)
             THEN IF story.cuts.places = <<>> THEN auto ELSE classic
        ELSE IF story.cuts.source = "manual" \/ story.cuts.taste = story.taste
             THEN [source |-> story.cuts.source, cuts |-> story.cuts]
        ELSE auto

(* computeVideoSegmentsFromCuts, with every clip selected *)
ManualSegments(story, places) ==
    LET times == CutTimes(story.lengths, places)
    IN  [k \in Beats(story) |->
            [owner |-> k, clip |-> story.shots[k], start |-> times[k], end |-> times[k + 1],
             from |-> Max({0, times[k] - BeatStart(story.lengths, k)})]]

(* pickMergeBoundaries: two neighbours are never merged both, and as many clips
   as getAutoClipBudgetSmart asks for at least, seven of ten, are kept. *)
Mergings(n) ==
    {S \in SUBSET (1..n - 1) :
        /\ \A i \in S : i + 1 \notin S
        /\ 10 * (n - Cardinality(S)) >= 7 * n}

(* buildOwners *)
OwnerOf(merged, k) == Max({j \in 1..k : j - 1 \notin merged})

(* computeVideoSegmentsFromCutsAutoBudget: a clip begins where its first owner
   has it begin, and when it comes again goes on where it was left. *)
AutoSegments(story, places) ==
    LET times    == CutTimes(story.lengths, places)
        owner    == [k \in Beats(story) |-> OwnerOf(story.taste.merged, k)]
        clip     == [k \in Beats(story) |-> story.shots[owner[k]]]
        pieceDur == [k \in Beats(story) |-> times[k + 1] - times[k]]
        Same(k)  == {j \in Beats(story) : clip[j] = clip[k]}
    IN  [k \in Beats(story) |->
            [owner |-> owner[k], clip |-> clip[k], start |-> times[k], end |-> times[k + 1],
             from |-> story.taste.start[owner[Min(Same(k))]]
                          + Total(pieceDur, {j \in Same(k) : j < k})]]

(* buildStoryVideoCutsTimelinePlan, and buildStoryPreviewReadiness, which plays
   a classic plan as cuts at the ends of beats *)
Timeline(story) ==
    LET plan == PlaybackPlan(story)
    IN  CASE plan.source = "auto"   -> AutoSegments(story, plan.cuts.places)
          [] plan.source = "manual" -> ManualSegments(story, plan.cuts.places)
          [] OTHER                  -> ManualSegments(story, <<>>)

(* buildStoryPlaybackTimelineV1, as the player of the page reads it: the clip
   and the second of it at each moment *)
SegmentAtTime(segments, t) ==
    CHOOSE k \in DOMAIN segments : segments[k].start <= t /\ t < segments[k].end

SegmentLength(segment) == segment.end - segment.start

-----------------------------------------------------------------------------
(* Properties of a story whose voice is synced and whose clips are selected *)

(* The segments follow one another without gap or overlap from the first
   moment to the last of the narration, and no clip is seen before its beat. *)
TimelineTiles(story) ==
    LET segments == Timeline(story)
        n == Len(story.lengths)
    IN  /\ Len(segments) = n
        /\ segments[1].start = 0
        /\ segments[n].end = Duration(story.lengths)
        /\ \A k \in 1..n : /\ segments[k].start <= segments[k].end
                           /\ segments[k].start >= BeatStart(story.lengths, k)
                           /\ k < n => segments[k].end = segments[k + 1].start

(* An automatic timeline shows no moment of a clip twice. *)
NoFootageTwice(story) ==
    PlaybackPlan(story).source = "auto" =>
        LET segments == Timeline(story)
        IN  \A j, k \in DOMAIN segments :
                j < k /\ segments[j].clip = segments[k].clip =>
                    segments[j].from + SegmentLength(segments[j]) <= segments[k].from
=============================================================================
