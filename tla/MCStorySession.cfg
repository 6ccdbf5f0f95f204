\* Stories of up to two beats of two texts in two voices, as sessions; stories
\* of three and four beats with two clips, as films: with any cuts, or with
\* captions that are timed anew and voices synced again.
SPECIFICATION StorySpec
CONSTANTS
    Lines = {a, b}
    Voices = {v1, v2}
    Clips = {c1}
    MaxBeats = 2
    MaxShots = 2
    CutsEnabled = TRUE
    DefaultVoice = v1
    Absent = Absent
    Footage = {"x", "y"}
    NoClip = NoClip
    EnableCuts = TRUE
    Grain = 3
    Uncut = Uncut
    Lineups <- MCLineups
    CutLists <- MCCutLists
    Tastes <- MCTastes
    ClipLength <- MCClipLength
    MaxPad = 1
    Bt709 = {"x"}
    None = None
SYMMETRY SessionSymmetric
INVARIANTS
    SessionIsVoiced
    RenderedIsCurrent
    TimelineExact
    
PROPERTIES
    ClipsFollowSentences
CHECK_DEADLOCK FALSE
