--------------------------- MODULE MCStorySession ---------------------------
(***************************************************************************)
(* Small instances, for TLC, of a story from three sides: the session that *)
(* is edited, and the film that is made of it, while pictures are edited   *)
(* or while the voice is.  A behaviour is one of one part, chosen at the   *)
(* start, the others at rest.                                              *)
(***************************************************************************)
EXTENDS StorySession, StoryRender

VARIABLE part

(* Texts are interchangeable; one voice is the default. *)
SessionSymmetric == Permutations(Lines)

(* Three beats of two lengths, whose cuts may lie anywhere, and four of one,
   enough for a merging; a clip that is shorter than each story and than its
   longest beat, and one that is shorter than none of its beats. *)
MCLineups == {<<3, 6, 3>>, <<6, 3, 3>>, <<3, 3, 3, 3>>}

Place == [beat : 1..3, part : {0, 1}] \cup {[beat |-> 3, part |-> 3]}
MCCutLists == {<<>>} \cup {<<p, q>> : p, q \in Place}

MCTastes(n) == [part : 1..IF n = 3 THEN 2 ELSE 1, merged : Mergings(n),
                start : {[b \in 1..n |-> b % 2]}]

MCClipLength == [f \in Footage |-> IF f = "x" THEN 4 ELSE 9]

(* The story of a behaviour that films nothing *)
AtRest(story) ==
    /\ story.lengths = <<3, 6, 3>>
    /\ story.shots = <<"x", "x", "x">>
    /\ story.taste = CHOOSE t \in MCTastes(3) : TRUE

(* Either the pictures are edited, and a story that has a video is edited before
   it is rendered again, or the voice is, with few cuts. *)
PicturesStep ==
    /\ FilmNext
    /\ UNCHANGED <<tale.lengths, spans>>
    /\ video # None => work' = None

FewCuts == {<<>>, <<[beat |-> 2, part |-> 1], [beat |-> 3, part |-> 1]>>}

LengthsStep ==
    /\ FilmNext
    /\ UNCHANGED tale.taste
    /\ tale'.cuts # tale.cuts =>
           tale'.cuts.source = "auto" \/ tale'.cuts.places \in FewCuts

StoryInit ==
    /\ part \in {"session", "pictures", "voice"}
    /\ SessionInit
    /\ FilmInit
    /\ IF part = "session" THEN AtRest(tale) ELSE session = EmptySession
    /\ part = "pictures" => tale.lengths # <<6, 3, 3>>
    /\ part = "voice" => Len(tale.lengths) = 3 /\ tale.taste.part = 2

StoryNext ==
    /\ \/ part = "session" /\ SessionNext /\ UNCHANGED filmVars
       \/ part = "pictures" /\ PicturesStep /\ UNCHANGED session
       \/ part = "voice" /\ LengthsStep /\ UNCHANGED session
    /\ UNCHANGED part

StorySpec == StoryInit /\ [][StoryNext]_<<part, session, filmVars>>
=============================================================================
