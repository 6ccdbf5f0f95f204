--------------------------- MODULE MCStoryPreview ---------------------------
(* Small instances of the draft previews for TLC. *)
EXTENDS StoryPreview, TLC

(* For the safety properties; liveness is checked without it. *)
PreviewSymmetric == Permutations(PreviewKeys) \cup Permutations(Renderable)
=============================================================================
