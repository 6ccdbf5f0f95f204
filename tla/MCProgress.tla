----------------------------- MODULE MCProgress -----------------------------
(***************************************************************************)
(* Small instances, for TLC, of three parts whose progress is checked: the *)
(* render slots of the workers, the storyboard player of the page, and the *)
(* page itself.  A behaviour is one of one part, chosen at the start, the  *)
(* others at rest.                                                         *)
(***************************************************************************)
EXTENDS RenderLease, StoryboardPlayer, StoryPage

VARIABLE part

Piece(clip, start, end, from) == [clip |-> clip, start |-> start, end |-> end, from |-> from]

(* Two clips after each other, the first from its middle. *)
MCTimelines == {<<Piece("x", 0, 1, 1), Piece("y", 1, 2, 0)>>}

(* The page at rest, while another part runs *)
PageAtRest == PageInit /\ page = BlankPage

ProgressInit ==
    /\ part \in {"slots", "player", "page"}
    /\ Init
    /\ PlayerInit
    /\ IF part = "page" THEN PageInit ELSE PageAtRest

(* The acts that the model allows are used up and have ended. *)
PageDone ==
    /\ part = "page" /\ acts = MaxActs /\ ~typing
    /\ \A f \in Flows : ~Busy(f)
    /\ \A s \in Stories : story[s].job # "active"
    /\ UNCHANGED <<part, vars, playerVars, pageVars>>

ProgressNext ==
    \/ PageDone
    \/ /\ UNCHANGED part
       /\ \/ part = "slots" /\ Next /\ UNCHANGED <<playerVars, pageVars>>
          \/ part = "player" /\ PlayerNext /\ UNCHANGED <<vars, pageVars>>
          \/ part = "page" /\ PageNext /\ UNCHANGED <<vars, playerVars>>

(* The fairness of each part, Fairness, PlayerFairness and PageFairness, while
   it runs *)
ProgressSpec ==
    /\ ProgressInit
    /\ [][ProgressNext]_<<part, vars, playerVars, pageVars>>
    /\ WF_vars(part = "slots" /\ Tick)
    /\ \A o \in Owners : WF_vars(part = "slots" /\ AcquireStep(o))
    /\ PlayerFairness
    /\ \A f \in Flows : WF_pageVars(part = "page" /\ (Outcome(f) \/ PageStep(f)))
=============================================================================
