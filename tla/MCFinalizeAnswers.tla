------------------------ MODULE MCFinalizeAnswers ------------------------
(***************************************************************************)
(* Small instances, for TLC, of what is asked of the finalize API and what *)
(* it answers: how many jobs it admits, what it tells of them, and what    *)
(* the page of the web client asks of it.  A behaviour is one of one part, *)
(* chosen at the start, the others at rest.                                *)
(***************************************************************************)
EXTENDS MCFinalizeAttempts, FinalizeStatus, StoryPage

VARIABLE part

AnswersInit ==
    /\ part \in {"admission", "status", "page"}
    /\ Init
    /\ StatusInit
    /\ PageInit
    /\ part # "page" => page = BlankPage

(* The acts that the model allows are used up and have ended. *)
PageDone ==
    /\ part = "page" /\ acts = MaxActs /\ ~typing
    /\ \A f \in Flows : ~Busy(f)
    /\ \A s \in Stories : story[s].job # "active"
    /\ UNCHANGED <<part, vars, statusVars, pageVars>>

AnswersNext ==
    \/ PageDone
    \/ /\ UNCHANGED part
       /\ \/ part = "admission" /\ Next /\ UNCHANGED <<statusVars, pageVars>>
          \/ part = "status" /\ StatusNext /\ UNCHANGED <<vars, pageVars>>
          \/ part = "page" /\ PageNext /\ UNCHANGED <<vars, statusVars>>

AnswersSpec == AnswersInit /\ [][AnswersNext]_<<part, vars, statusVars, pageVars>>

(* Keys are interchangeable, and so are stories, texts and clicks. *)
AnswersSymmetric ==
    UNION {Permutations(FinalizeKeys), Permutations(Stories), Permutations(Scripts),
           Permutations(Renders)}
=============================================================================
