------------------------- MODULE MCFinalizeWorkers -------------------------
(***************************************************************************)
(* Small instances, for TLC, of what writes late: workers of one job, with *)
(* a usage summary or with an editor of the session, and the previews of   *)
(* captions.  A behaviour is one of one part, chosen at the start, the     *)
(* others at rest.                                                         *)
(***************************************************************************)
EXTENDS MCFinalizeAttempts, CaptionCards

VARIABLE part

(* Two sentences are the same but for their letter case. *)
MCFold == [text \in {"a", "A", "b"} |-> IF text = "b" THEN "b" ELSE "a"]

Opening(text, look) == [text |-> text, style |-> [look |-> look, place |-> Unplaced]]

(* One beat is edited twice, to say something else or the same in other letters
   and back; two beats are edited once, in their letters. *)
MCOpenings == {Opening(<<"A">>, "bold"), Opening(<<"A", "A">>, Plain)}

MCApplied == {[look |-> "bold", place |-> "low"]}

CaptionsStep ==
    /\ CardsNext
    /\ edit' # Blank /\ edit'.beat # 0 =>
           /\ edit'.text = "A" \/ page.text[edit'.beat] = "A"
           /\ edit'.text = "b" => Len(page.text) = 1

LateInit ==
    /\ part \in {"summary", "editor", "captions"}
    /\ Init
    /\ CardsInit
    /\ part # "captions" => page = Opening(<<"A">>, "bold")

LateNext ==
    /\ \/ part = "summary" /\ Next /\ UNCHANGED <<editing, cardVars>>
       \/ part = "editor" /\ Next /\ UNCHANGED <<summary, cardVars>>
       \/ part = "captions" /\ CaptionsStep /\ UNCHANGED vars
    /\ UNCHANGED part

LateSpec == LateInit /\ [][LateNext]_<<part, vars, cardVars>>
=============================================================================
