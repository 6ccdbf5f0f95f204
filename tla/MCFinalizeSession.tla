------------------------- MODULE MCFinalizeSession -------------------------
(***************************************************************************)
(* Small instances, for TLC, of what clients do with one session at once:  *)
(* finalize it, with a summary of their account or without one, choose the *)
(* clips of its beats, take it through the steps of the creative page, and *)
(* have it spoken and filmed while it is edited.                           *)
(* A behaviour is of one part, chosen at the start, the others at rest.    *)
(* In one of speech the provider always answers in the same form, and      *)
(* there are edits in those with times in arrays only.                     *)
(***************************************************************************)
EXTENDS MCFinalizeAttempts, ClipPicker, CreativeShell, Narration

VARIABLE part

(* Two words of which one begins like the other, and one word that is spelled
   out with another letter. *)
MCSentences == {<<<<"a">>, <<"a", "b">>>>, <<<<"b">>>>}
MCSpelled == [s \in MCSentences |-> IF Len(s) = 1 THEN <<<<"b", "c">>>> ELSE s]

OneSessionInit ==
    /\ part \in {"finalize", "summary", "clips", "steps"} \cup Forms
    /\ Init
    /\ PickerInit
    /\ ShellInit
    /\ NarrationInit
    /\ part # "clips" => desk = EmptyDesk
    /\ part # "steps" => shell = NewShell
    /\ script.lines[1] = <<<<"a">>, <<"a", "b">>>>
    /\ part \notin Forms => script.lines[2] = script.lines[1]

(* The user has had all the acts of the bound and all answers. *)
PickerDone ==
    /\ clicks = MaxClicks
    /\ \A q \in Asks : Idle(q)
    /\ UNCHANGED pickerVars

ShellDone ==
    /\ moves = MaxMoves /\ ~shell.typing
    /\ \A j \in Jobs : ~Busy(j)
    /\ UNCHANGED shellVars

(* The sync has died, no film can be made and the edits are used up. *)
SpeechDone ==
    /\ sync.at = "dead" /\ reel = NoReel /\ revision = Unset
    /\ script.state # "current" \/ script.captions = Unset
    /\ part = "arrays" => edits = MaxEdits
    /\ UNCHANGED narrationVars

SpeechGiven == sync.at = "asking" /\ sync'.at = "sound"

SpeechOfPart ==
    /\ NarrationNext
    /\ SpeechGiven => \E pace \in Paces : Speaks(pace, part)
    /\ part # "arrays" => edits' = 0

OneSessionNext ==
    /\ \/ /\ part = "finalize" /\ Next
          /\ UNCHANGED <<summary, pickerVars, shellVars, narrationVars>>
       \/ /\ part = "summary" /\ Next /\ MeetsSummary
          /\ UNCHANGED <<pickerVars, shellVars, narrationVars>>
       \/ /\ part = "clips"
          /\ PickerNext \/ PickerDone
          /\ UNCHANGED <<vars, shellVars, narrationVars>>
       \/ /\ part = "steps"
          /\ ShellNext \/ ShellDone
          /\ UNCHANGED <<vars, pickerVars, narrationVars>>
       \/ /\ part \in Forms
          /\ SpeechOfPart \/ SpeechDone
          /\ UNCHANGED <<vars, pickerVars, shellVars>>
    /\ UNCHANGED part

OneSessionSpec ==
    OneSessionInit /\ [][OneSessionNext]_<<part, vars, pickerVars, shellVars, narrationVars>>

(* Keys, workers and requests are interchangeable, and so are clips; the parts
   share their values. *)
OneSessionSymmetric == UNION {Symmetric, Permutations(ClipIds), Permutations(Asks)}
=============================================================================
