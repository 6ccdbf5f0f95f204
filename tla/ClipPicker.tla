----------------------------- MODULE ClipPicker -----------------------------
(***************************************************************************)
(* The drawer in which the clip of a beat is chosen, on a draft and on a   *)
(* session, and the handlers of the API behind it.  A beat has clips that  *)
(* searches have offered and the one that is chosen.                       *)
(*                                                                         *)
(* A handler loads the session, searches, and saves it whole; the page     *)
(* keeps a copy of the beats, draws cards of it, and changes both by the   *)
(* answers it gets, in the order they come.  The drawer has one grid, one  *)
(* target and one lock for all searches that run.  What a library offers   *)
(* for a text is any set of clips, paged.                                  *)
(***************************************************************************)
EXTENDS Naturals, Sequences, FiniteSets

CONSTANTS
    ClipIds,    \* clips of the libraries
    DraftBeats, \* beats of a draft
    Asks,       \* requests of the page that can be under way at once
    MaxLength,  \* bound of the model: beats of a session
    MaxClicks,  \* bound of the model: acts of the user
    NoOne       \* null

ASSUME DraftsAreShort == MaxLength \in Nat /\ DraftBeats \subseteq 1..MaxLength

VARIABLES
    kept,   \* the shots of the session as stored
    desk,   \* the page
    asks,   \* its requests
    clicks  \* acts of the user so far

pickerVars == <<kept, desk, asks, clicks>>

NoAsk == [kind |-> "none", at |-> "idle", index |-> NoOne, page |-> 0, append |-> FALSE,
          clip |-> NoOne, existing |-> {}, copy |-> NoOne, got |-> NoOne, more |-> FALSE]

OneOffer(clip) == [offers |-> {clip}, chosen |-> clip]

ChosenOf(shots) == [i \in DOMAIN shots |-> shots[i].chosen]

Without(shots, i) == SubSeq(shots, 1, i - 1) \o SubSeq(shots, i + 1, Len(shots))

With(shots, i, shot) == SubSeq(shots, 1, i - 1) \o <<shot>> \o SubSeq(shots, i, Len(shots))

-----------------------------------------------------------------------------
(* Helpers: from a page to a page *)

(* renderStoryboard *)
Cards(d, shots) == [d EXCEPT !.shots = shots, !.cards = ChosenOf(shots)]

(* renderClipPickerGrid: its options are new, and not locked. *)
Grid(d, clips) == [d EXCEPT !.grid = clips, !.locked = FALSE]

Shut(d) == [d EXCEPT !.open = FALSE, !.target = NoOne]

(* Mutant: the clips of the answer are shown, and not kept. *)
GridOnly(d, r) ==
    Grid([d EXCEPT !.page = r.page, !.more = r.more],
         IF r.append THEN r.existing \cup r.got.offers ELSE r.got.offers)

(* The answer of a search, on a session and on a draft *)
SearchShown(d, r) ==
    LET shot == [r.got EXCEPT !.offers = IF r.append THEN r.existing \cup @ ELSE @]
        e    == IF r.index \in DOMAIN d.shots THEN [d EXCEPT !.shots[r.index] = shot] ELSE d
    IN  Grid([e EXCEPT !.page = r.page, !.more = r.more], shot.offers)

OptionsShown(d, r) ==
    LET clips == IF r.append THEN r.existing \cup r.got ELSE r.got
    IN  Grid([d EXCEPT !.found = clips, !.draftMore = r.more], clips)

-----------------------------------------------------------------------------
(* Requests *)

Idle(q) == asks[q].at = "idle"

(* sure: a history variable, no request has failed and none has begun while
   another was under way. *)
Begin(q, r, d) ==
    /\ asks' = [asks EXCEPT ![q] = [NoAsk EXCEPT !.at = "sent", !.kind = r.kind,
                   !.index = r.index, !.page = r.page, !.append = r.append,
                   !.clip = r.clip, !.existing = r.existing]]
    /\ desk' = [d EXCEPT !.sure = @ /\ \A p \in Asks : Idle(p)]

(* runClipSearch, runDraftClipSearch: as far as their request *)
Search(q, d, page, append) ==
    LET draft == d.kind = "draft"
        known == IF draft THEN d.found
                 ELSE IF d.target \in DOMAIN d.shots THEN d.shots[d.target].offers ELSE {}
    IN  IF d.target = NoOne
        THEN desk' = d /\ UNCHANGED asks
        ELSE Begin(q, [kind |-> IF draft THEN "options" ELSE "search", index |-> d.target,
                       page |-> page, append |-> append, clip |-> NoOne,
                       existing |-> IF append THEN known ELSE {}],
                   [d EXCEPT !.locked = TRUE, !.draftPage = IF draft THEN page ELSE @])

Send(q, kind, index, clip, d) ==
    Begin(q, [kind |-> kind, index |-> index, page |-> 0, append |-> FALSE,
              clip |-> clip, existing |-> {}], d)

-----------------------------------------------------------------------------
(* The API *)

(* searchSingleShot: clips, and the best of them *)
Results == {r \in [offers : SUBSET ClipIds, chosen : ClipIds \cup {NoOne}] :
                IF r.offers = {} THEN r.chosen = NoOne ELSE r.chosen \in r.offers}

(* Mutant: the clip stays chosen whatever is offered. *)
Replaced(shot, page, result) ==
    [offers |-> IF page = 1 THEN result.offers ELSE shot.offers \cup result.offers,
     chosen |-> IF shot.chosen # NoOne THEN shot.chosen ELSE result.chosen]

(* searchClipsForShot: the first page replaces what was offered, later ones are
   added; the chosen clip stays if it is still offered. *)
Searched(shot, page, result) ==
    LET offers == IF page = 1 THEN result.offers ELSE shot.offers \cup result.offers
    IN  [offers |-> offers,
         chosen |-> IF shot.chosen \in offers THEN shot.chosen ELSE result.chosen]

Load(q) ==
    /\ asks[q].at = "sent"
    /\ asks[q].kind # "options"
    /\ asks' = [asks EXCEPT ![q].at = "loaded", ![q].copy = kept]
    /\ UNCHANGED <<kept, desk, clicks>>

Save(q, shots, got, more) ==
    /\ kept' = shots
    /\ asks' = [asks EXCEPT ![q].at = "ok", ![q].got = got, ![q].more = more,
                            ![q].copy = NoOne]
    /\ UNCHANGED <<desk, clicks>>

Handle(q) ==
    LET r    == asks[q]
        copy == r.copy
        i    == r.index
    IN  /\ r.at = "loaded"
        /\ \/ /\ r.kind = "search" /\ i \in DOMAIN copy
              /\ \E result \in Results, more \in BOOLEAN :
                     LET shot == Searched(copy[i], r.page, result)
                     IN  Save(q, [copy EXCEPT ![i] = shot], shot, more)
           \/ /\ r.kind = "pick" /\ i \in DOMAIN copy /\ r.clip \in copy[i].offers
              /\ LET shots == [copy EXCEPT ![i].chosen = r.clip]
                 IN  Save(q, shots, shots, FALSE)
           \/ /\ r.kind = "insert" /\ i \in 1..Len(copy) + 1
              /\ \E result \in Results :
                     LET shots == With(copy, i, result) IN Save(q, shots, shots, FALSE)
           \/ /\ r.kind = "delete" /\ i \in DOMAIN copy
              /\ LET shots == Without(copy, i) IN Save(q, shots, shots, FALSE)
           \/ r.kind = "fetch" /\ Save(q, kept, copy, FALSE)

(* POST /assets/options: a search that stores nothing *)
Offer(q) ==
    /\ asks[q].at = "sent"
    /\ asks[q].kind = "options"
    /\ \E clips \in SUBSET ClipIds, more \in BOOLEAN :
           asks' = [asks EXCEPT ![q].at = "ok", ![q].got = clips, ![q].more = more]
    /\ UNCHANGED <<kept, desk, clicks>>

(* A request is refused or lost, before or after it is handled. *)
Fail(q) ==
    /\ asks[q].at \in {"sent", "loaded", "ok"}
    /\ asks' = [asks EXCEPT ![q] = [NoAsk EXCEPT !.at = "failed", !.kind = asks[q].kind]]
    /\ desk' = [desk EXCEPT !.sure = FALSE]
    /\ UNCHANGED <<kept, clicks>>

-----------------------------------------------------------------------------
(* The page gets an answer. *)

Return(q, d) == desk' = d /\ asks' = [asks EXCEPT ![q] = NoAsk]

Unlocked(d) == [d EXCEPT !.locked = FALSE]

SearchAnswered(q) ==
    /\ asks[q].kind \in {"search", "options"}
    /\ asks[q].at = "ok"
    /\ Return(q, IF asks[q].kind = "search" THEN SearchShown(desk, asks[q])
                 ELSE OptionsShown(desk, asks[q]))
    /\ UNCHANGED <<kept, clicks>>

(* handleClipOptionClick: the session is fetched, drawn, and the drawer shut. *)
PickAnswered(q) ==
    /\ asks[q].at = "ok"
    /\ \/ /\ asks[q].kind = "pick"
          /\ asks' = [asks EXCEPT ![q] = [NoAsk EXCEPT !.at = "sent", !.kind = "fetch"]]
          /\ UNCHANGED desk
       \/ /\ asks[q].kind = "fetch"
          /\ Return(q, Unlocked(Shut(Cards(desk, asks[q].got))))
    /\ UNCHANGED <<kept, clicks>>

BeatsAnswered(q) ==
    /\ asks[q].kind \in {"insert", "delete"}
    /\ asks[q].at = "ok"
    /\ Return(q, Cards(desk, asks[q].got))
    /\ UNCHANGED <<kept, clicks>>

(* The error is shown; what locked the drawer unlocks it. *)
GivesUp(q) ==
    /\ asks[q].at = "failed"
    /\ Return(q, IF asks[q].kind \in {"insert", "delete"} THEN desk ELSE Unlocked(desk))
    /\ UNCHANGED <<kept, clicks>>

-----------------------------------------------------------------------------
(* The user *)

(* openClipPicker: on a session it searches for what the beat was searched for
   before, if it was. *)
Open(q, b) ==
    IF desk.session
    THEN LET d == Grid([desk EXCEPT !.open = TRUE, !.kind = "session", !.target = b,
                                    !.page = 1, !.more = FALSE], desk.shots[b].offers)
         IN  /\ b \in DOMAIN desk.shots
             /\ Search(q, d, 1, FALSE) \/ (desk' = d /\ UNCHANGED asks)
    ELSE /\ b \in DraftBeats
         /\ desk' = Grid([desk EXCEPT !.open = TRUE, !.kind = "draft", !.target = b,
                                      !.draftPage = 1, !.draftMore = FALSE, !.found = {}], {})
         /\ UNCHANGED asks

(* Enter in the search field, the buttons under the grid, and scrolling *)
NewSearch(q) == Search(q, [desk EXCEPT !.page = 1], 1, FALSE)

MoreClips(q) ==
    \/ desk.kind = "session" /\ desk.more /\ Search(q, desk, desk.page + 1, TRUE)
    \/ desk.kind = "draft" /\ desk.draftMore /\ Search(q, desk, desk.draftPage + 1, TRUE)

PreviousClips(q) ==
    \/ /\ desk.kind = "session" /\ desk.page > 1
       /\ Search(q, [desk EXCEPT !.page = @ - 1], desk.page - 1, FALSE)
    \/ desk.kind = "draft" /\ desk.draftPage > 1 /\ Search(q, desk, desk.draftPage - 1, FALSE)

ClickClip(q, c) ==
    /\ c \in desk.grid
    /\ ~desk.locked
    /\ \/ desk.kind = "session" /\ Send(q, "pick", desk.target, c, [desk EXCEPT !.locked = TRUE])
       \/ /\ desk.kind = "draft"
          /\ c \in desk.found
          /\ desk' = Shut([desk EXCEPT !.draft[desk.target] = c])
          /\ UNCHANGED asks

ClosePicker == desk' = Shut(desk) /\ UNCHANGED asks

(* handleInsertBeat, handleDeleteBeat *)
ChangeBeats(q) ==
    /\ desk.session
    /\ \/ /\ Len(desk.shots) < MaxLength
          /\ \E i \in 1..Len(desk.shots) + 1 : Send(q, "insert", i, NoOne, desk)
       \/ \E i \in DOMAIN desk.shots : Send(q, "delete", i, NoOne, desk)

(* POST /create-manual-session, of the beats that have a clip *)
SessionOfDraft ==
    LET filled == {b \in DraftBeats : desk.draft[b] # NoOne}
    IN  /\ ~desk.session
        /\ filled # {}
        /\ \E order \in [1..Cardinality(filled) -> filled] :
               /\ \A i, j \in DOMAIN order : i < j => order[i] < order[j]
               /\ kept' = [i \in DOMAIN order |-> OneOffer(desk.draft[order[i]])]
        /\ desk' = Cards([desk EXCEPT !.session = TRUE,
                                      !.draft = [b \in DraftBeats |-> NoOne]], kept')
        /\ UNCHANGED asks

-----------------------------------------------------------------------------
EmptyDesk == [session |-> FALSE, shots |-> <<>>, cards |-> <<>>, open |-> FALSE,
              kind |-> "session", target |-> NoOne, grid |-> {}, locked |-> FALSE,
              page |-> 1, more |-> FALSE, draft |-> [b \in DraftBeats |-> NoOne],
              found |-> {}, draftPage |-> 1, draftMore |-> FALSE, sure |-> TRUE]

(* A draft, or a session of two beats as its search has left it, the drawer shut
   or open on the first *)
PickerInit ==
    /\ \/ /\ \E draft \in [DraftBeats -> ClipIds \cup {NoOne}] :
                  desk = [EmptyDesk EXCEPT !.draft = draft]
          /\ kept = <<>>
       \/ \E first, second \in Results :
              /\ kept = <<first, second>>
              /\ LET d == Cards([EmptyDesk EXCEPT !.session = TRUE], kept)
                 IN  \/ desk = d
                     \/ desk = [d EXCEPT !.open = TRUE, !.target = 1, !.grid = first.offers,
                                         !.more = first.offers # {}]
    /\ asks = [q \in Asks |-> NoAsk]
    /\ clicks = 0

InDrawer(q) ==
    /\ desk.open
    /\ \/ NewSearch(q) \/ MoreClips(q) \/ PreviousClips(q) \/ ClosePicker
       \/ \E c \in ClipIds : ClickClip(q, c)

Click(q) ==
    /\ Idle(q)
    /\ clicks < MaxClicks
    /\ clicks' = clicks + 1
    /\ \/ SessionOfDraft
       \/ /\ UNCHANGED kept
          /\ \/ \E b \in 1..MaxLength : Open(q, b)
             \/ InDrawer(q)
             \/ ChangeBeats(q)

AskGoesOn(q) ==
    \/ Load(q) \/ Handle(q) \/ Offer(q) \/ Fail(q)
    \/ SearchAnswered(q) \/ PickAnswered(q) \/ BeatsAnswered(q) \/ GivesUp(q)

PickerNext == \E q \in Asks : Click(q) \/ AskGoesOn(q)

PickerSpec == PickerInit /\ [][PickerNext]_pickerVars

-----------------------------------------------------------------------------
(* Searches replace what a beat is offered while the clip chosen of it stays, and
   picks, searches and changes of the beats overlap, each saving a session it
   loaded before: a beat's chosen clip, which the film will show, is always among
   those offered for it, in the store and on the page. *)
ChosenIsOffered ==
    \A shots \in {kept, desk.shots} : \A i \in DOMAIN shots :
        shots[i].chosen # NoOne => shots[i].chosen \in shots[i].offers

(* As long as requests have run one after the other and none has failed, the page
   has the clips that are stored once it has its answer, though it joins the pages
   of a search by itself. *)
PageKnowsClips ==
    desk.sure /\ desk.session /\ (\A q \in Asks : Idle(q)) => desk.shots = kept

(* Store and page agree on the clips, each with itself and one with the other. *)
ClipsAgree == ChosenIsOffered /\ PageKnowsClips

(* Not so: the cards then show the clips that are chosen. *)
CardsShowChosen ==
    desk.sure /\ desk.session /\ (\A q \in Asks : Idle(q)) => desk.cards = ChosenOf(kept)

(* Not so: a clip of the grid is one that the beat whose drawer is open is offered
   (with none at work). *)
GridIsOffered ==
    desk.open /\ desk.kind = "session" /\ (\A q \in Asks : Idle(q)) =>
        desk.target \in DOMAIN kept /\ desk.grid \subseteq kept[desk.target].offers
=============================================================================
