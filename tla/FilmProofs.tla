----------------------------- MODULE FilmProofs -----------------------------
(***************************************************************************)
(* Proofs about the film of a story: its timeline covers the narration     *)
(* and repeats no footage, for every story, edit and cut; a render films   *)
(* what the page plays of the story it was begun with; a film has the      *)
(* captions of what its beats say; and looking at a storyboard writes      *)
(* nothing to its session.                                                 *)
(***************************************************************************)
EXTENDS CaptionCards, StoryRender, TotalsProofs, SequenceTheorems, FiniteSetTheorems,
        WellFoundedInduction, TLAPS

-----------------------------------------------------------------------------
(* Captions and their cards *)

(* The session, and the page with as many beats. *)
StoryTyped ==
    /\ DOMAIN story = {"text", "style", "film", "meta"}
    /\ story.text \in Seq(Sentences) /\ story.text # <<>>
    /\ DOMAIN page = {"text", "style"}
    /\ page.text \in Seq(Sentences) /\ Len(page.text) = Len(story.text)

EditTyped ==
    edit # Blank => /\ DOMAIN edit = {"beat", "text", "style", "at"}
                    /\ edit.beat # 0 => /\ edit.text \in Sentences
                                        /\ edit.beat \in 1..Len(story.text)

IsFlow(f) == DOMAIN f = {"beat", "last", "text", "style", "debounced", "asking", "mapped", "aborted"}

(* A flow is about a beat of the storyboard and some that follow. *)
FlowTyped(f, n) ==
    /\ IsFlow(f)
    /\ f # NoFlow => f.beat \in 1..n /\ f.last \in 1..n /\ f.beat <= f.last

TimerTyped(t, n) == DOMAIN t = {"beat", "text", "style", "known"} /\ t.beat \in 1..n

(* The captions under a film are those it would be filmed with. *)
FilmKept ==
    story.film # Blank => \A b \in CardBeats : story.film[b] = FilmCaption(story, b)

CardsInv ==
    /\ StoryTyped
    /\ EditTyped
    /\ DOMAIN flows = Flows /\ \A q \in Flows : FlowTyped(flows[q], Len(story.text))
    /\ \A t \in timers : TimerTyped(t, Len(story.text))
    /\ FilmKept

-----------------------------------------------------------------------------
(* Steps of flows and timers *)

LEMMA NoFlowIs ==
    /\ IsFlow(NoFlow) /\ NoFlow.beat = 0 /\ NoFlow.mapped = FALSE
    /\ NoFlow.asking = FALSE
BY DEF NoFlow, IsFlow

LEMMA BeginIs ==
    ASSUME NEW first, NEW last, NEW text, NEW style, NEW debounced
    PROVE  LET f == Begin(first, last, text, style, debounced)
           IN  /\ IsFlow(f) /\ f.beat = first /\ f.last = last
               /\ f.text = text /\ f.style = style
BY DEF Begin, NoFlow, IsFlow

LEMMA OnwardIs ==
    ASSUME NEW f, IsFlow(f)
    PROVE  /\ IsFlow(Onward(f))
           /\ \/ Onward(f) = NoFlow
              \/ /\ f.beat # f.last /\ Onward(f).beat = f.beat + 1 /\ Onward(f).last = f.last
                 /\ Onward(f).text = f.text /\ Onward(f).style = f.style
BY NoFlowIs DEF Onward, IsFlow

(* A flow is as it was, but for the request it waits for. *)
Alike(f, g) == /\ IsFlow(g) /\ f.beat = g.beat /\ f.last = g.last
               /\ f.text = g.text /\ f.style = g.style

LEMMA FlagsChange ==
    ASSUME NEW f, IsFlow(f)
    PROVE  /\ Alike(f, f)
           /\ Alike(f, [f EXCEPT !.mapped = FALSE])
           /\ Alike(f, [f EXCEPT !.mapped = FALSE, !.aborted = TRUE])
           /\ Alike(f, [f EXCEPT !.asking = TRUE, !.mapped = TRUE])
BY DEF IsFlow, Alike

(* What a step may make of a flow: nothing, something like it, what follows of
   it; or a new one of the page or of a timer. *)
Follows(f, g) ==
    \/ g = f
    \/ g = NoFlow
    \/ f # NoFlow /\ Alike(f, g)
    \/ /\ f # NoFlow /\ IsFlow(g) /\ f.beat # f.last /\ g.beat = f.beat + 1
       /\ g.last = f.last /\ g.text = f.text /\ g.style = f.style

FlowsFollow == DOMAIN flows' = Flows /\ \A q \in Flows : Follows(flows[q], flows'[q])

TimersStay == \A t \in timers' : \E u \in timers :
                  /\ DOMAIN t = {"beat", "text", "style", "known"}
                  /\ t.beat = u.beat /\ t.text = u.text /\ t.style = u.style

LEMMA OnwardFollows ==
    ASSUME NEW f, IsFlow(f), f # NoFlow
    PROVE  Follows(f, Onward(f))
BY OnwardIs DEF Follows

LEMMA ReleasedFollow ==
    ASSUME CardsInv, NEW q \in Flows, Running(q),
           flows' = [Released(flows[q].beat) EXCEPT ![q] = Onward(@)]
    PROVE  FlowsFollow
<1> DEFINE b == flows[q].beat
<1>1. \A r \in Flows : FlowTyped(flows[r], Len(story.text))
  BY DEF CardsInv
<1>2. b # 0
  BY <1>1 DEF FlowTyped, Running
<1>3. ASSUME NEW r \in Flows
      PROVE  Released(b)[r] = flows[r] \/ (flows[r] # NoFlow /\ Alike(flows[r], Released(b)[r]))
  <2>1. CASE flows[r].beat = b
    <3>1. flows[r] # NoFlow
      BY <1>2, <2>1, NoFlowIs
    <3>2. Released(b)[r] = [flows[r] EXCEPT !.mapped = FALSE]
      BY <2>1 DEF Released
    <3> QED  BY <1>1, <3>1, <3>2, FlagsChange DEF FlowTyped
  <2>2. CASE flows[r].beat # b
    BY <2>2 DEF Released
  <2> QED  BY <2>1, <2>2
<1>4. DOMAIN flows' = Flows /\ \A r \in Flows :
         flows'[r] = IF r = q THEN Onward(Released(b)[q]) ELSE Released(b)[r]
  BY DEF Released
<1>5. Follows(flows[q], flows'[q])
  <2> DEFINE g == Released(b)[q]
  <2>1. g = [flows[q] EXCEPT !.mapped = FALSE]
    BY DEF Released
  <2>2. Alike(flows[q], g) /\ IsFlow(g)
    <3>1. IsFlow(flows[q])
      BY <1>1 DEF FlowTyped
    <3>2. Alike(flows[q], [flows[q] EXCEPT !.mapped = FALSE])
      BY <3>1, FlagsChange
    <3> HIDE DEF g
    <3>3. Alike(flows[q], g)
      BY <2>1, <3>2
    <3> QED  BY <3>3 DEF Alike
  <2>3. flows'[q] = Onward(g)
    BY <1>4
  <2> HIDE DEF g
  <2> QED  BY <2>2, <2>3, OnwardIs DEF Follows, Alike, Running
<1> HIDE DEF b
<1>6. \A r \in Flows : Follows(flows[r], flows'[r])
  BY <1>3, <1>4, <1>5 DEF Follows
<1> QED  BY <1>4, <1>6 DEF FlowsFollow

LEMMA TimersAfterStay ==
    ASSUME CardsInv, NEW f, timers' = TimersAfter(f)
    PROVE  TimersStay
<1> SUFFICES ASSUME NEW t \in timers'
             PROVE  \E u \in timers :
                       /\ DOMAIN t = {"beat", "text", "style", "known"}
                       /\ t.beat = u.beat /\ t.text = u.text /\ t.style = u.style
  BY DEF TimersStay
<1>1. PICK u \in timers :
         t = IF f.debounced /\ u.beat = f.beat THEN [u EXCEPT !.known = FALSE] ELSE u
  BY DEF TimersAfter
<1>2. DOMAIN u = {"beat", "text", "style", "known"}
  BY DEF CardsInv, TimerTyped
<1> QED  BY <1>1, <1>2

LEMMA FollowersTyped ==
    ASSUME CardsInv, FlowsFollow, Len(story'.text) = Len(story.text)
    PROVE  DOMAIN flows' = Flows /\ \A q \in Flows : FlowTyped(flows'[q], Len(story'.text))
<1> DEFINE n == Len(story.text)
<1>1. n \in Nat /\ \A q \in Flows : FlowTyped(flows[q], n)
  BY LenProperties DEF CardsInv, StoryTyped
<1>2. ASSUME NEW f, NEW g, FlowTyped(f, n), Follows(f, g) PROVE FlowTyped(g, n)
  <2> HIDE DEF n
  <2> QED  BY <1>1, <1>2, NoFlowIs DEF FlowTyped, Follows, Alike
<1> QED  BY <1>1, <1>2 DEF FlowsFollow

-----------------------------------------------------------------------------
(* The invariant is kept *)

LEMMA InitCards == ASSUME CardsInit PROVE CardsInv
<1>1. PICK opening \in Openings :
         /\ page = opening
         /\ story = [text |-> opening.text, style |-> opening.style, film |-> Blank,
                     meta |-> [b \in DOMAIN opening.text |-> Blank]]
  BY DEF CardsInit
<1>2. StoryTyped
  BY <1>1, OpeningsAreSessions DEF StoryTyped
<1>3. Len(page.text) \in Nat /\ Len(page.text) >= 1
  BY <1>2, LenProperties, EmptySeq DEF StoryTyped
<1>4. FlowTyped(AllBeats(page), Len(story.text)) /\ FlowTyped(NoFlow, Len(story.text))
  <2>1. /\ IsFlow(AllBeats(page)) /\ AllBeats(page).beat = 1 /\ AllBeats(page).last = Len(page.text)
    BY DEF AllBeats, Begin, NoFlow, IsFlow
  <2> QED  BY <1>2, <1>3, <2>1, NoFlowIs DEF FlowTyped, StoryTyped
<1>5. DOMAIN flows = Flows /\ \A q \in Flows : FlowTyped(flows[q], Len(story.text))
  BY <1>4 DEF CardsInit
<1>6. FilmKept
  BY <1>1 DEF FilmKept
<1> QED  BY <1>2, <1>5, <1>6 DEF CardsInit, CardsInv, EditTyped

(* The session changes: its beats stay, and it loses its film. *)
LEMMA StoryChanges ==
    ASSUME CardsInv, UNCHANGED <<page, flows, timers>>, EditTyped',
           DOMAIN story' = DOMAIN story, story'.text \in Seq(Sentences),
           Len(story'.text) = Len(story.text), story'.film = Blank
    PROVE  CardsInv'
<1>1. story'.text # <<>>
  BY LenProperties, EmptySeq DEF CardsInv, StoryTyped
<1> QED  BY <1>1 DEF CardsInv, StoryTyped, FilmKept

(* The session stays, and the page goes on. *)
LEMMA PageGoesOn ==
    ASSUME CardsInv, UNCHANGED <<story, page>>, EditTyped', FlowsFollow, TimersStay
    PROVE  CardsInv'
<1>1. DOMAIN flows' = Flows /\ \A q \in Flows : FlowTyped(flows'[q], Len(story'.text))
  BY FollowersTyped
<1>2. \A t \in timers' : TimerTyped(t, Len(story'.text))
  BY DEF CardsInv, TimersStay, TimerTyped
<1> QED  BY <1>1, <1>2 DEF CardsInv, StoryTyped, FilmKept, CardBeats, FilmCaption

LEMMA FlowsStay == ASSUME CardsInv, UNCHANGED flows PROVE FlowsFollow
BY DEF CardsInv, FlowsFollow, Follows

LEMMA TimersAreTyped == ASSUME CardsInv, timers' \subseteq timers PROVE TimersStay
BY DEF CardsInv, TimersStay, TimerTyped

LEMMA EditStays ==
    ASSUME CardsInv, UNCHANGED edit, Len(story'.text) = Len(story.text) PROVE EditTyped'
BY DEF CardsInv, EditTyped

(* A step of a flow, and of the requests for previews. *)
LEMMA FlowSteps ==
    ASSUME CardsInv, NEW q \in Flows,
           ShowCached(q) \/ AskPreview(q) \/ NoPreview(q) \/ PreviewArrives(q)
    PROVE  FlowsFollow /\ TimersStay /\ Running(q)
<1>1. FlowTyped(flows[q], Len(story.text)) /\ DOMAIN flows = Flows
  BY DEF CardsInv
<1>2. Running(q)
  BY NoFlowIs DEF ShowCached, AskPreview, NoPreview, PreviewArrives, Running
<1>3. Follows(flows[q], Onward(flows[q]))
  BY <1>1, <1>2, OnwardFollows DEF FlowTyped, Running
<1>4. CASE ShowCached(q)
  <2>1. FlowsFollow
    BY <1>1, <1>3, <1>4 DEF ShowCached, FlowsFollow, Follows
  <2> QED  BY <1>2, <1>4, <2>1, TimersAfterStay DEF ShowCached
<1>5. CASE AskPreview(q)
  <2>1. ASSUME NEW r \in Flows PROVE Follows(flows[r], flows'[r])
    <3>1. FlowTyped(flows[r], Len(story.text))
      BY DEF CardsInv
    <3>2. CASE r = q
      <4>1. flows'[r] = [flows[r] EXCEPT !.asking = TRUE, !.mapped = TRUE]
        BY <1>5, <3>2 DEF AskPreview
      <4>2. Alike(flows[r], [flows[r] EXCEPT !.asking = TRUE, !.mapped = TRUE])
        BY <3>1, FlagsChange DEF FlowTyped
      <4> QED  BY <1>2, <3>2, <4>1, <4>2 DEF Follows, Running
    <3>3. CASE r # q /\ flows[r].mapped /\ flows[r].beat = flows[q].beat
      <4>1. flows'[r] = [flows[r] EXCEPT !.mapped = FALSE, !.aborted = TRUE]
        BY <1>5, <3>3 DEF AskPreview
      <4>2. flows[r] # NoFlow
        BY <3>3, NoFlowIs
      <4> QED  BY <3>1, <4>1, <4>2, FlagsChange DEF Follows, FlowTyped
    <3>4. CASE r # q /\ ~(flows[r].mapped /\ flows[r].beat = flows[q].beat)
      BY <1>5, <3>4 DEF AskPreview, Follows
    <3> QED  BY <3>2, <3>3, <3>4
  <2>2. FlowsFollow
    BY <1>5, <2>1 DEF AskPreview, FlowsFollow
  <2> QED  BY <1>2, <1>5, <2>2, TimersAreTyped DEF AskPreview
<1>6. CASE NoPreview(q) \/ PreviewArrives(q)
  BY <1>2, <1>6, ReleasedFollow, TimersAfterStay DEF NoPreview, PreviewArrives
<1> QED  BY <1>4, <1>5, <1>6

(* A free function takes some work. *)
LEMMA StartedIs ==
    ASSUME CardsInv, NEW f, Started(f)
    PROVE  /\ DOMAIN flows' = Flows
           /\ \A q \in Flows : flows'[q] = flows[q] \/ flows'[q] = f
BY DEF Started, Free, CardsInv

LEMMA StartedTyped ==
    ASSUME CardsInv, NEW f, Started(f), FlowTyped(f, Len(story.text)),
           Len(story'.text) = Len(story.text)
    PROVE  DOMAIN flows' = Flows /\ \A q \in Flows : FlowTyped(flows'[q], Len(story'.text))
BY StartedIs DEF CardsInv

LEMMA AllBeatsTyped ==
    ASSUME NEW p, NEW n \in Nat, Len(p.text) = n, n >= 1
    PROVE  FlowTyped(AllBeats(p), n)
<1>1. /\ IsFlow(AllBeats(p)) /\ AllBeats(p).beat = 1 /\ AllBeats(p).last = n
  BY DEF AllBeats, Begin, NoFlow, IsFlow
<1> QED  BY <1>1 DEF FlowTyped

LEMMA Sizes ==
    ASSUME CardsInv
    PROVE  Len(story.text) \in Nat /\ Len(story.text) >= 1 /\ CardBeats = 1..Len(story.text)
BY LenProperties, EmptySeq DEF CardsInv, StoryTyped, CardBeats

LEMMA PreviewStepKept == ASSUME CardsInv, PreviewStep PROVE CardsInv'
<1>1. UNCHANGED <<story, page, edit>>
  BY DEF PreviewStep, TimerFires, ShowCached, AskPreview, NoPreview, PreviewArrives, Expire
<1>2. ASSUME NEW t \in timers, TimerFires(t) PROVE CardsInv'
  <2> DEFINE f == Begin(t.beat, t.beat, t.text, t.style, TRUE)
  <2>1. f.beat = t.beat /\ f.last = t.beat /\ IsFlow(f) /\ t.beat \in 1..Len(story.text)
    BY DEF Begin, NoFlow, IsFlow, CardsInv, TimerTyped
  <2>2. Started(f) /\ timers' \subseteq timers
    BY <1>2 DEF TimerFires
  <2> HIDE DEF f
  <2>3. FlowTyped(f, Len(story.text))
    BY <2>1, Sizes DEF FlowTyped
  <2>4. DOMAIN flows' = Flows /\ \A q \in Flows : FlowTyped(flows'[q], Len(story'.text))
    BY <1>1, <2>2, <2>3, StartedTyped
  <2> QED  BY <1>1, <2>2, <2>4 DEF CardsInv, StoryTyped, EditTyped, FilmKept, CardBeats, FilmCaption
<1>3. ASSUME NEW q \in Flows, ShowCached(q) \/ AskPreview(q) \/ NoPreview(q) \/ PreviewArrives(q)
      PROVE  CardsInv'
  BY <1>1, <1>3, FlowSteps, EditStays, PageGoesOn
<1>4. ASSUME NEW key \in cache, Expire(key) PROVE CardsInv'
  BY <1>1, <1>4, FlowsStay, TimersAreTyped, EditStays, PageGoesOn DEF Expire
<1> QED  BY <1>2, <1>3, <1>4 DEF PreviewStep

LEMMA WriteStepKept == ASSUME CardsInv, WriteStep PROVE CardsInv'
<1>1. UNCHANGED <<page, edit, flows, timers>>
  BY DEF WriteStep, Flush, UpdateCaptionMeta, MetaAnswered, MetaFails
<1>2. ASSUME UNCHANGED story PROVE CardsInv'
  BY <1>1, <1>2, FlowsStay, TimersAreTyped, EditStays, PageGoesOn
<1>3. ASSUME NEW post \in posts, UpdateCaptionMeta(post) PROVE CardsInv'
  <2>1. story' = MetaUpdated(story, post.batch)
    BY <1>3 DEF UpdateCaptionMeta
  <2>2. CASE Accepted(story, post.batch) = {}
    BY <1>2, <2>1, <2>2 DEF MetaUpdated
  <2>3. CASE Accepted(story, post.batch) # {}
    <3>1. DOMAIN story' = DOMAIN story /\ story'.text = story.text /\ story'.film = Blank
      BY <2>1, <2>3 DEF MetaUpdated, CardsInv, StoryTyped
    <3>2. story'.text \in Seq(Sentences) /\ Len(story'.text) = Len(story.text) /\ EditTyped'
      BY <1>1, <3>1, EditStays DEF CardsInv, StoryTyped
    <3> QED  BY <1>1, <3>1, <3>2, StoryChanges
  <2> QED  BY <2>2, <2>3
<1> QED  BY <1>2, <1>3 DEF WriteStep, Flush, MetaAnswered, MetaFails

LEMMA FilmKeeps == ASSUME CardsInv, Film PROVE CardsInv'
<1> DEFINE film == [b \in CardBeats |-> FilmCaption(story, b)]
<1>1. story' = [story EXCEPT !.film = film]
  BY DEF Film
<1> HIDE DEF film
<1>2. /\ DOMAIN story' = DOMAIN story /\ story'.text = story.text /\ story'.style = story.style
      /\ story'.meta = story.meta /\ story'.film = film
  BY <1>1 DEF CardsInv, StoryTyped
<1>3. \A b \in CardBeats : film[b] = FilmCaption(story, b)
  BY DEF film
<1>4. FilmKept'
  BY <1>2, <1>3 DEF FilmKept, CardBeats, FilmCaption
<1>5. UNCHANGED <<page, edit, flows, timers>>
  BY DEF Film
<1> QED  BY <1>2, <1>4, <1>5 DEF CardsInv, StoryTyped, EditTyped

LEMMA UserStepKept == ASSUME CardsInv, UserStep PROVE CardsInv'
<1>1. CASE DrawAgain
  <2>1. Started(AllBeats(page)) /\ UNCHANGED <<story, page, edit, timers>>
    BY <1>1 DEF DrawAgain
  <2>2. FlowTyped(AllBeats(page), Len(story.text))
    BY Sizes, AllBeatsTyped DEF CardsInv, StoryTyped
  <2>3. DOMAIN flows' = Flows /\ \A q \in Flows : FlowTyped(flows'[q], Len(story'.text))
    BY <2>1, <2>2, StartedTyped
  <2> QED  BY <2>1, <2>3 DEF CardsInv, StoryTyped, EditTyped, FilmKept, CardBeats, FilmCaption
<1>2. ASSUME UNCHANGED <<story, page, flows, timers>>, EditTyped' PROVE CardsInv'
  BY <1>2, FlowsStay, TimersAreTyped, PageGoesOn
<1>3. ASSUME NEW b \in CardBeats, NEW text \in Sentences, AskEdit(b, text) PROVE CardsInv'
  <2>1. edit' = [beat |-> b, text |-> text, style |-> page.style, at |-> "asked"]
    BY <1>3 DEF AskEdit
  <2>2. EditTyped'
    BY <1>3, <2>1, Sizes DEF EditTyped, AskEdit
  <2> QED  BY <1>2, <1>3, <2>2 DEF AskEdit
<1>4. ASSUME NEW style \in Applied, AskStyle(style) PROVE CardsInv'
  <2>1. edit' = [beat |-> 0, text |-> Blank, style |-> style, at |-> "asked"]
    BY <1>4 DEF AskStyle
  <2>2. EditTyped'
    BY <2>1 DEF EditTyped
  <2> QED  BY <1>2, <1>4, <2>2 DEF AskStyle
<1>5. CASE HandleEdit
  <2>1. /\ edit # Blank /\ UNCHANGED <<page, flows, timers>>
        /\ edit' = [edit EXCEPT !.at = "answered"]
        /\ story' = IF edit.beat = 0 THEN StyleUpdated(story, edit.style)
                    ELSE TextUpdated(story, edit.beat, edit.text)
    BY <1>5 DEF HandleEdit
  <2>2. Len(story'.text) = Len(story.text) => EditTyped'
    BY <2>1 DEF EditTyped, CardsInv
  <2>3. CASE edit.beat = 0
    <3>1. DOMAIN story' = DOMAIN story /\ story'.text = story.text /\ story'.film = Blank
      BY <2>1, <2>3 DEF StyleUpdated, CardsInv, StoryTyped
    <3>2. story'.text \in Seq(Sentences) /\ Len(story'.text) = Len(story.text)
      BY <3>1 DEF CardsInv, StoryTyped
    <3> QED  BY <2>1, <2>2, <3>1, <3>2, StoryChanges
  <2>4. CASE edit.beat # 0
    <3> DEFINE text == [story.text EXCEPT ![edit.beat] = edit.text]
    <3>1. story' = [story EXCEPT !.text = text, !.film = Blank]
      BY <2>1, <2>4 DEF TextUpdated
    <3>2. text \in Seq(Sentences) /\ Len(text) = Len(story.text)
      BY <2>1, <2>4, ExceptSeq DEF CardsInv, EditTyped, StoryTyped
    <3> HIDE DEF text
    <3>3. DOMAIN story' = DOMAIN story /\ story'.text = text /\ story'.film = Blank
      BY <3>1 DEF CardsInv, StoryTyped
    <3> QED  BY <2>1, <2>2, <3>2, <3>3, StoryChanges
  <2> QED  BY <2>3, <2>4
<1>6. CASE EditFails
  <2>1. EditTyped'
    BY <1>6 DEF EditFails, EditTyped
  <2> QED  BY <1>2, <1>6, <2>1 DEF EditFails
<1>7. CASE TextAnswered
  <2>1. /\ page' = [page EXCEPT !.text = story.text] /\ edit' = Blank /\ UNCHANGED story
        /\ Started(AllBeats(page')) /\ timers' = Debounced(edit.beat, page')
    BY <1>7 DEF TextAnswered
  <2>2. DOMAIN page' = {"text", "style"} /\ page'.text = story.text
    BY <2>1 DEF CardsInv, StoryTyped
  <2>3. FlowTyped(AllBeats(page'), Len(story.text))
    BY <2>2, Sizes, AllBeatsTyped
  <2>4. DOMAIN flows' = Flows /\ \A q \in Flows : FlowTyped(flows'[q], Len(story'.text))
    BY <2>1, <2>3, StartedTyped
  <2>5. /\ edit # Blank /\ edit.beat \in 1..Len(story.text)
    BY <1>7 DEF TextAnswered, CardsInv, EditTyped
  <2>6. \A t \in timers' : TimerTyped(t, Len(story'.text))
    <3>1. TimerTyped(Timer(edit.beat, page'), Len(story.text))
      BY <2>5 DEF TimerTyped, Timer
    <3> QED  BY <2>1, <3>1 DEF Debounced, CardsInv
  <2>7. StoryTyped' /\ EditTyped' /\ FilmKept'
    BY <2>1, <2>2 DEF CardsInv, StoryTyped, EditTyped, FilmKept, CardBeats, FilmCaption
  <2> QED  BY <2>4, <2>6, <2>7 DEF CardsInv
<1>8. CASE StyleAnswered
  <2>1. /\ page' = [page EXCEPT !.style = story.style] /\ edit' = Blank
        /\ UNCHANGED <<story, timers>> /\ Started(AllBeats(page'))
    BY <1>8 DEF StyleAnswered
  <2>2. DOMAIN page' = {"text", "style"} /\ page'.text = page.text
    BY <2>1 DEF CardsInv, StoryTyped
  <2>3. FlowTyped(AllBeats(page'), Len(story.text))
    BY <2>2, Sizes, AllBeatsTyped DEF CardsInv, StoryTyped
  <2>4. DOMAIN flows' = Flows /\ \A q \in Flows : FlowTyped(flows'[q], Len(story'.text))
    BY <2>1, <2>3, StartedTyped
  <2>5. StoryTyped' /\ EditTyped' /\ FilmKept'
    BY <2>1, <2>2 DEF CardsInv, StoryTyped, EditTyped, FilmKept, CardBeats, FilmCaption
  <2> QED  BY <2>1, <2>4, <2>5 DEF CardsInv
<1> QED  BY <1>1, <1>3, <1>4, <1>5, <1>6, <1>7, <1>8 DEF UserStep

LEMMA NextCards == ASSUME CardsInv, [CardsNext]_cardVars PROVE CardsInv'
<1>1. CASE UNCHANGED cardVars
  BY <1>1, FlowsStay, TimersAreTyped, EditStays, PageGoesOn DEF cardVars
<1> QED  BY <1>1, PreviewStepKept, WriteStepKept, UserStepKept, FilmKeeps DEF CardsNext

(* The inductive invariant: every session, page, flow and timer has the beats
   of the storyboard, and the captions of a film stay those of its session. *)
THEOREM CardsInvariance == CardsSpec => []CardsInv
<1>1. CardsInit => CardsInv
  BY InitCards
<1>2. CardsInv /\ [CardsNext]_cardVars => CardsInv'
  BY NextCards
<1> QED  BY <1>1, <1>2, PTL DEF CardsSpec

(* Whatever batch of whatever preview arrives late, a film that a session shows
   has the captions that it would be filmed with now: every handler that changes
   a text, the style or a written caption deletes the film. *)
THEOREM FilmCaptions == CardsSpec => []FilmIsCaptioned
<1>1. CardsInv => FilmIsCaptioned
  BY DEF CardsInv, FilmKept, FilmIsCaptioned
<1> QED  BY <1>1, CardsInvariance, PTL

-----------------------------------------------------------------------------
(* Looking at the storyboard *)

FlowsOnPage == \A q \in Flows : Running(q) => OfThePage(flows[q], flows[q].beat..flows[q].last)

TimersOnPage == \A t \in timers : OfThePage(t, {t.beat})

LEMMA SettledStays ==
    ASSUME CardsInv, CardsInv', Settled, UNCHANGED <<page, edit, writes, posts>>,
           FlowsOnPage', TimersOnPage'
    PROVE  Settled'
<1>1. CardBeats' = CardBeats
  BY LenProperties DEF CardsInv, StoryTyped, CardBeats
<1> QED  BY <1>1 DEF Settled, Pending, FlowsOnPage, TimersOnPage

(* What follows of a flow is about beats it was about. *)
LEMMA FollowersOnPage ==
    ASSUME CardsInv, Settled, UNCHANGED page, FlowsFollow
    PROVE  FlowsOnPage'
<1> SUFFICES ASSUME NEW q \in Flows, flows'[q] # NoFlow
             PROVE  OfThePage(flows[q], flows[q].beat..flows[q].last)'
  BY DEF FlowsOnPage, Running
<1>1. FlowTyped(flows[q], Len(story.text)) /\ Follows(flows[q], flows'[q])
  BY DEF CardsInv, FlowsFollow
<1>2. flows[q] # NoFlow
  BY <1>1 DEF Follows
<1>3. OfThePage(flows[q], flows[q].beat..flows[q].last)
  BY <1>2 DEF Settled, Running
<1>4. /\ flows'[q].text = flows[q].text /\ flows'[q].style = flows[q].style
      /\ flows'[q].beat..flows'[q].last \subseteq flows[q].beat..flows[q].last
  BY <1>1, <1>2, Sizes DEF Follows, Alike, FlowTyped
<1> QED  BY <1>3, <1>4 DEF OfThePage

LEMMA StartedOnPage ==
    ASSUME CardsInv, Settled, UNCHANGED page, NEW f, Started(f),
           OfThePage(f, f.beat..f.last)
    PROVE  FlowsOnPage'
<1> SUFFICES ASSUME NEW q \in Flows, flows'[q] # NoFlow
             PROVE  OfThePage(flows[q], flows[q].beat..flows[q].last)'
  BY DEF FlowsOnPage, Running
<1>1. flows'[q] = flows[q] \/ flows'[q] = f
  BY StartedIs
<1> QED  BY <1>1 DEF OfThePage, Settled, Running

LEMMA TimersKeepPage ==
    ASSUME CardsInv, Settled, UNCHANGED page, TimersStay
    PROVE  TimersOnPage'
BY DEF Settled, TimersStay, TimersOnPage, OfThePage

LEMMA PreviewOnPage ==
    ASSUME CardsInv, CardsInv', Settled, UNCHANGED <<page, edit>>, PreviewStep
    PROVE  Settled'
<1>1. ASSUME NEW t \in timers, TimerFires(t) PROVE Settled'
  <2> DEFINE f == Begin(t.beat, t.beat, t.text, t.style, TRUE)
  <2>1. /\ f.beat = t.beat /\ f.last = t.beat /\ f.text = t.text /\ f.style = t.style
        /\ t.beat \in 1..Len(story.text)
    BY DEF Begin, NoFlow, CardsInv, TimerTyped
  <2>2. Started(f) /\ timers' \subseteq timers /\ UNCHANGED <<writes, posts>>
    BY <1>1 DEF TimerFires
  <2> HIDE DEF f
  <2>3. f.beat..f.last = {t.beat}
    BY <2>1, Sizes
  <2>4. OfThePage(f, f.beat..f.last)
    BY <2>1, <2>3 DEF Settled, OfThePage
  <2> QED  BY <2>2, <2>4, StartedOnPage, TimersAreTyped, TimersKeepPage, SettledStays
<1>2. ASSUME NEW q \in Flows, ShowCached(q) \/ AskPreview(q) \/ NoPreview(q) \/ PreviewArrives(q)
      PROVE  Settled'
  <2>1. FlowsFollow /\ TimersStay /\ Running(q)
    BY <1>2, FlowSteps
  <2>2. UNCHANGED <<writes, posts>>
    <3> DEFINE b == flows[q].beat
    <3>1. OfThePage(flows[q], b..flows[q].last) /\ b \in b..flows[q].last /\ b \in CardBeats
      BY <2>1, Sizes DEF Settled, CardsInv, FlowTyped, Running
    <3>2. writes.written[b] = Preview(Key(q).text, Key(q).style)
      BY <3>1 DEF Settled, OfThePage, Key
    <3> QED  BY <1>2, <3>2 DEF ShowCached, AskPreview, NoPreview, PreviewArrives, Queue
  <2> QED  BY <2>1, <2>2, FollowersOnPage, TimersKeepPage, SettledStays
<1>3. ASSUME NEW key \in cache, Expire(key) PROVE Settled'
  BY <1>3, FlowsStay, TimersAreTyped, FollowersOnPage, TimersKeepPage, SettledStays DEF Expire
<1> QED  BY <1>1, <1>2, <1>3 DEF PreviewStep

(* Looking at a storyboard whose captions are written writes nothing: the work of
   the page is about what the page says, and what that shows has been written. *)
THEOREM LookingIsFree == CardsSpec => LookingWritesNothing
<1>1. ASSUME CardsInv, CardsInv', [CardsNext]_cardVars, Settled, UNCHANGED <<page, edit>>
      PROVE  Settled'
  <2>1. ASSUME UNCHANGED <<writes, posts, flows, timers>> PROVE Settled'
    BY <1>1, <2>1, FlowsStay, TimersAreTyped, FollowersOnPage, TimersKeepPage, SettledStays
  <2>2. CASE UNCHANGED cardVars
    BY <2>1, <2>2 DEF cardVars
  <2>3. CASE PreviewStep
    BY <1>1, <2>3, PreviewOnPage
  <2>4. ASSUME WriteStep PROVE FALSE
    BY <1>1, <2>4 DEF WriteStep, Settled, Flush
  <2>5. CASE UserStep
    <3>1. CASE DrawAgain
      <4>1. AllBeats(page).text = page.text /\ AllBeats(page).style = page.style
        BY DEF AllBeats, Begin, NoFlow
      <4>2. OfThePage(AllBeats(page), AllBeats(page).beat..AllBeats(page).last)
        BY <4>1 DEF OfThePage
      <4>3. Started(AllBeats(page)) /\ UNCHANGED <<writes, posts, timers>>
        BY <3>1 DEF DrawAgain
      <4> QED  BY <1>1, <4>2, <4>3, StartedOnPage, TimersAreTyped, TimersKeepPage, SettledStays
    <3>2. CASE \E b \in CardBeats, text \in Sentences : AskEdit(b, text)
      BY <2>1, <3>2 DEF AskEdit
    <3>3. CASE \E style \in Applied : AskStyle(style)
      BY <2>1, <3>3 DEF AskStyle
    <3>4. ASSUME HandleEdit \/ EditFails \/ TextAnswered \/ StyleAnswered PROVE FALSE
      BY <1>1, <3>4 DEF Settled, HandleEdit, EditFails, TextAnswered, StyleAnswered
    <3> QED  BY <2>5, <3>1, <3>2, <3>3, <3>4 DEF UserStep
  <2>6. CASE Film
    BY <2>1, <2>6 DEF Film
  <2> QED  BY <1>1, <2>2, <2>3, <2>4, <2>5, <2>6 DEF CardsNext
<1>2. CardsInv /\ CardsInv' /\ [CardsNext]_cardVars
         => [Settled /\ page' = page /\ edit' = edit => Settled']_cardVars
  BY <1>1
<1> QED  BY <1>2, CardsInvariance, PTL DEF CardsSpec, LookingWritesNothing

-----------------------------------------------------------------------------
(* Timelines, and films *)

(* A story whose cuts are none, those that were made for a script, or accepted
   from the editor. *)
CutsOK(cuts, n) ==
    \/ cuts = Uncut
    \/ /\ cuts.source = "auto"
       /\ cuts.places = [k \in 1..n - 1 |-> [beat |-> k + 1, part |-> cuts.taste.part]]
    \/ /\ cuts.source = "manual"
       /\ cuts.places \in Seq([beat : Int, part : Int])
       /\ Accepts(cuts.places, n)

StoryOK(s) ==
    /\ DOMAIN s = {"lengths", "shots", "taste", "cuts", "disabled"}
    /\ s = [field \in DOMAIN s |-> s[field]]
    /\ s.lengths \in Lineups
    /\ s.shots \in [DOMAIN s.lengths -> Footage \cup {NoClip}]
    /\ s.taste \in Tastes(Len(s.lengths))
    /\ CutsOK(s.cuts, Len(s.lengths))
    /\ s.disabled \in BOOLEAN

-----------------------------------------------------------------------------
(* The beats with a clip; those of them that are behind the render. *)
Filmed(s) == {b \in Beats(s) : s.shots[b] # NoClip}

Past(s, beats) == Filmed(s) \ {beats[i] : i \in DOMAIN beats}

Moments == [clip : Footage, at : Nat]

(* What the timeline of a story shows at a time *)
PlayedIn(s, t) == ShownAt(Timeline(s), t)

(* The films of some beats of a story, in their order and as they are played *)
BeatFilms == [beat : Nat, moments : Seq(Moments)]

FilmsOK(v, s, S) ==
    /\ v.films \in Seq(BeatFilms)
    /\ Ascending([k \in DOMAIN v.films |-> v.films[k].beat], S)
    /\ \A k \in DOMAIN v.films : BeatAsPlayed(v, s, Timeline(s), v.films[k])

(* The reel has the segments that are no longer to come, and each of its
   moments is as it is played. *)
ReelEnd(s, m) == IF m = 0 THEN 0 ELSE Timeline(s)[m].end

ReelOK(s, segments, reel) ==
    LET m == Len(s.lengths) - Len(segments)
    IN  /\ segments \in Seq({Timeline(s)[k] : k \in Beats(s)})
        /\ m >= 0
        /\ \A i \in DOMAIN segments : segments[i] = Timeline(s)[m + i]
        /\ reel \in Seq(Moments)
        /\ Len(reel) = ReelEnd(s, m)
        /\ \A i \in DOMAIN reel : reel[i] = PlayedIn(s, i - 1)

BeatsOK(s, beats, failed) ==
    /\ beats \in Seq(Filmed(s))
    /\ \A i, j \in DOMAIN beats : i < j => beats[i] < beats[j]
    /\ failed \subseteq Past(s, beats)
    /\ \A b \in Past(s, beats) : \A i \in DOMAIN beats : b < beats[i]

WorkOK(w) ==
    /\ DOMAIN w = {"kind", "story", "reeled", "segments", "reel", "beats", "films",
                   "failed", "learnt"}
    /\ w.kind \in Kinds
    /\ StoryOK(w.story)
    /\ w.reeled <=> PlaybackPlan(w.story).source # "classic"
    /\ w.kind = "preview" => AllSelected(w.story) /\ w.failed = {}
    /\ w.reeled => w.failed = {}
    /\ IF w.reeled THEN ReelOK(w.story, w.segments, w.reel) ELSE w.segments = <<>>
    /\ BeatsOK(w.story, w.beats, w.failed)
    /\ FilmsOK(w, w.story, Past(w.story, w.beats) \ w.failed)

(* A render is of a story with as many beats as the story has. *)
OfTale(w) == Len(w.story.lengths) = Len(tale.lengths)

FilmInv ==
    /\ StoryOK(tale)
    /\ spans \in LineupsFor(tale)
    /\ work # None => WorkOK(work) /\ OfTale(work)
    /\ FilmAsPlayed

-----------------------------------------------------------------------------
(* Numbers *)

(* A set of numbers that is bounded has a greatest one. *)
LEMMA GreatestOf ==
    ASSUME NEW n \in Int, NEW I, I \subseteq Int, I # {}, \A i \in I : i <= n
    PROVE  Max(I) \in I /\ \A i \in I : i <= Max(I)
<1> DEFINE below == {n - i : i \in I}
<1>1. below \subseteq Nat /\ below # {}
  <2>1. \A i \in I : n - i \in Nat
    OBVIOUS
  <2>2. PICK i \in I : TRUE
    OBVIOUS
  <2>3. n - i \in below
    OBVIOUS
  <2> QED  BY <2>1, <2>3
<1>2. PICK m \in below : \A k \in below : m <= k
  <2> HIDE DEF below
  <2> QED  BY <1>1, LeastOf
<1>3. PICK j \in I : m = n - j
  BY <1>2
<1>4. \A i \in I : j >= i
  <2> SUFFICES ASSUME NEW i \in I PROVE j >= i
    OBVIOUS
  <2>1. n - i \in below
    OBVIOUS
  <2>2. n - j <= n - i /\ i \in Int /\ j \in Int
    BY <1>2, <1>3, <2>1
  <2> QED  BY <2>2
<1>5. Max(I) \in I /\ \A i \in I : Max(I) >= i
  BY <1>3, <1>4 DEF Max
<1> QED  BY <1>5

LEMMA LeastIs ==
    ASSUME NEW I, I \subseteq Nat, I # {}
    PROVE  Min(I) \in I /\ \A i \in I : Min(I) <= i
<1>1. \E n \in I : \A m \in I : n <= m
  BY LeastOf
<1> QED  BY <1>1 DEF Min

LEMMA MinOfTwo ==
    ASSUME NEW i \in Int, NEW j \in Int
    PROVE  Min({i, j}) = IF i <= j THEN i ELSE j
BY DEF Min

LEMMA MaxOfTwo ==
    ASSUME NEW i \in Int, NEW j \in Int
    PROVE  Max({i, j}) = IF i <= j THEN j ELSE i
BY DEF Max

(* What never falls from one place to the next never falls. *)
LEMMA NeverFalls ==
    ASSUME NEW n \in Nat, NEW f, \A k \in 1..n : f[k] \in Int,
           \A k \in 2..n : f[k - 1] <= f[k],
           NEW i \in 1..n, NEW j \in i..n
    PROVE  f[i] <= f[j]
<1> DEFINE lower == {k \in i..n : ~(f[i] <= f[k])}
<1> SUFFICES ASSUME ~(f[i] <= f[j]) PROVE FALSE
  OBVIOUS
<1>1. lower \subseteq Nat /\ lower # {}
  OBVIOUS
<1>2. PICK k \in lower : \A m \in lower : k <= m
  <2> HIDE DEF lower
  <2> QED  BY <1>1, LeastOf
<1>3. k \in i..n /\ ~(f[i] <= f[k]) /\ k \in Int /\ i \in Int /\ n \in Int
  BY <1>2
<1>4. k # i /\ k - 1 \in i..n /\ k \in 2..n /\ k - 1 \in 1..n /\ k \in 1..n
  BY <1>3
<1>5. k - 1 \notin lower
  BY <1>2, <1>3
<1>6. f[i] <= f[k - 1]
  BY <1>4, <1>5
<1>7. f[k - 1] <= f[k]
  BY <1>4
<1>8. f[i] \in Int /\ f[k - 1] \in Int /\ f[k] \in Int
  BY <1>4
<1> QED  BY <1>3, <1>6, <1>7, <1>8

(* What is left of a division *)
LEMMA Division ==
    ASSUME NEW g \in Nat \ {0}, NEW x \in Nat
    PROVE  x \div g \in Nat /\ g * (x \div g) <= x /\ x < g * (x \div g) + g
<1>1. g \in Int /\ g > 0 /\ x \in Int /\ x >= 0
  OBVIOUS
<1> QED  BY <1>1, SMT

LEMMA Multiples ==
    ASSUME NEW i \in Int, NEW j \in Int, NEW c \in Nat, i <= j
    PROVE  i * c <= j * c
OBVIOUS

LEMMA Quotients ==
    ASSUME NEW g \in Nat \ {0}, NEW i \in Int, NEW j \in Int, g * i < g * j + g
    PROVE  i <= j
<1> SUFFICES ASSUME j + 1 <= i PROVE FALSE
  OBVIOUS
<1>1. (j + 1) * g <= i * g
  BY Multiples
<1> QED  BY <1>1

(* A share of a length: none of it, all of it, and more of more. *)
LEMMA MoreIsMore ==
    ASSUME NEW g \in Nat \ {0}, NEW x \in Nat, NEW y \in Nat, x <= y
    PROVE  x \div g <= y \div g
<1> DEFINE i == x \div g
           j == y \div g
<1>1. i \in Nat /\ g * i <= x
  BY Division
<1>2. j \in Nat /\ y < g * j + g
  BY Division
<1> HIDE DEF i, j
<1>3. g * i \in Int /\ g * j \in Int
  BY <1>1, <1>2
<1>4. g * i < g * j + g
  BY <1>1, <1>2, <1>3
<1>5. i <= j
  BY <1>1, <1>2, <1>4, Quotients
<1> QED  BY <1>5 DEF i, j

LEMMA Exactly ==
    ASSUME NEW g \in Nat \ {0}, NEW n \in Nat
    PROVE  (g * n) \div g = n
<1> DEFINE i == (g * n) \div g
<1>1. g * n \in Nat
  OBVIOUS
<1>2. i \in Nat /\ g * i <= g * n /\ g * n < g * i + g
  BY <1>1, Division
<1> HIDE DEF i
<1>3. n <= i
  BY <1>2, Quotients
<1>4. g * i < g * n + g
  <2>1. g * i \in Int /\ g * n \in Int
    BY <1>2
  <2> QED  BY <1>2, <2>1
<1>5. i <= n
  BY <1>2, <1>4, Quotients
<1> QED  BY <1>2, <1>3, <1>5 DEF i

(* A share of a beat is no more than the beat, and larger the further it is. *)
LEMMA ShareOf ==
    ASSUME NEW g \in Nat \ {0}, NEW len \in Nat, NEW p \in 0..g
    PROVE  /\ (p * len) \div g \in Nat
           /\ (p * len) \div g <= len
           /\ p = 0 => (p * len) \div g = 0
           /\ p = g => (p * len) \div g = len
<1>1. p \in Nat /\ p <= g /\ p * len \in Nat /\ g * len \in Nat
  OBVIOUS
<1>2. (p * len) \div g \in Nat
  BY <1>1, Division
<1>3. (g * len) \div g = len
  BY Exactly
<1>4. p * len <= g * len
  BY <1>1, Multiples
<1>5. (p * len) \div g <= (g * len) \div g
  BY <1>1, <1>4, MoreIsMore
<1>6. ASSUME p = 0 PROVE (p * len) \div g = 0
  <2>1. p * len = 0 /\ g * 0 = 0
    BY <1>6
  <2>2. (g * 0) \div g = 0
    BY Exactly
  <2> QED  BY <2>1, <2>2
<1>7. ASSUME p = g PROVE (p * len) \div g = len
  BY <1>3, <1>7
<1> QED  BY <1>2, <1>3, <1>5, <1>6, <1>7

-----------------------------------------------------------------------------
(* Where beats begin *)

(* Each beat begins where the one before it ends. *)
LEMMA BeatStarts ==
    ASSUME NEW l \in Seq(Nat \ {0})
    PROVE  /\ BeatStart(l, 1) = 0
           /\ \A k \in 1..Len(l) + 1 : BeatStart(l, k) \in Nat
           /\ \A k \in 1..Len(l) : BeatStart(l, k + 1) = BeatStart(l, k) + l[k]
<1>1. BeatStart(l, 1) = 0
  <2>1. 1..1 - 1 = {}
    OBVIOUS
  <2> QED  BY <2>1, TotalOfNone DEF BeatStart
<1>2. ASSUME NEW k \in 1..Len(l) + 1 PROVE BeatStart(l, k) \in Nat
  <2>1. k - 1 \in Int /\ \A x \in 1..k - 1 : l[x] \in Nat
    OBVIOUS
  <2>2. IsFiniteSet(1..k - 1)
    BY <2>1, FS_Interval
  <2> QED  BY <2>1, <2>2, TotalType DEF BeatStart
<1>3. ASSUME NEW k \in 1..Len(l) PROVE BeatStart(l, k + 1) = BeatStart(l, k) + l[k]
  <2>1. k - 1 \in Int /\ (1..k - 1) \cup {k} = 1..k + 1 - 1 /\ k \notin 1..k - 1
    OBVIOUS
  <2>2. \A x \in (1..k - 1) \cup {k} : l[x] \in Nat
    OBVIOUS
  <2>3. IsFiniteSet(1..k - 1)
    BY <2>1, FS_Interval
  <2>4. Total(l, (1..k - 1) \cup {k}) = Total(l, 1..k - 1) + l[k]
    BY <2>1, <2>2, <2>3, TotalAdd
  <2>5. BeatStart(l, k + 1) = Total(l, (1..k - 1) \cup {k})
    <3>1. (1..k - 1) \cup {k} = 1..(k + 1) - 1
      OBVIOUS
    <3>2. BeatStart(l, k + 1) = Total(l, 1..(k + 1) - 1)
      BY DEF BeatStart
    <3> QED  BY <3>1, <3>2
  <2>6. BeatStart(l, k) = Total(l, 1..k - 1)
    BY DEF BeatStart
  <2> QED  BY <2>4, <2>5, <2>6
<1> QED  BY <1>1, <1>2, <1>3

(* A later beat begins no earlier. *)
LEMMA LaterBeats ==
    ASSUME NEW l \in Seq(Nat \ {0}), NEW i \in 1..Len(l) + 1, NEW j \in i..Len(l) + 1
    PROVE  BeatStart(l, i) <= BeatStart(l, j)
<1>1. j - 1 \in Int /\ 1..i - 1 \subseteq 1..j - 1 /\ \A x \in 1..j - 1 : l[x] \in Nat
  OBVIOUS
<1>2. IsFiniteSet(1..j - 1)
  BY <1>1, FS_Interval
<1> QED  BY <1>1, <1>2, TotalSubset DEF BeatStart

(* Of beats of equal length, k - 1 come before the k-th. *)
LEMMA EqualBeats ==
    ASSUME NEW n \in Nat, NEW g \in Nat \ {0}, NEW k \in 1..n
    PROVE  BeatStart([b \in 1..n |-> g], k) = (k - 1) * g
<1>1. k - 1 \in Nat /\ \A x \in 1..k - 1 : [b \in 1..n |-> g][x] = g
  OBVIOUS
<1>2. IsFiniteSet(1..k - 1) /\ Cardinality(1..k - 1) = k - 1
  BY <1>1, FS_Interval
<1>3. Total([b \in 1..n |-> g], 1..k - 1) = Cardinality(1..k - 1) * g
  BY <1>1, <1>2, TotalOfEqual, Zenon
<1> QED  BY <1>2, <1>3 DEF BeatStart

-----------------------------------------------------------------------------
(* Cuts *)

Place(place, n) == place.beat \in 1..n /\ place.part \in 0..Grain

(* A cut lies within its beat. *)
LEMMA CutWithin ==
    ASSUME NEW l \in Seq(Nat \ {0}), NEW place, Place(place, Len(l))
    PROVE  /\ CutTime(l, place) \in Nat
           /\ BeatStart(l, place.beat) <= CutTime(l, place)
           /\ CutTime(l, place) <= BeatStart(l, place.beat + 1)
           /\ place.part = 0 => CutTime(l, place) = BeatStart(l, place.beat)
           /\ place.part = Grain => CutTime(l, place) = BeatStart(l, place.beat + 1)
<1> DEFINE b == place.beat
           share == (place.part * l[b]) \div Grain
<1>1. b \in 1..Len(l) /\ place.part \in 0..Grain /\ l[b] \in Nat /\ b \in 1..Len(l) + 1
  BY DEF Place
<1>2. /\ share \in Nat /\ share <= l[b]
      /\ place.part = 0 => share = 0
      /\ place.part = Grain => share = l[b]
  BY <1>1, GrainPositive, ShareOf
<1>3. BeatStart(l, b) \in Nat /\ BeatStart(l, b + 1) = BeatStart(l, b) + l[b]
  BY <1>1, BeatStarts
<1>4. CutTime(l, place) = BeatStart(l, b) + share
  BY DEF CutTime
<1> HIDE DEF share, b
<1>5. /\ CutTime(l, place) \in Nat
      /\ BeatStart(l, b) <= CutTime(l, place)
      /\ CutTime(l, place) <= BeatStart(l, b + 1)
  <2>1. l[b] \in Nat
    BY <1>1
  <2> QED  BY <2>1, <1>2, <1>3, <1>4
<1>6. place.part = 0 => CutTime(l, place) = BeatStart(l, b)
  BY <1>2, <1>3, <1>4
<1>7. place.part = Grain => CutTime(l, place) = BeatStart(l, b + 1)
  BY <1>2, <1>3, <1>4
<1> QED  BY <1>5, <1>6, <1>7 DEF b

(* Among beats of equal length a cut is where its beat and part say. *)
LEMMA CutAmongEquals ==
    ASSUME NEW n \in Nat, NEW place, Place(place, n)
    PROVE  CutTime([b \in 1..n |-> Grain], place) = (place.beat - 1) * Grain + place.part
<1>1. place.beat \in 1..n /\ place.part \in Nat
  BY GrainPositive DEF Place
<1>2. BeatStart([b \in 1..n |-> Grain], place.beat) = (place.beat - 1) * Grain
  BY <1>1, GrainPositive, EqualBeats
<1>3. (Grain * place.part) \div Grain = place.part
  BY <1>1, GrainPositive, Exactly
<1>4. place.part * [b \in 1..n |-> Grain][place.beat] = Grain * place.part
  BY <1>1, GrainPositive
<1> QED  BY <1>2, <1>3, <1>4 DEF CutTime

(* Cuts that are in order among beats of equal length are in order whatever
   the beats last. *)
LEMMA OrderOfCuts ==
    ASSUME NEW l \in Seq(Nat \ {0}), NEW p, NEW q, Place(p, Len(l)), Place(q, Len(l)),
           CutTime([b \in 1..Len(l) |-> Grain], p) <= CutTime([b \in 1..Len(l) |-> Grain], q)
    PROVE  CutTime(l, p) <= CutTime(l, q)
<1> DEFINE i == p.beat
           j == q.beat
           s == p.part
           t == q.part
           g == Grain
<1>1. /\ i \in 1..Len(l) /\ j \in 1..Len(l) /\ s \in 0..g /\ t \in 0..g /\ g \in Nat \ {0}
      /\ i \in Int /\ j \in Int /\ s \in Int /\ t \in Int /\ g \in Int /\ Len(l) \in Nat
  BY GrainPositive DEF Place
<1>2. (i - 1) * g + s <= (j - 1) * g + t
  BY <1>1, CutAmongEquals
<1>3. /\ CutTime(l, p) \in Nat /\ CutTime(l, q) \in Nat
      /\ CutTime(l, p) <= BeatStart(l, i + 1)
      /\ BeatStart(l, j) <= CutTime(l, q)
      /\ s = 0 => CutTime(l, p) = BeatStart(l, i)
      /\ t = g => CutTime(l, q) = BeatStart(l, j + 1)
  BY CutWithin
<1>4. CutTime(l, p) = BeatStart(l, i) + (s * l[i]) \div g
      /\ CutTime(l, q) = BeatStart(l, j) + (t * l[j]) \div g
  BY DEF CutTime
<1> HIDE DEF i, j, s, t, g
<1>5. CASE i < j
  <2>1. i + 1 \in 1..Len(l) + 1 /\ j \in i + 1 .. Len(l) + 1 /\ j \in 1..Len(l) + 1
    BY <1>1, <1>5
  <2>2. BeatStart(l, i + 1) <= BeatStart(l, j)
    BY <2>1, LaterBeats
  <2>3. BeatStart(l, i + 1) \in Nat /\ BeatStart(l, j) \in Nat
    BY <2>1, BeatStarts
  <2> QED  BY <1>3, <2>2, <2>3
<1>6. CASE i = j
  <2>1. s <= t
    <3>1. (i - 1) * g = (j - 1) * g /\ (i - 1) * g \in Int
      BY <1>1, <1>6
    <3> QED  BY <1>1, <1>2, <3>1
  <2>2. l[i] \in Nat /\ s * l[i] \in Nat /\ t * l[i] \in Nat
    BY <1>1
  <2>3. s * l[i] <= t * l[i]
    BY <1>1, <2>1, <2>2, Multiples
  <2>4. (s * l[i]) \div g <= (t * l[i]) \div g
    BY <1>1, <2>2, <2>3, MoreIsMore
  <2>5. (s * l[i]) \div g \in Nat /\ (t * l[i]) \div g \in Nat
    BY <1>1, <2>2, Division
  <2>6. BeatStart(l, i) \in Nat
    BY <1>1, BeatStarts
  <2> QED  BY <1>4, <1>6, <2>4, <2>5, <2>6
<1>7. CASE ~(i <= j)
  <2>1. j * g <= (i - 1) * g
    BY <1>1, <1>7, Multiples
  <2>2. (j - 1) * g = j * g - g /\ j * g \in Int /\ (i - 1) * g \in Int
    BY <1>1
  <2>3. s = 0 /\ t = g /\ (i - 1) * g = j * g
    BY <1>1, <1>2, <2>1, <2>2
  <2>4. i - 1 <= j
    <3>1. g * (i - 1) < g * j + g
      BY <1>1, <2>3
    <3> QED  BY <1>1, <3>1, Quotients
  <2>5. i = j + 1
    BY <1>1, <1>7, <2>4
  <2>6. CutTime(l, p) = CutTime(l, q)
    BY <1>3, <2>3, <2>5
  <2> QED  BY <1>3, <2>6
<1> QED  BY <1>1, <1>5, <1>6, <1>7

-----------------------------------------------------------------------------
(* When clips change *)

(* From the first moment of the narration to its last, never back, and no
   clip before its beat. *)
WellTimed(l, times) ==
    /\ \A k \in 1..Len(l) + 1 : times[k] \in Nat
    /\ times[1] = 0
    /\ times[Len(l) + 1] = Duration(l)
    /\ \A k \in 1..Len(l) : times[k] <= times[k + 1] /\ BeatStart(l, k) <= times[k]

Places(places, n) ==
    /\ places \in Seq([beat : Int, part : Int])
    /\ Len(places) = n - 1
    /\ \A k \in 1..n - 1 : Place(places[k], n)

(* The times of a list of cuts: the start, the cuts, and the end. *)
LEMMA CutTimesAt ==
    ASSUME NEW l \in Seq(Nat \ {0}), NEW places, Places(places, Len(l)), places # <<>>
    PROVE  /\ Len(CutTimes(l, places)) = Len(l) + 1
           /\ CutTimes(l, places)[1] = 0
           /\ CutTimes(l, places)[Len(l) + 1] = Duration(l)
           /\ \A k \in 2..Len(l) : CutTimes(l, places)[k] = CutTime(l, places[k - 1])
<1> DEFINE n == Len(l)
           inner == [k \in DOMAIN places |-> CutTime(l, places[k])]
           first == <<0>>
           last == <<Duration(l)>>
<1>1. /\ places \in Seq([beat : Int, part : Int]) /\ n \in Nat /\ Len(places) = n - 1
      /\ DOMAIN places = 1..n - 1 /\ n - 1 \in Nat
  BY DEF Places
<1>2. \A k \in 1..n - 1 : CutTime(l, places[k]) \in Nat
  BY CutWithin DEF Places
<1>3. inner \in Seq(Nat) /\ Len(inner) = n - 1 /\ \A k \in 1..n - 1 : inner[k] = CutTime(l, places[k])
  <2>1. inner = [k \in 1..n - 1 |-> CutTime(l, places[k])]
    BY <1>1
  <2> HIDE DEF inner, n
  <2>2. inner \in [1..n - 1 -> Nat]
    BY <1>2, <2>1
  <2>3. inner \in Seq(Nat) /\ Len(inner) = n - 1
    <3>1. ASSUME NEW m \in Nat, NEW f \in [1..m -> Nat] PROVE f \in Seq(Nat) /\ Len(f) = m
      OBVIOUS
    <3>2. n - 1 \in Nat
      BY <1>1
    <3> QED  BY <2>2, <3>1, <3>2
  <2> QED  BY <2>1, <2>3
<1>4. Duration(l) \in Nat
  BY BeatStarts DEF Duration
<1>5. /\ first \in Seq(Nat) /\ Len(first) = 1 /\ first[1] = 0
      /\ last \in Seq(Nat) /\ Len(last) = 1 /\ last[1] = Duration(l)
  BY <1>4
<1>6. CutTimes(l, places) = first \o inner \o last
  BY DEF CutTimes
<1> HIDE DEF first, inner, last
<1>7. /\ first \o inner \in Seq(Nat) /\ Len(first \o inner) = n
      /\ (first \o inner)[1] = 0
      /\ \A k \in 2..n : (first \o inner)[k] = CutTime(l, places[k - 1])
  <2>1. /\ first \o inner \in Seq(Nat) /\ Len(first \o inner) = Len(first) + Len(inner)
        /\ \A i \in 1..Len(first) + Len(inner) :
               (first \o inner)[i] = IF i <= Len(first) THEN first[i] ELSE inner[i - Len(first)]
    BY <1>3, <1>5, ConcatProperties
  <2>2. /\ first \o inner \in Seq(Nat) /\ Len(first \o inner) = 1 + (n - 1)
        /\ \A i \in 1..1 + (n - 1) :
               (first \o inner)[i] = IF i <= 1 THEN first[i] ELSE inner[i - 1]
    BY <1>3, <1>5, <2>1
  <2>3. n \in Nat /\ n >= 1 /\ 1 \in 1..1 + (n - 1)
    BY <1>1
  <2>4. (first \o inner)[1] = 0
    <3>1. (first \o inner)[1] = first[1]
      BY <2>2, <2>3
    <3> QED  BY <1>5, <3>1
  <2>5. ASSUME NEW k \in 2..n PROVE (first \o inner)[k] = CutTime(l, places[k - 1])
    <3>1. k \in 1..1 + (n - 1) /\ ~(k <= 1) /\ k - 1 \in 1..n - 1
      BY <2>3
    <3> QED  BY <1>3, <2>2, <3>1
  <2> QED  BY <2>2, <2>3, <2>4, <2>5
<1> DEFINE most == first \o inner
<1> HIDE DEF most
<1>8. most = first \o inner
  BY DEF most
<1>9. most \in Seq(Nat) /\ Len(most) = n
  BY <1>7, <1>8
<1>10. /\ Len(most \o last) = Len(most) + Len(last)
      /\ \A i \in 1..Len(most) + Len(last) :
             (most \o last)[i] = IF i <= Len(most) THEN most[i] ELSE last[i - Len(most)]
  <2>1. most \in Seq(Nat) /\ last \in Seq(Nat)
    BY <1>5, <1>9
  <2> QED  BY <2>1, ConcatProperties
<1>11. /\ Len(CutTimes(l, places)) = n + 1
      /\ \A i \in 1..n + 1 :
             CutTimes(l, places)[i] = IF i <= n THEN (first \o inner)[i] ELSE last[i - n]
  BY <1>5, <1>6, <1>8, <1>9, <1>10
<1>12. n \in Nat /\ n >= 1 /\ n + 1 - n = 1
  BY <1>1
<1>13. CutTimes(l, places)[1] = 0
  <2>1. 1 \in 1..n + 1 /\ 1 <= n
    BY <1>12
  <2>2. CutTimes(l, places)[1] = (first \o inner)[1]
    BY <1>11, <2>1
  <2> QED  BY <1>7, <2>2
<1>14. CutTimes(l, places)[n + 1] = Duration(l)
  BY <1>5, <1>11, <1>12
<1>15. ASSUME NEW k \in 2..n PROVE CutTimes(l, places)[k] = CutTime(l, places[k - 1])
  <2>1. k \in 1..n + 1 /\ k <= n
    BY <1>12
  <2>2. CutTimes(l, places)[k] = (first \o inner)[k]
    BY <1>11, <2>1
  <2> QED  BY <1>7, <2>2
<1> QED  BY <1>11, <1>13, <1>14, <1>15

(* Cuts at the beats themselves are well timed. *)
LEMMA ClassicTimes ==
    ASSUME NEW l \in Seq(Nat \ {0})
    PROVE  WellTimed(l, CutTimes(l, <<>>))
<1>1. \A k \in 1..Len(l) + 1 : CutTimes(l, <<>>)[k] = BeatStart(l, k)
  BY DEF CutTimes
<1>2. Len(l) \in Nat /\ 1 \in 1..Len(l) + 1 /\ Len(l) + 1 \in 1..Len(l) + 1
  OBVIOUS
<1>3. \A k \in 1..Len(l) + 1 : CutTimes(l, <<>>)[k] \in Nat
  BY <1>1, BeatStarts
<1>4. CutTimes(l, <<>>)[1] = 0 /\ CutTimes(l, <<>>)[Len(l) + 1] = Duration(l)
  BY <1>1, <1>2, BeatStarts DEF Duration
<1>5. ASSUME NEW k \in 1..Len(l)
      PROVE  /\ CutTimes(l, <<>>)[k] <= CutTimes(l, <<>>)[k + 1]
             /\ BeatStart(l, k) <= CutTimes(l, <<>>)[k]
  <2>1. k \in 1..Len(l) + 1 /\ k + 1 \in 1..Len(l) + 1 /\ k + 1 \in k..Len(l) + 1
    OBVIOUS
  <2>2. BeatStart(l, k) <= BeatStart(l, k + 1) /\ BeatStart(l, k) \in Nat
    BY <2>1, LaterBeats, BeatStarts
  <2> QED  BY <1>1, <2>1, <2>2
<1> QED  BY <1>3, <1>4, <1>5 DEF WellTimed

(* Cuts in order, each no earlier than its clip's beat *)
LEMMA PlacedTimes ==
    ASSUME NEW l \in Seq(Nat \ {0}), NEW places, Places(places, Len(l)), places # <<>>,
           \A k \in 1..Len(l) - 1 : k + 1 <= places[k].beat,
           \A k \in 2..Len(l) - 1 : CutTime(l, places[k - 1]) <= CutTime(l, places[k])
    PROVE  WellTimed(l, CutTimes(l, places))
<1> DEFINE n == Len(l)
           times == CutTimes(l, places)
<1>1. n \in Nat /\ n >= 2
  <2>1. places \in Seq([beat : Int, part : Int]) /\ Len(places) = n - 1
    BY DEF Places
  <2> QED  BY <2>1
<1>2. /\ times[1] = 0 /\ times[n + 1] = Duration(l)
      /\ \A k \in 2..n : times[k] = CutTime(l, places[k - 1])
  BY CutTimesAt
<1>3. /\ BeatStart(l, 1) = 0 /\ Duration(l) = BeatStart(l, n + 1) /\ Duration(l) \in Nat
      /\ \A k \in 1..n + 1 : BeatStart(l, k) \in Nat
  <2>1. BeatStart(l, 1) = 0 /\ \A k \in 1..n + 1 : BeatStart(l, k) \in Nat
    BY BeatStarts
  <2>2. n + 1 \in 1..n + 1
    BY <1>1
  <2>3. Duration(l) = BeatStart(l, n + 1)
    BY DEF Duration
  <2> HIDE DEF n
  <2> QED  BY <2>1, <2>2, <2>3
<1>4. ASSUME NEW k \in 1..n - 1
      PROVE  /\ CutTime(l, places[k]) \in Nat
             /\ BeatStart(l, k + 1) <= CutTime(l, places[k])
             /\ CutTime(l, places[k]) <= Duration(l)
  <2>1. Place(places[k], n)
    BY DEF Places
  <2>2. places[k].beat \in 1..n /\ k + 1 <= places[k].beat
    BY <2>1 DEF Place
  <2>3. Place(places[k], n) /\ places[k].beat \in k + 1 .. n /\ places[k].beat \in 1..n
    BY <1>1, <2>1, <2>2
  <2>4. /\ CutTime(l, places[k]) \in Nat
        /\ BeatStart(l, places[k].beat) <= CutTime(l, places[k])
        /\ CutTime(l, places[k]) <= BeatStart(l, places[k].beat + 1)
    BY <2>3, CutWithin
  <2> DEFINE b == places[k].beat
  <2>5. b \in k + 1 .. n /\ k + 1 \in 1..n + 1 /\ b \in k + 1 .. n + 1 /\ b + 1 \in 1..n + 1
        /\ n + 1 \in b + 1 .. n + 1 /\ b \in 1..n + 1 /\ b \in Int
    <3>1. b \in k + 1 .. n /\ n \in Int /\ k \in Int
      BY <1>1, <2>3
    <3> HIDE DEF b
    <3> QED  BY <1>1, <3>1
  <2> HIDE DEF b
  <2>6. BeatStart(l, k + 1) <= BeatStart(l, b)
    BY <2>5, LaterBeats
  <2>7. BeatStart(l, b + 1) <= BeatStart(l, n + 1)
    BY <2>5, LaterBeats
  <2>8. /\ BeatStart(l, k + 1) \in Nat /\ BeatStart(l, b) \in Nat
        /\ BeatStart(l, b + 1) \in Nat
    BY <1>3, <2>5
  <2> QED  BY <1>3, <2>4, <2>6, <2>7, <2>8 DEF b
<1> HIDE DEF times
<1>5. ASSUME NEW k \in 1..n + 1 PROVE times[k] \in Nat
  <2>1. k = 1 \/ k = n + 1 \/ (k \in 2..n /\ k - 1 \in 1..n - 1)
    BY <1>1
  <2> QED  BY <1>2, <1>3, <1>4, <2>1
<1>6. ASSUME NEW k \in 1..n PROVE times[k] <= times[k + 1] /\ BeatStart(l, k) <= times[k]
  <2>1. times[k] \in Nat /\ times[k + 1] \in Nat
    BY <1>1, <1>5
  <2>2. CASE k = 1
    BY <1>2, <1>3, <2>1, <2>2
  <2>3. CASE k \in 2..n
    <3>1. k - 1 \in 1..n - 1 /\ k - 1 + 1 = k
      BY <1>1, <2>3
    <3>2. BeatStart(l, k) <= times[k]
      BY <1>2, <1>4, <2>3, <3>1
    <3>3. ASSUME k = n PROVE times[k] <= times[k + 1]
      BY <1>2, <1>4, <2>3, <3>1, <3>3
    <3>4. ASSUME k # n PROVE times[k] <= times[k + 1]
      <4>1. k \in 2..n - 1 /\ k + 1 \in 2..n /\ k + 1 - 1 = k
        BY <1>1, <2>3, <3>4
      <4> QED  BY <1>2, <2>3, <4>1
    <3> QED  BY <3>2, <3>3, <3>4
  <2> QED  BY <1>1, <2>2, <2>3
<1>7. times = CutTimes(l, places)
  BY DEF times
<1> QED  BY <1>2, <1>5, <1>6, <1>7 DEF WellTimed

-----------------------------------------------------------------------------
(* The timeline of a story *)

(* What is known of a story, part by part. *)
LEMMA StoryHas ==
    ASSUME NEW s, StoryOK(s)
    PROVE  /\ s.lengths \in Seq(Nat \ {0})
           /\ Len(s.lengths) \in Nat /\ Len(s.lengths) >= 1
           /\ Beats(s) = 1..Len(s.lengths)
           /\ s.taste.part \in 0..Grain
           /\ s.taste.merged \subseteq 1..Len(s.lengths) - 1
           /\ s.taste.start \in [1..Len(s.lengths) -> Nat]
<1>1. s.lengths \in Lineups /\ s.taste \in Tastes(Len(s.lengths))
  BY DEF StoryOK
<1>2. s.lengths \in Seq(Nat \ {0}) /\ s.lengths # <<>>
  BY <1>1, LineupsAreLengths
<1>3. /\ s.taste.part \in 0..Grain
      /\ s.taste.merged \in Mergings(Len(s.lengths))
      /\ s.taste.start \in [1..Len(s.lengths) -> Nat]
  BY <1>1, TastesFit
<1>4. s.taste.merged \subseteq 1..Len(s.lengths) - 1
  BY <1>3 DEF Mergings
<1>5. Len(s.lengths) \in Nat /\ Len(s.lengths) >= 1 /\ DOMAIN s.lengths = 1..Len(s.lengths)
  BY <1>2
<1> QED  BY <1>2, <1>3, <1>4, <1>5 DEF Beats

(* What is played is one clip for each beat, automatic cuts as made for the
   script as it is, or the cuts that the editor sent. *)
LEMMA PlanIs ==
    ASSUME NEW s, StoryOK(s)
    PROVE  LET plan == PlaybackPlan(s)
               n == Len(s.lengths)
           IN  \/ plan.source = "classic"
               \/ /\ plan.source = "auto" /\ plan.cuts.places = AutoPlaces(s)
                  /\ n >= 2 /\ AllSelected(s)
                  /\ plan.cuts = AutoCutsFor(s) \/ plan.cuts = s.cuts
               \/ /\ plan.source = "manual" /\ plan.cuts = s.cuts /\ s.cuts.source = "manual"
                  /\ s.cuts.places \in Seq([beat : Int, part : Int])
                  /\ PlayableCuts(s.cuts.places, n) /\ Accepts(s.cuts.places, n)
                  /\ n >= 2 /\ AllSelected(s)
<1> DEFINE plan == PlaybackPlan(s)
           n == Len(s.lengths)
           classic == [source |-> "classic", cuts |-> Uncut]
           auto == [source |-> "auto", cuts |-> AutoCutsFor(s)]
           kept == [source |-> s.cuts.source, cuts |-> s.cuts]
<1>1. n \in Nat
  BY StoryHas
<1>2. CASE ~EnableCuts \/ ~AllSelected(s) \/ n < 2 \/ s.disabled
  <2>1. plan = classic
    BY <1>2 DEF PlaybackPlan
  <2> QED  BY <2>1
<1>3. CASE ~(~EnableCuts \/ ~AllSelected(s) \/ n < 2 \/ s.disabled)
  <2>1. n >= 2 /\ AllSelected(s)
    BY <1>1, <1>3
  <2>2. plan = auto => plan.source = "auto" /\ plan.cuts.places = AutoPlaces(s)
                       /\ plan.cuts = AutoCutsFor(s)
    BY DEF AutoCutsFor
  <2>3. CASE s.cuts = Uncut
    <3>1. plan = auto
      BY <1>3, <2>3 DEF PlaybackPlan
    <3> QED  BY <2>1, <2>2, <3>1
  <2>4. CASE s.cuts # Uncut /\ ~PlayableCuts(s.cuts.places, n)
    <3>1. plan = auto \/ plan = classic
      BY <1>3, <2>4 DEF PlaybackPlan
    <3> QED  BY <2>1, <2>2, <3>1
  <2>5. CASE /\ s.cuts # Uncut /\ PlayableCuts(s.cuts.places, n)
             /\ s.cuts.source = "manual" \/ s.cuts.taste = s.taste
    <3>1. plan = kept
      BY <1>3, <2>5 DEF PlaybackPlan
    <3>2. CASE s.cuts.source = "manual"
      <4>1. /\ s.cuts.places \in Seq([beat : Int, part : Int])
            /\ Accepts(s.cuts.places, n)
        BY <2>5, <3>2 DEF StoryOK, CutsOK
      <4>2. plan.source = "manual" /\ plan.cuts = s.cuts
        BY <3>1, <3>2
      <4> QED  BY <2>1, <2>5, <3>2, <4>1, <4>2
    <3>3. CASE s.cuts.source # "manual"
      <4>1. /\ s.cuts.source = "auto"
            /\ s.cuts.places = [k \in 1..n - 1 |-> [beat |-> k + 1, part |-> s.cuts.taste.part]]
        BY <2>5, <3>3 DEF StoryOK, CutsOK
      <4>2. s.cuts.places = AutoPlaces(s)
        BY <2>5, <3>3, <4>1 DEF AutoPlaces
      <4>3. plan.source = "auto" /\ plan.cuts = s.cuts
        BY <3>1, <4>1
      <4> QED  BY <2>1, <4>2, <4>3
    <3> QED  BY <3>2, <3>3
  <2>6. CASE /\ s.cuts # Uncut /\ PlayableCuts(s.cuts.places, n)
             /\ ~(s.cuts.source = "manual" \/ s.cuts.taste = s.taste)
    <3>1. plan = auto
      BY <1>3, <2>6 DEF PlaybackPlan
    <3> QED  BY <2>1, <2>2, <3>1
  <2> QED  BY <2>3, <2>4, <2>5, <2>6
<1> QED  BY <1>2, <1>3

(* The cuts made for a script, a share into each beat, are well timed. *)
LEMMA AutoTimes ==
    ASSUME NEW s, StoryOK(s), Len(s.lengths) >= 2
    PROVE  WellTimed(s.lengths, CutTimes(s.lengths, AutoPlaces(s)))
<1> DEFINE l == s.lengths
           n == Len(l)
           places == AutoPlaces(s)
<1>1. l \in Seq(Nat \ {0}) /\ n \in Nat /\ n >= 2 /\ s.taste.part \in 0..Grain
  BY StoryHas
<1>2. /\ places \in Seq([beat : Int, part : Int]) /\ Len(places) = n - 1
      /\ \A k \in 1..n - 1 : places[k].beat = k + 1 /\ places[k].part = s.taste.part
  BY <1>1, GrainPositive DEF AutoPlaces
<1> HIDE DEF places
<1>3. ASSUME NEW k \in 1..n - 1 PROVE Place(places[k], n)
  <2>1. k + 1 \in 1..n
    BY <1>1
  <2> QED  BY <1>1, <1>2, <2>1 DEF Place
<1>4. Places(places, n)
  BY <1>2, <1>3 DEF Places
<1>5. places # <<>>
  BY <1>1, <1>2
<1>6. ASSUME NEW k \in 2..n - 1
      PROVE  CutTime(l, places[k - 1]) <= CutTime(l, places[k])
  <2>1. /\ k - 1 \in 1..n - 1 /\ k \in 1..n - 1 /\ k - 1 + 1 = k
        /\ k \in 1..n + 1 /\ k + 1 \in 1..n + 1
    BY <1>1
  <2>2. /\ CutTime(l, places[k - 1]) \in Nat
        /\ CutTime(l, places[k - 1]) <= BeatStart(l, places[k - 1].beat + 1)
    BY <1>1, <1>3, <2>1, CutWithin
  <2>3. /\ CutTime(l, places[k]) \in Nat
        /\ BeatStart(l, places[k].beat) <= CutTime(l, places[k])
    BY <1>1, <1>3, <2>1, CutWithin
  <2>4. places[k - 1].beat = k /\ places[k].beat = k + 1
    BY <1>2, <2>1
  <2>5. BeatStart(l, k + 1) \in Nat
    BY <1>1, <2>1, BeatStarts
  <2> QED  BY <2>2, <2>3, <2>4, <2>5
<1>7. \A k \in 1..n - 1 : k + 1 <= places[k].beat
  BY <1>1, <1>2
<1>8. WellTimed(l, CutTimes(l, places))
  BY <1>1, <1>4, <1>5, <1>6, <1>7, PlacedTimes
<1> QED  BY <1>8 DEF places

(* So are the cuts accepted from the editor, although they were accepted
   for beats of equal length. *)
LEMMA ManualTimes ==
    ASSUME NEW l \in Seq(Nat \ {0}), Len(l) >= 2, NEW places \in Seq([beat : Int, part : Int]),
           PlayableCuts(places, Len(l)), Accepts(places, Len(l))
    PROVE  WellTimed(l, CutTimes(l, places))
<1> DEFINE n == Len(l)
           equal == [k \in 1..n |-> Grain]
<1>1. n \in Nat /\ n >= 2 /\ Grain \in Nat \ {0}
  BY GrainPositive
<1>2. /\ Len(places) = n - 1 /\ DOMAIN places = 1..n - 1
      /\ \A k \in 1..n - 1 : places[k].beat \in k + 1 .. n /\ places[k].part \in 0..Grain
  <2>1. /\ Len(places) = n - 1
        /\ \A k \in DOMAIN places : places[k].beat \in k + 1 .. n /\ places[k].part \in 0..Grain
    BY DEF PlayableCuts
  <2>2. DOMAIN places = 1..Len(places)
    OBVIOUS
  <2> QED  BY <2>1, <2>2
<1> HIDE DEF equal
<1>3. places # <<>>
  BY <1>1, <1>2
<1>4. Ordered(CutTimes(equal, places))
  BY <1>3 DEF Accepts, equal
<1>5. \A k \in 1..n - 1 : Place(places[k], n) /\ k + 1 <= places[k].beat
  <2> SUFFICES ASSUME NEW k \in 1..n - 1
               PROVE  Place(places[k], n) /\ k + 1 <= places[k].beat
    OBVIOUS
  <2>1. places[k].beat \in k + 1 .. n /\ places[k].part \in 0..Grain
    BY <1>2
  <2>2. places[k].beat \in 1..n /\ k + 1 <= places[k].beat
    <3> DEFINE b == places[k].beat
    <3> HIDE DEF n, b
    <3>1. b \in k + 1 .. n
      BY <2>1 DEF b
    <3>2. b \in 1..n /\ k + 1 <= b
      BY <1>1, <3>1
    <3> QED  BY <3>2 DEF b
  <2> QED  BY <2>1, <2>2 DEF Place
<1>6. Places(places, n)
  BY <1>2, <1>5 DEF Places
<1>7. equal \in Seq(Nat \ {0}) /\ Len(equal) = n
  BY <1>1 DEF equal
<1>8. /\ Len(CutTimes(equal, places)) = n + 1
      /\ \A k \in 2..n : CutTimes(equal, places)[k] = CutTime(equal, places[k - 1])
  BY <1>3, <1>6, <1>7, CutTimesAt
<1>9. ASSUME NEW k \in 2..n - 1
      PROVE  CutTime(l, places[k - 1]) <= CutTime(l, places[k])
  <2>1. /\ k \in 2..n /\ k + 1 \in 2..n /\ k + 1 \in 2..n + 1 /\ k + 1 - 1 = k
        /\ k - 1 \in 1..n - 1 /\ k \in 1..n - 1
    BY <1>1
  <2>2. CutTimes(equal, places)[k] <= CutTimes(equal, places)[k + 1]
    <3> DEFINE times == CutTimes(equal, places)
    <3>1. Len(times) = n + 1 /\ \A j \in 2..Len(times) : times[j - 1] <= times[j]
      BY <1>4, <1>8 DEF Ordered
    <3> HIDE DEF times
    <3>2. \A j \in 2..n + 1 : times[j - 1] <= times[j]
      BY <3>1
    <3>3. times[k + 1 - 1] <= times[k + 1]
      <4>1. k + 1 \in 2..n + 1
        BY <2>1
      <4> HIDE DEF n
      <4> QED  BY <3>2, <4>1
    <3>4. times[k] <= times[k + 1]
      BY <2>1, <3>3
    <3> QED  BY <3>4 DEF times
  <2>3. CutTime(equal, places[k - 1]) <= CutTime(equal, places[k])
    <3>1. /\ CutTimes(equal, places)[k] = CutTime(equal, places[k - 1])
          /\ CutTimes(equal, places)[k + 1] = CutTime(equal, places[k + 1 - 1])
      BY <1>8, <2>1
    <3> QED  BY <2>1, <2>2, <3>1
  <2>4. Place(places[k - 1], n) /\ Place(places[k], n)
    BY <1>5, <2>1
  <2> QED  BY <2>3, <2>4, OrderOfCuts DEF equal
<1> QED  BY <1>3, <1>5, <1>6, <1>9, PlacedTimes

(* Segments of a timeline: in place, each of a clip, from a moment of it *)
Good(s, segments) ==
    LET n == Len(s.lengths)
    IN  /\ segments \in Seq({segments[k] : k \in 1..n}) /\ Len(segments) = n
        /\ \A k \in 1..n :
               /\ segments[k].start \in Nat /\ segments[k].end \in Nat
               /\ segments[k].from \in Nat
               /\ AllSelected(s) => segments[k].clip \in Footage
               /\ segments[k].start <= segments[k].end
               /\ BeatStart(s.lengths, k) <= segments[k].start
        /\ segments[1].start = 0
        /\ segments[n].end = Duration(s.lengths)
        /\ \A k \in 1..n - 1 : segments[k].end = segments[k + 1].start

LEMMA SequenceOfItself ==
    ASSUME NEW n \in Nat, NEW f, f = [k \in 1..n |-> f[k]]
    PROVE  f \in Seq({f[k] : k \in 1..n}) /\ Len(f) = n
<1>1. f \in [1..n -> {f[k] : k \in 1..n}]
  OBVIOUS
<1> DEFINE S == {f[k] : k \in 1..n}
<1> HIDE DEF S
<1>2. f \in [1..n -> S]
  BY <1>1 DEF S
<1>3. f \in Seq(S) /\ Len(f) = n
  BY <1>2
<1> QED  BY <1>3 DEF S

(* What starts and ends at well-chosen times is in place. *)
Pieces(s, times, segments) ==
    /\ segments = [k \in 1..Len(s.lengths) |-> segments[k]]
    /\ \A k \in 1..Len(s.lengths) :
           /\ segments[k].start = times[k] /\ segments[k].end = times[k + 1]
           /\ segments[k].from \in Nat
           /\ AllSelected(s) => segments[k].clip \in Footage

(* Pieces at well timed cuts tile the narration. *)
LEMMA InPlace ==
    ASSUME NEW s, StoryOK(s), NEW times, WellTimed(s.lengths, times),
           NEW segments, Pieces(s, times, segments)
    PROVE  Good(s, segments)
<1> DEFINE n == Len(s.lengths)
<1>1. /\ segments = [k \in 1..n |-> segments[k]]
      /\ \A k \in 1..n :
             /\ segments[k].start = times[k] /\ segments[k].end = times[k + 1]
             /\ segments[k].from \in Nat
             /\ AllSelected(s) => segments[k].clip \in Footage
  BY DEF Pieces
<1>2. n \in Nat /\ n >= 1 /\ 1 \in 1..n /\ n \in 1..n
  BY StoryHas
<1>3. segments \in Seq({segments[k] : k \in 1..n}) /\ Len(segments) = n
  BY <1>1, <1>2, SequenceOfItself
<1>4. ASSUME NEW k \in 1..n
      PROVE  /\ segments[k].start \in Nat /\ segments[k].end \in Nat
             /\ segments[k].start <= segments[k].end
             /\ BeatStart(s.lengths, k) <= segments[k].start
  <2>1. k \in 1..n + 1 /\ k + 1 \in 1..n + 1
    BY <1>2
  <2> QED  BY <1>1, <2>1 DEF WellTimed
<1>5. segments[1].start = 0
  BY <1>1, <1>2 DEF WellTimed
<1>6. segments[n].end = Duration(s.lengths)
  BY <1>1, <1>2 DEF WellTimed
<1>7. \A k \in 1..n - 1 : segments[k].end = segments[k + 1].start
  <2> SUFFICES ASSUME NEW k \in 1..n - 1 PROVE segments[k].end = segments[k + 1].start
    OBVIOUS
  <2>1. k \in 1..n /\ k + 1 \in 1..n
    BY <1>2
  <2> QED  BY <1>1, <2>1
<1> QED  BY <1>1, <1>3, <1>4, <1>5, <1>6, <1>7 DEF Good

(* The segments of cuts from the editor are such pieces. *)
LEMMA ManualAre ==
    ASSUME NEW s, StoryOK(s), NEW places, WellTimed(s.lengths, CutTimes(s.lengths, places))
    PROVE  Good(s, ManualSegments(s, places))
<1> DEFINE n == Len(s.lengths)
           times == CutTimes(s.lengths, places)
           segments == ManualSegments(s, places)
<1>1. n \in Nat /\ n >= 1 /\ Beats(s) = 1..n /\ s.lengths \in Seq(Nat \ {0})
  BY StoryHas
<1>2. segments = [k \in 1..n |->
            [owner |-> k, clip |-> s.shots[k], start |-> times[k], end |-> times[k + 1],
             from |-> Max({0, times[k] - BeatStart(s.lengths, k)})]]
  BY <1>1 DEF ManualSegments
<1>3. ASSUME NEW k \in 1..n
      PROVE  /\ segments[k].start = times[k] /\ segments[k].end = times[k + 1]
             /\ segments[k].clip = s.shots[k]
             /\ segments[k].from = Max({0, times[k] - BeatStart(s.lengths, k)})
  BY <1>2
<1>4. segments = [k \in 1..n |-> segments[k]]
  BY <1>2
<1> HIDE DEF segments
<1>5. ASSUME NEW k \in 1..n
      PROVE  /\ segments[k].from \in Nat
             /\ AllSelected(s) => segments[k].clip \in Footage
  <2>1. k \in 1..n + 1
    BY <1>1
  <2>2. times[k] \in Nat /\ BeatStart(s.lengths, k) \in Nat
    BY <1>1, <2>1, BeatStarts DEF WellTimed
  <2>3. Max({0, times[k] - BeatStart(s.lengths, k)}) \in Nat
    <3> HIDE DEF times
    <3> DEFINE d == times[k] - BeatStart(s.lengths, k)
    <3>1. d \in Int
      BY <2>2
    <3> HIDE DEF d
    <3>2. Max({0, d}) \in Nat
      BY <3>1, MaxOfTwo
    <3> QED  BY <3>2 DEF d
  <2>4. AllSelected(s) => s.shots[k] \in Footage
    BY <1>1 DEF StoryOK, AllSelected, Beats
  <2> QED  BY <1>3, <2>3, <2>4
<1>6. Good(s, segments)
  <2>1. \A k \in 1..n :
            /\ segments[k].start = times[k] /\ segments[k].end = times[k + 1]
            /\ segments[k].from \in Nat
            /\ AllSelected(s) => segments[k].clip \in Footage
    BY <1>3, <1>5
  <2> HIDE DEF times
  <2>2. WellTimed(s.lengths, times)
    BY DEF times
  <2>3. Pieces(s, times, segments)
    BY <1>4, <2>1 DEF Pieces
  <2> QED  BY <2>2, <2>3, InPlace
<1> QED  BY <1>6 DEF segments

-----------------------------------------------------------------------------
(* Automatic segments *)

Own(s, k) == OwnerOf(s.taste.merged, k)
ClipOf(s, k) == s.shots[Own(s, k)]
SameClip(s, k) == {j \in 1..Len(s.lengths) : ClipOf(s, j) = ClipOf(s, k)}
PieceDur(s, times) == [k \in 1..Len(s.lengths) |-> times[k + 1] - times[k]]

(* The beat whose clip covers a beat is one of the story. *)
LEMMA OwnerIs ==
    ASSUME NEW s, StoryOK(s), NEW k \in 1..Len(s.lengths)
    PROVE  Own(s, k) \in 1..k /\ Own(s, k) \in 1..Len(s.lengths)
<1> DEFINE I == {j \in 1..k : j - 1 \notin s.taste.merged}
<1>1. s.taste.merged \subseteq 1..Len(s.lengths) - 1 /\ Len(s.lengths) \in Nat
  BY StoryHas
<1>2. k \in Int /\ I \subseteq Int /\ \A i \in I : i <= k
  OBVIOUS
<1>3. 1 \in I
  BY <1>1
<1> HIDE DEF I
<1>4. Max(I) \in I
  BY <1>2, <1>3, GreatestOf
<1> QED  BY <1>1, <1>4 DEF I, Own, OwnerOf

(* Each piece and where its clip goes on: after what of the clip was shown
   since it first came. *)
AutoPieces(s, places) ==
    LET times == CutTimes(s.lengths, places)
        segments == AutoSegments(s, places)
    IN  /\ segments = [k \in 1..Len(s.lengths) |-> segments[k]]
        /\ \A k \in 1..Len(s.lengths) :
               /\ segments[k].start = times[k] /\ segments[k].end = times[k + 1]
               /\ segments[k].clip = ClipOf(s, k)
               /\ segments[k].from =
                      s.taste.start[Own(s, Min(SameClip(s, k)))]
                          + Total(PieceDur(s, times), {j \in SameClip(s, k) : j < k})

(* The segments made automatically, without folding over a sequence. *)
LEMMA AutoIs == ASSUME NEW s, StoryOK(s), NEW places PROVE AutoPieces(s, places)
<1> DEFINE n == Len(s.lengths)
           times == CutTimes(s.lengths, places)
           segments == AutoSegments(s, places)
           owner == [k \in 1..n |-> OwnerOf(s.taste.merged, k)]
           clip == [k \in 1..n |-> s.shots[owner[k]]]
           pieceDur == [k \in 1..n |-> times[k + 1] - times[k]]
           Same(k) == {j \in 1..n : clip[j] = clip[k]}
<1>1. Beats(s) = 1..n
  BY StoryHas
<1>2. segments = [k \in 1..n |->
            [owner |-> owner[k], clip |-> clip[k], start |-> times[k], end |-> times[k + 1],
             from |-> s.taste.start[owner[Min(Same(k))]]
                          + Total(pieceDur, {j \in Same(k) : j < k})]]
  BY <1>1 DEF AutoSegments
<1>3. ASSUME NEW k \in 1..n
      PROVE  /\ segments[k].start = times[k] /\ segments[k].end = times[k + 1]
             /\ segments[k].clip = clip[k]
             /\ segments[k].from = s.taste.start[owner[Min(Same(k))]]
                          + Total(pieceDur, {j \in Same(k) : j < k})
  <2> DEFINE from(j) == s.taste.start[owner[Min(Same(j))]]
                          + Total(pieceDur, {i \in Same(j) : i < j})
  <2>1. segments = [j \in 1..n |->
            [owner |-> owner[j], clip |-> clip[j], start |-> times[j], end |-> times[j + 1],
             from |-> from(j)]]
    BY <1>2
  <2> HIDE DEF segments, owner, clip, pieceDur, Same, times, from
  <2>2. /\ segments[k].start = times[k] /\ segments[k].end = times[k + 1]
        /\ segments[k].clip = clip[k] /\ segments[k].from = from(k)
    BY <2>1
  <2> QED  BY <2>2 DEF from
<1>4. segments = [k \in 1..n |-> segments[k]]
  <2> HIDE DEF segments, owner, clip, pieceDur, Same, times
  <2> QED  BY <1>2
<1>5. \A k \in 1..n : clip[k] = ClipOf(s, k) /\ owner[k] = Own(s, k)
  BY DEF ClipOf, Own
<1>6. \A k \in 1..n : Same(k) = SameClip(s, k)
  <2> HIDE DEF clip
  <2> QED  BY <1>5 DEF SameClip
<1>7. pieceDur = PieceDur(s, times)
  BY DEF PieceDur
<1>8. ASSUME NEW k \in 1..n PROVE Min(SameClip(s, k)) \in 1..n
  <2>1. k \in SameClip(s, k) /\ SameClip(s, k) \subseteq 1..n
    BY DEF SameClip
  <2>2. SameClip(s, k) \subseteq Nat /\ SameClip(s, k) # {}
    BY <2>1
  <2>3. Min(SameClip(s, k)) \in SameClip(s, k)
    BY <2>2, LeastIs
  <2> QED  BY <2>1, <2>3
<1> HIDE DEF segments, owner, clip, pieceDur, Same, times
<1>9. ASSUME NEW k \in 1..n
      PROVE  segments[k].from = s.taste.start[Own(s, Min(SameClip(s, k)))]
                                 + Total(PieceDur(s, times), {j \in SameClip(s, k) : j < k})
  BY <1>3, <1>5, <1>6, <1>7, <1>8
<1>10. \A k \in 1..n : segments[k].clip = ClipOf(s, k)
  BY <1>3, <1>5
<1> QED  BY <1>3, <1>4, <1>9, <1>10 DEF segments, times, AutoPieces

(* They tile the narration too. *)
LEMMA AutoAre ==
    ASSUME NEW s, StoryOK(s), NEW places, WellTimed(s.lengths, CutTimes(s.lengths, places))
    PROVE  /\ Good(s, AutoSegments(s, places))
           /\ \A k \in 1..Len(s.lengths) :
                  Total(PieceDur(s, CutTimes(s.lengths, places)), {j \in SameClip(s, k) : j < k})
                      \in Nat
<1> DEFINE n == Len(s.lengths)
           times == CutTimes(s.lengths, places)
           segments == AutoSegments(s, places)
<1>1. n \in Nat /\ n >= 1 /\ Beats(s) = 1..n /\ s.taste.start \in [1..n -> Nat]
  BY StoryHas
<1>2. /\ segments = [k \in 1..n |-> segments[k]]
      /\ \A k \in 1..n :
             /\ segments[k].start = times[k] /\ segments[k].end = times[k + 1]
             /\ segments[k].clip = ClipOf(s, k)
             /\ segments[k].from =
                    s.taste.start[Own(s, Min(SameClip(s, k)))]
                        + Total(PieceDur(s, times), {j \in SameClip(s, k) : j < k})
  <2>1. AutoPieces(s, places)
    BY AutoIs
  <2> QED  BY <2>1 DEF AutoPieces
<1>3. \A k \in 1..n : PieceDur(s, times)[k] \in Nat
  <2> SUFFICES ASSUME NEW k \in 1..n PROVE PieceDur(s, times)[k] \in Nat
    OBVIOUS
  <2>1. k \in 1..n + 1 /\ k + 1 \in 1..n + 1
    BY <1>1
  <2>2. times[k] \in Nat /\ times[k + 1] \in Nat /\ times[k] <= times[k + 1]
    BY <2>1 DEF WellTimed
  <2> QED  BY <2>2 DEF PieceDur
<1>4. ASSUME NEW k \in 1..n
      PROVE  Total(PieceDur(s, times), {j \in SameClip(s, k) : j < k}) \in Nat
  <2>1. {j \in SameClip(s, k) : j < k} \subseteq 1..n
    BY DEF SameClip
  <2>2. IsFiniteSet(1..n)
    <3> HIDE DEF n
    <3>1. 1 \in Int /\ n \in Int
      BY <1>1
    <3> QED  BY <3>1, FS_Interval
  <2> QED  BY <1>3, <2>1, <2>2, TotalSubset
<1>5. ASSUME NEW k \in 1..n PROVE s.taste.start[Own(s, Min(SameClip(s, k)))] \in Nat
  <2>1. k \in SameClip(s, k) /\ SameClip(s, k) \subseteq 1..n
    BY DEF SameClip
  <2>2. SameClip(s, k) \subseteq Nat /\ SameClip(s, k) # {}
    BY <2>1
  <2>3. Min(SameClip(s, k)) \in 1..n
    BY <2>1, <2>2, LeastIs
  <2> QED  BY <1>1, <2>3, OwnerIs
<1>6. ASSUME NEW k \in 1..n PROVE AllSelected(s) => ClipOf(s, k) \in Footage
  <2>1. Own(s, k) \in 1..n
    BY OwnerIs
  <2> QED  BY <1>1, <2>1 DEF StoryOK, AllSelected, Beats, ClipOf
<1> HIDE DEF segments, times
<1>7. ASSUME NEW k \in 1..n PROVE segments[k].from \in Nat
  <2>1. segments[k].from =
            s.taste.start[Own(s, Min(SameClip(s, k)))]
                + Total(PieceDur(s, times), {j \in SameClip(s, k) : j < k})
    BY <1>2
  <2> QED  BY <1>4, <1>5, <2>1
<1>8. \A k \in 1..n : AllSelected(s) => segments[k].clip \in Footage
  BY <1>2, <1>6
<1>9. WellTimed(s.lengths, times)
  BY DEF times
<1>10. \A k \in 1..n :
          /\ segments[k].start = times[k] /\ segments[k].end = times[k + 1]
          /\ segments[k].from \in Nat
          /\ AllSelected(s) => segments[k].clip \in Footage
  BY <1>2, <1>7, <1>8
<1>11. segments = [k \in 1..n |-> segments[k]]
  BY <1>2
<1>12. Good(s, segments)
  <2>1. Pieces(s, times, segments)
    BY <1>10, <1>11 DEF Pieces
  <2> QED  BY <1>9, <2>1, InPlace
<1> QED  BY <1>4, <1>12 DEF segments, times

(* Every timeline is good. *)
LEMMA TimelineIs ==
    ASSUME NEW s, StoryOK(s)
    PROVE  /\ Good(s, Timeline(s))
           /\ PlaybackPlan(s).source = "auto" =>
                  /\ WellTimed(s.lengths, CutTimes(s.lengths, AutoPlaces(s)))
                  /\ Timeline(s) = AutoSegments(s, AutoPlaces(s))
           /\ PlaybackPlan(s).source = "classic" => Timeline(s) = ManualSegments(s, <<>>)
           /\ PlaybackPlan(s).source # "classic" => AllSelected(s)
           /\ PlaybackPlan(s).source \in {"classic", "auto", "manual"}
<1> DEFINE plan == PlaybackPlan(s)
<1>1. s.lengths \in Seq(Nat \ {0}) /\ Len(s.lengths) \in Nat
  BY StoryHas
<1>2. CASE plan.source = "classic"
  <2>1. Timeline(s) = ManualSegments(s, <<>>)
    BY <1>2 DEF Timeline
  <2> QED  BY <1>1, <1>2, <2>1, ClassicTimes, ManualAre
<1>3. CASE plan.source = "auto"
  <2>1. Len(s.lengths) >= 2 /\ AllSelected(s) /\ plan.cuts.places = AutoPlaces(s)
    BY <1>3, PlanIs
  <2>2. Timeline(s) = AutoSegments(s, AutoPlaces(s))
    BY <1>3, <2>1 DEF Timeline
  <2> QED  BY <1>3, <2>1, <2>2, AutoTimes, AutoAre
<1>4. CASE plan.source = "manual"
  <2>1. /\ Len(s.lengths) >= 2 /\ AllSelected(s) /\ plan.cuts = s.cuts
        /\ s.cuts.places \in Seq([beat : Int, part : Int])
        /\ PlayableCuts(s.cuts.places, Len(s.lengths))
        /\ Accepts(s.cuts.places, Len(s.lengths))
    BY <1>4, PlanIs
  <2>2. Timeline(s) = ManualSegments(s, s.cuts.places)
    BY <1>4, <2>1 DEF Timeline
  <2> QED  BY <1>1, <1>4, <2>1, <2>2, ManualTimes, ManualAre
<1> QED  BY <1>2, <1>3, <1>4, PlanIs

(* A good timeline tiles the narration. *)
LEMMA Tiling == ASSUME NEW s, StoryOK(s) PROVE TimelineTiles(s)
<1> DEFINE segments == Timeline(s)
           n == Len(s.lengths)
<1>1. Good(s, segments)
  BY TimelineIs
<1>2. n \in Nat
  BY StoryHas
<1> HIDE DEF segments
<1>3. /\ Len(segments) = n
      /\ segments[1].start = 0
      /\ segments[n].end = Duration(s.lengths)
  BY <1>1 DEF Good
<1>4. ASSUME NEW k \in 1..n
      PROVE  /\ segments[k].start <= segments[k].end
             /\ segments[k].start >= BeatStart(s.lengths, k)
             /\ k < n => segments[k].end = segments[k + 1].start
  <2>1. k < n => k \in 1..n - 1
    BY <1>2
  <2>2. segments[k].start <= segments[k].end /\ BeatStart(s.lengths, k) <= segments[k].start
    BY <1>1 DEF Good
  <2>3. BeatStart(s.lengths, k) \in Nat /\ segments[k].start \in Nat
    <3>1. s.lengths \in Seq(Nat \ {0}) /\ k \in 1..n + 1
      BY <1>2, StoryHas
    <3> QED  BY <1>1, <3>1, BeatStarts DEF Good
  <2>4. k < n => segments[k].end = segments[k + 1].start
    BY <1>1, <2>1 DEF Good
  <2> QED  BY <2>2, <2>3, <2>4
<1> QED  BY <1>3, <1>4 DEF TimelineTiles, segments

(* When a clip comes again on an automatic timeline, what of it has been shown
   since it first came counts each earlier piece in full. *)
LEMMA OnceEach == ASSUME NEW s, StoryOK(s) PROVE NoFootageTwice(s)
<1> SUFFICES ASSUME PlaybackPlan(s).source = "auto",
                    NEW p \in DOMAIN Timeline(s), NEW q \in DOMAIN Timeline(s),
                    p < q, Timeline(s)[p].clip = Timeline(s)[q].clip
             PROVE  Timeline(s)[p].from + SegmentLength(Timeline(s)[p]) <= Timeline(s)[q].from
  BY DEF NoFootageTwice
<1> DEFINE n == Len(s.lengths)
           places == AutoPlaces(s)
           times == CutTimes(s.lengths, places)
           dur == PieceDur(s, times)
           segments == Timeline(s)
           first == s.taste.start[Own(s, Min(SameClip(s, q)))]
           earlier(k) == {j \in SameClip(s, k) : j < k}
<1>1. Timeline(s) = AutoSegments(s, places) /\ WellTimed(s.lengths, times)
  BY TimelineIs
<1> HIDE DEF places
<1>2. n \in Nat /\ s.taste.start \in [1..n -> Nat]
  BY StoryHas
<1>3. DOMAIN segments = 1..n
  <2> DEFINE auto == AutoSegments(s, places)
  <2>1. auto = [k \in 1..n |-> auto[k]]
    BY AutoIs DEF AutoPieces
  <2>2. segments = auto
    BY <1>1
  <2> HIDE DEF segments, auto
  <2> QED  BY <2>1, <2>2
<1>4. p \in 1..n /\ q \in 1..n /\ p \in Int /\ q \in Int
  BY <1>2, <1>3
<1>5. \A k \in 1..n :
          /\ segments[k].start = times[k] /\ segments[k].end = times[k + 1]
          /\ segments[k].clip = ClipOf(s, k)
          /\ segments[k].from = s.taste.start[Own(s, Min(SameClip(s, k)))]
                                    + Total(dur, earlier(k))
  <2> DEFINE auto == AutoSegments(s, places)
  <2>1. /\ auto = [k \in 1..n |-> auto[k]]
        /\ \A k \in 1..n :
               /\ auto[k].start = times[k] /\ auto[k].end = times[k + 1]
               /\ auto[k].clip = ClipOf(s, k)
               /\ auto[k].from = s.taste.start[Own(s, Min(SameClip(s, k)))]
                                     + Total(dur, {j \in SameClip(s, k) : j < k})
    <3>1. AutoPieces(s, places)
      BY AutoIs
    <3> QED  BY <3>1 DEF AutoPieces
  <2>2. segments = auto
    BY <1>1
  <2> HIDE DEF segments, auto, times, dur
  <2> QED  BY <2>1, <2>2
<1>6. ClipOf(s, p) = ClipOf(s, q)
  BY <1>4, <1>5
<1>7. SameClip(s, p) = SameClip(s, q)
  BY <1>6 DEF SameClip
<1>8. \A k \in 1..n : dur[k] \in Nat /\ dur[k] = times[k + 1] - times[k]
  <2> SUFFICES ASSUME NEW k \in 1..n PROVE dur[k] \in Nat /\ dur[k] = times[k + 1] - times[k]
    OBVIOUS
  <2>1. k \in 1..n + 1 /\ k + 1 \in 1..n + 1
    BY <1>2
  <2>2. times[k] \in Nat /\ times[k + 1] \in Nat /\ times[k] <= times[k + 1]
    BY <1>1, <2>1 DEF WellTimed
  <2> QED  BY <2>2 DEF PieceDur
<1>9. SegmentLength(segments[p]) = dur[p]
  BY <1>4, <1>5, <1>8 DEF SegmentLength
<1>10. Total(dur, earlier(q)) \in Nat /\ Total(dur, earlier(p)) + dur[p] <= Total(dur, earlier(q))
  <2>1. IsFiniteSet(1..n)
    BY <1>2, FS_Interval
  <2>2. earlier(q) \subseteq 1..n /\ earlier(p) \subseteq 1..n
    BY DEF SameClip
  <2>3. IsFiniteSet(earlier(q)) /\ IsFiniteSet(earlier(p))
    BY <2>1, <2>2, FS_Subset
  <2>4. p \in SameClip(s, q) /\ p \notin earlier(p)
    BY <1>4, <1>6 DEF SameClip
  <2>5. earlier(p) \cup {p} \subseteq earlier(q)
    <3>1. \A j \in SameClip(s, q) : j \in Int
      BY DEF SameClip
    <3>2. ASSUME NEW j \in earlier(p) PROVE j \in earlier(q)
      <4>1. j \in SameClip(s, q) /\ j < p /\ j \in Int
        BY <1>7, <3>1
      <4>2. j < q
        BY <1>4, <4>1
      <4> QED  BY <4>1, <4>2
    <3>3. p \in earlier(q)
      BY <2>4
    <3> QED  BY <3>2, <3>3
  <2>6. \A x \in earlier(q) : dur[x] \in Nat
    BY <1>8, <2>2
  <2>7. \A x \in earlier(p) \cup {p} : dur[x] \in Nat
    BY <1>8, <1>4, <2>2
  <2> HIDE DEF earlier, dur
  <2>8. Total(dur, earlier(p) \cup {p}) = Total(dur, earlier(p)) + dur[p]
    BY <2>3, <2>4, <2>7, TotalAdd
  <2>9. Total(dur, earlier(p) \cup {p}) <= Total(dur, earlier(q))
    BY <2>3, <2>5, <2>6, TotalSubset
  <2>10. Total(dur, earlier(q)) \in Nat
    BY <2>3, <2>6, TotalType
  <2> QED  BY <2>8, <2>9, <2>10
<1>11. first \in Nat
  <2>1. q \in SameClip(s, q) /\ SameClip(s, q) \subseteq 1..n
    BY <1>4 DEF SameClip
  <2>2. SameClip(s, q) \subseteq Nat /\ SameClip(s, q) # {}
    BY <2>1
  <2>3. Min(SameClip(s, q)) \in 1..n
    BY <2>1, <2>2, LeastIs
  <2> QED  BY <1>2, <2>3, OwnerIs
<1>12. segments[p].from = first + Total(dur, earlier(p))
       /\ segments[q].from = first + Total(dur, earlier(q))
  <2>1. segments[p].from = s.taste.start[Own(s, Min(SameClip(s, p)))] + Total(dur, earlier(p))
    BY <1>4, <1>5
  <2>2. segments[q].from = first + Total(dur, earlier(q))
    BY <1>4, <1>5
  <2> QED  BY <1>7, <2>1, <2>2
<1>13. Total(dur, earlier(p)) \in Nat /\ dur[p] \in Nat
  <2>1. earlier(p) \subseteq 1..n /\ IsFiniteSet(1..n)
    BY <1>2, FS_Interval DEF SameClip
  <2> HIDE DEF earlier, dur
  <2> QED  BY <1>4, <1>8, <2>1, TotalSubset
<1> HIDE DEF segments, first, dur, earlier
<1>14. segments[p].from + SegmentLength(segments[p]) <= segments[q].from
  BY <1>9, <1>10, <1>11, <1>12, <1>13
<1> QED  BY <1>14 DEF segments

-----------------------------------------------------------------------------
(* What is played at a moment *)

(* A segment of a timeline, and what is before it. *)
LEMMA SegmentIs ==
    ASSUME NEW s, StoryOK(s), NEW k \in 1..Len(s.lengths), NEW t \in Int,
           Timeline(s)[k].start <= t, t < Timeline(s)[k].end
    PROVE  SegmentAtTime(Timeline(s), t) = k
<1> DEFINE n == Len(s.lengths)
           segments == Timeline(s)
           start == [i \in 1..n |-> segments[i].start]
<1>1. Good(s, segments)
  BY TimelineIs
<1>2. n \in Nat
  BY StoryHas
<1> HIDE DEF segments
<1>3. DOMAIN segments = 1..n
  BY <1>1, <1>2 DEF Good
<1>4. \A i \in 1..n :
          /\ segments[i].start \in Nat /\ segments[i].end \in Nat
          /\ segments[i].start <= segments[i].end
  BY <1>1 DEF Good
<1>5. \A i \in 2..n : segments[i - 1].end = segments[i].start
  <2> SUFFICES ASSUME NEW i \in 2..n PROVE segments[i - 1].end = segments[i].start
    OBVIOUS
  <2>1. i - 1 \in 1..n - 1 /\ i - 1 + 1 = i
    BY <1>2
  <2>2. segments[i - 1].end = segments[i - 1 + 1].start
    BY <1>1, <2>1 DEF Good
  <2> QED  BY <2>1, <2>2
<1>6. ASSUME NEW i \in 2..n PROVE start[i - 1] <= start[i]
  <2>1. i - 1 \in 1..n /\ i \in 1..n
    BY <1>2
  <2> QED  BY <1>4, <1>5, <2>1
<1>7. ASSUME NEW i \in 1..n, NEW j \in 1..n, i < j
      PROVE  segments[i].end <= segments[j].start
  <2>1. i + 1 \in 1..n /\ j \in i + 1 .. n /\ i + 1 \in 2..n /\ i + 1 - 1 = i
    BY <1>2, <1>7
  <2>2. \A m \in 1..n : start[m] \in Int
    BY <1>4
  <2>3. start[i + 1] <= start[j]
    <3> HIDE DEF start
    <3> QED  BY <1>2, <1>6, <2>1, <2>2, NeverFalls
  <2>4. segments[i].end = start[i + 1]
    <3>1. segments[i + 1 - 1].end = segments[i + 1].start
      BY <1>5, <2>1
    <3> QED  BY <2>1, <3>1
  <2> QED  BY <2>3, <2>4
<1>8. segments[k].start <= t /\ t < segments[k].end
  BY DEF segments
<1>9. ASSUME NEW j \in 1..n, segments[j].start <= t /\ t < segments[j].end
      PROVE  j = k
  <2>1. j \in Int /\ k \in Int
    BY <1>2
  <2>2. /\ segments[j].start \in Nat /\ segments[j].end \in Nat
        /\ segments[k].start \in Nat /\ segments[k].end \in Nat
    BY <1>4
  <2>3. ~(j < k)
    BY <1>7, <1>8, <1>9, <2>2
  <2>4. ~(k < j)
    BY <1>7, <1>8, <1>9, <2>2
  <2> QED  BY <2>1, <2>3, <2>4
<1>10. SegmentAtTime(segments, t) = k
  BY <1>3, <1>8, <1>9, Zenon DEF SegmentAtTime
<1> QED  BY <1>10 DEF segments

(* What is played at a time is in the segment of that time. *)
LEMMA PlayedIs ==
    ASSUME NEW s, StoryOK(s), NEW k \in 1..Len(s.lengths), NEW t \in Int,
           Timeline(s)[k].start <= t, t < Timeline(s)[k].end
    PROVE  PlayedIn(s, t) =
               [clip |-> Timeline(s)[k].clip,
                at |-> Min({Timeline(s)[k].from + t - Timeline(s)[k].start,
                            ClipLength[Timeline(s)[k].clip] - 1})]
<1>1. SegmentAtTime(Timeline(s), t) = k
  BY SegmentIs
<1> QED  BY <1>1 DEF PlayedIn, ShownAt

(* A trimmed clip runs from its moment on and stays at its end. *)
LEMMA TrimIs ==
    ASSUME NEW clip \in Footage, NEW from \in Nat, NEW length \in Nat
    PROVE  /\ Trim(clip, from, length) \in Seq(Moments)
           /\ Len(Trim(clip, from, length)) = length
           /\ \A i \in 1..length :
                  Trim(clip, from, length)[i] =
                      [clip |-> clip, at |-> Min({from + i - 1, ClipLength[clip] - 1})]
<1> DEFINE last == ClipLength[clip] - 1
           first == IF from >= ClipLength[clip] THEN ClipLength[clip] - 1 ELSE from
           trim == Trim(clip, from, length)
<1>1. ClipLength[clip] \in Nat \ {0} /\ last \in Nat /\ ClipLength[clip] = last + 1
  BY ClipsLast
<1>2. trim = [i \in 1..length |-> [clip |-> clip, at |-> Min({first + i, ClipLength[clip]}) - 1]]
  BY DEF Trim
<1>3. ASSUME NEW i \in 1..length
      PROVE  /\ Min({first + i, ClipLength[clip]}) - 1 = Min({from + i - 1, last})
             /\ Min({from + i - 1, last}) \in Nat
  <2>1. first \in Nat /\ first + i \in Int /\ from + i - 1 \in Int /\ i >= 1 /\ i \in Int
    BY <1>1
  <2>2. Min({first + i, ClipLength[clip]}) = IF first + i <= ClipLength[clip] THEN first + i ELSE ClipLength[clip]
    BY <1>1, <2>1, MinOfTwo
  <2>3. Min({from + i - 1, last}) = IF from + i - 1 <= last THEN from + i - 1 ELSE last
    BY <1>1, <2>1, MinOfTwo
  <2>4. CASE from >= ClipLength[clip]
    <3>1. first = last
      BY <2>4
    <3> HIDE DEF first, last
    <3> QED  BY <1>1, <2>1, <2>2, <2>3, <2>4, <3>1
  <2>5. CASE ~(from >= ClipLength[clip])
    <3>1. first = from
      BY <2>5
    <3> HIDE DEF first, last
    <3> QED  BY <1>1, <2>1, <2>2, <2>3, <2>5, <3>1
  <2> QED  BY <2>4, <2>5
<1>4. \A i \in 1..length : trim[i] = [clip |-> clip, at |-> Min({from + i - 1, last})]
  BY <1>2, <1>3
<1>5. \A i \in 1..length : trim[i] \in Moments
  <2> SUFFICES ASSUME NEW i \in 1..length PROVE trim[i] \in Moments
    OBVIOUS
  <2> DEFINE at == Min({from + i - 1, last})
  <2>1. at \in Nat /\ trim[i] = [clip |-> clip, at |-> at]
    BY <1>3, <1>4
  <2> HIDE DEF at, trim
  <2> QED  BY <2>1 DEF Moments
<1>6. trim = [i \in 1..length |-> trim[i]]
  <2> HIDE DEF trim
  <2> QED  BY <1>2
<1> HIDE DEF trim
<1>7. trim \in [1..length -> Moments]
  BY <1>5, <1>6
<1>8. trim \in Seq(Moments) /\ Len(trim) = length
  BY <1>7
<1> QED  BY <1>4, <1>8 DEF trim

-----------------------------------------------------------------------------
(* The reel *)

(* The render of a timeline begins with nothing behind it. *)
LEMMA ReelBegins == ASSUME NEW s, StoryOK(s) PROVE ReelOK(s, Timeline(s), <<>>)
<1> DEFINE n == Len(s.lengths)
           segments == Timeline(s)
<1>1. /\ segments \in Seq({segments[k] : k \in 1..n}) /\ Len(segments) = n /\ n \in Nat
      /\ Beats(s) = 1..n
  BY TimelineIs, StoryHas DEF Good
<1> HIDE DEF segments
<1>2. n - Len(segments) = 0 /\ DOMAIN segments = 1..n
  BY <1>1
<1>3. \A i \in DOMAIN segments : segments[i] = segments[n - Len(segments) + i]
  BY <1>1, <1>2
<1>4. <<>> \in Seq(Moments) /\ Len(<<>>) = 0 /\ DOMAIN <<>> = {}
  OBVIOUS
<1>5. ReelEnd(s, n - Len(segments)) = 0
  BY <1>2 DEF ReelEnd
<1>6. ReelOK(s, segments, <<>>)
  BY <1>1, <1>2, <1>3, <1>4, <1>5 DEF ReelOK, segments
<1> QED  BY <1>6 DEF segments

(* A segment more *)
LEMMA ReelGrows ==
    ASSUME NEW s, StoryOK(s), AllSelected(s), NEW segments, NEW reel,
           ReelOK(s, segments, reel), segments # <<>>
    PROVE  LET head == Head(segments)
           IN  ReelOK(s, Tail(segments),
                      reel \o Trim(head.clip, head.from, SegmentLength(head)))
<1> DEFINE n == Len(s.lengths)
           all == Timeline(s)
           S == {all[k] : k \in 1..n}
           m == n - Len(segments)
           k == m + 1
           head == Head(segments)
           length == SegmentLength(head)
           trim == Trim(head.clip, head.from, length)
           longer == reel \o trim
<1>1. n \in Nat /\ Beats(s) = 1..n
  BY StoryHas
<1>2. Good(s, all)
  BY TimelineIs
<1> HIDE DEF all
<1>3. /\ segments \in Seq(S) /\ m >= 0
      /\ \A i \in DOMAIN segments : segments[i] = all[m + i]
      /\ reel \in Seq(Moments) /\ Len(reel) = ReelEnd(s, m)
      /\ \A i \in DOMAIN reel : reel[i] = PlayedIn(s, i - 1)
  BY <1>1 DEF ReelOK, all
<1>4. Len(segments) \in Nat \ {0} /\ DOMAIN segments = 1..Len(segments) /\ m \in Nat /\ k \in 1..n
      /\ Len(segments) <= n
  <2>1. Len(segments) \in Nat \ {0} /\ DOMAIN segments = 1..Len(segments)
    BY <1>3, EmptySeq
  <2> QED  BY <1>1, <1>3, <2>1
<1>5. head = all[k]
  <2>1. head = segments[1] /\ 1 \in DOMAIN segments
    BY <1>3, <1>4
  <2> QED  BY <1>3, <2>1
<1>6. /\ all[k].start \in Nat /\ all[k].end \in Nat /\ all[k].from \in Nat
      /\ all[k].clip \in Footage /\ all[k].start <= all[k].end
  BY <1>2, <1>4 DEF Good
<1>7. length = all[k].end - all[k].start /\ length \in Nat
  BY <1>5, <1>6 DEF SegmentLength
<1>8. /\ trim \in Seq(Moments) /\ Len(trim) = length
      /\ \A i \in 1..length :
             trim[i] = [clip |-> all[k].clip,
                        at |-> Min({all[k].from + i - 1, ClipLength[all[k].clip] - 1})]
  <2>1. trim = Trim(all[k].clip, all[k].from, length)
    BY <1>5
  <2> DEFINE clip == all[k].clip
             from == all[k].from
  <2>2. clip \in Footage /\ from \in Nat /\ length \in Nat /\ trim = Trim(clip, from, length)
    BY <1>6, <1>7, <2>1
  <2> HIDE DEF length, trim, clip, from
  <2>3. /\ trim \in Seq(Moments) /\ Len(trim) = length
        /\ \A i \in 1..length :
               trim[i] = [clip |-> clip, at |-> Min({from + i - 1, ClipLength[clip] - 1})]
    BY <2>2, TrimIs
  <2> QED  BY <2>3 DEF clip, from
<1>9. Len(reel) = all[k].start
  <2>1. CASE m = 0
    <3>1. k = 1 /\ ReelEnd(s, m) = 0
      BY <2>1 DEF ReelEnd
    <3> QED  BY <1>2, <1>3, <3>1 DEF Good
  <2>2. CASE m # 0
    <3>1. m \in 1..n - 1 /\ ReelEnd(s, m) = all[m].end
      BY <1>1, <1>4, <2>2 DEF ReelEnd, all
    <3>2. all[m].end = all[m + 1].start
      BY <1>2, <3>1 DEF Good
    <3> QED  BY <1>3, <3>1, <3>2
  <2> QED  BY <2>1, <2>2
<1> HIDE DEF trim, length, head
<1>10. /\ longer \in Seq(Moments) /\ Len(longer) = Len(reel) + Len(trim)
       /\ \A i \in 1..Len(reel) + Len(trim) :
              longer[i] = IF i <= Len(reel) THEN reel[i] ELSE trim[i - Len(reel)]
  <2>1. reel \in Seq(Moments) /\ trim \in Seq(Moments)
    BY <1>3, <1>8
  <2> QED  BY <2>1, ConcatProperties
<1> HIDE DEF longer
<1>11. Len(longer) = all[k].end /\ DOMAIN longer = 1..all[k].end
  <2> HIDE DEF k
  <2>1. Len(longer) = all[k].end
    BY <1>6, <1>7, <1>8, <1>9, <1>10
  <2>2. longer \in Seq(Moments)
    BY <1>10
  <2>3. DOMAIN longer = 1..Len(longer)
    BY <2>2
  <2> QED  BY <2>1, <2>3
<1>12. ASSUME NEW i \in DOMAIN longer PROVE longer[i] = PlayedIn(s, i - 1)
  <2>1. i \in 1..Len(reel) + Len(trim) /\ i \in Int /\ i >= 1 /\ i <= all[k].end
        /\ Len(reel) \in Nat
    BY <1>3, <1>6, <1>10, <1>11
  <2>2. CASE i <= Len(reel)
    <3>1. i \in DOMAIN reel
      BY <1>3, <2>1, <2>2
    <3> QED  BY <1>3, <1>10, <2>1, <2>2, <3>1
  <2>3. CASE ~(i <= Len(reel))
    <3> DEFINE j == i - Len(reel)
               t == i - 1
    <3>1. j \in 1..length /\ t \in Int /\ all[k].start <= t /\ t < all[k].end
          /\ all[k].from + j - 1 = all[k].from + t - all[k].start
      <4> DEFINE start == all[k].start
                 end == all[k].end
                 from == all[k].from
      <4>1. /\ start \in Nat /\ end \in Nat /\ from \in Nat /\ length = end - start
            /\ Len(reel) = start /\ i \in Int /\ i <= end
        BY <1>6, <1>7, <1>9, <2>1
      <4> HIDE DEF start, end, from
      <4>2. j \in 1..length /\ t \in Int /\ start <= t /\ t < end
            /\ from + j - 1 = from + t - start
        BY <2>3, <4>1
      <4> QED  BY <4>2 DEF start, end, from
    <3>2. longer[i] = trim[j]
      BY <1>10, <2>1, <2>3
    <3>3. trim[j] = [clip |-> all[k].clip,
                     at |-> Min({all[k].from + j - 1, ClipLength[all[k].clip] - 1})]
      BY <1>8, <3>1
    <3> HIDE DEF k, j, t
    <3>4. PlayedIn(s, t) =
              [clip |-> all[k].clip,
               at |-> Min({all[k].from + t - all[k].start, ClipLength[all[k].clip] - 1})]
      BY <1>4, <3>1, PlayedIs DEF all
    <3>5. longer[i] = PlayedIn(s, t)
      BY <3>1, <3>2, <3>3, <3>4
    <3> QED  BY <3>5 DEF t
  <2> QED  BY <2>2, <2>3
<1>13. /\ Tail(segments) \in Seq(S) /\ Len(Tail(segments)) = Len(segments) - 1
       /\ \A i \in 1..Len(Tail(segments)) : Tail(segments)[i] = segments[i + 1]
  <2> HIDE DEF S
  <2> QED  BY <1>3, HeadTailProperties
<1>14. n - Len(Tail(segments)) = k
  BY <1>1, <1>4, <1>13
<1>15. ASSUME NEW i \in DOMAIN Tail(segments) PROVE Tail(segments)[i] = all[k + i]
  <2>1. i \in 1..Len(Tail(segments)) /\ i + 1 \in DOMAIN segments /\ m + (i + 1) = k + i
    <3>1. i \in 1..Len(Tail(segments))
      BY <1>13
    <3>2. i + 1 \in DOMAIN segments
      BY <1>4, <1>13, <3>1
    <3>3. m + (i + 1) = m + 1 + i
      <4> HIDE DEF m
      <4> QED  BY <1>4, <3>1
    <3> QED  BY <3>1, <3>2, <3>3
  <2>2. Tail(segments)[i] = segments[i + 1]
    BY <1>13, <2>1
  <2>3. segments[i + 1] = all[m + (i + 1)]
    BY <1>3, <2>1
  <2> QED  BY <2>1, <2>2, <2>3
<1>16. ReelEnd(s, k) = all[k].end
  <2> HIDE DEF k, m
  <2>1. k # 0
    BY <1>4
  <2> QED  BY <2>1 DEF ReelEnd, all
<1>17. longer = reel \o Trim(head.clip, head.from, SegmentLength(head))
  BY DEF longer, trim, length
<1> HIDE DEF k, m, n
<1>18. k >= 0
  BY <1>4 DEF k, m
<1>19. ReelOK(s, Tail(segments), longer)
  BY <1>1, <1>10, <1>11, <1>12, <1>13, <1>14, <1>15, <1>16, <1>18 DEF ReelOK, all, n
<1> QED  BY <1>17, <1>19 DEF head

(* A reel that is done lasts as long as the narration. *)
LEMMA ReelEnds ==
    ASSUME NEW s, StoryOK(s), NEW reel, ReelOK(s, <<>>, reel)
    PROVE  /\ reel \in Seq(Moments) /\ Len(reel) = Duration(s.lengths)
           /\ \A i \in 1..Len(reel) : reel[i] = PlayedIn(s, i - 1)
<1>1. Len(s.lengths) \in Nat /\ Len(s.lengths) >= 1 /\ Len(<<>>) = 0
  BY StoryHas
<1>2. ReelEnd(s, Len(s.lengths)) = Duration(s.lengths)
  <2>1. Good(s, Timeline(s))
    BY TimelineIs
  <2>2. Timeline(s)[Len(s.lengths)].end = Duration(s.lengths)
    BY <2>1 DEF Good
  <2> QED  BY <1>1, <2>2 DEF ReelEnd
<1>3. Len(s.lengths) - Len(<<>>) = Len(s.lengths)
  BY <1>1
<1>4. /\ reel \in Seq(Moments) /\ Len(reel) = ReelEnd(s, Len(s.lengths) - Len(<<>>))
      /\ \A i \in DOMAIN reel : reel[i] = PlayedIn(s, i - 1)
  BY DEF ReelOK
<1> QED  BY <1>2, <1>3, <1>4

-----------------------------------------------------------------------------
(* The films of a video *)

(* The film of a beat that comes after all others is added at the end. *)
LEMMA FilmsGrow ==
    ASSUME NEW s, StoryOK(s), NEW S, S \subseteq Nat, NEW b \in Nat,
           \A d \in S : d < b, NEW v, FilmsOK(v, s, S),
           NEW film \in BeatFilms, film.beat = b, BeatAsPlayed(v, s, Timeline(s), film),
           NEW w, w.kind = v.kind, w.films = Append(v.films, film)
    PROVE  FilmsOK(w, s, S \cup {b})
<1> DEFINE films == v.films
           more == w.films
           n == Len(films)
           old == [k \in DOMAIN films |-> films[k].beat]
           new == [k \in DOMAIN more |-> more[k].beat]
<1>1. films \in Seq(BeatFilms) /\ n \in Nat /\ DOMAIN films = 1..n
  BY DEF FilmsOK
<1>2. /\ more \in Seq(BeatFilms) /\ Len(more) = n + 1 /\ DOMAIN more = 1..n + 1
      /\ more[n + 1] = film
      /\ \A k \in 1..n : more[k] = films[k]
  <2> HIDE DEF films
  <2>1. more = Append(films, film)
    BY DEF films
  <2> HIDE DEF more
  <2> QED  BY <1>1, <2>1
<1>3. /\ {old[k] : k \in 1..n} = S
      /\ \A i, j \in 1..n : i < j => old[i] < old[j]
  BY <1>1 DEF FilmsOK, Ascending
<1>4. \A k \in DOMAIN films : BeatAsPlayed(v, s, Timeline(s), films[k])
  BY DEF FilmsOK
<1> HIDE DEF films, more
<1>5. /\ DOMAIN new = 1..n + 1 /\ new[n + 1] = b
      /\ \A k \in 1..n : new[k] = old[k]
  BY <1>1, <1>2
<1>6. \A k \in 1..n : old[k] \in S
  BY <1>3
<1> HIDE DEF old, new
<1>7. {new[k] : k \in DOMAIN new} = S \cup {b}
  <2>1. ASSUME NEW k \in DOMAIN new PROVE new[k] \in S \cup {b}
    <3>1. k \in 1..n \/ k = n + 1
      BY <1>1, <1>5
    <3> QED  BY <1>5, <1>6, <3>1
  <2>2. ASSUME NEW d \in S PROVE d \in {new[k] : k \in DOMAIN new}
    <3>1. PICK k \in 1..n : old[k] = d
      BY <1>3
    <3>2. k \in DOMAIN new
      BY <1>1, <1>5
    <3> QED  BY <1>5, <3>1, <3>2
  <2>3. b \in {new[k] : k \in DOMAIN new}
    <3>1. n + 1 \in DOMAIN new
      BY <1>1, <1>5
    <3> QED  BY <1>5, <3>1
  <2> QED  BY <2>1, <2>2, <2>3
<1>8. ASSUME NEW i \in DOMAIN new, NEW j \in DOMAIN new, i < j PROVE new[i] < new[j]
  <2>1. i \in 1..n /\ (j \in 1..n \/ j = n + 1)
    BY <1>1, <1>5, <1>8
  <2> QED  BY <1>3, <1>5, <1>6, <1>8, <2>1
<1>9. ASSUME NEW k \in DOMAIN more PROVE BeatAsPlayed(w, s, Timeline(s), more[k])
  <2>1. BeatAsPlayed(v, s, Timeline(s), more[k])
    <3>1. k \in 1..n \/ k = n + 1
      BY <1>1, <1>2
    <3> QED  BY <1>1, <1>2, <1>4, <3>1
  <2> QED  BY <2>1 DEF BeatAsPlayed, MadeByBeats
<1>10. Ascending(new, S \cup {b})
  BY <1>7, <1>8 DEF Ascending
<1> QED  BY <1>2, <1>9, <1>10 DEF FilmsOK, more, new

(* The steps of a render *)

(* The beats of a film are some of the beats of its story. *)
LEMMA FilmedIs ==
    ASSUME NEW s, StoryOK(s)
    PROVE  /\ Filmed(s) \subseteq Beats(s) /\ Filmed(s) \subseteq Nat
           /\ \A b \in Filmed(s) : s.shots[b] \in Footage
           /\ AllSelected(s) <=> Filmed(s) = Beats(s)
<1>1. Beats(s) = 1..Len(s.lengths) /\ Len(s.lengths) \in Nat
  BY StoryHas
<1>2. \A b \in Beats(s) : s.shots[b] \in Footage \cup {NoClip}
  BY DEF StoryOK, Beats
<1>3. AllSelected(s) <=> Filmed(s) = Beats(s)
  BY DEF Filmed, AllSelected
<1> QED  BY <1>1, <1>2, <1>3 DEF Filmed

(* The beat that comes next *)
LEMMA NextBeat ==
    ASSUME NEW s, StoryOK(s), NEW beats, NEW failed, BeatsOK(s, beats, failed), beats # <<>>
    PROVE  LET b == Head(beats)
           IN  /\ b \in Filmed(s) /\ b \notin Past(s, beats)
               /\ \A d \in Past(s, beats) : d < b
               /\ Past(s, Tail(beats)) = Past(s, beats) \cup {b}
               /\ BeatsOK(s, Tail(beats), failed)
               /\ BeatsOK(s, Tail(beats), failed \cup {b})
<1> DEFINE b == Head(beats)
           rest == Tail(beats)
           F == Filmed(s)
<1>1. /\ beats \in Seq(F) /\ failed \subseteq Past(s, beats)
      /\ \A i, j \in DOMAIN beats : i < j => beats[i] < beats[j]
      /\ \A d \in Past(s, beats) : \A i \in DOMAIN beats : d < beats[i]
  BY DEF BeatsOK
<1>2. F \subseteq Nat
  BY FilmedIs
<1> HIDE DEF F
<1>3. Len(beats) \in Nat \ {0} /\ DOMAIN beats = 1..Len(beats) /\ b = beats[1]
  BY <1>1, EmptySeq
<1>4. /\ rest \in Seq(F) /\ Len(rest) = Len(beats) - 1
      /\ \A i \in 1..Len(rest) : rest[i] = beats[i + 1]
  BY <1>1, HeadTailProperties
<1> HIDE DEF rest, b
<1>5. DOMAIN rest = 1..Len(beats) - 1
  BY <1>4
<1>6. \A i \in DOMAIN rest : rest[i] = beats[i + 1] /\ i + 1 \in DOMAIN beats /\ i + 1 > 1
  BY <1>3, <1>4, <1>5
<1>7. 1 \in DOMAIN beats
  BY <1>3
<1>8. b \in F
  BY <1>1, <1>3, <1>7
<1>9. \A i \in DOMAIN rest : b < rest[i] /\ rest[i] \in F
  BY <1>1, <1>3, <1>6, <1>7
<1>10. {beats[i] : i \in DOMAIN beats} = {rest[i] : i \in DOMAIN rest} \cup {b}
  <2>1. ASSUME NEW i \in DOMAIN beats PROVE beats[i] \in {rest[j] : j \in DOMAIN rest} \cup {b}
    <3>1. CASE i = 1
      BY <1>3, <3>1
    <3>2. CASE i # 1
      <4>1. i - 1 \in DOMAIN rest /\ i - 1 + 1 = i
        BY <1>3, <1>5, <3>2
      <4>2. rest[i - 1] = beats[i - 1 + 1]
        BY <1>6, <4>1
      <4> QED  BY <4>1, <4>2
    <3> QED  BY <3>1, <3>2
  <2>2. ASSUME NEW j \in DOMAIN rest PROVE rest[j] \in {beats[i] : i \in DOMAIN beats}
    BY <1>6
  <2>3. b \in {beats[i] : i \in DOMAIN beats}
    BY <1>3, <1>7
  <2> QED  BY <2>1, <2>2, <2>3
<1>11. b \notin {rest[i] : i \in DOMAIN rest}
  BY <1>2, <1>8, <1>9
<1>12. Past(s, rest) = Past(s, beats) \cup {b} /\ b \notin Past(s, beats)
  BY <1>8, <1>10, <1>11 DEF Past, F
<1>13. \A d \in Past(s, beats) : d < b
  BY <1>1, <1>3, <1>7
<1>14. \A i, j \in DOMAIN rest : i < j => rest[i] < rest[j]
  <2> SUFFICES ASSUME NEW i \in DOMAIN rest, NEW j \in DOMAIN rest, i < j
               PROVE  rest[i] < rest[j]
    OBVIOUS
  <2>1. i + 1 < j + 1
    BY <1>3, <1>5
  <2> QED  BY <1>1, <1>6, <2>1
<1>15. \A d \in Past(s, rest) : \A i \in DOMAIN rest : d < rest[i]
  <2> SUFFICES ASSUME NEW d \in Past(s, rest), NEW i \in DOMAIN rest
               PROVE  d < rest[i]
    OBVIOUS
  <2>1. CASE d = b
    BY <1>9, <2>1
  <2>2. CASE d # b
    BY <1>1, <1>6, <1>12, <2>2
  <2> QED  BY <2>1, <2>2
<1>16. BeatsOK(s, rest, failed) /\ BeatsOK(s, rest, failed \cup {b})
  BY <1>1, <1>4, <1>12, <1>14, <1>15 DEF BeatsOK, F
<1> QED  BY <1>8, <1>12, <1>13, <1>16 DEF rest, b, F

(* A render at its beginning *)
LEMMA Begun ==
    ASSUME NEW s, StoryOK(s), NEW kind \in Kinds, NEW reeled \in BOOLEAN,
           reeled <=> PlaybackPlan(s).source # "classic",
           NEW beats \in Seq(Filmed(s)), Ascending(beats, Filmed(s)),
           kind = "preview" => AllSelected(s)
    PROVE  WorkOK(Rendering(kind, s, reeled, beats))
<1> DEFINE w == Rendering(kind, s, reeled, beats)
<1>1. /\ DOMAIN w = {"kind", "story", "reeled", "segments", "reel", "beats", "films",
                     "failed", "learnt"}
      /\ w.kind = kind /\ w.story = s /\ w.reeled = reeled /\ w.reel = <<>>
      /\ w.segments = IF reeled THEN Timeline(s) ELSE <<>>
      /\ w.beats = beats /\ w.films = <<>> /\ w.failed = {}
  BY DEF Rendering
<1>2. Past(s, beats) = {} /\ Past(s, beats) \ {} = {}
  BY DEF Past, Ascending
<1>3. BeatsOK(s, beats, {})
  BY <1>2 DEF BeatsOK, Ascending
<1>4. FilmsOK(w, s, {})
  <2>1. w.films = <<>> /\ DOMAIN <<>> = {} /\ <<>> \in Seq(BeatFilms)
    BY <1>1
  <2> HIDE DEF w
  <2> QED  BY <2>1 DEF FilmsOK, Ascending
<1>5. reeled => ReelOK(s, Timeline(s), <<>>)
  BY ReelBegins
<1>6. /\ BeatsOK(w.story, w.beats, w.failed)
      /\ FilmsOK(w, w.story, Past(w.story, w.beats) \ w.failed)
  <2> HIDE DEF w
  <2> QED  BY <1>1, <1>2, <1>3, <1>4
<1>7. IF w.reeled THEN ReelOK(w.story, w.segments, w.reel) ELSE w.segments = <<>>
  BY <1>1, <1>5
<1> HIDE DEF w
<1>8. WorkOK(w)
  BY <1>1, <1>6, <1>7 DEF WorkOK
<1> QED  BY <1>8 DEF w

(* The story of a film is as it was loaded, with the cuts that are planned. *)
LEMMA Planned ==
    ASSUME NEW s, StoryOK(s)
    PROVE  LET t == WithPlannedCuts(s)
           IN  /\ StoryOK(t) /\ Filmed(t) = Filmed(s) /\ t.lengths = s.lengths
               /\ PlaybackPlan(t).source # "classic" <=> PlaybackPlan(s).source # "classic"
<1> DEFINE plan == PlaybackPlan(s)
           t == [s EXCEPT !.cuts = plan.cuts]
           n == Len(s.lengths)
<1>1. CASE plan.source # "auto"
  <2>1. WithPlannedCuts(s) = s
    BY <1>1 DEF WithPlannedCuts
  <2> QED  BY <2>1
<1>2. CASE plan.source = "auto"
  <2>1. WithPlannedCuts(s) = t
    BY <1>2 DEF WithPlannedCuts
  <2>2. /\ n >= 2 /\ AllSelected(s) /\ plan.cuts.places = AutoPlaces(s)
        /\ plan.cuts = AutoCutsFor(s) \/ plan.cuts = s.cuts
    BY <1>2, PlanIs
  <2>3. /\ DOMAIN t = DOMAIN s /\ t.cuts = plan.cuts /\ t.lengths = s.lengths
        /\ t.shots = s.shots /\ t.taste = s.taste /\ t.disabled = s.disabled
    BY DEF StoryOK
  <2>4. CutsOK(plan.cuts, n)
    <3>1. CASE plan.cuts = s.cuts
      BY <3>1 DEF StoryOK
    <3>2. CASE plan.cuts = AutoCutsFor(s)
      <4>1. /\ plan.cuts.source = "auto" /\ plan.cuts.taste = s.taste
            /\ plan.cuts.places = AutoPlaces(s)
        BY <3>2 DEF AutoCutsFor
      <4> HIDE DEF plan
      <4> QED  BY <4>1 DEF CutsOK, AutoPlaces
    <3> QED  BY <2>2, <3>1, <3>2
  <2>function. t = [field \in DOMAIN t |-> t[field]]
    OBVIOUS
  <2> HIDE DEF t, plan
  <2>5. StoryOK(t)
    BY <2>function, <2>3, <2>4 DEF StoryOK
  <2>6. Beats(t) = Beats(s) /\ Filmed(t) = Filmed(s) /\ AllSelected(t)
    BY <2>2, <2>3 DEF Filmed, Beats, AllSelected
  <2>7. PlaybackPlan(t).source # "classic"
    <3>1. EnableCuts /\ ~s.disabled
      BY <1>2 DEF plan, PlaybackPlan
    <3>2. PlayableCuts(AutoPlaces(s), n)
      <4>1. /\ n \in Nat /\ s.taste.part \in 0..Grain
        BY StoryHas
      <4>2. /\ DOMAIN AutoPlaces(s) = 1..n - 1 /\ Len(AutoPlaces(s)) = n - 1
            /\ \A k \in 1..n - 1 : /\ AutoPlaces(s)[k].beat = k + 1
                                   /\ AutoPlaces(s)[k].part = s.taste.part
        BY <2>2, <4>1 DEF AutoPlaces
      <4>3. \A k \in 1..n - 1 : k + 1 \in k + 1 .. n
        BY <4>1
      <4> QED  BY <4>1, <4>2, <4>3 DEF PlayableCuts
    <3>3. t.cuts # Uncut => PlayableCuts(t.cuts.places, Len(t.lengths))
      BY <2>2, <2>3, <3>2
    <3>4. /\ EnableCuts /\ AllSelected(t) /\ ~(Len(t.lengths) < 2) /\ ~t.disabled
      <4>1. n \in Nat
        BY StoryHas
      <4> QED  BY <2>2, <2>3, <2>6, <3>1, <4>1
    <3>5. \/ PlaybackPlan(t) = [source |-> "auto", cuts |-> AutoCutsFor(t)]
          \/ /\ PlaybackPlan(t) = [source |-> t.cuts.source, cuts |-> t.cuts]
             /\ t.cuts # Uncut
      BY <3>3, <3>4 DEF PlaybackPlan
    <3>6. t.cuts # Uncut => t.cuts.source # "classic"
      BY <2>3, <2>4 DEF CutsOK
    <3> QED  BY <3>5, <3>6
  <2> QED  BY <1>2, <2>1, <2>3, <2>5, <2>6, <2>7 DEF plan
<1> QED  BY <1>1, <1>2

(* A slice of a sequence. *)
LEMMA Slicing ==
    ASSUME NEW S, NEW s \in Seq(S), NEW m \in Nat, NEW n \in Nat, m + n <= Len(s)
    PROVE  /\ SubSeq(s, m + 1, m + n) \in Seq(S) /\ Len(SubSeq(s, m + 1, m + n)) = n
           /\ \A j \in 1..n : SubSeq(s, m + 1, m + n)[j] = s[m + j]
<1>1. \A i \in m + 1 .. m + n : s[i] \in S
  <2>1. \A i \in m + 1 .. m + n : i \in 1..Len(s)
    OBVIOUS
  <2> QED  BY <2>1
<1>2. m + 1 \in Int /\ m + n \in Int
  OBVIOUS
<1> DEFINE i == m + 1
           k == m + n
<1> HIDE DEF i, k
<1>3. /\ SubSeq(s, i, k) \in Seq(S)
      /\ Len(SubSeq(s, i, k)) = IF i <= k THEN k - i + 1 ELSE 0
      /\ \A j \in 1..k - i + 1 : SubSeq(s, i, k)[j] = s[i + j - 1]
  <2>1. i \in Int /\ k \in Int /\ \A j \in i..k : s[j] \in S
    BY <1>1, <1>2 DEF i, k
  <2> QED  BY <2>1, SubSeqProperties
<1>4. i \in Int /\ k \in Int /\ i = m + 1 /\ k = m + n /\ k - i + 1 = n
  BY DEF i, k
<1>5. Len(SubSeq(s, i, k)) = n
  BY <1>3, <1>4
<1>6. ASSUME NEW j \in 1..n PROVE SubSeq(s, i, k)[j] = s[m + j]
  <2>1. j \in 1..k - i + 1 /\ i + j - 1 = m + j
    BY <1>4
  <2> QED  BY <1>3, <2>1
<1> QED  BY <1>3, <1>5, <1>6 DEF i, k

(* The next overlay makes the film of its beat. *)
LEMMA NextFilm ==
    ASSUME WorkOK(work), work.segments = <<>>, work.beats # <<>>, NEW measured \in BOOLEAN
    PROVE  LET film == Captioned(Head(work.beats), NextPictures(measured))
           IN  /\ film \in BeatFilms /\ film.beat = Head(work.beats)
               /\ BeatAsPlayed(work, work.story, Timeline(work.story), film)
<1> DEFINE s == work.story
           l == s.lengths
           n == Len(l)
           b == Head(work.beats)
           frames == NextPictures(measured)
           film == Captioned(b, frames)
           from == BeatStart(l, b)
           size == Len(frames)
<1>1. /\ StoryOK(s) /\ BeatsOK(s, work.beats, work.failed)
      /\ work.reeled <=> PlaybackPlan(s).source # "classic"
      /\ work.reeled => ReelOK(s, <<>>, work.reel)
      /\ work.kind \in Kinds
  BY DEF WorkOK
<1>2. b \in Filmed(s)
  BY <1>1, NextBeat
<1>3. l \in Seq(Nat \ {0}) /\ n \in Nat /\ Beats(s) = 1..n
  BY <1>1, StoryHas
<1>4. b \in 1..n /\ b \in Int /\ s.shots[b] \in Footage /\ l[b] \in Nat \ {0}
  BY <1>1, <1>2, <1>3, FilmedIs
<1> HIDE DEF b, s
<1>5. from \in Nat /\ BeatStart(l, b + 1) = from + l[b] /\ BeatStart(l, b + 1) <= Duration(l)
  <2>1. b \in 1..n + 1 /\ b + 1 \in 1..n + 1 /\ n + 1 \in b + 1 .. n + 1
    BY <1>3, <1>4
  <2>2. BeatStart(l, b + 1) <= BeatStart(l, n + 1)
    BY <1>3, <2>1, LaterBeats
  <2> QED  BY <1>3, <1>4, <2>1, <2>2, BeatStarts DEF Duration
<1>6. /\ frames \in Seq(Moments) /\ size <= l[b]
      /\ size < l[b] => MadeByBeats(work, s) /\ size >= ClipLength[s.shots[b]]
      /\ \A j \in 1..size : frames[j] = PlayedIn(s, from + j - 1)
  <2>1. CASE work.reeled
    <3> DEFINE reel == work.reel
    <3>1. /\ reel \in Seq(Moments) /\ Len(reel) = Duration(l)
          /\ \A i \in 1..Len(reel) : reel[i] = PlayedIn(s, i - 1)
      BY <1>1, <2>1, ReelEnds
    <3>2. frames = SubSeq(reel, from + 1, BeatStart(l, b + 1))
      BY <2>1 DEF NextPictures, Slice, s, b
    <3> HIDE DEF reel, frames, from
    <3>3. frames = SubSeq(reel, from + 1, from + l[b])
      BY <1>5, <3>2 DEF from
    <3>4. from + 1 \in Int /\ from + l[b] \in Int /\ from \in Nat /\ from + l[b] <= Len(reel)
      BY <1>4, <1>5, <3>1 DEF from
    <3>5. /\ frames \in Seq(Moments) /\ Len(frames) = l[b]
          /\ \A j \in 1..l[b] : frames[j] = reel[from + j]
      <4>1. reel \in Seq(Moments) /\ l[b] \in Nat
        BY <1>4, <3>1
      <4> DEFINE room == l[b]
      <4>2. reel \in Seq(Moments) /\ from \in Nat /\ room \in Nat /\ from + room <= Len(reel)
        BY <3>4, <4>1
      <4>3. frames = SubSeq(reel, from + 1, from + room)
        BY <3>3
      <4> HIDE DEF room
      <4>4. /\ SubSeq(reel, from + 1, from + room) \in Seq(Moments)
            /\ Len(SubSeq(reel, from + 1, from + room)) = room
            /\ \A j \in 1..room : SubSeq(reel, from + 1, from + room)[j] = reel[from + j]
        BY <4>2, Slicing
      <4>5. /\ frames \in Seq(Moments) /\ Len(frames) = room
            /\ \A j \in 1..room : frames[j] = reel[from + j]
        BY <4>3, <4>4
      <4> QED  BY <4>5 DEF room
    <3>6. ASSUME NEW j \in 1..l[b] PROVE frames[j] = PlayedIn(s, from + j - 1)
      <4> DEFINE i == from + j
      <4>1. i \in 1..Len(reel)
        BY <1>4, <3>1, <3>4
      <4>2. frames[j] = reel[i]
        BY <3>5
      <4> HIDE DEF i
      <4>3. reel[i] = PlayedIn(s, i - 1)
        BY <3>1, <4>1
      <4>4. frames[j] = PlayedIn(s, i - 1)
        BY <4>2, <4>3
      <4>5. i - 1 = from + j - 1
        BY <1>4, <3>4 DEF i
      <4> QED  BY <4>4, <4>5
    <3> QED  BY <1>4, <3>5, <3>6
  <2>2. CASE ~work.reeled
    <3> DEFINE clip == s.shots[b]
               lasts == ClipLength[clip] + IF measured THEN MaxPad ELSE 0
               length == IF work.kind = "preview" THEN l[b] ELSE Min({l[b], lasts})
    <3>1. frames = Trim(clip, 0, length)
      BY <2>2 DEF NextPictures, s, b
    <3>short. /\ length \in Nat /\ length <= l[b]
              /\ length < l[b] => MadeByBeats(work, s) /\ length >= ClipLength[clip]
      <4>1. ClipLength[clip] \in Nat \ {0} /\ l[b] \in Nat
        BY <1>4, ClipsLast
      <4>2. lasts \in Nat /\ lasts >= ClipLength[clip]
        BY <4>1, PadIsLength
      <4> HIDE DEF lasts, clip
      <4>3. Min({l[b], lasts}) = IF l[b] <= lasts THEN l[b] ELSE lasts
        BY <4>1, <4>2, MinOfTwo
      <4>4. work.kind # "preview" => MadeByBeats(work, s)
        BY <1>1, <2>2 DEF MadeByBeats, Kinds
      <4> QED  BY <4>1, <4>2, <4>3, <4>4
    <3>2. /\ frames \in Seq(Moments) /\ size = length
          /\ \A j \in 1..length :
                 frames[j] = [clip |-> clip, at |-> Min({0 + j - 1, ClipLength[clip] - 1})]
      <4>1. clip \in Footage /\ 0 \in Nat /\ length \in Nat
        BY <1>4, <3>short
      <4> HIDE DEF clip, frames, length
      <4> QED  BY <3>1, <4>1, TrimIs
    <3> HIDE DEF length, size
    <3>3. Timeline(s) = ManualSegments(s, <<>>)
      BY <1>1, <2>2, TimelineIs
    <3>4. /\ Timeline(s)[b].clip = clip /\ Timeline(s)[b].start = from
          /\ Timeline(s)[b].end = from + l[b] /\ Timeline(s)[b].from = 0
      <4>1. CutTimes(l, <<>>)[b] = from /\ CutTimes(l, <<>>)[b + 1] = from + l[b]
        <5>1. b \in 1..n + 1 /\ b + 1 \in 1..n + 1
          BY <1>3, <1>4
        <5>2. CutTimes(l, <<>>) = [k \in 1..n + 1 |-> BeatStart(l, k)]
          BY DEF CutTimes
        <5> QED  BY <1>5, <5>1, <5>2
      <4> HIDE DEF from
      <4>2. Max({0, from - from}) = 0
        <5>1. from - from = 0
          BY <1>5
        <5> QED  BY <5>1, MaxOfTwo
      <4> DEFINE skipped == Max({0, CutTimes(l, <<>>)[b] - BeatStart(l, b)})
      <4>3. skipped = 0
        BY <4>1, <4>2 DEF from
      <4>4. ManualSegments(s, <<>>)[b] =
                [owner |-> b, clip |-> clip, start |-> CutTimes(l, <<>>)[b],
                 end |-> CutTimes(l, <<>>)[b + 1], from |-> skipped]
        BY <1>3, <1>4 DEF ManualSegments
      <4> HIDE DEF skipped, clip
      <4> QED  BY <3>3, <4>1, <4>3, <4>4
    <3>5. ASSUME NEW j \in 1..length PROVE frames[j] = PlayedIn(s, from + j - 1)
      <4> DEFINE t == from + j - 1
      <4>1. t \in Int /\ from <= t /\ t < from + l[b] /\ 0 + j - 1 = 0 + t - from
        <5> HIDE DEF from
        <5>1. from \in Nat
          BY <1>5 DEF from
        <5> QED  BY <1>4, <3>short, <5>1
      <4> HIDE DEF t
      <4>2. PlayedIn(s, t) =
                [clip |-> Timeline(s)[b].clip,
                 at |-> Min({Timeline(s)[b].from + t - Timeline(s)[b].start,
                             ClipLength[Timeline(s)[b].clip] - 1})]
        <5>1. Timeline(s)[b].start <= t /\ t < Timeline(s)[b].end
          BY <3>4, <4>1
        <5>2. StoryOK(s) /\ b \in 1..Len(s.lengths) /\ t \in Int
          BY <1>1, <1>4, <4>1
        <5> QED  BY <5>1, <5>2, PlayedIs
      <4>3. PlayedIn(s, t) = [clip |-> clip, at |-> Min({0 + t - from, ClipLength[clip] - 1})]
        BY <3>4, <4>2
      <4>4. frames[j] = [clip |-> clip, at |-> Min({0 + j - 1, ClipLength[clip] - 1})]
        BY <3>2
      <4>5. frames[j] = PlayedIn(s, t)
        BY <4>1, <4>3, <4>4
      <4> QED  BY <4>5 DEF t
    <3> QED  BY <3>short, <3>2, <3>5
  <2> QED  BY <2>1, <2>2
<1> HIDE DEF frames, from
<1>7. film.beat = b /\ film.moments = frames /\ film \in BeatFilms
  BY <1>4, <1>6 DEF Captioned, BeatFilms
<1> HIDE DEF film
<1>8. BeatAsPlayed(work, s, Timeline(s), film)
  BY <1>6, <1>7 DEF BeatAsPlayed, PlayedIn, from
<1> QED  BY <1>7, <1>8 DEF film, s, b, frames

(* A render that is done has made a video of its story. *)
LEMMA Filming ==
    ASSUME NEW w, WorkOK(w), w.beats = <<>>, NEW v, v.kind = w.kind, v.films = w.films,
           v.left = {b \in Beats(w.story) : w.story.shots[b] = NoClip} \cup w.failed
    PROVE  VideoAsPlayed(v, w.story)
<1> DEFINE s == w.story
           S == Filmed(s) \ w.failed
<1>1. /\ StoryOK(s) /\ BeatsOK(s, <<>>, w.failed) /\ w.kind \in Kinds
      /\ w.reeled <=> PlaybackPlan(s).source # "classic"
      /\ w.kind = "preview" => AllSelected(s) /\ w.failed = {}
      /\ w.reeled => w.failed = {}
      /\ FilmsOK(w, s, Past(s, <<>>) \ w.failed)
  BY DEF WorkOK
<1>2. Past(s, <<>>) = Filmed(s)
  BY DEF Past
<1>3. FilmsOK(w, s, S) /\ w.failed \subseteq Filmed(s)
  BY <1>1, <1>2 DEF BeatsOK
<1>4. Filmed(s) \subseteq Beats(s) /\ (AllSelected(s) <=> Filmed(s) = Beats(s))
  BY <1>1, FilmedIs
<1>5. Beats(s) \ v.left = S
  BY <1>3, <1>4 DEF Filmed
<1> HIDE DEF S, s
<1>6. Ascending([k \in DOMAIN v.films |-> v.films[k].beat], Beats(s) \ v.left)
  BY <1>3, <1>5 DEF FilmsOK
<1>7. ASSUME v.left # {} PROVE MadeByBeats(v, s)
  <2>1. AllSelected(s) => w.failed # {}
    BY <1>4, <1>7 DEF AllSelected, s
  <2>2. w.kind # "preview"
    BY <1>1, <2>1
  <2>3. PlaybackPlan(s).source # "classic" => AllSelected(s)
    BY <1>1, TimelineIs
  <2> QED  BY <1>1, <2>1, <2>2, <2>3 DEF Kinds, MadeByBeats
<1>8. ASSUME NEW k \in DOMAIN v.films PROVE BeatAsPlayed(v, s, Timeline(s), v.films[k])
  <2>1. BeatAsPlayed(w, s, Timeline(s), v.films[k])
    BY <1>3 DEF FilmsOK
  <2> QED  BY <2>1 DEF BeatAsPlayed, MadeByBeats
<1> QED  BY <1>6, <1>7, <1>8 DEF VideoAsPlayed, s

-----------------------------------------------------------------------------
(* Every step keeps the invariant. *)

(* The invariant at first, and after every step. *)
LEMMA FilmBegins == FilmInit => FilmInv
<1> SUFFICES ASSUME FilmInit PROVE FilmInv
  OBVIOUS
<1>1. PICK shots \in [DOMAIN spans -> Footage], taste \in Tastes(Len(spans)) :
          tale = [lengths |-> spans, shots |-> shots, taste |-> taste,
                  cuts |-> Uncut, disabled |-> FALSE]
  BY DEF FilmInit
<1>2. /\ DOMAIN tale = {"lengths", "shots", "taste", "cuts", "disabled"}
      /\ tale = [field \in DOMAIN tale |-> tale[field]]
      /\ tale.lengths = spans /\ tale.shots = shots /\ tale.taste = taste
      /\ tale.cuts = Uncut /\ tale.disabled = FALSE
  BY <1>1
<1>3. shots \in [DOMAIN spans -> Footage \cup {NoClip}] /\ spans \in Lineups
  BY DEF FilmInit
<1>4. StoryOK(tale)
  BY <1>2, <1>3 DEF StoryOK, CutsOK
<1>5. spans \in LineupsFor(tale)
  BY <1>2, <1>3 DEF LineupsFor
<1>6. work = None /\ video = None
  BY DEF FilmInit
<1> QED  BY <1>4, <1>5, <1>6 DEF FilmInv, FilmAsPlayed

(* Another lineup of as many beats makes a story, which is the old one in all
   else. *)
LEMMA Relined ==
    ASSUME NEW s, StoryOK(s), NEW l \in LineupsFor(s), NEW t, t = [s EXCEPT !.lengths = l]
    PROVE  /\ StoryOK(t) /\ t.lengths = l /\ t.taste = s.taste /\ t.shots = s.shots
           /\ LineupsFor(t) = LineupsFor(s)
<1>1. l \in Lineups /\ Len(l) = Len(s.lengths)
  BY DEF LineupsFor
<1>2. /\ DOMAIN t = DOMAIN s /\ t.lengths = l /\ t.taste = s.taste /\ t.shots = s.shots
      /\ t.cuts = s.cuts /\ t.disabled = s.disabled
  BY DEF StoryOK
<1>3. t = [field \in DOMAIN t |-> t[field]]
  OBVIOUS
<1>4. DOMAIN l = DOMAIN s.lengths
  BY <1>1, LineupsAreLengths DEF StoryOK
<1> QED  BY <1>1, <1>2, <1>3, <1>4 DEF StoryOK, LineupsFor

(* An edited story is a story, and its video is forgotten. *)
LEMMA EditKeeps ==
    ASSUME FilmInv, work = None, NEW s, StoryOK(s), Edit(s), spans' \in LineupsFor(s)
    PROVE  FilmInv'
BY DEF FilmInv, FilmAsPlayed, Edit, LineupsFor

LEMMA EditorKeeps == FilmInv /\ EditorAction => FilmInv'
<1> SUFFICES ASSUME FilmInv, EditorAction PROVE FilmInv'
  OBVIOUS
<1>1. StoryOK(tale) /\ spans \in LineupsFor(tale)
  BY DEF FilmInv
<1>2. ASSUME NEW b \in Beats(tale), NEW clip \in Footage \cup {NoClip}, SelectClip(b, clip)
      PROVE  FilmInv'
  <2> DEFINE s == [tale EXCEPT !.shots[b] = clip]
  <2>1. work = None /\ Edit(s) /\ spans' = spans
    BY <1>2 DEF SelectClip
  <2>2. /\ DOMAIN s = DOMAIN tale /\ s.lengths = tale.lengths /\ s.taste = tale.taste
        /\ s.cuts = tale.cuts /\ s.disabled = tale.disabled
        /\ s.shots = [tale.shots EXCEPT ![b] = clip]
    BY <1>1 DEF StoryOK
  <2>3. s.shots \in [DOMAIN s.lengths -> Footage \cup {NoClip}]
    BY <1>1, <2>2 DEF StoryOK
  <2>4. s = [field \in DOMAIN s |-> s[field]]
    OBVIOUS
  <2> HIDE DEF s
  <2>5. StoryOK(s) /\ spans' \in LineupsFor(s)
    BY <1>1, <2>1, <2>2, <2>3, <2>4 DEF StoryOK, LineupsFor
  <2> QED  BY <2>1, <2>5, EditKeeps
<1>3. ASSUME NEW places \in CutLists, SendCuts(places)
      PROVE  FilmInv'
  <2> DEFINE cuts == [source |-> "manual", places |-> places, taste |-> None]
             off == (places = <<>>)
             s == [tale EXCEPT !.disabled = off, !.cuts = cuts]
  <2>1. work = None /\ Edit(s) /\ Accepts(places, Len(tale.lengths)) /\ spans' = spans
    BY <1>3 DEF SendCuts
  <2>2. CutsOK(cuts, Len(tale.lengths))
    BY <2>1, CutListsArePlaces DEF CutsOK
  <2>3. off \in BOOLEAN
    OBVIOUS
  <2> HIDE DEF cuts, off
  <2>4. DOMAIN s = DOMAIN tale /\ s.lengths = tale.lengths /\ s.taste = tale.taste
        /\ s.shots = tale.shots
    BY <1>1 DEF StoryOK
  <2>5. s.cuts = cuts
    BY <1>1 DEF StoryOK
  <2>6. s.disabled = off
    BY <1>1 DEF StoryOK
  <2>7. s = [field \in DOMAIN s |-> s[field]]
    OBVIOUS
  <2> HIDE DEF s
  <2>8. StoryOK(s)
    BY <1>1, <2>2, <2>3, <2>4, <2>5, <2>6, <2>7 DEF StoryOK
  <2>9. spans' \in LineupsFor(s)
    BY <1>1, <2>1, <2>4 DEF LineupsFor
  <2> QED  BY <2>1, <2>8, <2>9, EditKeeps
<1>4. ASSUME NEW taste \in Tastes(Len(tale.lengths)), NEW lengths \in LineupsFor(tale),
             Rewrite(taste, lengths)
      PROVE  FilmInv'
  <2> DEFINE t == [tale EXCEPT !.lengths = lengths]
             s == [tale EXCEPT !.taste = taste, !.lengths = lengths]
  <2>1. work = None /\ Edit(s) /\ spans' = lengths
    BY <1>4 DEF Rewrite
  <2>2. /\ StoryOK(t) /\ t.lengths = lengths /\ LineupsFor(t) = LineupsFor(tale)
        /\ Len(lengths) = Len(tale.lengths)
    BY <1>1, Relined DEF LineupsFor
  <2>3. /\ DOMAIN s = DOMAIN t /\ s.lengths = t.lengths /\ s.taste = taste
        /\ s.cuts = t.cuts /\ s.disabled = t.disabled /\ s.shots = t.shots
    BY <1>1 DEF StoryOK
  <2>4. s = [field \in DOMAIN s |-> s[field]]
    OBVIOUS
  <2> HIDE DEF s, t
  <2>5. StoryOK(s) /\ spans' \in LineupsFor(s)
    BY <2>1, <2>2, <2>3, <2>4 DEF StoryOK, LineupsFor
  <2> QED  BY <2>1, <2>5, EditKeeps
<1>5. ASSUME NEW read \in LineupsFor(tale), TimeByReading(read)
      PROVE  FilmInv'
  BY <1>1, <1>5, EditKeeps DEF TimeByReading
<1>6. ASSUME NEW lengths \in LineupsFor(tale), SyncAgain(lengths)
      PROVE  FilmInv'
  <2>1. /\ work = None /\ work' = None
        /\ tale' = [tale EXCEPT !.lengths = lengths] /\ spans' = lengths
        /\ video' = None \/ video' = video
    BY <1>6 DEF SyncAgain
  <2>2. /\ StoryOK(tale') /\ LineupsFor(tale') = LineupsFor(tale)
    BY <1>1, <2>1, Relined
  <2>3. spans' \in LineupsFor(tale')
    BY <2>1, <2>2
  <2>4. ASSUME video' # None PROVE VideoAsPlayed(video', [tale' EXCEPT !.lengths = video'.lengths])
    <3>1. video' = video /\ video # None
      BY <2>1, <2>4
    <3>2. [tale' EXCEPT !.lengths = video.lengths] = [tale EXCEPT !.lengths = video.lengths]
      BY <2>1
    <3>3. VideoAsPlayed(video, [tale EXCEPT !.lengths = video.lengths])
      BY <3>1 DEF FilmInv, FilmAsPlayed
    <3> QED  BY <3>1, <3>2, <3>3
  <2>5. FilmAsPlayed'
    BY <2>4 DEF FilmAsPlayed
  <2> QED  BY <2>1, <2>2, <2>3, <2>5 DEF FilmInv, LineupsFor
<1> QED  BY <1>2, <1>3, <1>4, <1>5, <1>6 DEF EditorAction

(* A render works on its own: only its own state changes. *)
LEMMA RenderKeeps ==
    ASSUME FilmInv, UNCHANGED <<tale, spans, video>>,
           work' # None => WorkOK(work') /\ OfTale(work')
    PROVE  FilmInv'
<1>1. FilmAsPlayed'
  BY DEF FilmInv, FilmAsPlayed
<1> QED  BY <1>1 DEF FilmInv, LineupsFor, OfTale

Fields == {"kind", "story", "reeled", "segments", "reel", "beats", "films", "failed", "learnt"}

(* What the steps change of a render *)
LEMMA WorkChanges ==
    ASSUME NEW v, WorkOK(v), NEW w, DOMAIN w = Fields,
           w.kind = v.kind, w.story = v.story, w.reeled = v.reeled,
           w.failed = v.failed \/ (v.kind = "film" /\ ~v.reeled),
           IF v.reeled THEN ReelOK(v.story, w.segments, w.reel) ELSE w.segments = <<>>,
           BeatsOK(v.story, w.beats, w.failed),
           FilmsOK(w, v.story, Past(v.story, w.beats) \ w.failed)
    PROVE  WorkOK(w)
<1>1. w.kind = "preview" => AllSelected(w.story) /\ w.failed = {}
  BY DEF WorkOK
<1>2. w.reeled => w.failed = {}
  BY DEF WorkOK
<1> QED  BY <1>1, <1>2 DEF WorkOK, Fields

(* A render that goes on is of the story that it was of. *)
LEMMA SameTale ==
    ASSUME FilmInv, work # None, work'.story = work.story PROVE OfTale(work')
BY DEF FilmInv, OfTale

(* Films are as they are played by another render of the same kind. *)
LEMMA SameFilms ==
    ASSUME NEW v, NEW w, w.kind = v.kind, w.films = v.films, NEW s, NEW S, FilmsOK(v, s, S)
    PROVE  FilmsOK(w, s, S)
<1>1. ASSUME NEW film, BeatAsPlayed(v, s, Timeline(s), film)
      PROVE  BeatAsPlayed(w, s, Timeline(s), film)
  BY <1>1 DEF BeatAsPlayed, MadeByBeats
<1> QED  BY <1>1 DEF FilmsOK

LEMMA RenderBegins ==
    ASSUME FilmInv, BeginFilm \/ BeginPreview PROVE FilmInv'
<1> DEFINE reeled == PlaybackPlan(tale).source # "classic"
<1>1. StoryOK(tale)
  BY DEF FilmInv
<1>2. reeled \in BOOLEAN
  OBVIOUS
<1>3. CASE BeginFilm
  <2> DEFINE filmed == {b \in Beats(tale) : tale.shots[b] # NoClip}
             n == Cardinality(filmed)
             s == WithPlannedCuts(tale)
  <2>1. PICK beats \in [1..n -> filmed] :
            /\ Ascending(beats, filmed)
            /\ work' = Rendering("film", s, reeled, beats)
    BY <1>3, Zenon DEF BeginFilm
  <2>2. filmed = Filmed(tale)
    BY DEF Filmed
  <2>3. n \in Nat
    <3>1. Filmed(tale) \subseteq 1..Len(tale.lengths) /\ Len(tale.lengths) \in Nat
      BY <1>1, FilmedIs, StoryHas
    <3>2. IsFiniteSet(Filmed(tale))
      <4>1. IsFiniteSet(1..Len(tale.lengths))
        BY <3>1, FS_Interval
      <4> QED  BY <3>1, <4>1, FS_Subset
    <3> QED  BY <2>2, <3>2, FS_CardinalityType
  <2> HIDE DEF filmed, n, s, reeled
  <2>4. /\ StoryOK(s) /\ Filmed(s) = filmed /\ s.lengths = tale.lengths
        /\ PlaybackPlan(s).source # "classic" <=> PlaybackPlan(tale).source # "classic"
    BY <1>1, <2>2, Planned DEF s
  <2>5. beats \in Seq(filmed)
    BY <2>1, <2>3
  <2>6. /\ "film" \in Kinds /\ "film" # "preview"
        /\ reeled <=> PlaybackPlan(s).source # "classic"
    BY <2>4 DEF Kinds, reeled
  <2>7. beats \in Seq(Filmed(s)) /\ Ascending(beats, Filmed(s)) /\ reeled \in BOOLEAN
    BY <1>2, <2>1, <2>4, <2>5 DEF reeled
  <2>8. WorkOK(Rendering("film", s, reeled, beats))
    BY <2>4, <2>6, <2>7, Begun
  <2>9. OfTale(Rendering("film", s, reeled, beats))
    BY <2>4 DEF OfTale, Rendering
  <2> QED  BY <1>3, <2>1, <2>8, <2>9, RenderKeeps DEF BeginFilm
<1>4. CASE BeginPreview
  <2> DEFINE beats == [b \in Beats(tale) |-> b]
  <2>1. AllSelected(tale) /\ work' = Rendering("preview", tale, reeled, beats)
    BY <1>4 DEF BeginPreview
  <2>2. Filmed(tale) = Beats(tale) /\ Beats(tale) = 1..Len(tale.lengths) /\ Len(tale.lengths) \in Nat
    BY <1>1, <2>1, FilmedIs, StoryHas
  <2>3. beats \in Seq(Filmed(tale)) /\ Ascending(beats, Filmed(tale))
    <3>1. beats = [b \in 1..Len(tale.lengths) |-> b]
      BY <2>2
    <3>2. /\ DOMAIN beats = 1..Len(tale.lengths)
          /\ \A b \in 1..Len(tale.lengths) : beats[b] = b
      BY <3>1
    <3>3. beats \in [1..Len(tale.lengths) -> Filmed(tale)]
      BY <2>2, <3>1
    <3> HIDE DEF beats
    <3>4. beats \in Seq(Filmed(tale))
      BY <2>2, <3>3
    <3>5. {beats[i] : i \in DOMAIN beats} = Filmed(tale)
      BY <2>2, <3>2
    <3>6. \A i, j \in DOMAIN beats : i < j => beats[i] < beats[j]
      BY <3>2
    <3> QED  BY <3>4, <3>5, <3>6 DEF Ascending
  <2>4. "preview" \in Kinds
    BY DEF Kinds
  <2> HIDE DEF beats
  <2>5. reeled <=> PlaybackPlan(tale).source # "classic"
    OBVIOUS
  <2> HIDE DEF reeled
  <2>6. WorkOK(Rendering("preview", tale, reeled, beats))
    BY <1>1, <1>2, <2>1, <2>3, <2>4, <2>5, Begun DEF reeled
  <2>7. OfTale(Rendering("preview", tale, reeled, beats))
    BY DEF OfTale, Rendering
  <2> QED  BY <1>4, <2>1, <2>6, <2>7, RenderKeeps DEF BeginPreview
<1> QED  BY <1>3, <1>4

LEMMA TrimKeeps == ASSUME FilmInv, TrimNext PROVE FilmInv'
<1> DEFINE s == work.story
           head == Head(work.segments)
           rest == Tail(work.segments)
           longer == work.reel \o Trim(head.clip, head.from, SegmentLength(head))
<1>1. WorkOK(work) /\ work.segments # <<>>
  BY DEF FilmInv, TrimNext
<1>2. work' = [work EXCEPT !.segments = rest, !.reel = longer]
  BY DEF TrimNext
<1>3. DOMAIN work = Fields
  BY <1>1 DEF WorkOK, Fields
<1>4. work.reeled
  BY <1>1 DEF WorkOK
<1>5. StoryOK(s) /\ ReelOK(s, work.segments, work.reel) /\ AllSelected(s)
  <2>1. StoryOK(s) /\ ReelOK(s, work.segments, work.reel) /\ PlaybackPlan(s).source # "classic"
    BY <1>1, <1>4 DEF WorkOK
  <2> QED  BY <2>1, TimelineIs
<1>6. ReelOK(s, rest, longer)
  BY <1>1, <1>5, ReelGrows
<1> HIDE DEF rest, longer
<1>7. /\ DOMAIN work' = Fields /\ work'.kind = work.kind /\ work'.story = work.story
      /\ work'.reeled = work.reeled /\ work'.failed = work.failed
      /\ work'.beats = work.beats /\ work'.films = work.films
  BY <1>2, <1>3 DEF Fields
<1>8. work'.segments = rest
  BY <1>2, <1>3 DEF Fields
<1>9. work'.reel = longer
  BY <1>2, <1>3 DEF Fields
<1>10. /\ BeatsOK(s, work.beats, work.failed)
       /\ FilmsOK(work, s, Past(s, work.beats) \ work.failed)
  BY <1>1 DEF WorkOK
<1>films. FilmsOK(work', s, Past(s, work.beats) \ work.failed)
  BY <1>7, <1>10, SameFilms
<1>11. IF work.reeled THEN ReelOK(s, work'.segments, work'.reel) ELSE work'.segments = <<>>
  BY <1>4, <1>6, <1>8, <1>9
<1>12. WorkOK(work')
  BY <1>1, <1>7, <1>10, <1>films, <1>11, WorkChanges
<1> QED  BY <1>7, <1>12, SameTale, RenderKeeps DEF TrimNext

(* A beat more, with or without the colour filter *)
LEMMA OverlayKeeps ==
    ASSUME FilmInv, AtOverlay, UNCHANGED <<tale, spans, video>>, NEW measured \in BOOLEAN,
           work' = BeatDone(measured) \/ work' = [BeatDone(measured) EXCEPT !.learnt = TRUE]
    PROVE  FilmInv'
<1> DEFINE s == work.story
           b == Head(work.beats)
           rest == Tail(work.beats)
           film == Captioned(b, NextPictures(measured))
           more == Append(work.films, film)
           S == Past(s, work.beats) \ work.failed
           done == [work EXCEPT !.beats = rest, !.films = more]
<1>1. WorkOK(work) /\ work.segments = <<>> /\ work.beats # <<>> /\ work # None
  BY DEF FilmInv, AtOverlay
<1>2. work' = done \/ work' = [done EXCEPT !.learnt = TRUE]
  BY DEF BeatDone
<1>3. /\ DOMAIN work = Fields /\ StoryOK(s) /\ BeatsOK(s, work.beats, work.failed)
      /\ FilmsOK(work, s, S)
      /\ work.failed \subseteq Past(s, work.beats)
      /\ IF work.reeled THEN ReelOK(s, work.segments, work.reel) ELSE work.segments = <<>>
  BY <1>1 DEF WorkOK, Fields, BeatsOK
<1>4. film \in BeatFilms /\ film.beat = b /\ BeatAsPlayed(work, s, Timeline(s), film)
  BY <1>1, NextFilm
<1>5. /\ b \in Filmed(s) /\ b \notin Past(s, work.beats)
      /\ \A d \in Past(s, work.beats) : d < b
      /\ Past(s, rest) = Past(s, work.beats) \cup {b}
      /\ BeatsOK(s, rest, work.failed)
  BY <1>1, <1>3, NextBeat
<1>6. S \subseteq Nat /\ b \in Nat /\ \A d \in S : d < b
  BY <1>3, <1>5, FilmedIs DEF Past
<1>7. Past(s, rest) \ work.failed = S \cup {b}
  BY <1>3, <1>5
<1> HIDE DEF film, b, rest
<1>8. DOMAIN done = Fields
  BY <1>3
<1>9. /\ done.kind = work.kind /\ done.story = work.story /\ done.reeled = work.reeled
      /\ done.failed = work.failed /\ done.segments = work.segments /\ done.reel = work.reel
  BY <1>3 DEF Fields
<1> HIDE DEF more
<1>10. done.beats = rest
  BY <1>3 DEF Fields
<1>11. done.films = more
  BY <1>3 DEF Fields
<1> HIDE DEF done
<1>12. /\ DOMAIN work' = Fields /\ work'.kind = work.kind /\ work'.story = work.story
       /\ work'.reeled = work.reeled /\ work'.failed = work.failed
       /\ work'.segments = work.segments /\ work'.reel = work.reel
       /\ work'.beats = rest /\ work'.films = more
  <2>1. CASE work' = done
    BY <1>8, <1>9, <1>10, <1>11, <2>1
  <2>2. CASE work' = [done EXCEPT !.learnt = TRUE]
    BY <1>8, <1>9, <1>10, <1>11, <2>2 DEF Fields
  <2> QED  BY <1>2, <2>1, <2>2
<1> HIDE DEF S, s
<1>13. FilmsOK(work', s, S \cup {b})
  BY <1>3, <1>4, <1>6, <1>12, FilmsGrow DEF more
<1>14. /\ BeatsOK(work.story, work'.beats, work'.failed)
       /\ FilmsOK(work', work.story, Past(work.story, work'.beats) \ work'.failed)
       /\ IF work.reeled THEN ReelOK(work.story, work'.segments, work'.reel)
          ELSE work'.segments = <<>>
  BY <1>3, <1>5, <1>7, <1>12, <1>13 DEF s
<1>15. WorkOK(work')
  BY <1>1, <1>12, <1>14, WorkChanges
<1> QED  BY <1>1, <1>12, <1>15, SameTale, RenderKeeps

LEMMA FailingKeeps == ASSUME FilmInv, BeatFails PROVE FilmInv'
<1> DEFINE s == work.story
           b == Head(work.beats)
           rest == Tail(work.beats)
           failed == work.failed \cup {b}
<1>1. /\ WorkOK(work) /\ work.segments = <<>> /\ work.beats # <<>>
      /\ work.kind = "film" /\ ~work.reeled
  BY DEF FilmInv, AtOverlay, BeatFails
<1>2. work' = [work EXCEPT !.beats = rest, !.failed = failed]
  BY DEF BeatFails
<1>3. /\ DOMAIN work = Fields /\ StoryOK(s) /\ BeatsOK(s, work.beats, work.failed)
      /\ FilmsOK(work, s, Past(s, work.beats) \ work.failed)
      /\ work.failed \subseteq Past(s, work.beats)
  BY <1>1 DEF WorkOK, Fields, BeatsOK
<1>4. /\ b \notin Past(s, work.beats)
      /\ Past(s, rest) = Past(s, work.beats) \cup {b}
      /\ BeatsOK(s, rest, failed)
  BY <1>1, <1>3, NextBeat
<1> HIDE DEF b, rest
<1>5. Past(s, rest) \ failed = Past(s, work.beats) \ work.failed
  BY <1>3, <1>4
<1> HIDE DEF failed, s
<1>6. /\ DOMAIN work' = Fields /\ work'.kind = work.kind /\ work'.story = work.story
      /\ work'.reeled = work.reeled /\ work'.segments = work.segments
      /\ work'.reel = work.reel /\ work'.films = work.films
  BY <1>2, <1>3 DEF Fields
<1>7. work'.beats = rest
  BY <1>2, <1>3 DEF Fields
<1>8. work'.failed = failed
  BY <1>2, <1>3 DEF Fields
<1>films. FilmsOK(work', s, Past(s, work.beats) \ work.failed)
  BY <1>3, <1>6, SameFilms
<1>9. /\ BeatsOK(work.story, work'.beats, work'.failed)
      /\ FilmsOK(work', work.story, Past(work.story, work'.beats) \ work'.failed)
  BY <1>films, <1>3, <1>4, <1>5, <1>6, <1>7, <1>8 DEF s
<1>10. WorkOK(work')
  BY <1>1, <1>6, <1>9, WorkChanges
<1>11. work # None
  BY DEF AtOverlay, BeatFails
<1> QED  BY <1>6, <1>10, <1>11, SameTale, RenderKeeps DEF BeatFails

LEMMA SavingKeeps == ASSUME FilmInv, SaveVideo PROVE FilmInv'
<1> DEFINE s == work.story
           made == [kind |-> work.kind, films |-> work.films, lengths |-> s.lengths,
                    left |-> {b \in Beats(s) : s.shots[b] = NoClip} \cup work.failed]
<1>1. WorkOK(work) /\ work.beats = <<>> /\ StoryOK(s) /\ spans \in LineupsFor(s)
  BY DEF FilmInv, SaveVideo, WorkOK, LineupsFor, OfTale
<1>2. video' = made /\ tale' = s /\ work' = None /\ spans' = spans
  BY DEF SaveVideo
<1>3. /\ made.kind = work.kind /\ made.films = work.films /\ made.lengths = s.lengths
      /\ made.left = {b \in Beats(s) : s.shots[b] = NoClip} \cup work.failed
  OBVIOUS
<1> HIDE DEF made
<1>4. VideoAsPlayed(made, s)
  BY <1>1, <1>3, Filming
<1>5. [s EXCEPT !.lengths = made.lengths] = s
  BY <1>1, <1>3 DEF StoryOK
<1>6. FilmAsPlayed'
  BY <1>2, <1>4, <1>5 DEF FilmAsPlayed
<1> QED  BY <1>1, <1>2, <1>6 DEF FilmInv, LineupsFor

(* Every step keeps the invariant. *)
LEMMA FilmStepKept == ASSUME FilmInv, [FilmNext]_filmVars PROVE FilmInv'
<1>1. CASE EditorAction
  BY <1>1, EditorKeeps
<1>2. CASE BeginFilm \/ BeginPreview
  BY <1>2, RenderBegins
<1>3. CASE TrimNext
  BY <1>3, TrimKeeps
<1>4. CASE Overlay \/ OverlayRetried
  BY <1>4, OverlayKeeps DEF Overlay, OverlayRetried
<1>5. CASE BeatFails
  BY <1>5, FailingKeeps
<1>6. CASE RenderEndsInError
  BY <1>6, RenderKeeps DEF RenderEndsInError
<1>7. CASE SaveVideo
  BY <1>7, SavingKeeps
<1>8. CASE UNCHANGED filmVars
  <2>1. UNCHANGED <<tale, spans, video>> /\ work' = work
    BY <1>8 DEF filmVars
  <2>2. work' # None => WorkOK(work') /\ OfTale(work')
    BY <2>1 DEF FilmInv, OfTale
  <2> QED  BY <2>1, <2>2, RenderKeeps
<1> QED  BY <1>1, <1>2, <1>3, <1>4, <1>5, <1>6, <1>7, <1>8 DEF FilmNext, RenderAction

(* In every state of the editor and of a render, the saved story has cuts that
   were made for its script or accepted, the films behind a render are those of
   the beats behind it, in their order and as its timeline has them, and its reel
   is what the timeline shows so far. *)
THEOREM FilmInvariance == FilmSpec => []FilmInv
<1>1. FilmInit => FilmInv
  BY FilmBegins
<1>2. FilmInv /\ [FilmNext]_filmVars => FilmInv'
  BY FilmStepKept
<1> QED  BY <1>1, <1>2, PTL DEF FilmSpec

(* Whatever an editor makes of a story, its timeline, by its narration and by
   its captions, goes from end to end without gap or overlap, shows no clip before
   its beat, and, if it was made automatically, no moment of a clip twice. *)
THEOREM TimelinesExact == FilmSpec => []TimelineExact
<1>1. FilmInv => TimelineExact
  <2> SUFFICES ASSUME FilmInv PROVE TimelineExact
    OBVIOUS
  <2>1. StoryOK(tale)
    BY DEF FilmInv
  <2>2. StoryOK(Page)
    BY <2>1, Relined DEF FilmInv, Page
  <2>3. \A s \in {tale, Page} : TimelineTiles(s) /\ NoFootageTwice(s)
    BY <2>1, <2>2, Tiling, OnceEach
  <2> QED  BY <2>3 DEF TimelineExact, TimelinesTile, NoMomentTwice
<1> QED  BY <1>1, FilmInvariance, PTL

(* What was rendered is the timeline of the saved story, by the narration the
   video was made of; only a film made beat by beat lacks beats or ends one early. *)
THEOREM FilmsPlayed == FilmSpec => []FilmAsPlayed
<1>1. FilmInv => FilmAsPlayed
  BY DEF FilmInv
<1> QED  BY <1>1, FilmInvariance, PTL
=============================================================================
