---------------------------- MODULE CaptionCards ----------------------------
(***************************************************************************)
(* The captions on the cards of a storyboard, how the page keeps what it   *)
(* shows in the session, and what of it the film uses.                     *)
(*                                                                         *)
(* Each drawing of the storyboard asks for the preview of one beat after   *)
(* another, from the texts of that moment; each edit asks for one more a   *)
(* little later.  A preview is drawn by the API, kept for a minute, put on *)
(* the card, and its lines are written to the session in batches.  The     *)
(* film takes the lines written there if they are of its text and style,   *)
(* and breaks the sentence itself if not.                                  *)
(*                                                                         *)
(* Lines are the sentence they break and the style that measures them.     *)
(* Handlers load, change and save the session whole: what is stored is     *)
(* what one of them makes of a session stored earlier.                     *)
(***************************************************************************)
EXTENDS Naturals, Sequences

CONSTANTS
    Sentences,  \* what a beat can say
    Fold,       \* a sentence in lower case
    Openings,   \* styles and sentences of a session when the page opens it
    Applied,    \* styles of the panel
    Flows,      \* functions of the page that ask for previews
    MaxActs,    \* bound of the model: acts of the user, and beats
    Blank       \* null

ASSUME FoldIsFunction == DOMAIN Fold = Sentences
ASSUME OpeningsAreSessions ==
    \A opening \in Openings : /\ DOMAIN opening = {"text", "style"}
                              /\ opening.text \in Seq(Sentences) /\ opening.text # <<>>

VARIABLES
    story,  \* the session as stored
    page,   \* sentences and style of window.currentStorySession
    edit,   \* the edit, or the change of style, that is under way
    flows,  \* runs of applyAllPreviews and of debounced previews
    timers, \* debounced previews to come
    cards,  \* captions on the cards
    cache,  \* beatPreviewCache
    writes, \* pendingMetaWrites, beatRequestVersions, lastWrittenHashes
    posts,  \* batches under way
    acts    \* acts of the user so far

cardVars == <<story, page, edit, flows, timers, cards, cache, writes, posts, acts>>

CardBeats == DOMAIN story.text

-----------------------------------------------------------------------------
(* Compiling: the same for a preview, a write and the film *)

Plain == "plain"        \* nothing is said of the color
PlainWhite == "white"   \* the white of a preview whose color nobody chose
Unplaced == "unplaced"

(* compileCaptionSSOT *)
Compile(text, style) == [text |-> text, style |-> style]

(* The style of a preview says all of its defaults, and no placement: with a
   color nobody chose, or a placement, it is never the style of the film. *)
RasterStyle(style) ==
    [look |-> IF style.look = Plain THEN PlainWhite ELSE style.look, place |-> Unplaced]

(* POST /caption/preview, of what the page has measured: the lines are the
   compiler's. *)
Preview(text, style) == Compile(text, RasterStyle(style))

(* buildCaptionMetaForBeat: what is written, if it is of this text, in any
   letter case, and of this style *)
FilmCaption(s, b) ==
    LET compiled == Compile(s.text[b], s.style)
        kept == s.meta[b]
    IN  IF kept # Blank /\ Fold[kept.text] = Fold[s.text[b]] /\ kept.style = compiled.style
        THEN kept ELSE compiled

-----------------------------------------------------------------------------
(* The API *)

(* updateBeatText *)
TextUpdated(s, b, text) == [s EXCEPT !.text[b] = text, !.film = Blank]

(* update-caption-style: over what the style says already *)
StyleUpdated(s, style) == [s EXCEPT !.style = style, !.film = Blank]

(* update-caption-meta: the beats of a batch whose lines are those of the
   stored sentence *)
Accepted(s, batch) ==
    {b \in DOMAIN batch : Compile(s.text[b], batch[b].meta.style) = batch[b].meta}

(* Mutant: the film stays. *)
MetaUpdatedKeepingFilm(s, batch) ==
    [s EXCEPT !.meta = [b \in CardBeats |->
         IF b \in Accepted(s, batch) THEN batch[b].meta ELSE @[b]]]

MetaUpdated(s, batch) ==
    IF Accepted(s, batch) = {} THEN s
    ELSE [s EXCEPT !.film = Blank,
                   !.meta = [b \in CardBeats |->
                       IF b \in Accepted(s, batch) THEN batch[b].meta ELSE @[b]]]

(* A finalize job films the session. *)
Film ==
    /\ story' = [story EXCEPT !.film = [b \in CardBeats |-> FilmCaption(story, b)]]
    /\ UNCHANGED <<page, edit, flows, timers, cards, cache, writes, posts, acts>>

-----------------------------------------------------------------------------
(* The page: previews *)

NoFlow == [beat |-> 0, last |-> 0, text |-> Blank, style |-> Blank, debounced |-> FALSE,
           asking |-> FALSE, mapped |-> FALSE, aborted |-> FALSE]

Running(q) == flows[q] # NoFlow

Begin(first, last, text, style, debounced) ==
    [NoFlow EXCEPT !.beat = first, !.last = last, !.text = text, !.style = style,
                   !.debounced = debounced]

(* A free function takes the work: they are alike. *)
Free == {q \in Flows : ~Running(q)}

Started(f) == Free # {} /\ flows' = [flows EXCEPT ![CHOOSE q \in Free : TRUE] = f]

(* The storyboard is drawn: applyAllPreviews begins with the first beat. *)
AllBeats(p) == Begin(1, Len(p.text), p.text, p.style, FALSE)

Timer(b, p) == [beat |-> b, text |-> p.text, style |-> p.style, known |-> TRUE]

(* The timer that is known for the beat is replaced. *)
Debounced(b, p) == {t \in timers : ~(t.beat = b /\ t.known)} \cup {Timer(b, p)}

(* generateBeatCaptionPreviewDebounced: its time has come. *)
TimerFires(t) ==
    /\ Started(Begin(t.beat, t.beat, t.text, t.style, TRUE))
    /\ timers' = timers \ {t}
    /\ UNCHANGED <<story, page, edit, cards, cache, writes, posts, acts>>

(* A preview is over: applyAllPreviews goes to its next beat. *)
Onward(f) ==
    IF f.beat = f.last THEN NoFlow
    ELSE [f EXCEPT !.beat = @ + 1, !.asking = FALSE, !.mapped = FALSE, !.aborted = FALSE]

(* A debounced preview forgets the timer of its beat, whoever set it. *)
TimersAfter(f) ==
    {IF f.debounced /\ t.beat = f.beat THEN [t EXCEPT !.known = FALSE] ELSE t : t \in timers}

(* The controller of the beat is deleted, whoever put it there. *)
Released(b) ==
    [q \in Flows |-> IF flows[q].beat = b THEN [flows[q] EXCEPT !.mapped = FALSE] ELSE flows[q]]

Key(q) == [text |-> flows[q].text[flows[q].beat], style |-> flows[q].style]

Shown(q) == [cards EXCEPT ![flows[q].beat] = Preview(Key(q).text, Key(q).style)]

(* A kept preview is shown at once, and not written. *)
ShowCached(q) ==
    /\ Running(q) /\ ~flows[q].asking
    /\ Key(q) \in cache
    /\ cards' = Shown(q)
    /\ flows' = [flows EXCEPT ![q] = Onward(@)]
    /\ timers' = TimersAfter(flows[q])
    /\ UNCHANGED <<story, page, edit, cache, writes, posts, acts>>

(* The request that is known for the beat is aborted. *)
AskPreview(q) ==
    /\ Running(q) /\ ~flows[q].asking
    /\ Key(q) \notin cache
    /\ flows' = [r \in Flows |->
           IF r = q THEN [flows[q] EXCEPT !.asking = TRUE, !.mapped = TRUE]
           ELSE IF flows[r].mapped /\ flows[r].beat = flows[q].beat
                THEN [flows[r] EXCEPT !.mapped = FALSE, !.aborted = TRUE] ELSE flows[r]]
    /\ UNCHANGED <<story, page, edit, timers, cards, cache, writes, posts, acts>>

(* Aborted, refused or lost *)
NoPreview(q) ==
    /\ flows[q].asking
    /\ flows' = [Released(flows[q].beat) EXCEPT ![q] = Onward(@)]
    /\ timers' = TimersAfter(flows[q])
    /\ UNCHANGED <<story, page, edit, cards, cache, writes, posts, acts>>

-----------------------------------------------------------------------------
(* The page: writing what it has shown *)

(* A queued write is the latest of its beat until another one is queued: this
   is what beatRequestVersions tells. *)
Outdated(batches, b) ==
    {[p EXCEPT !.batch = [c \in DOMAIN p.batch |->
         IF c = b THEN [p.batch[c] EXCEPT !.latest = FALSE] ELSE p.batch[c]]] : p \in batches}

(* saveCaptionMetaForBeat: not what has been written last *)
Queue(b, meta) ==
    IF writes.written[b] = meta THEN UNCHANGED <<writes, posts>>
    ELSE /\ writes' = [writes EXCEPT !.pending[b] = meta]
         /\ posts' = Outdated(posts, b)

PreviewArrives(q) ==
    /\ flows[q].asking /\ ~flows[q].aborted
    /\ cards' = Shown(q)
    /\ Queue(flows[q].beat, Preview(Key(q).text, Key(q).style))
    /\ cache' = cache \cup {Key(q)}
    /\ flows' = [Released(flows[q].beat) EXCEPT ![q] = Onward(@)]
    /\ timers' = TimersAfter(flows[q])
    /\ UNCHANGED <<story, page, edit, acts>>

(* The minute of a preview is over. *)
Expire(key) ==
    /\ key \in cache
    /\ cache' = cache \ {key}
    /\ UNCHANGED <<story, page, edit, flows, timers, cards, writes, posts, acts>>

Pending == {b \in CardBeats : writes.pending[b] # Blank}

(* flushPendingMetaWrites: the request *)
Flush ==
    /\ Pending # {}
    /\ posts' = posts \cup {[batch |-> [b \in Pending |-> [meta |-> writes.pending[b], latest |-> TRUE]],
                         taken |-> Blank]}
    /\ writes' = [writes EXCEPT !.pending = [b \in CardBeats |-> Blank]]
    /\ UNCHANGED <<story, page, edit, flows, timers, cards, cache, acts>>

UpdateCaptionMeta(post) ==
    /\ post.taken = Blank
    /\ story' = MetaUpdated(story, post.batch)
    /\ posts' = (posts \ {post}) \cup {[post EXCEPT !.taken = Accepted(story, post.batch)]}
    /\ UNCHANGED <<page, edit, flows, timers, cards, cache, writes, acts>>

(* The answer counts for the beats that have queued nothing since. *)
MetaAnswered(post) ==
    /\ post.taken # Blank
    /\ posts' = posts \ {post}
    /\ writes' = [writes EXCEPT !.written = [b \in CardBeats |->
           IF b \in post.taken /\ post.batch[b].latest
           THEN post.batch[b].meta ELSE @[b]]]
    /\ UNCHANGED <<story, page, edit, flows, timers, cards, cache, acts>>

(* The batch fails, before it is handled or after. *)
MetaFails(post) ==
    /\ posts' = posts \ {post}
    /\ UNCHANGED <<story, page, edit, flows, timers, cards, cache, writes, acts>>

-----------------------------------------------------------------------------
(* The page: its user *)

MayAct == acts + Len(page.text) < MaxActs /\ edit = Blank /\ acts' = acts + 1

(* Whatever else draws the storyboard again *)
DrawAgain ==
    /\ MayAct
    /\ Started(AllBeats(page))
    /\ UNCHANGED <<story, page, edit, timers, cards, cache, writes, posts>>

AskEdit(b, text) ==
    /\ MayAct
    /\ text # page.text[b]
    /\ edit' = [beat |-> b, text |-> text, style |-> page.style, at |-> "asked"]
    /\ UNCHANGED <<story, page, flows, timers, cards, cache, writes, posts>>

(* applyCaptionStyle *)
AskStyle(style) ==
    /\ MayAct
    /\ edit' = [beat |-> 0, text |-> Blank, style |-> style, at |-> "asked"]
    /\ UNCHANGED <<story, page, flows, timers, cards, cache, writes, posts>>

HandleEdit ==
    /\ edit # Blank /\ edit.at = "asked"
    /\ story' = IF edit.beat = 0 THEN StyleUpdated(story, edit.style)
                ELSE TextUpdated(story, edit.beat, edit.text)
    /\ edit' = [edit EXCEPT !.at = "answered"]
    /\ UNCHANGED <<page, flows, timers, cards, cache, writes, posts, acts>>

(* The request fails, before it is handled or after: the page keeps its own. *)
EditFails ==
    /\ edit # Blank
    /\ edit' = Blank
    /\ UNCHANGED <<story, page, flows, timers, cards, cache, writes, posts, acts>>

(* commitBeatTextEdit: the cards are drawn again, without captions, and one
   more preview is due. *)
TextAnswered ==
    /\ edit # Blank /\ edit.at = "answered" /\ edit.beat # 0
    /\ page' = [page EXCEPT !.text = story.text]
    /\ cards' = [b \in CardBeats |-> Blank]
    /\ Started(AllBeats(page'))
    /\ timers' = Debounced(edit.beat, page')
    /\ edit' = Blank
    /\ UNCHANGED <<story, cache, writes, posts, acts>>

StyleAnswered ==
    /\ edit # Blank /\ edit.at = "answered" /\ edit.beat = 0
    /\ page' = [page EXCEPT !.style = story.style]
    /\ Started(AllBeats(page'))
    /\ edit' = Blank
    /\ UNCHANGED <<story, timers, cards, cache, writes, posts, acts>>

-----------------------------------------------------------------------------
AnyFlow == CHOOSE q \in Flows : TRUE

(* The page has just drawn a session, and nothing is written since it opened. *)
CardsInit ==
    /\ \E opening \in Openings :
           /\ page = opening
           /\ story = [text |-> opening.text, style |-> opening.style, film |-> Blank,
                       meta |-> [b \in DOMAIN opening.text |-> Blank]]
    /\ edit = Blank
    /\ flows = [q \in Flows |-> IF q = AnyFlow THEN AllBeats(page) ELSE NoFlow]
    /\ timers = {}
    /\ cards = [b \in CardBeats |-> Blank]
    /\ cache = {}
    /\ writes = [pending |-> [b \in CardBeats |-> Blank],
                 written |-> [b \in CardBeats |-> Blank]]
    /\ posts = {}
    /\ acts = 0

PreviewStep ==
    \/ \E t \in timers : TimerFires(t)
    \/ \E q \in Flows : ShowCached(q) \/ AskPreview(q) \/ PreviewArrives(q) \/ NoPreview(q)
    \/ \E key \in cache : Expire(key)

WriteStep ==
    \/ Flush
    \/ \E post \in posts : UpdateCaptionMeta(post) \/ MetaAnswered(post) \/ MetaFails(post)

UserStep ==
    \/ DrawAgain
    \/ \E b \in CardBeats, text \in Sentences : AskEdit(b, text)
    \/ \E style \in Applied : AskStyle(style)
    \/ HandleEdit \/ EditFails \/ TextAnswered \/ StyleAnswered

CardsNext == PreviewStep \/ WriteStep \/ UserStep \/ Film

CardsSpec == CardsInit /\ [][CardsNext]_cardVars

-----------------------------------------------------------------------------
(* Properties *)

(* The film that a session shows has the captions that it would be filmed with
   now: whatever batches of whatever previews arrive late, of older texts and
   styles too, neither a write nor an edit changes the captions under a film. *)
FilmIsCaptioned ==
    story.film # Blank => \A b \in CardBeats : story.film[b] = FilmCaption(story, b)

(* The work of the page is about what the page says. *)
OfThePage(w, beats) ==
    w.style = page.style /\ \A b \in beats : w.text[b] = page.text[b]

(* Everything the page shows is written, and it is doing nothing else. *)
Settled ==
    /\ edit = Blank /\ posts = {} /\ Pending = {}
    /\ \A b \in CardBeats : writes.written[b] = Preview(page.text[b], page.style)
    /\ \A q \in Flows : Running(q) => OfThePage(flows[q], flows[q].beat..flows[q].last)
    /\ \A t \in timers : OfThePage(t, {t.beat})

(* Looking at a storyboard whose captions are written writes nothing, however
   often it is drawn and with whatever previews expiring: a write deletes the
   film and the draft preview of the session. *)
LookingWritesNothing ==
    [][Settled /\ page' = page /\ edit' = edit => Settled']_cardVars
=============================================================================
