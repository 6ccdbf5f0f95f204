----------------------------- MODULE Narration -----------------------------
(***************************************************************************)
(* What is spoken for the beats of a story: how a voice sync has it made,  *)
(* what it stores of it, and what a film hears and lights its words by.    *)
(*                                                                         *)
(* A sync asks for the speech of one sentence after the other and stores   *)
(* each under the print of its sentence: the sound, then the times of its  *)
(* letters.  Only then it saves the session, with the lengths.  A film     *)
(* takes what is stored for the session it has loaded.  Sync, film and     *)
(* edits each load the whole session and save it as they have changed it.  *)
(*                                                                         *)
(* There is one voice: another makes other prints, as other sentences do.  *)
(* Beats are inserted and deleted in StorySession; the attempts of syncs,  *)
(* and their lock that lets one run at a time, are in StorySync.           *)
(***************************************************************************)
EXTENDS Naturals, Integers, Sequences, SequencesExt

CONSTANTS
    BeatCount,   \* beats of the story
    Sentences,   \* sequences of words, which are sequences of letters
    Space,       \* the letter between two words
    Spelled,     \* a sentence as the provider spells it out to speak it
    Paces,       \* ms that a letter may take
    Forms,       \* forms of the provider's answers
    Silence,     \* ms after the last letter
    MinSlice,    \* ms, the least share of a word that has no times
    Tolerance,   \* ms up to which times are not scaled to the sound
    MaxTakes,    \* bound of the model: speeches
    MaxEdits,    \* bound of the model: edits
    Unset        \* null

Beats == 1..BeatCount

ASSUME BeatCountIsPositive == BeatCount \in Nat \ {0}
ASSUME UnsetIsNoScript == Unset \notin [Beats -> Sentences]

VARIABLES
    script,   \* story.json: sentences, captions, narrations, state of the sync
    revision, \* the copy of it that an edit is changing
    sound,    \* stored audio, by print
    times,    \* stored timing, by print
    sync,     \* the sync under way
    reel,     \* the film under way
    takes,    \* bound
    edits     \* bound

narrationVars == <<script, revision, sound, times, sync, reel, takes, edits>>

Put(f, k, v) == [x \in DOMAIN f \cup {k} |-> IF x = k THEN v ELSE f[x]]

-----------------------------------------------------------------------------
(* The answer of the provider *)

Signs(text) ==
    FoldLeft(LAMBDA signs, word : IF signs = <<>> THEN word ELSE signs \o <<Space>> \o word,
             <<>>, text)

(* Where a word begins in the letters of its text *)
StartOf(text, n) == IF n = 1 THEN 1 ELSE Len(Signs(SubSeq(text, 1, n - 1))) + 2

TimedLetters(text, pace) ==
    [i \in 1..Len(Signs(text)) |->
        [sign |-> Signs(text)[i], from |-> (i - 1) * pace, to |-> i * pace]]

TimedWords(text, pace) ==
    [n \in 1..Len(text) |->
        [from |-> (StartOf(text, n) - 1) * pace,
         to |-> (StartOf(text, n) - 1 + Len(text[n])) * pace]]

NoField == [letters |-> Unset, words |-> Unset]

(* What the parser expects: an alignment holds letters or words, and older
   answers have them outside of it. *)
Answer(form, text, pace) ==
    LET none == [alignment |-> NoField, normalized |-> NoField, older |-> NoField]
        letters == TimedLetters(text, pace)
        words == TimedWords(text, pace)
        spelled == [NoField EXCEPT !.letters = TimedLetters(Spelled[text], pace)]
    IN  CASE form = "arrays" ->
                 [none EXCEPT !.alignment.letters = letters, !.normalized = spelled]
          [] form = "normalized" -> [none EXCEPT !.normalized = spelled]
          [] form = "words" -> [none EXCEPT !.alignment.words = words, !.normalized = spelled]
          [] form = "older" ->
                 [none EXCEPT !.normalized = spelled, !.older = [letters |-> <<>>, words |-> words]]
          [] form = "nothing" -> none

Given(list) == IF list = Unset THEN <<>> ELSE list

(* The normalized alignment counts when the other has nothing. *)
OfAlignments(answer) ==
    LET field == IF answer.alignment = NoField THEN answer.normalized ELSE answer.alignment
    IN  [letters |-> Given(field.letters), words |-> Given(field.words)]

(* Fields of older answers replace what the alignments say, where they are there. *)
Timestamps(answer) ==
    LET aligned == OfAlignments(answer)
    IN  [letters |-> IF answer.older.letters = Unset THEN aligned.letters ELSE answer.older.letters,
         words |-> IF answer.older.words = Unset THEN aligned.words ELSE answer.older.words]

-----------------------------------------------------------------------------
(* Highlights: for how many hundredths of a second each word of a caption is
   waited for *)

Together(seq) == FoldLeft(LAMBDA sum, n : sum + n, 0, seq)

Span(timed) == timed.to - timed.from

Least(set) == CHOOSE i \in set : \A j \in set : i <= j
Greatest(set) == CHOOSE i \in set : \A j \in set : j <= i

(* Letters agree as far as there are any, and a space agrees with each. *)
Agrees(letters, i, word) ==
    \A j \in 1..Len(word) :
        i + j - 1 <= Len(letters) => letters[i + j - 1].sign \in {word[j], Space}

(* Mutant: every word is looked for from the start. *)
FromTheStart(letters, at, word) == {i \in 1..Len(letters) : Agrees(letters, i, word)}

(* Where a word may be found, behind the word before it *)
Matching(letters, at, word) == {i \in at..Len(letters) : Agrees(letters, i, word)}

(* From the first letter that is no space, as many of them as the word has *)
PlaceOf(letters, i, word) ==
    LET inked(a, b) == {k \in a..b : letters[k].sign # Space}
        start == Least(inked(i, Len(letters)))
    IN  [start |-> start,
         stop |-> Greatest({k \in inked(start, Len(letters)) :
                               Len(SelectSeq(SubSeq(letters, start, k),
                                             LAMBDA l : l.sign # Space)) <= Len(word)})]

(* One word after the other; a word that is not found follows the last. *)
WordTimes(text, letters, length) ==
    LET Timed(done, word) ==
            LET found == Matching(letters, done.at, word)
                place == PlaceOf(letters, Least(found), word)
                last == IF done.words = <<>> THEN 0 ELSE done.words[Len(done.words)].to
            IN  IF found # {}
                THEN [at |-> place.stop + 1,
                      words |-> Append(done.words, [from |-> letters[place.start].from,
                                                    to |-> letters[place.stop].to])]
                ELSE [at |-> done.at,
                      words |-> Append(done.words, [from |-> last,
                                                    to |-> last + (length \div Len(text))])]
    IN  FoldLeft(Timed, [at |-> 1, words |-> <<>>], text).words

(* n / d ms in hundredths of a second, rounded, one at least *)
Hundredths(n, d) == LET k == (n + 5 * d) \div (10 * d) IN IF k < 1 THEN 1 ELSE k

Apart(a, b) == IF a > b THEN a - b ELSE b - a

(* buildKaraokeASSFromTimestamps: all words together are to fill the sound. *)
Lit(text, words, length) ==
    LET sum == Together([i \in 1..Len(words) |-> Span(words[i])])
        scaled == sum > 0 /\ Apart(length, sum) > Tolerance
    IN  [i \in 1..Len(text) |->
            IF i > Len(words) THEN Hundredths(length, Len(text))
            ELSE IF scaled THEN Hundredths(Span(words[i]) * length, sum)
            ELSE Hundredths(Span(words[i]), 1)]

(* buildKaraokeASS, for a text without times: a share for each word, which is
   never below the least one; when there are no such shares it goes on for ever. *)
Shares(text, length) ==
    {share \in [1..Len(text) -> MinSlice..(length - MinSlice * (Len(text) - 1))] :
        Together(share) = length}

Highlights(text, timing, length) ==
    IF timing.words # <<>> THEN {Lit(text, timing.words, length)}
    ELSE IF timing.letters # <<>>
    THEN {Lit(text, WordTimes(text, timing.letters, timing.length), length)}
    ELSE {[i \in 1..Len(text) |-> Hundredths(share[i], 1)] : share \in Shares(text, timing.length)}

-----------------------------------------------------------------------------
(* The session and its edits *)

NoVoices == [b \in {} |-> Unset]

NoSync == [at |-> "idle", todo |-> {}, copy |-> Unset, take |-> Unset, stored |-> {}]

NoReel == [at |-> "idle", todo |-> {}, copy |-> Unset, heard |-> NoVoices]

(* "doubted" is history: prints whose stored speech this copy of the session may
   not describe, since more was stored, or two of its beats share it. *)
Fresh(lines) ==
    [lines |-> lines, captions |-> Unset, voices |-> NoVoices, state |-> "never_synced",
     stale |-> {}, print |-> Unset, doubted |-> {}]

NarrationInit ==
    /\ script \in {Fresh(lines) : lines \in [Beats -> Sentences]}
    /\ revision = Unset
    /\ sound = NoVoices
    /\ times = NoVoices
    /\ sync = NoSync
    /\ reel = NoReel
    /\ takes = 0
    /\ edits = 0

(* loadStorySession, of an edit *)
OpenScript ==
    /\ revision = Unset
    /\ edits < MaxEdits
    /\ revision' = script
    /\ edits' = edits + 1
    /\ UNCHANGED <<script, sound, times, sync, reel, takes>>

Edits(s) ==
    /\ revision # Unset
    /\ script' = s
    /\ revision' = Unset
    /\ UNCHANGED <<sound, times, sync, reel, takes, edits>>

(* updateBeatText *)
Rewrite(b, line) ==
    Edits(IF revision.state = "never_synced" THEN [revision EXCEPT !.lines[b] = line]
          ELSE [revision EXCEPT !.lines[b] = line, !.state = "stale", !.stale = @ \cup {b}])

(* resetVoiceSyncForNewScript, of generateStory: captions and narrations stay *)
Regenerate(lines) ==
    Edits([revision EXCEPT !.lines = lines, !.state = "never_synced", !.stale = {},
                         !.print = Unset])

(* updateStorySentences *)
NewScript(lines) == Edits([Fresh(lines) EXCEPT !.doubted = revision.doubted])

(* generateCaptionTimings *)
TimeCaptions == Edits([revision EXCEPT !.captions = revision.lines])

-----------------------------------------------------------------------------
(* syncStoryVoice *)

Targets(mode) ==
    IF mode = "full" \/ script.state = "never_synced" \/ script.stale = {} THEN Beats
    ELSE script.stale

(* Beats that are spoken anew: those that the sync is for, and those whose
   narration is of something else *)
Needed(mode) ==
    Targets(mode) \cup
        {b \in Beats : b \notin DOMAIN script.voices \/ script.voices[b].print # script.lines[b]}

(* buildStoryVoiceSyncPlan *)
SyncBegins(mode) ==
    /\ sync.at = "idle"
    /\ sync' = IF script.print = script.lines
               THEN [NoSync EXCEPT !.at = "cached", !.copy = script]
               ELSE [NoSync EXCEPT !.at = "asking", !.todo = Needed(mode), !.copy = script]
    /\ UNCHANGED <<script, revision, sound, times, reel, takes, edits>>

(* Nothing is spoken when the print of the story is the one it has. *)
SyncCached ==
    /\ sync.at = "cached"
    /\ script' = [sync.copy EXCEPT !.state = "current", !.stale = {}]
    /\ sync' = NoSync
    /\ UNCHANGED <<revision, sound, times, reel, takes, edits>>

Turn == Least(sync.todo)
Line == sync.copy.lines[Turn]

(* synthVoiceWithTimestamps: cooled down, no slot, or no answer *)
NoSpeech ==
    /\ sync.at = "asking" /\ sync.todo # {}
    /\ sync' = NoSync
    /\ UNCHANGED <<script, revision, sound, times, reel, takes, edits>>

(* synthVoiceWithTimestamps: sound, its length and what was told of its times *)
Speaks(pace, form) ==
    /\ sync.at = "asking" /\ sync.todo # {}
    /\ takes < MaxTakes
    /\ takes' = takes + 1
    /\ LET told == Timestamps(Answer(form, Line, pace))
       IN  sync' = [sync EXCEPT !.at = "sound",
               !.take = [line |-> Line,
                         length |-> Len(Signs(Spelled[Line])) * pace + Silence,
                         letters |-> told.letters, words |-> told.words]]
    /\ UNCHANGED <<script, revision, sound, times, reel, edits>>

(* Mutant: a sound that is stored already is not stored again. *)
StoredOnce(p, take) == IF p \in DOMAIN sound THEN sound[p] ELSE take

(* uploadPrivateLocalFile *)
Stored(p, take) == take

(* The sound is stored under its print, over what is there. *)
StoreSound ==
    /\ sync.at = "sound"
    /\ sound' = Put(sound, Line, Stored(Line, sync.take))
    /\ sync' = [sync EXCEPT !.at = "times", !.stored = @ \cup {Line}]
    /\ script' = [script EXCEPT !.doubted = @ \cup {Line}]
    /\ revision' = IF revision = Unset THEN Unset ELSE [revision EXCEPT !.doubted = @ \cup {Line}]
    /\ reel' = IF reel.at = "idle" THEN reel ELSE [reel EXCEPT !.copy.doubted = @ \cup {Line}]
    /\ UNCHANGED <<times, takes, edits>>

(* savePrivateObject, and the narration of the beat *)
StoreTimes ==
    /\ sync.at = "times"
    /\ times' = Put(times, Line, sync.take)
    /\ sync' = [sync EXCEPT !.at = "asking", !.todo = @ \ {Turn}, !.take = Unset,
                   !.copy.voices = Put(@, Turn, [print |-> Line, length |-> sync.take.length])]
    /\ UNCHANGED <<script, revision, sound, reel, takes, edits>>

SpokenTwice(s, p) ==
    \E b, c \in DOMAIN s.voices : b # c /\ s.voices[b].print = p /\ s.voices[c].print = p

(* The session as it was loaded, with the new narrations, replaces what is there. *)
SyncSaves ==
    /\ sync.at = "asking" /\ sync.todo = {}
    /\ script' = [sync.copy EXCEPT !.captions = sync.copy.lines, !.state = "current",
                      !.stale = {}, !.print = sync.copy.lines,
                      !.doubted = (@ \ sync.stored) \cup {p \in sync.stored : SpokenTwice(sync.copy, p)}]
    /\ sync' = NoSync
    /\ UNCHANGED <<revision, sound, times, reel, takes, edits>>

(* A step throws; or the process dies, and the lock of its attempt stays. *)
SyncStops ==
    /\ sync.at \in {"cached", "asking", "sound", "times"}
    /\ sync' \in {NoSync, [NoSync EXCEPT !.at = "dead"]}
    /\ UNCHANGED <<script, revision, sound, times, reel, takes, edits>>

-----------------------------------------------------------------------------
(* renderStory, as far as speech and captions go *)

FilmBegins ==
    /\ reel.at = "idle"
    /\ script.state = "current" /\ script.captions # Unset
    /\ reel' = [NoReel EXCEPT !.at = "fetching", !.todo = Beats, !.copy = script]
    /\ UNCHANGED <<script, revision, sound, times, sync, takes, edits>>

Scene == Least(reel.todo)
Spoken == reel.copy.voices[Scene].print

(* buildStoredRenderBeat: the sound of a beat, and then *)
FetchSound ==
    /\ reel.at = "fetching" /\ reel.todo # {}
    /\ Spoken \in DOMAIN sound
    /\ reel' = [reel EXCEPT !.at = "drawing", !.heard = Put(@, Scene, [sound |-> sound[Spoken]])]
    /\ UNCHANGED <<script, revision, sound, times, sync, takes, edits>>

(* its times, by which its words are lit *)
LightWords ==
    /\ reel.at = "drawing"
    /\ \E lit \in Highlights(reel.copy.captions[Scene], times[Spoken],
                             reel.heard[Scene].sound.length) :
           reel' = [reel EXCEPT !.at = "fetching", !.todo = @ \ {Scene},
               !.heard = Put(@, Scene, [sound |-> @[Scene].sound, timing |-> times[Spoken],
                                        lit |-> lit])]
    /\ UNCHANGED <<script, revision, sound, times, sync, takes, edits>>

(* Without shares the process does nothing else any more. *)
NeverLit ==
    /\ reel.at = "drawing"
    /\ Highlights(reel.copy.captions[Scene], times[Spoken], reel.heard[Scene].sound.length) = {}
    /\ reel' = [reel EXCEPT !.at = "hung"]
    /\ UNCHANGED <<script, revision, sound, times, sync, takes, edits>>

(* The session as it was loaded replaces what is there. *)
FilmSaves ==
    /\ reel.at = "fetching" /\ reel.todo = {}
    /\ script' = reel.copy
    /\ reel' = NoReel
    /\ UNCHANGED <<revision, sound, times, sync, takes, edits>>

(* A step throws or the process dies. *)
FilmStops ==
    /\ reel.at # "idle"
    /\ reel' = NoReel
    /\ UNCHANGED <<script, revision, sound, times, sync, takes, edits>>

-----------------------------------------------------------------------------
EditActs ==
    \/ OpenScript
    \/ \E b \in Beats, line \in Sentences : Rewrite(b, line)
    \/ \E lines \in [Beats -> Sentences] : Regenerate(lines) \/ NewScript(lines)
    \/ TimeCaptions

SyncActs ==
    \/ \E mode \in {"stale", "full"} : SyncBegins(mode)
    \/ SyncCached
    \/ NoSpeech
    \/ \E pace \in Paces, form \in Forms : Speaks(pace, form)
    \/ StoreSound \/ StoreTimes \/ SyncSaves \/ SyncStops

FilmActs == FilmBegins \/ FetchSound \/ LightWords \/ NeverLit \/ FilmSaves \/ FilmStops

NarrationNext == EditActs \/ SyncActs \/ FilmActs

NarrationSpec == NarrationInit /\ [][NarrationNext]_narrationVars

-----------------------------------------------------------------------------
(* Properties *)

(* A current session has a narration of each of its sentences. *)
Voiced(s) ==
    s.state = "current" =>
        DOMAIN s.voices = Beats /\ \A b \in Beats : s.voices[b].print = s.lines[b]

(* What a copy of the session says of a beat's speech is what is stored. *)
Described(s, b, doubted) ==
    LET p == s.voices[b].print
    IN  /\ p \in DOMAIN sound /\ p \in DOMAIN times
        /\ p \notin doubted => sound[p] = times[p] /\ sound[p].length = s.voices[b].length

(* What is stored of the narrations of a session is of one take, as long as the
   session has it, unless a sync has stored another and not saved, two beats share
   it, or a copy was saved that is older than what is stored.  A film hears the
   sentences that it was begun with, each as long as it plays it, and lights the words
   by the times of what is heard, but for prints that are stored meanwhile. *)
VoiceAsTimed ==
    /\ Voiced(script)
    /\ \A b \in DOMAIN script.voices : Described(script, b, script.doubted)
    /\ \A b \in DOMAIN reel.heard :
           LET h == reel.heard[b]
               v == reel.copy.voices[b]
           IN  /\ h.sound.line = reel.copy.lines[b]
               /\ v.print \notin reel.copy.doubted =>
                      /\ h.sound.length = v.length
                      /\ "timing" \in DOMAIN h => h.timing = h.sound

(* Times of exactly the letters of a text, and what they give each word *)
Exact(text, letters) == [i \in 1..Len(letters) |-> letters[i].sign] = Signs(text)

OwnSpan(text, letters, n) ==
    letters[StartOf(text, n) + Len(text[n]) - 1].to - letters[StartOf(text, n)].from

(* Words that are lit by the times of the sound that is heard: each is waited for,
   and all together as long as the sound lasts, but for the tolerance and half a
   hundredth for each.  When the times are those of the letters of the caption, each
   word has its share of the sound by its own letters, however words repeat, begin
   like or lie within one another. *)
HighlightsFit ==
    \A b \in DOMAIN reel.heard : "lit" \in DOMAIN reel.heard[b] =>
        LET h == reel.heard[b]
            text == reel.copy.captions[b]
            letters == h.timing.letters
            sum == Together([n \in 1..Len(text) |-> OwnSpan(text, letters, n)])
        IN  h.timing = h.sound =>
            /\ Len(h.lit) = Len(text)
            /\ \A n \in 1..Len(text) : h.lit[n] >= 1
            /\ h.timing.line = text =>
                   Apart(10 * Together(h.lit), h.sound.length) <= Tolerance + 5 * Len(text)
            /\ letters # <<>> /\ Exact(text, letters) =>
                   \A n \in 1..Len(text) :
                       LET own == OwnSpan(text, letters, n)
                       IN  IF Apart(h.sound.length, sum) > Tolerance
                           THEN Apart(10 * h.lit[n] * sum, own * h.sound.length) <= 5 * sum
                           ELSE Apart(10 * h.lit[n], own) <= 5
=============================================================================
