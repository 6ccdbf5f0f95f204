------------------------------ MODULE StorySync ------------------------------
(***************************************************************************)
(* Voice sync: POST /api/story/sync reserves render time, generates the    *)
(* narration of a story, saves it with the whole session document and      *)
(* settles what it generated, all inside one HTTP request                  *)
(* (story-sync.attempts.js and the /sync route).                           *)
(*                                                                         *)
(* One account.  A story is its current text, its voice state and the text *)
(* its stored narration was generated for (currentFingerprint).  Every     *)
(* read, write and transaction of the request is a step of its own; other  *)
(* requests that edit the story load and save the whole document, too.     *)
(***************************************************************************)
EXTENDS Integers, FiniteSets, Totals

CONSTANTS
    SyncKeys,      \* values of X-Idempotency-Key
    Stories,       \* story sessions of the account
    Requests,      \* /sync requests in flight
    StoryEditors,  \* other requests that change a story
    Texts,         \* versions of a script
    SyncEstimates, \* what a plan may estimate, ms
    SyncCharges,   \* half of what the generated narration may last, ms
    SyncReaders,   \* GET usage requests in flight
    Included,      \* cycleIncludedSec of the plan, ms
    Null           \* null

ASSUME SyncAmounts == /\ SyncEstimates \subseteq Nat
                      /\ SyncCharges \subseteq Nat
                      /\ Included \in Nat
ASSUME NullIsNothing == Null \notin SyncKeys \cup Texts \cup Stories

VARIABLES
    story,      \* story.json: text, voiceSync.state, currentFingerprint
    attempt,    \* storySyncAttempts
    syncLock,   \* storySyncSessions: the attempt that holds a session
    request,    \* where each /sync request stands
    opened,     \* the copy of a story another request is changing
    ledger,     \* the account's used and reserved time
    rendering,  \* what finalize attempts have reserved of it
    report      \* the ledger each usage summary has read and will write back

syncVars == <<story, attempt, syncLock, request, opened, ledger, rendering, report>>

VoiceStates == {"never_synced", "stale", "current"}
Story == [text : Texts, voice : VoiceStates, synced : Texts \cup {Null}]
Modes == {"stale", "full"}
Scopes == {"beat", "full"}

(* requestFingerprint: what the plan of a request was made for *)
PlanPrint == [story : Stories, mode : Modes, text : Texts, scope : Scopes]

(* "owed" is history: half of the narration the attempt generated and saved *)
SyncAttempt == [story : Stories, reserved : SyncEstimates \cup {0},
                state : {"running", "done", "failed"},
                billed : SyncCharges \cup {0}, owed : SyncCharges \cup {0}]

LedgerType == [used : Nat, reserved : Nat]

ASSUME NullIsNoRecord == Null \notin SyncAttempt \cup [story : Stories, copy : Story] \cup LedgerType

IdleSync == [pc |-> "idle"]
Planned == [pc : {"planned"}, key : SyncKeys, print : PlanPrint, estimate : SyncEstimates \cup {0}]
Started == [pc : {"started"}, key : SyncKeys, print : PlanPrint]
Syncing == [pc : {"syncing"}, key : SyncKeys, copy : Story]
Saved == [pc : {"saved"}, key : SyncKeys, bill : SyncCharges \cup {0}]
Failing == [pc : {"failing"}, key : SyncKeys]

-----------------------------------------------------------------------------
(* The plan of a sync *)

(* The stored narration is that of the current text: nothing to generate. *)
Matches(st) == st.synced = st.text

(* Stale beats only, unless everything is asked for or nothing is known. *)
ScopeOf(st, mode) ==
    IF mode = "full" \/ st.voice # "stale" THEN "full" ELSE "beat"

PrintOf(s, mode) ==
    [story |-> s, mode |-> mode, text |-> story[s].text, scope |-> ScopeOf(story[s], mode)]

EstimatesOf(st) == IF Matches(st) THEN {0} ELSE SyncEstimates

BillsOf(st) == IF Matches(st) THEN {0} ELSE SyncCharges

-----------------------------------------------------------------------------
(* The ledger *)

SyncAtLeastZero(n) == IF n < 0 THEN 0 ELSE n

(* Mutant: what renders hold is not taken off. *)
AvailableBesideRenders == SyncAtLeastZero(Included - ledger.used - (ledger.reserved - rendering))

SyncAvailable == SyncAtLeastZero(Included - ledger.used - ledger.reserved)

SyncDelta(used, reserved) ==
    [used |-> SyncAtLeastZero(ledger.used + used),
     reserved |-> SyncAtLeastZero(ledger.reserved + reserved)]

-----------------------------------------------------------------------------
(* prepareStorySyncAttempt *)

Running(k) == attempt[k] # Null /\ attempt[k].state = "running"

(* buildStoryVoiceSyncPlan before admission *)
Preflight(c, k, s, mode) ==
    /\ request[c].pc = "idle"
    /\ \E e \in EstimatesOf(story[s]) :
           request' = [request EXCEPT ![c] =
               [pc |-> "planned", key |-> k, print |-> PrintOf(s, mode), estimate |-> e]]
    /\ UNCHANGED <<story, attempt, syncLock, opened, ledger, rendering, report>>

(* Mutant: the lock is not looked at. *)
HeldByNobody(s) == s \notin Stories

(* The lock of a session counts while the attempt it names is running. *)
HeldByOther(s) == syncLock[s] # Null /\ Running(syncLock[s])

MayStart(c) ==
    /\ request[c].pc = "planned"
    /\ attempt[request[c].key] = Null
    /\ ~HeldByOther(request[c].print.story)
    /\ SyncAvailable >= request[c].estimate

(* The request is answered without an attempt of its own: a replay of its
   key, a sync that is already active, or not enough time. *)
AnswerPrepared(c) ==
    /\ request[c].pc = "planned"
    /\ ~MayStart(c)
    /\ request' = [request EXCEPT ![c] = IdleSync]
    /\ UNCHANGED <<story, attempt, syncLock, opened, ledger, rendering, report>>

StartSync(c) ==
    /\ MayStart(c)
    /\ LET r == request[c]
       IN  /\ attempt' = [attempt EXCEPT ![r.key] =
                  [story |-> r.print.story, reserved |-> r.estimate,
                   state |-> "running", billed |-> 0, owed |-> 0]]
           /\ syncLock' = [syncLock EXCEPT ![r.print.story] = r.key]
           /\ ledger' = SyncDelta(0, r.estimate)
           /\ request' = [request EXCEPT ![c] =
                  [pc |-> "started", key |-> r.key, print |-> r.print]]
    /\ UNCHANGED <<story, opened, rendering, report>>

-----------------------------------------------------------------------------
(* The request after admission *)

(* The plan is made again; a session that has changed since ends the attempt. *)
Refresh(c) ==
    /\ request[c].pc = "started"
    /\ LET r == request[c]
       IN  IF PrintOf(r.print.story, r.print.mode) = r.print
           THEN request' = [request EXCEPT ![c] =
                    [pc |-> "syncing", key |-> r.key, copy |-> story[r.print.story]]]
           ELSE request' = [request EXCEPT ![c] = [pc |-> "failing", key |-> r.key]]
    /\ UNCHANGED <<story, attempt, syncLock, opened, ledger, rendering, report>>

(* syncStoryVoice has generated what was missing, from the session loaded when
   the plan was refreshed, and saves that session: over whatever it is now. *)
SaveNarration(c) ==
    /\ request[c].pc = "syncing"
    /\ LET r == request[c]
       IN  \E bill \in BillsOf(r.copy) :
               /\ story' = [story EXCEPT ![attempt[r.key].story] =
                      [r.copy EXCEPT !.voice = "current", !.synced = r.copy.text]]
               /\ attempt' = [attempt EXCEPT ![r.key].owed = bill]
               /\ request' = [request EXCEPT ![c] =
                      [pc |-> "saved", key |-> r.key, bill |-> bill]]
    /\ UNCHANGED <<syncLock, opened, ledger, rendering, report>>

(* A provider, an upload or the refresh throws. *)
SyncThrows(c) ==
    /\ request[c].pc \in {"started", "syncing"}
    /\ request' = [request EXCEPT ![c] = [pc |-> "failing", key |-> request[c].key]]
    /\ UNCHANGED <<story, attempt, syncLock, opened, ledger, rendering, report>>

(* The attempt is this request's own and nothing else ends it, so it is still
   running; what it bills is not capped by what it reserved. *)
SettleSync(c) ==
    /\ request[c].pc = "saved"
    /\ LET k == request[c].key
       IN  /\ Running(k)
           /\ ledger' = SyncDelta(request[c].bill, -attempt[k].reserved)
           /\ attempt' = [attempt EXCEPT ![k].state = "done", ![k].billed = request[c].bill]
           /\ syncLock' = [syncLock EXCEPT ![attempt[k].story] = Null]
    /\ request' = [request EXCEPT ![c] = IdleSync]
    /\ UNCHANGED <<story, opened, rendering, report>>

(* The settlement throws: the session is saved, and the attempt fails. *)
SettleThrows(c) ==
    /\ request[c].pc = "saved"
    /\ request' = [request EXCEPT ![c] = [pc |-> "failing", key |-> request[c].key]]
    /\ UNCHANGED <<story, attempt, syncLock, opened, ledger, rendering, report>>

FailSync(c) ==
    /\ request[c].pc = "failing"
    /\ LET k == request[c].key
       IN  IF Running(k)
           THEN /\ ledger' = SyncDelta(0, -attempt[k].reserved)
                /\ attempt' = [attempt EXCEPT ![k].state = "failed"]
                /\ syncLock' = [syncLock EXCEPT ![attempt[k].story] = Null]
           ELSE UNCHANGED <<ledger, attempt, syncLock>>
    /\ request' = [request EXCEPT ![c] = IdleSync]
    /\ UNCHANGED <<story, opened, rendering, report>>

(* The process dies, or the failure transaction throws and is swallowed: the
   attempt stays running, and nothing reaps it. *)
RequestLost(c) ==
    /\ request[c].pc # "idle"
    /\ request' = [request EXCEPT ![c] = IdleSync]
    /\ UNCHANGED <<story, attempt, syncLock, opened, ledger, rendering, report>>

-----------------------------------------------------------------------------
(* What else touches the story and the account *)

OpenStory(e, s) ==
    /\ opened[e] = Null
    /\ opened' = [opened EXCEPT ![e] = [story |-> s, copy |-> story[s]]]
    /\ UNCHANGED <<story, attempt, syncLock, request, ledger, rendering, report>>

(* markVoiceSyncStale: the fingerprint of the stored narration stays. *)
ReviseStory(e, t) ==
    /\ opened[e] # Null
    /\ LET old == opened[e].copy
       IN  story' = [story EXCEPT ![opened[e].story] =
               [old EXCEPT !.text = t,
                           !.voice = IF @ = "never_synced" \/ t = old.text THEN @ ELSE "stale"]]
    /\ opened' = [opened EXCEPT ![e] = Null]
    /\ UNCHANGED <<attempt, syncLock, request, ledger, rendering, report>>

(* resetVoiceSyncForNewScript *)
ReplaceScript(e, t) ==
    /\ opened[e] # Null
    /\ story' = [story EXCEPT ![opened[e].story] =
           [text |-> t, voice |-> "never_synced", synced |-> Null]]
    /\ opened' = [opened EXCEPT ![e] = Null]
    /\ UNCHANGED <<attempt, syncLock, request, ledger, rendering, report>>

(* A finalize attempt of the account reserves, or gives back, time. *)
RenderReserves(n) ==
    /\ SyncAvailable >= n
    /\ ledger' = SyncDelta(0, n)
    /\ rendering' = rendering + n
    /\ UNCHANGED <<story, attempt, syncLock, request, opened, report>>

RenderEnds(used) ==
    /\ rendering > 0
    /\ used <= rendering
    /\ ledger' = SyncDelta(used, -rendering)
    /\ rendering' = 0
    /\ UNCHANGED <<story, attempt, syncLock, request, opened, report>>

(* A renewal opens a period; reservations are carried over. *)
NewPeriod ==
    /\ ledger.used > 0
    /\ ledger' = [ledger EXCEPT !.used = 0]
    /\ UNCHANGED <<story, attempt, syncLock, request, opened, rendering, report>>

(* ensureCanonicalUsageState reads the ledger and, outside a transaction,
   writes back what it has read. *)
ReadLedger(q) ==
    /\ report[q] = Null
    /\ report' = [report EXCEPT ![q] = ledger]
    /\ UNCHANGED <<story, attempt, syncLock, request, opened, ledger, rendering>>

WriteLedger(q) ==
    /\ report[q] # Null
    /\ ledger' = report[q]
    /\ report' = [report EXCEPT ![q] = Null]
    /\ UNCHANGED <<story, attempt, syncLock, request, opened, rendering>>

-----------------------------------------------------------------------------
SyncInit ==
    /\ story \in [Stories -> {[text |-> t, voice |-> "never_synced", synced |-> Null] : t \in Texts}]
    /\ attempt = [k \in SyncKeys |-> Null]
    /\ syncLock = [s \in Stories |-> Null]
    /\ request = [c \in Requests |-> IdleSync]
    /\ opened = [e \in StoryEditors |-> Null]
    /\ ledger = [used |-> 0, reserved |-> 0]
    /\ rendering = 0
    /\ report = [q \in SyncReaders |-> Null]

RequestStep(c) ==
    \/ \E k \in SyncKeys, s \in Stories, mode \in Modes : Preflight(c, k, s, mode)
    \/ AnswerPrepared(c)
    \/ StartSync(c)
    \/ Refresh(c)
    \/ SaveNarration(c)
    \/ SyncThrows(c)
    \/ SettleSync(c)
    \/ SettleThrows(c)
    \/ FailSync(c)
    \/ RequestLost(c)

EditorStep(e) ==
    \/ \E s \in Stories : OpenStory(e, s)
    \/ \E t \in Texts : ReviseStory(e, t) \/ ReplaceScript(e, t)

AccountStep ==
    \/ \E n \in SyncEstimates : rendering = 0 /\ RenderReserves(n)
    \/ \E n \in 0..rendering : RenderEnds(n)
    \/ NewPeriod
    \/ \E q \in SyncReaders : ReadLedger(q) \/ WriteLedger(q)

SyncNext ==
    \/ \E c \in Requests : RequestStep(c)
    \/ \E e \in StoryEditors : EditorStep(e)
    \/ AccountStep

SyncSpec == SyncInit /\ [][SyncNext]_syncVars

-----------------------------------------------------------------------------
(* Properties *)

(* Every variable keeps its type. *)
SyncTypeOK ==
    /\ story \in [Stories -> Story]
    /\ attempt \in [SyncKeys -> SyncAttempt \cup {Null}]
    /\ syncLock \in [Stories -> SyncKeys \cup {Null}]
    /\ request \in [Requests -> {IdleSync} \cup Planned \cup Started \cup Syncing \cup Saved \cup Failing]
    /\ opened \in [StoryEditors -> [story : Stories, copy : Story] \cup {Null}]
    /\ ledger \in LedgerType
    /\ rendering \in Nat
    /\ report \in [SyncReaders -> LedgerType \cup {Null}]

(* A running attempt holds the lock of its session, and a lock names a running
   attempt of that session: however requests fail, die or answer replays, no
   two syncs generate narration for one session at once. *)
SyncLockExact ==
    /\ \A k \in SyncKeys : Running(k) => syncLock[attempt[k].story] = k
    /\ \A s \in Stories : syncLock[s] # Null =>
           Running(syncLock[s]) /\ attempt[syncLock[s]].story = s

(* What running syncs and renders hold, and how far the ledger is from it *)
SyncHeld ==
    rendering + Total([k \in SyncKeys |-> attempt[k].reserved], {k \in SyncKeys : Running(k)})

SyncDrift == ledger.reserved - SyncHeld

(* The step in which a usage summary puts back the ledger it has read. *)
LedgerWrittenBack ==
    \E q \in SyncReaders : report[q] # Null /\ report'[q] = Null /\ ledger' = report[q]

(* The reserved time of the account balances with what running syncs and renders
   hold: a lost request keeps its reservation, and no other path keeps or loses
   one.  A usage summary that puts an outdated ledger back takes it out of
   balance; what is missing after that shrinks as time is given back that the
   ledger no longer has. *)
SyncReservationsBalance ==
    \/ UNCHANGED <<attempt, ledger, rendering>>
    \/ LedgerWrittenBack
    \/ SyncDrift' = SyncDrift
    \/ SyncDrift < SyncDrift' /\ SyncDrift' <= 0

(* Syncs are exact, whatever requests do with them: every step leaves a session's
   lock with the one that runs for it, and moves what is reserved with those that
   run. *)
SyncsExact == [][SyncLockExact' /\ SyncReservationsBalance]_syncVars

(* The account goes beyond its plan only when a sync is settled for more than
   its plan had estimated, or by what a usage summary has erased before, or as
   the summary puts back what was used in an earlier period: no admission,
   replay or failure overdraws it. *)
SyncTaken == ledger.used + ledger.reserved

Underestimated(k) ==
    /\ Running(k)
    /\ attempt'[k].state = "done"
    /\ attempt'[k].billed > attempt[k].reserved

OverdraftOnlyByUnderestimate ==
    [][SyncTaken' > SyncTaken /\ SyncTaken' > Included =>
          \/ \E k \in SyncKeys : Underestimated(k)
          \/ SyncTaken' <= SyncTaken - SyncDrift
          \/ LedgerWrittenBack]_syncVars

(* "POST /api/story/sync charges 50% of the narration duration generated in that
   sync operation": no failed sync, which charges nothing, has left the
   narration it generated in the session. *)
GeneratedIsCharged ==
    \A k \in SyncKeys : attempt[k] # Null /\ attempt[k].state = "failed" => attempt[k].owed = 0
=============================================================================
