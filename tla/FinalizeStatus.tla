--------------------------- MODULE FinalizeStatus ---------------------------
(***************************************************************************)
(* What a caller is told of the finalize attempts of one session: by       *)
(* GET /api/story/:sessionId, and by the answer to POST /api/story/finalize *)
(* for a new key or one that was used before.                              *)
(*                                                                         *)
(* An attempt document moves from pending to done or failed (module        *)
(* FinalizeAttempts says how).  Beside it the session carries a note,      *)
(* renderRecovery, which API, worker and reaper write at moments of their  *)
(* own and which every handler that saves the session writes back.  An     *)
(* answer is composed of several reads (finalize-status.service.js).       *)
(***************************************************************************)
EXTENDS Naturals, Sequences

CONSTANTS
    FinalizeKeys, \* X-Idempotency-Keys of the requests for the session
    Askers,       \* requests the API serves at the same time
    Copiers,      \* other handlers that load the session and save it whole
    Nil           \* null

ASSUME NilIsNoKey == Nil \notin FinalizeKeys

VARIABLES
    job,      \* attempt documents: what state their projection has
    born,     \* their order by createdAt
    render,   \* where runAttempt stands for each of them
    reaped,   \* attempts the reaper has failed and not yet noted in the session
    note,     \* session.renderRecovery
    copying,  \* the copy of it another handler will save again, if it has one
    asker     \* where each request stands

statusVars == <<job, born, render, reaped, note, copying, asker>>

Ended == {"done", "failed"}
Note == [key : FinalizeKeys, state : Ended \cup {"pending"}]
NoteOf(k, state) == [key |-> k, state |-> state]

(* Exactly the pending attempt holds the lock of the session (SessionLockExact
   of FinalizeAttempts): admission and both endings write the two together. *)
LockHolder ==
    IF \E k \in FinalizeKeys : job[k] = "pending"
    THEN CHOOSE k \in FinalizeKeys : job[k] = "pending"
    ELSE Nil

NotAsking == [pc |-> "idle"]

(* A request remembers how things stood when it came in ("since", history),
   the key it names, the note of the session it has loaded, and what its reads
   have found. *)
Arrived(pc, k) ==
    [pc |-> pc, since |-> job, asked |-> k, copy |-> note, found |-> Nil]

Told(a, k, state) ==
    [pc |-> "told", since |-> a.since, asked |-> a.asked, about |-> k, says |-> state]

-----------------------------------------------------------------------------
(* GET /api/story/:sessionId loads the session; GET and POST then resolve the
   attempt: from the lock, from the session's note, as the latest there is. *)

AskStatus(p) ==
    /\ asker[p].pc = "idle"
    /\ asker' = [asker EXCEPT ![p] = Arrived("lock", Nil)]
    /\ UNCHANGED <<job, born, render, reaped, note, copying>>

(* Mutant: the lock is not looked at. *)
HintFirst(p) ==
    /\ asker[p].pc = "lock"
    /\ asker' = [asker EXCEPT ![p].pc = "hint"]
    /\ UNCHANGED <<job, born, render, reaped, note, copying>>

ReadLock(p) ==
    /\ asker[p].pc = "lock"
    /\ asker' = [asker EXCEPT ![p].pc = IF LockHolder = Nil THEN "hint" ELSE "attempt",
                              ![p].found = LockHolder]
    /\ UNCHANGED <<job, born, render, reaped, note, copying>>

(* The attempt of the lock counts only while it is active. *)
ReadLocked(p) ==
    /\ asker[p].pc = "attempt"
    /\ asker' = [asker EXCEPT ![p] =
           IF job[@.found] = "pending" THEN Told(@, @.found, "pending")
                                       ELSE [@ EXCEPT !.pc = "hint"]]
    /\ UNCHANGED <<job, born, render, reaped, note, copying>>

(* Mutant: the state is the session's. *)
BelieveSession(p) ==
    /\ asker[p].pc = "hint"
    /\ asker' = [asker EXCEPT ![p] =
           IF @.copy = Nil THEN [@ EXCEPT !.pc = "latest"]
                           ELSE Told(@, @.copy.key, @.copy.state)]
    /\ UNCHANGED <<job, born, render, reaped, note, copying>>

(* The session says which attempt, the attempt says how it stands. *)
ReadHinted(p) ==
    /\ asker[p].pc = "hint"
    /\ asker' = [asker EXCEPT ![p] =
           IF @.copy = Nil THEN [@ EXCEPT !.pc = "latest"]
                           ELSE Told(@, @.copy.key, job[@.copy.key])]
    /\ UNCHANGED <<job, born, render, reaped, note, copying>>

(* Without any attempt the answer is what the session says: nothing. *)
ReadLatest(p) ==
    /\ asker[p].pc = "latest"
    /\ asker' = [asker EXCEPT ![p] =
           IF born = <<>> THEN Told(@, Nil, "none")
                          ELSE Told(@, born[Len(born)], job[born[Len(born)]])]
    /\ UNCHANGED <<job, born, render, reaped, note, copying>>

(* The answer is sent; or a call throws, the backlog is full, the process dies. *)
Leave(p) ==
    /\ asker[p].pc # "idle"
    /\ asker' = [asker EXCEPT ![p] = NotAsking]
    /\ UNCHANGED <<job, born, render, reaped, note, copying>>

-----------------------------------------------------------------------------
(* POST /api/story/finalize *)

(* What prepareFinalizeAttempt does with a key it knows: a failure is replayed
   from the attempt, otherwise the session is loaded for the answer. *)
Known(a, k) ==
    IF job[k] = "failed" THEN Told(a, k, "failed") ELSE [a EXCEPT !.pc = "replay"]

AskFinalize(p, k) ==
    /\ asker[p].pc = "idle"
    /\ asker' = [asker EXCEPT ![p] =
           IF job[k] = "none" THEN Arrived("admit", k) ELSE Known(Arrived("replay", k), k)]
    /\ UNCHANGED <<job, born, render, reaped, note, copying>>

(* The transaction of admission finds its key after all, or another attempt
   active; else it enqueues one. *)
Admit(p) ==
    /\ asker[p].pc = "admit"
    /\ LET k == asker[p].asked
       IN  IF job[k] # "none"
           THEN /\ asker' = [asker EXCEPT ![p] = Known(@, k)]
                /\ UNCHANGED <<job, born>>
           ELSE IF LockHolder # Nil
           THEN /\ asker' = [asker EXCEPT ![p] = Told(@, LockHolder, "pending")]
                /\ UNCHANGED <<job, born>>
           ELSE /\ job' = [job EXCEPT ![k] = "pending"]
                /\ born' = Append(born, k)
                /\ asker' = [asker EXCEPT ![p].pc = "project"]
    /\ UNCHANGED <<render, reaped, note, copying>>

(* persistStoryRenderRecovery; the session it saved is the one answered with. *)
ProjectPending(p) ==
    /\ asker[p].pc = "project"
    /\ note' = NoteOf(asker[p].asked, "pending")
    /\ asker' = [asker EXCEPT ![p].pc = "lock", ![p].copy = note']
    /\ UNCHANGED <<job, born, render, reaped, copying>>

LoadReplay(p) ==
    /\ asker[p].pc = "replay"
    /\ asker' = [asker EXCEPT ![p].pc = "lock", ![p].copy = note]
    /\ UNCHANGED <<job, born, render, reaped, note, copying>>

-----------------------------------------------------------------------------
(* runAttempt and finalizeStory, as far as they write the note or the attempt *)

Step(k, from, to) == render[k] = from /\ render' = [render EXCEPT ![k] = to]

Notes(k, state) == note' = NoteOf(k, state)

ClaimJob(k) ==
    /\ job[k] = "pending"
    /\ Step(k, "queued", "claimed")
    /\ UNCHANGED <<job, born, reaped, note, copying, asker>>

NotePending(k) ==
    /\ Step(k, "claimed", "rendering")
    /\ Notes(k, "pending")
    /\ UNCHANGED <<job, born, reaped, copying, asker>>

NoteDone(k) ==
    /\ Step(k, "rendering", "settling")
    /\ Notes(k, "done")
    /\ UNCHANGED <<job, born, reaped, copying, asker>>

(* The render finds no slot, or anything throws. *)
NoRenderSlot(k) ==
    /\ Step(k, "rendering", "busy")
    /\ UNCHANGED <<job, born, reaped, note, copying, asker>>

RenderThrows(k) ==
    /\ render[k] \in {"claimed", "rendering", "settling"}
    /\ render' = [render EXCEPT ![k] = "failing"]
    /\ UNCHANGED <<job, born, reaped, note, copying, asker>>

(* A failure is noted by finalizeStory, also that of a job that will be tried
   again, and by runAttempt; a write that throws is only logged. *)
NoteFailed(k) ==
    /\ render[k] \in {"busy", "failing"}
    /\ Notes(k, "failed")
    /\ UNCHANGED <<job, born, render, reaped, copying, asker>>

(* The transactions: each only touches a job that is still active. *)
Requeue(k) ==
    /\ Step(k, "busy", IF job[k] = "pending" THEN "queued" ELSE "gone")
    /\ UNCHANGED <<job, born, reaped, note, copying, asker>>

EndJob(k, from, state) ==
    /\ Step(k, from, "gone")
    /\ job' = IF job[k] = "pending" THEN [job EXCEPT ![k] = state] ELSE job
    /\ UNCHANGED <<born, reaped, note, copying, asker>>

WorkerDies(k) ==
    /\ render[k] \notin {"queued", "gone"}
    /\ render' = [render EXCEPT ![k] = "gone"]
    /\ UNCHANGED <<job, born, reaped, note, copying, asker>>

(* reapStaleFinalizeAttempts: its lease or its time in the queue has run out,
   while a worker that is only slow goes on. *)
ReapJob(k) ==
    /\ job[k] = "pending"
    /\ job' = [job EXCEPT ![k] = "failed"]
    /\ reaped' = reaped \cup {k}
    /\ UNCHANGED <<born, render, note, copying, asker>>

NoteReaped(k) ==
    /\ k \in reaped
    /\ reaped' = reaped \ {k}
    /\ Notes(k, "failed") \/ UNCHANGED note
    /\ UNCHANGED <<job, born, render, copying, asker>>

-----------------------------------------------------------------------------
(* Any other handler of the session *)

CopyNote(e) ==
    /\ copying[e] = <<>>
    /\ copying' = [copying EXCEPT ![e] = <<note>>]
    /\ UNCHANGED <<job, born, render, reaped, note, asker>>

SaveCopy(e) ==
    /\ copying[e] # <<>>
    /\ note' = copying[e][1]
    /\ copying' = [copying EXCEPT ![e] = <<>>]
    /\ UNCHANGED <<job, born, render, reaped, asker>>

-----------------------------------------------------------------------------
StatusInit ==
    /\ job = [k \in FinalizeKeys |-> "none"]
    /\ born = <<>>
    /\ render = [k \in FinalizeKeys |-> "queued"]
    /\ reaped = {}
    /\ note = Nil
    /\ copying = [e \in Copiers |-> <<>>]
    /\ asker = [p \in Askers |-> NotAsking]

AskerStep(p) ==
    \/ AskStatus(p)
    \/ ReadLock(p)
    \/ ReadLocked(p)
    \/ ReadHinted(p)
    \/ ReadLatest(p)
    \/ \E k \in FinalizeKeys : AskFinalize(p, k)
    \/ Admit(p)
    \/ ProjectPending(p)
    \/ LoadReplay(p)
    \/ Leave(p)

JobStep(k) ==
    \/ ClaimJob(k)
    \/ NotePending(k)
    \/ NoteDone(k)
    \/ NoRenderSlot(k)
    \/ RenderThrows(k)
    \/ NoteFailed(k)
    \/ Requeue(k)
    \/ EndJob(k, "settling", "done")
    \/ EndJob(k, "failing", "failed")
    \/ WorkerDies(k)
    \/ ReapJob(k)
    \/ NoteReaped(k)

StatusNext ==
    \/ \E p \in Askers : AskerStep(p)
    \/ \E k \in FinalizeKeys : JobStep(k)
    \/ \E e \in Copiers : CopyNote(e) \/ SaveCopy(e)

StatusSpec == StatusInit /\ [][StatusNext]_statusVars

-----------------------------------------------------------------------------
StatusTypeOK ==
    /\ job \in [FinalizeKeys -> Ended \cup {"none", "pending"}]
    /\ born \in Seq(FinalizeKeys)
    /\ render \in [FinalizeKeys -> {"queued", "claimed", "rendering", "settling",
                                    "busy", "failing", "gone"}]
    /\ reaped \subseteq FinalizeKeys
    /\ note \in Note \cup {Nil}
    /\ copying \in [Copiers -> {<<>>} \cup {<<n>> : n \in Note \cup {Nil}}]
    /\ \A p \in Askers : asker[p].pc \in {"idle", "admit", "project", "replay", "lock",
                                          "attempt", "hint", "latest", "told"}

Answers == {asker[p] : p \in {q \in Askers : asker[q].pc = "told"}}

(* How far an attempt with this state has come *)
Progress(state) == CASE state = "none" -> 0 [] state = "pending" -> 1 [] OTHER -> 2

(* "Replay and GET cannot drift for the same attempt": whatever the notes and
   copies of the session say meanwhile, an answer about an attempt gives a state
   that attempt really had between the request and its answer; that there is
   none is told only if there was none when the request came in. *)
ToldWasSo ==
    \A a \in Answers :
        IF a.about = Nil
        THEN \A k \in FinalizeKeys : a.since[k] = "none"
        ELSE /\ Progress(a.since[a.about]) <= Progress(a.says)
             /\ Progress(a.says) <= Progress(job[a.about])
             /\ a.says \in Ended => job[a.about] = a.says

(* While an attempt runs, from before a request came in until it is answered,
   the answer is about that attempt, or about the one the request named. *)
RunningIsTold ==
    \A a \in Answers, k \in FinalizeKeys :
        a.since[k] = "pending" /\ job[k] = "pending" => a.about \in {k, a.asked}

StatusIsTrue == ToldWasSo /\ RunningIsTold

(* Not so in the code, and checked by no run: who has been told of an attempt
   is not told of an older one later.  A note of the older attempt that is
   written late, by the reaper or with a copy of the session, is what the
   answers follow once nothing is active. *)
Place(k) == CHOOSE i \in 1..Len(born) : born[i] = k

NoWayBack ==
    [][\A p \in Askers :
          asker'[p].pc = "told" /\ asker'[p].about # Nil /\ asker'[p].asked = Nil =>
              \A k \in FinalizeKeys :
                  asker'[p].since[k] \in Ended => Place(asker'[p].about) >= Place(k)]_statusVars
=============================================================================
