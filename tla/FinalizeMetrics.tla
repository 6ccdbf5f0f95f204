--------------------------- MODULE FinalizeMetrics ---------------------------
(***************************************************************************)
(* What is counted of finalize requests and jobs.                          *)
(*                                                                         *)
(* A request, a job and its end are recorded in one step and told in       *)
(* another, by an event that increments a counter.  Between the two a call *)
(* can throw and a process can die, and a job can have several who end it: *)
(* the task that executes it, the reaper, and the request that made it and *)
(* then found no session to note it in.                                    *)
(*                                                                         *)
(* Leases, reservations and sessions are abstracted: a lease may have run  *)
(* out and a session be gone at any time.  They are in FinalizeAttempts.   *)
(***************************************************************************)
EXTENDS Naturals, FiniteSets

CONSTANTS
    Asked,      \* finalize requests
    Hands,      \* places for a task in the workers' processes
    Sweepers,   \* reapers
    Machines,   \* processes of the API and of workers
    MachineOf,  \* the process each of them runs in
    JobKeys,    \* idempotency keys, each of them one job
    MaxRuns,    \* bound of the model: claims of one job
    Nobody      \* null

Threads == Asked \cup Hands \cup Sweepers

ASSUME ThreadsApart ==
    /\ Asked \cap Hands = {} /\ Asked \cap Sweepers = {} /\ Hands \cap Sweepers = {}
    /\ MachineOf \in [Threads -> Machines]
    /\ Nobody \notin JobKeys /\ Nobody \notin Machines

VARIABLES
    record,    \* attempt documents: the state of each job, its worker, its claims
    thread,    \* where requests, tasks and reapers stand, with which job and how
    swept,     \* what each reaper has read as active and not come to
    outcomes,  \* finalize_api_requests_total: outcomes counted of each request
    counter,   \* what was counted of each job
    unheard    \* history: what was recorded by one that did not count it

metricsVars == <<record, thread, swept, outcomes, counter, unheard>>

Counters == {"created", "accepted", "settled", "failures"}

Resting == [at |-> "idle", of |-> Nobody, as |-> "none"]

Unmade == [state |-> "none", by |-> Nobody, runs |-> 0]

Ongoing(k) == record[k].state \in {"queued", "running"}

Ended(k) == record[k].state \in {"settled", "failed"}

Settles(k) == record' = [record EXCEPT ![k].state = "settled", ![k].by = Nobody]
Fails(k) == record' = [record EXCEPT ![k].state = "failed", ![k].by = Nobody]

Place(t, at, as) == thread' = [thread EXCEPT ![t] = [at |-> at, of |-> @.of, as |-> as]]

Rest(t) == thread' = [thread EXCEPT ![t] = Resting]

(* emitFinalizeEvent: recordEventMetrics counts the event. *)
Count(name, k, n) == counter' = [counter EXCEPT ![name][k] = @ + n]

Unheard(name, k) == unheard' = unheard \cup {<<name, k>>}

-----------------------------------------------------------------------------
(* A request: idempotencyFinalize, then the handler of /finalize *)

(* Its one outcome is counted where it is answered. *)
Answer(r) ==
    /\ Place(r, "answered", thread[r].as)
    /\ outcomes' = [outcomes EXCEPT ![r] = @ + 1]

Ask(r) ==
    /\ thread[r].at = "idle"
    /\ \E k \in JobKeys :
           thread' = [thread EXCEPT ![r] = [at |-> "preparing", of |-> k, as |-> "none"]]
    /\ UNCHANGED <<record, swept, outcomes, counter, unheard>>

(* prepareFinalizeAttempt: not valid or not covered, or it throws; a job that
   exists is replied with; a job of the same session or a long queue refuses. *)
TurnAway(r) ==
    /\ thread[r].at = "preparing"
    /\ Answer(r)
    /\ UNCHANGED <<record, swept, counter, unheard>>

Prepare(r) ==
    LET k == thread[r].of
    IN  /\ thread[r].at = "preparing"
        /\ \/ /\ record[k].state # "none"
              /\ Place(r, "replying", "replayed")
              /\ UNCHANGED record
           \/ /\ record[k].state = "none"
              /\ Place(r, "replying", "refused")
              /\ UNCHANGED record
           \/ /\ record[k].state = "none"
              /\ record' = [record EXCEPT ![k].state = "queued"]
              /\ Place(r, "projecting", "accepted")
        /\ UNCHANGED <<swept, outcomes, counter, unheard>>

(* The pending projection is saved before the job is said to be created. *)
Project(r) ==
    LET k == thread[r].of
    IN  /\ thread[r].at = "projecting"
        /\ \/ /\ Count("created", k, 1)
              /\ Place(r, "replying", "accepted")
              /\ UNCHANGED <<outcomes, unheard>>
           \/ /\ Place(r, "failing", "none")
              /\ Unheard("created", k)
              /\ UNCHANGED <<outcomes, counter>>
           \/ /\ Answer(r)
              /\ Unheard("created", k)
              /\ UNCHANGED counter
        /\ UNCHANGED <<record, swept>>

(* What the session adds to the reply is read, which can throw. *)
Reply(r) ==
    /\ thread[r].at = "replying"
    /\ Answer(r)
    /\ \/ thread[r].as = "accepted" /\ Count("accepted", thread[r].of, 1)
       \/ UNCHANGED counter
    /\ UNCHANGED <<record, swept, unheard>>

-----------------------------------------------------------------------------
(* finalizeAttemptFailure, as called by requests, tasks and reapers *)

(* What its caller does next, and what when it has thrown: a task only logs it,
   and a reaper begins anew. *)
GoOn(t) ==
    /\ IF t \in Asked THEN Place(t, "answered", "gone") ELSE Rest(t)
    /\ UNCHANGED <<swept, outcomes>>

GiveUp(t) ==
    \/ /\ t \in Asked
       /\ Answer(t)
       /\ UNCHANGED swept
    \/ /\ t \in Hands
       /\ Rest(t)
       /\ UNCHANGED <<swept, outcomes>>
    \/ /\ t \in Sweepers
       /\ Rest(t)
       /\ swept' = [swept EXCEPT ![t] = {}]
       /\ UNCHANGED outcomes

FailReads(t) ==
    LET k == thread[t].of
    IN  /\ thread[t].at = "failing"
        /\ \/ /\ Ongoing(k)
              /\ Place(t, "ending", thread[t].as)
              /\ UNCHANGED <<swept, outcomes>>
           \/ ~Ongoing(k) /\ GoOn(t)
           \/ GiveUp(t)
        /\ UNCHANGED <<record, counter, unheard>>

(* The transaction may find the job ended meanwhile; it is told all the same. *)
FailEnds(t) ==
    LET k == thread[t].of
    IN  /\ thread[t].at = "ending"
        /\ \/ /\ Ongoing(k)
              /\ Fails(k)
              /\ Place(t, "telling", IF thread[t].as = "quiet" THEN "quiet" ELSE "ender")
              /\ UNCHANGED <<swept, outcomes>>
           \/ /\ ~Ongoing(k)
              /\ Place(t, "telling", thread[t].as)
              /\ UNCHANGED <<record, swept, outcomes>>
           \/ GiveUp(t) /\ UNCHANGED record
        /\ UNCHANGED <<counter, unheard>>

(* A task has told of its failure before (emitObservability is false). *)
FailTells(t) ==
    LET k == thread[t].of
    IN  /\ thread[t].at = "telling"
        /\ \/ /\ GoOn(t)
              /\ IF thread[t].as = "quiet" THEN UNCHANGED counter ELSE Count("failures", k, 1)
              /\ UNCHANGED unheard
           \/ /\ GiveUp(t)
              /\ IF thread[t].as = "ender" THEN Unheard("failures", k) ELSE UNCHANGED unheard
              /\ UNCHANGED counter
        /\ UNCHANGED record

-----------------------------------------------------------------------------
(* A task: runAttempt *)

ClaimJob(h, k) ==
    /\ thread[h].at = "idle"
    /\ record[k].state = "queued"
    /\ record' = [record EXCEPT ![k] = [state |-> "running", by |-> MachineOf[h],
                                        runs |-> @.runs + 1]]
    /\ thread' = [thread EXCEPT ![h] = [at |-> "working", of |-> k, as |-> "none"]]
    /\ UNCHANGED <<swept, outcomes, counter, unheard>>

CaughtSilently(h, n) ==
    /\ UNCHANGED counter
    /\ Place(h, "failing", "quiet")

(* The catch of runAttempt: the failure is counted before the job is ended. *)
Caught(h, n) ==
    /\ Count("failures", thread[h].of, n)
    /\ Place(h, "failing", "quiet")

(* finalizeStory returns, finds no place to render in, or throws. *)
Work(h) ==
    /\ thread[h].at = "working"
    /\ \/ Place(h, "settling", "none") /\ UNCHANGED counter
       \/ /\ record[thread[h].of].runs < MaxRuns
          /\ Place(h, "requeueing", "none")
          /\ UNCHANGED counter
       \/ Caught(h, 1)
    /\ UNCHANGED <<record, swept, outcomes, unheard>>

(* markFinalizeAttemptQueuedForRetry *)
Requeue(h) ==
    LET k == thread[h].of
    IN  /\ thread[h].at = "requeueing"
        /\ Rest(h)
        /\ \/ /\ record[k].state = "running" /\ record[k].by = MachineOf[h]
              /\ record' = [record EXCEPT ![k].state = "queued", ![k].by = Nobody]
           \/ UNCHANGED record
        /\ UNCHANGED <<swept, outcomes, counter, unheard>>

(* settleFinalizeAttemptSuccess: a film dearer than its estimate is told as a
   failure here, and again by the catch. *)
SettleReads(h) ==
    LET k == thread[h].of
    IN  /\ thread[h].at = "settling"
        /\ \/ record[k].state = "settled" /\ Rest(h) /\ UNCHANGED counter
           \/ Ongoing(k) /\ Place(h, "paying", "none") /\ UNCHANGED counter
           \/ Ongoing(k) /\ Caught(h, 2)
           \/ record[k].state # "settled" /\ Caught(h, 1)
        /\ UNCHANGED <<record, swept, outcomes, unheard>>

SettleEnds(h) ==
    LET k == thread[h].of
    IN  /\ thread[h].at = "paying"
        /\ \/ /\ record[k].state = "settled"
              /\ Place(h, "paid", "none")
              /\ UNCHANGED <<record, counter>>
           \/ /\ Ongoing(k)
              /\ Settles(k)
              /\ Place(h, "paid", "ender")
              /\ UNCHANGED counter
           \/ Caught(h, 1) /\ UNCHANGED record
        /\ UNCHANGED <<swept, outcomes, unheard>>

(* The settled job is read before it is told, which can throw. *)
SettleTells(h) ==
    LET k == thread[h].of
    IN  /\ thread[h].at = "paid"
        /\ \/ /\ Count("settled", k, 1)
              /\ Rest(h)
              /\ UNCHANGED unheard
           \/ /\ Caught(h, 1)
              /\ IF thread[h].as = "ender" THEN Unheard("settled", k) ELSE UNCHANGED unheard
        /\ UNCHANGED <<record, swept, outcomes>>

-----------------------------------------------------------------------------
(* reapStaleFinalizeAttempts, and a process that dies *)

Scan(s) ==
    /\ thread[s].at = "idle" /\ swept[s] = {}
    /\ swept' = [swept EXCEPT ![s] = {k \in JobKeys : Ongoing(k)}]
    /\ UNCHANGED <<record, thread, outcomes, counter, unheard>>

(* What is not stale is left alone. *)
Sweep(s, k) ==
    /\ thread[s].at = "idle" /\ k \in swept[s]
    /\ swept' = [swept EXCEPT ![s] = @ \ {k}]
    /\ \/ thread' = [thread EXCEPT ![s] = [at |-> "failing", of |-> k, as |-> "none"]]
       \/ UNCHANGED thread
    /\ UNCHANGED <<record, outcomes, counter, unheard>>

(* What a thread has recorded and not told *)
Owes(t) ==
    CASE thread[t].at = "projecting" -> {<<"created", thread[t].of>>}
      [] thread[t].at = "paid" /\ thread[t].as = "ender" -> {<<"settled", thread[t].of>>}
      [] thread[t].at = "telling" /\ thread[t].as = "ender" -> {<<"failures", thread[t].of>>}
      [] OTHER -> {}

Crash(m) ==
    LET dead == {t \in Threads : MachineOf[t] = m}
    IN  /\ thread' = [t \in Threads |->
                          IF t \notin dead \/ thread[t].at \in {"idle", "answered"}
                          THEN thread[t]
                          ELSE IF t \in Asked THEN [thread[t] EXCEPT !.at = "lost"]
                          ELSE Resting]
        /\ swept' = [s \in Sweepers |-> IF s \in dead THEN {} ELSE swept[s]]
        /\ unheard' = unheard \cup UNION {Owes(t) : t \in dead}
        /\ UNCHANGED <<record, outcomes, counter>>

-----------------------------------------------------------------------------
MetricsInit ==
    /\ record = [k \in JobKeys |-> Unmade]
    /\ thread = [t \in Threads |-> Resting]
    /\ swept = [s \in Sweepers |-> {}]
    /\ outcomes = [r \in Asked |-> 0]
    /\ counter = [name \in Counters |-> [k \in JobKeys |-> 0]]
    /\ unheard = {}

MetricsNext ==
    \/ \E r \in Asked : Ask(r) \/ TurnAway(r) \/ Prepare(r) \/ Project(r) \/ Reply(r)
    \/ \E t \in Threads : FailReads(t) \/ FailEnds(t) \/ FailTells(t)
    \/ \E h \in Hands, k \in JobKeys : ClaimJob(h, k)
    \/ \E h \in Hands : Work(h) \/ Requeue(h)
    \/ \E h \in Hands : SettleReads(h) \/ SettleEnds(h) \/ SettleTells(h)
    \/ \E s \in Sweepers : Scan(s) \/ \E k \in JobKeys : Sweep(s, k)
    \/ \E m \in Machines : Crash(m)

MetricsSpec == MetricsInit /\ [][MetricsNext]_metricsVars

-----------------------------------------------------------------------------
(* A request that was answered has one outcome, unless the session of the job it
   made was gone; one that was not has none. *)
AnswersCounted ==
    \A r \in Asked :
        /\ thread[r].at # "answered" => outcomes[r] = 0
        /\ thread[r].at = "answered" =>
               outcomes[r] = 1 \/ (outcomes[r] = 0 /\ Ended(thread[r].of))

(* A job is created and accepted once at most, whichever requests carry its key. *)
Making(k) == \E r \in Asked : thread[r].at = "projecting" /\ thread[r].of = k

CreatedOnce ==
    \A k \in JobKeys :
        /\ counter["accepted"][k] <= counter["created"][k]
        /\ counter["created"][k] =
               IF record[k].state = "none" \/ Making(k) \/ <<"created", k>> \in unheard
               THEN 0 ELSE 1

(* The end of a job is told, or its teller is at it, has died or has thrown; a
   settlement is told once and only of a job that is settled. *)
Telling(k, at) ==
    \E t \in Threads : thread[t].at = at /\ thread[t].of = k /\ thread[t].as = "ender"

EndsTold ==
    \A k \in JobKeys :
        /\ counter["settled"][k] =
               IF record[k].state # "settled" \/ Telling(k, "paid")
                                              \/ <<"settled", k>> \in unheard
               THEN 0 ELSE 1
        /\ record[k].state = "failed" =>
               \/ counter["failures"][k] > 0
               \/ Telling(k, "telling")
               \/ <<"failures", k>> \in unheard

(* What the counters leave out is what they cannot know of, and nothing is counted
   twice but failures. *)
CountersAgree == AnswersCounted /\ CreatedOnce /\ EndsTold
=============================================================================
