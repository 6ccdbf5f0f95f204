------------------------- MODULE FinalizeAttempts -------------------------
(***************************************************************************)
(* The life of paid render jobs ("finalize attempts"): admission by the   *)
(* API, the Firestore queue with its leases, the worker processes that    *)
(* claim, heartbeat, render, requeue, settle or fail a job, the reaper    *)
(* every worker runs, the per-session lock and the user's usage ledger.   *)
(*                                                                         *)
(* A Firestore transaction is one step.  What a handler read before its   *)
(* transaction is kept in a variable of its own (api, seen, reaping), so  *)
(* that other processes can act between the read and the write.           *)
(*                                                                         *)
(* Deadlines (leaseExpiresAt, availableAfter, expiresAt) are countdowns:  *)
(* the time left, which Tick decreases everywhere at once.  The same       *)
(* countdown runs in every copy of a document a process holds, as the     *)
(* code compares the copied instant with Date.now().                      *)
(***************************************************************************)
EXTENDS Integers, Sequences, FiniteSets

CONSTANTS
    Users,          \* accounts, each with one usage ledger
    Sessions,       \* story sessions (one story.json each)
    Attempts,       \* attempt documents, named uid:X-Idempotency-Key
    Runners,        \* incarnations of the finalize worker process
    Clients,        \* finalize requests the API serves at the same time
    UserOf,         \* the account a session or an attempt document is under
    Estimates,      \* reservations in ms an admission may ask for
    Charges,        \* charges in ms a rendered video may give; 0: no duration
    Included,       \* cycleIncludedMs of the plan an account starts with
    Plans,          \* cycleIncludedMs it may later have; 0: cancelled
    Readers,        \* requests for a usage summary the API serves at once
    Editors,        \* other handlers that load a story.json and save it again
    LeaseTime,      \* FINALIZE_RUNNER_LEASE_MS
    TtlTime,        \* ttlMinutes of idempotencyFinalize
    BackoffTime,    \* FINALIZE_BUSY_RETRY_MS
    InflightLimit,  \* LOCAL_WORKER_INFLIGHT_LIMIT
    BacklogLimit,   \* getSharedBacklogLimit()
    MaxExecutions,  \* bound of the model: executions of one attempt
    None            \* null, or a document that does not exist

ASSUME UserOfAssumption == UserOf \in [Sessions \cup Attempts -> Users]
ASSUME ClientsAssumption == IsFiniteSet(Clients)
ASSUME EstimatesAssumption == Estimates \subseteq Nat \ {0}
ASSUME ChargesAssumption == Charges \subseteq Nat /\ 0 \in Charges
ASSUME TimesAssumption == /\ LeaseTime \in Nat \ {0}
                          /\ TtlTime \in Nat \ {0}
                          /\ BackoffTime \in Nat \ {0}
ASSUME LimitsAssumption == /\ Included \in Nat
                           /\ Plans \subseteq Nat
                           /\ InflightLimit \in Nat \ {0}
                           /\ BacklogLimit \in Nat \ {0}
                           /\ MaxExecutions \in Nat \ {0}

VARIABLES
    docs,     \* attempt documents of the idempotency collection
    locks,    \* storyFinalizeSessions: the lock document of each session
    usage,    \* users/{uid}.usage, in ms
    video,    \* session.finalVideo of each story.json
    api,      \* what each finalize request has read and still has to do
    status,   \* worker processes: not started, up, down
    seen,     \* per worker: the queue snapshot its claim loop walks
    task,     \* per worker and attempt: where runAttempt stands
    held,     \* per worker and attempt: finalVideo of the session it loaded
    summary,  \* what each usage summary has read and will write back
    editing,  \* the session each editor has loaded, with its finalVideo
    reaping   \* per worker: the snapshot its reaper walks

vars == <<docs, locks, usage, video, api, status, seen, task, held, summary, editing, reaping>>

ActiveStates == {"queued", "running"}
FinalStates == {"done", "failed", "expired"}
JobStates == {"queued", "claimed", "started", "retry_scheduled",
              "failed_terminal", "settled"}
ExecStates == {"created", "claimed", "running", "succeeded",
               "failed_retryable", "failed_terminal", "abandoned"}
TaskStates == {"none", "claimed", "started", "loaded", "rendering", "rendered",
               "reloaded", "settling", "busy", "failing"}

Execution == [state : ExecStates, worker : Runners \cup {None}]

Attempt ==
    [session : Sessions, state : ActiveStates \cup FinalStates,
     jobState : JobStates, runner : Runners \cup {None},
     lease : 0..LeaseTime \cup {None}, backoff : 0..BackoffTime,
     ttl : 0..TtlTime, reserved : Estimates,
     short : Attempts \cup {None}, billed : Charges,
     executions : Seq(Execution) \ {<<>>}]

Lock == [attempt : Attempts, state : ActiveStates]
Ledger == [included : Nat, used : Nat, reserved : Nat]
Summary == [user : Users, ledger : Ledger]
Video == [short : Attempts, charge : Charges]   \* a short is named by the attempt that rendered it
Opened == [session : Sessions, video : Video \cup {None}]
Waiting == [pc : {"checked", "admitted", "enqueued"}, attempt : Attempts,
            session : Sessions, estimate : Estimates]
Copy == [state : ActiveStates, left : 0..LeaseTime \cup 0..TtlTime \cup {None}]

ASSUME NoneAssumption ==
    /\ None \notin Sessions \cup Attempts \cup Runners \cup Nat
    /\ None \notin Attempt \cup Lock \cup Video \cup Opened \cup Copy \cup Summary

IdleRequest == [pc |-> "idle"]

-----------------------------------------------------------------------------

IsActive(a) == docs[a] # None /\ docs[a].state \in ActiveStates

ActiveAttempts == {a \in Attempts : IsActive(a)}

(* backlog = queued + running + retry_scheduled, by jobState *)
Backlog ==
    Cardinality({a \in ActiveAttempts :
        docs[a].jobState \in {"queued", "claimed", "started", "retry_scheduled"}})

AtLeastZero(n) == IF n < 0 THEN 0 ELSE n

(* Mutant: reservations of jobs still running are not subtracted. *)
AvailableIgnoringReserved(l) == AtLeastZero(l.included - l.used)

AvailableMs(l) == AtLeastZero(l.included - l.used - l.reserved)

ApplyUsageDelta(l, usedDelta, reservedDelta) ==
    [l EXCEPT !.used = AtLeastZero(@ + usedDelta),
              !.reserved = AtLeastZero(@ + reservedDelta)]

NoSnapshot == [a \in Attempts |-> None]
NoTasks == [a \in Attempts |-> "none"]
NothingHeld == [a \in Attempts |-> None]

(* The session is locked by another attempt that is still active. *)
LockedByOther(s, a) ==
    /\ locks[s] # None
    /\ locks[s].attempt # a
    /\ IsActive(locks[s].attempt)

(* Mutant: the state is not read again in the transaction. *)
HoldsInAnyState(r, a) == docs[a] # None /\ docs[a].runner \in {r, None}

(* attempt.runnerId && runnerId && attempt.runnerId !== runnerId: return *)
Holds(r, a) ==
    /\ docs[a] # None
    /\ docs[a].state = "running"
    /\ docs[a].runner \in {r, None}

-----------------------------------------------------------------------------
(* Documents as the transactions write them. *)

NewAttempt(s, est) ==
    [session |-> s, state |-> "queued", jobState |-> "queued", runner |-> None,
     lease |-> None, backoff |-> 0, ttl |-> TtlTime, reserved |-> est,
     short |-> None, billed |-> 0,
     executions |-> <<[state |-> "created", worker |-> None]>>]

(* updateExecutionAttempt on the current, that is the last, execution *)
SetExecution(execs, st, w) ==
    [execs EXCEPT ![Len(execs)] = [state |-> st, worker |-> w]]

CurrentExecution(d) == d.executions[Len(d.executions)]

(* workerId: current.runnerId || execution.workerId || null *)
WorkerOf(d) == IF d.runner # None THEN d.runner ELSE CurrentExecution(d).worker

(* Mutant: the execution's state is written as the state of the job. *)
FailedWithExecutionState(d, st, execState) ==
    [d EXCEPT !.state = st, !.jobState = execState, !.runner = None,
              !.lease = None,
              !.executions = SetExecution(@, execState, WorkerOf(d))]

FailedAttempt(d, st, execState) ==
    [d EXCEPT !.state = st, !.jobState = "failed_terminal", !.runner = None,
              !.lease = None,
              !.executions = SetExecution(@, execState, WorkerOf(d))]

SettledAttempt(d, v) ==
    [d EXCEPT !.state = "done", !.jobState = "settled", !.runner = None,
              !.lease = None, !.short = v.short, !.billed = v.charge,
              !.executions = SetExecution(@, "succeeded", WorkerOf(d))]

(* Mutant: the execution given back is reused instead of closed. *)
RequeuedWithoutClosing(d, r) ==
    [d EXCEPT !.state = "queued", !.jobState = "retry_scheduled",
              !.runner = None, !.lease = None, !.backoff = BackoffTime]

(* The appended execution is normalised against the attempt as it was read,
   so its workerId falls back to the runner that gives the job up. *)
RequeuedAttempt(d, r) ==
    [d EXCEPT !.state = "queued", !.jobState = "retry_scheduled",
              !.runner = None, !.lease = None, !.backoff = BackoffTime,
              !.executions = Append(SetExecution(@, "failed_retryable", r),
                                    [state |-> "created", worker |-> d.runner])]

ClaimedAttempt(d, r) ==
    [d EXCEPT !.state = "running", !.jobState = "claimed", !.runner = r,
              !.lease = LeaseTime, !.backoff = 0,
              !.executions = SetExecution(@, "claimed", r)]

StartedAttempt(d, r) ==
    [d EXCEPT !.jobState = "started", !.executions = SetExecution(@, "running", r)]

RenewedAttempt(d, r) ==
    [d EXCEPT !.lease = LeaseTime, !.jobState = "started",
              !.executions = SetExecution(@, CurrentExecution(d).state, r)]

(* Mutant: the transaction trusts the read made before it. *)
FailureWithoutRecheck(a, st, execState) ==
    IF docs[a] = None
    THEN UNCHANGED <<docs, locks, usage>>
    ELSE /\ docs' = [docs EXCEPT ![a] = FailedAttempt(@, st, execState)]
         /\ usage' = [usage EXCEPT ![UserOf[a]] =
                          ApplyUsageDelta(@, 0, -docs[a].reserved)]
         /\ locks' = [locks EXCEPT ![docs[a].session] = None]

(* The transaction of finalizeAttemptFailure: nothing unless the attempt is
   still active, whoever runs it; else release, close, unlock. *)
FinalizeAttemptFailure(a, st, execState) ==
    IF ~IsActive(a)
    THEN UNCHANGED <<docs, locks, usage>>
    ELSE /\ docs' = [docs EXCEPT ![a] = FailedAttempt(@, st, execState)]
         /\ usage' = [usage EXCEPT ![UserOf[a]] =
                          ApplyUsageDelta(@, 0, -docs[a].reserved)]
         /\ locks' = [locks EXCEPT ![docs[a].session] = None]

-----------------------------------------------------------------------------
(* The API: idempotencyFinalize and prepareFinalizeAttempt. *)

(* Replay of a known key, a locked session: answered at once, nothing changes.
   The estimate is the session's, which the owner may edit between requests. *)
PrepareChecks(c, a, s, est) ==
    /\ api[c].pc = "idle"
    /\ UserOf[a] = UserOf[s]
    /\ docs[a] = None
    /\ ~LockedByOther(s, a)
    /\ api' = [api EXCEPT ![c] = [pc |-> "checked", attempt |-> a,
                                  session |-> s, estimate |-> est]]
    /\ UNCHANGED <<docs, locks, usage, video, status, seen, task, held, summary, editing, reaping>>

(* Mutant: the limit itself is let through. *)
CheckBackpressureLate(c) ==
    /\ api[c].pc = "checked"
    /\ api' = [api EXCEPT ![c] =
                  IF Backlog > BacklogLimit THEN IdleRequest
                                            ELSE [@ EXCEPT !.pc = "admitted"]]
    /\ UNCHANGED <<docs, locks, usage, video, status, seen, task, held, summary, editing, reaping>>

(* shouldRejectFinalizeAdmissionForBackpressure: 503 at the limit. *)
CheckBackpressure(c) ==
    /\ api[c].pc = "checked"
    /\ api' = [api EXCEPT ![c] =
                  IF Backlog >= BacklogLimit THEN IdleRequest
                                             ELSE [@ EXCEPT !.pc = "admitted"]]
    /\ UNCHANGED <<docs, locks, usage, video, status, seen, task, held, summary, editing, reaping>>

MayEnqueue(a, s, est) ==
    /\ docs[a] = None
    /\ ~LockedByOther(s, a)
    /\ AvailableMs(usage[UserOf[s]]) >= est

(* The admission transaction: replay, conflict and insufficient time answer
   without a write; otherwise reserve, create the queued attempt, lock. *)
PrepareTx(c) ==
    LET a == api[c].attempt
        s == api[c].session
        est == api[c].estimate
    IN  /\ api[c].pc = "admitted"
        /\ IF MayEnqueue(a, s, est)
           THEN /\ docs' = [docs EXCEPT ![a] = NewAttempt(s, est)]
                /\ locks' = [locks EXCEPT ![s] = [attempt |-> a, state |-> "queued"]]
                /\ usage' = [usage EXCEPT ![UserOf[s]] = ApplyUsageDelta(@, 0, est)]
                /\ api' = [api EXCEPT ![c].pc = "enqueued"]
           ELSE /\ api' = [api EXCEPT ![c] = IdleRequest]
                /\ UNCHANGED <<docs, locks, usage>>
        /\ UNCHANGED <<video, status, seen, task, held, summary, editing, reaping>>

(* renderRecovery pending is persisted and the request answers 202. *)
PersistPending(c) ==
    /\ api[c].pc = "enqueued"
    /\ api' = [api EXCEPT ![c] = IdleRequest]
    /\ UNCHANGED <<docs, locks, usage, video, status, seen, task, held, summary, editing, reaping>>

(* The session expired meanwhile: the attempt is failed, even when a worker
   has claimed it already. *)
PersistPendingFails(c) ==
    /\ api[c].pc = "enqueued"
    /\ FinalizeAttemptFailure(api[c].attempt, "failed", "failed_terminal")
    /\ api' = [api EXCEPT ![c] = IdleRequest]
    /\ UNCHANGED <<video, status, seen, task, held, summary, editing, reaping>>

(* The API process dies, or a read or the transaction throws. *)
RequestDies(c) ==
    /\ api[c].pc # "idle"
    /\ api' = [api EXCEPT ![c] = IdleRequest]
    /\ UNCHANGED <<docs, locks, usage, video, status, seen, task, held, summary, editing, reaping>>

-----------------------------------------------------------------------------
(* A worker process and its claim loop: drainQueue, claimNextFinalizeAttempt. *)

StartRunner(r) ==
    /\ status[r] = "new"
    /\ status' = [status EXCEPT ![r] = "up"]
    /\ UNCHANGED <<docs, locks, usage, video, api, seen, task, held, summary, editing, reaping>>

(* A crash, or SIGTERM: the process exits without giving its jobs back.
   Bound of the model: some other incarnation is up or still to start. *)
StopRunner(r) ==
    /\ status[r] = "up"
    /\ \E q \in Runners \ {r} : status[q] # "down"
    /\ status' = [status EXCEPT ![r] = "down"]
    /\ seen' = [seen EXCEPT ![r] = NoSnapshot]
    /\ task' = [task EXCEPT ![r] = NoTasks]
    /\ held' = [held EXCEPT ![r] = NothingHeld]
    /\ reaping' = [reaping EXCEPT ![r] = NoSnapshot]
    /\ UNCHANGED <<docs, locks, usage, video, api, summary, editing>>

Inflight(r) == {a \in Attempts : task[r][a] # "none"}

(* The queue query; at most ten documents, more than the instances hold. *)
PollQueue(r) ==
    /\ status[r] = "up"
    /\ seen[r] = NoSnapshot
    /\ Cardinality(Inflight(r)) < InflightLimit
    /\ \E a \in Attempts : docs[a] # None /\ docs[a].state = "queued"
    /\ seen' = [seen EXCEPT ![r] =
                  [a \in Attempts |->
                      IF docs[a] # None /\ docs[a].state = "queued"
                      THEN docs[a].backoff ELSE None]]
    /\ UNCHANGED <<docs, locks, usage, video, api, status, task, held, summary, editing, reaping>>

(* availableAfter of the copy is ahead, or the transaction finds the attempt
   no longer queued: on to the next document. *)
PassOver(r, a) ==
    /\ seen[r][a] # None
    /\ seen[r][a] > 0 \/ docs[a].state # "queued"
    /\ seen' = [seen EXCEPT ![r][a] = None]
    /\ UNCHANGED <<docs, locks, usage, video, api, status, task, held, summary, editing, reaping>>

(* Mutant: the claim is written from the snapshot alone. *)
ClaimFromSnapshot(r, a) ==
    /\ seen[r][a] # None
    /\ seen[r][a] = 0
    /\ docs' = [docs EXCEPT ![a] = ClaimedAttempt(@, r)]
    /\ locks' = [locks EXCEPT ![docs[a].session] = [attempt |-> a, state |-> "running"]]
    /\ task' = [task EXCEPT ![r][a] = "claimed"]
    /\ seen' = [seen EXCEPT ![r] = NoSnapshot]
    /\ UNCHANGED <<usage, video, api, status, held, summary, editing, reaping>>

(* The claim transaction reads the state again, but not availableAfter. *)
Claim(r, a) ==
    /\ seen[r][a] # None
    /\ seen[r][a] = 0
    /\ docs[a].state = "queued"
    /\ docs' = [docs EXCEPT ![a] = ClaimedAttempt(@, r)]
    /\ locks' = [locks EXCEPT ![docs[a].session] = [attempt |-> a, state |-> "running"]]
    /\ task' = [task EXCEPT ![r][a] = "claimed"]
    /\ seen' = [seen EXCEPT ![r] = NoSnapshot]
    /\ UNCHANGED <<usage, video, api, status, held, summary, editing, reaping>>

-----------------------------------------------------------------------------
(* runAttempt and the steps of finalizeStory it waits for. *)

MarkStarted(r, a) ==
    /\ task[r][a] = "claimed"
    /\ task' = [task EXCEPT ![r][a] = "started"]
    /\ docs' = IF Holds(r, a) THEN [docs EXCEPT ![a] = StartedAttempt(@, r)] ELSE docs
    /\ UNCHANGED <<locks, usage, video, api, status, seen, held, summary, editing, reaping>>

Heartbeat(r, a) ==
    /\ task[r][a] # "none"
    /\ Holds(r, a)
    /\ docs' = [docs EXCEPT ![a] = RenewedAttempt(@, r)]
    /\ UNCHANGED <<locks, usage, video, api, status, seen, task, held, summary, editing, reaping>>

(* persistRenderRecovery loads story.json and saves it again: what an edit
   wrote in between is lost. *)
LoadSession(r, a) ==
    /\ task[r][a] \in {"started", "rendered"}
    /\ task' = [task EXCEPT ![r][a] = IF @ = "started" THEN "loaded" ELSE "reloaded"]
    /\ held' = [held EXCEPT ![r][a] = video[docs[a].session]]
    /\ UNCHANGED <<docs, locks, usage, video, api, status, seen, summary, editing, reaping>>

(* Before: a session that already has its finalVideo is not rendered again.
   After: the session as it was loaded is what will be settled. *)
SaveSession(r, a) ==
    /\ task[r][a] \in {"loaded", "reloaded"}
    /\ video' = [video EXCEPT ![docs[a].session] = held[r][a]]
    /\ task' = [task EXCEPT ![r][a] = IF @ = "reloaded" THEN "settling"
                                      ELSE IF held[r][a] # None THEN "rendered"
                                      ELSE "rendering"]
    /\ held' = [held EXCEPT ![r][a] = IF task[r][a] = "reloaded" THEN @ ELSE None]
    /\ UNCHANGED <<docs, locks, usage, api, status, seen, summary, editing, reaping>>

(* No render slot: SERVER_BUSY.  MaxExecutions bounds the executions. *)
RenderBusy(r, a) ==
    /\ task[r][a] = "rendering"
    /\ Len(docs[a].executions) < MaxExecutions
    /\ task' = [task EXCEPT ![r][a] = "busy"]
    /\ UNCHANGED <<docs, locks, usage, video, api, status, seen, held, summary, editing, reaping>>

(* renderStory saves the session with its new finalVideo. *)
RenderSucceeds(r, a, charge) ==
    /\ task[r][a] = "rendering"
    /\ task' = [task EXCEPT ![r][a] = "rendered"]
    /\ video' = [video EXCEPT ![docs[a].session] = [short |-> a, charge |-> charge]]
    /\ UNCHANGED <<docs, locks, usage, api, status, seen, held, summary, editing, reaping>>

(* Any call of the try block throws something other than SERVER_BUSY. *)
TaskThrows(r, a) ==
    /\ task[r][a] \notin {"none", "busy", "failing"}
    /\ task' = [task EXCEPT ![r][a] = "failing"]
    /\ held' = [held EXCEPT ![r][a] = None]
    /\ UNCHANGED <<docs, locks, usage, video, api, status, seen, summary, editing, reaping>>

(* Mutant: the charge is not compared with the reservation. *)
BillableAnyCharge(v, d) == v # None /\ v.charge > 0

(* What settleFinalizeAttemptSuccess accepts: a charge of at least 1 ms and no
   more than the reservation. *)
Billable(v, d) == v # None /\ v.charge > 0 /\ v.charge <= d.reserved

(* The attempt is settled from the session the task holds; an attempt no
   longer active, or a charge that does not fit, throws. *)
Settle(r, a) ==
    LET v == held[r][a] IN
    /\ task[r][a] = "settling"
    /\ held' = [held EXCEPT ![r][a] = None]
    /\ IF IsActive(a) /\ Billable(v, docs[a])
       THEN /\ docs' = [docs EXCEPT ![a] = SettledAttempt(@, v)]
            /\ usage' = [usage EXCEPT ![UserOf[a]] =
                             ApplyUsageDelta(@, v.charge, -docs[a].reserved)]
            /\ locks' = [locks EXCEPT ![docs[a].session] = None]
            /\ task' = [task EXCEPT ![r][a] = "none"]
       ELSE /\ task' = [task EXCEPT ![r][a] = "failing"]
            /\ UNCHANGED <<docs, usage, locks>>
    /\ UNCHANGED <<video, api, status, seen, summary, editing, reaping>>

QueueForRetry(r, a) ==
    /\ task[r][a] = "busy"
    /\ task' = [task EXCEPT ![r][a] = "none"]
    /\ IF Holds(r, a)
       THEN /\ docs' = [docs EXCEPT ![a] = RequeuedAttempt(@, r)]
            /\ locks' = [locks EXCEPT ![docs[a].session] =
                             [attempt |-> a, state |-> "queued"]]
       ELSE UNCHANGED <<docs, locks>>
    /\ UNCHANGED <<usage, video, api, status, seen, held, summary, editing, reaping>>

FailTask(r, a) ==
    /\ task[r][a] = "failing"
    /\ FinalizeAttemptFailure(a, "failed", "failed_terminal")
    /\ task' = [task EXCEPT ![r][a] = "none"]
    /\ UNCHANGED <<video, api, status, seen, held, summary, editing, reaping>>

(* The requeue or the failure transaction itself throws: the task ends and
   the attempt stays running until its lease runs out. *)
TaskDies(r, a) ==
    /\ task[r][a] \in {"busy", "failing"}
    /\ task' = [task EXCEPT ![r][a] = "none"]
    /\ UNCHANGED <<docs, locks, usage, video, api, status, seen, held, summary, editing, reaping>>

-----------------------------------------------------------------------------
(* reapStaleFinalizeAttempts. *)

(* Mutant: a queued attempt is judged by a lease it does not have. *)
CopiedLease(d) == [state |-> d.state, left |-> d.lease]

Copied(d) == [state |-> d.state,
              left |-> IF d.state = "queued" THEN d.ttl ELSE d.lease]

ReapSnapshot(r) ==
    /\ status[r] = "up"
    /\ reaping[r] = NoSnapshot
    /\ ActiveAttempts # {}
    /\ reaping' = [reaping EXCEPT ![r] =
                     [a \in Attempts |-> IF IsActive(a) THEN Copied(docs[a]) ELSE None]]
    /\ UNCHANGED <<docs, locks, usage, video, api, status, seen, task, held, summary, editing>>

ReapNothing(r, a) ==
    /\ reaping[r][a] # None
    /\ reaping[r][a].left # 0
    /\ reaping' = [reaping EXCEPT ![r][a] = None]
    /\ UNCHANGED <<docs, locks, usage, video, api, status, seen, task, held, summary, editing>>

(* The copy decides; the transaction asks only whether the attempt is active. *)
ReapExpired(r, a) ==
    /\ reaping[r][a] # None
    /\ reaping[r][a].left = 0
    /\ IF reaping[r][a].state = "queued"
       THEN FinalizeAttemptFailure(a, "expired", "failed_terminal")
       ELSE FinalizeAttemptFailure(a, "failed", "abandoned")
    /\ reaping' = [reaping EXCEPT ![r][a] = None]
    /\ UNCHANGED <<video, api, status, seen, task, held, summary, editing>>

(* A throw inside the loop leaves the rest to the next round. *)
ReaperThrows(r) ==
    /\ reaping[r] # NoSnapshot
    /\ reaping' = [reaping EXCEPT ![r] = NoSnapshot]
    /\ UNCHANGED <<docs, locks, usage, video, api, status, seen, task, held, summary, editing>>

-----------------------------------------------------------------------------
(* Time, and the other writers of the same documents. *)

Dec(x) == IF x = None \/ x = 0 THEN x ELSE x - 1

TickedAttempt(d) ==
    IF d = None \/ d.state \in FinalStates
    THEN d
    ELSE [d EXCEPT !.lease = Dec(@), !.backoff = Dec(@), !.ttl = Dec(@)]

TickedCopy(k) == IF k = None THEN k ELSE [k EXCEPT !.left = Dec(@)]

Tick ==
    /\ docs' = [a \in Attempts |-> TickedAttempt(docs[a])]
    /\ seen' = [r \in Runners |-> [a \in Attempts |-> Dec(seen[r][a])]]
    /\ reaping' = [r \in Runners |-> [a \in Attempts |-> TickedCopy(reaping[r][a])]]
    /\ UNCHANGED <<locks, usage, video, api, status, task, held, summary, editing>>

(* An edit of the story drops its rendered output. *)
EditSession(s) ==
    /\ video[s] # None
    /\ video' = [video EXCEPT ![s] = None]
    /\ UNCHANGED <<docs, locks, usage, api, status, seen, task, held, summary, editing, reaping>>

(* Any other handler that loads story.json and later saves the whole of it:
   the finalVideo it saves is the one it loaded. *)
OpenSession(e, s) ==
    /\ editing[e] = None
    /\ editing' = [editing EXCEPT ![e] = [session |-> s, video |-> video[s]]]
    /\ UNCHANGED <<docs, locks, usage, video, api, status, seen, task, held, summary, reaping>>

SaveOpened(e) ==
    /\ editing[e] # None
    /\ video' = [video EXCEPT ![editing[e].session] = editing[e].video]
    /\ editing' = [editing EXCEPT ![e] = None]
    /\ UNCHANGED <<docs, locks, usage, api, status, seen, task, held, summary, reaping>>

(* The plan changes under the jobs: Stripe sells another or opens a period
   (used restarts), sends the renewal of the current period again (used stays),
   or a cancelled plan runs out (nothing is included).  Reserved is kept. *)
RenewPeriod(u, included) ==
    /\ \E used \in {0, usage[u].used} :
           usage' = [usage EXCEPT ![u].used = used, ![u].included = included]
    /\ UNCHANGED <<docs, locks, video, api, status, seen, task, held, summary, editing, reaping>>

(* ensureCanonicalUsageState reads the ledger and, outside a transaction,
   writes back what it has read. *)
ReadUsage(q, u) ==
    /\ summary[q] = None
    /\ summary' = [summary EXCEPT ![q] = [user |-> u, ledger |-> usage[u]]]
    /\ UNCHANGED <<docs, locks, usage, video, api, status, seen, task, held, editing, reaping>>

WriteUsage(q) ==
    /\ summary[q] # None
    /\ usage' = [usage EXCEPT ![summary[q].user] = summary[q].ledger]
    /\ summary' = [summary EXCEPT ![q] = None]
    /\ UNCHANGED <<docs, locks, video, api, status, seen, task, held, editing, reaping>>

-----------------------------------------------------------------------------

Init ==
    /\ docs = [a \in Attempts |-> None]
    /\ locks = [s \in Sessions |-> None]
    /\ usage = [u \in Users |-> [included |-> Included, used |-> 0, reserved |-> 0]]
    /\ video = [s \in Sessions |-> None]
    /\ api = [c \in Clients |-> IdleRequest]
    /\ status = [r \in Runners |-> "new"]
    /\ seen = [r \in Runners |-> NoSnapshot]
    /\ task = [r \in Runners |-> NoTasks]
    /\ held = [r \in Runners |-> NothingHeld]
    /\ summary = [q \in Readers |-> None]
    /\ editing = [e \in Editors |-> None]
    /\ reaping = [r \in Runners |-> NoSnapshot]

ApiStep(c) ==
    \/ \E a \in Attempts, s \in Sessions, est \in Estimates : PrepareChecks(c, a, s, est)
    \/ CheckBackpressure(c)
    \/ PrepareTx(c)
    \/ PersistPending(c)
    \/ PersistPendingFails(c)
    \/ RequestDies(c)

(* What the event loop of a worker does next for a job it holds. *)
TaskStep(r, a) ==
    \/ MarkStarted(r, a)
    \/ LoadSession(r, a)
    \/ SaveSession(r, a)
    \/ RenderBusy(r, a)
    \/ \E charge \in Charges : RenderSucceeds(r, a, charge)
    \/ TaskThrows(r, a)
    \/ Settle(r, a)
    \/ QueueForRetry(r, a)
    \/ FailTask(r, a)
    \/ TaskDies(r, a)

ReapStep(r, a) == ReapNothing(r, a) \/ ReapExpired(r, a)

RunnerStep(r) ==
    \/ StartRunner(r)
    \/ StopRunner(r)
    \/ PollQueue(r)
    \/ ReapSnapshot(r)
    \/ ReaperThrows(r)
    \/ \E a \in Attempts : \/ PassOver(r, a)
                           \/ Claim(r, a)
                           \/ Heartbeat(r, a)
                           \/ TaskStep(r, a)
                           \/ ReapStep(r, a)

Next ==
    \/ \E c \in Clients : ApiStep(c)
    \/ \E r \in Runners : RunnerStep(r)
    \/ Tick
    \/ \E s \in Sessions : EditSession(s)
    \/ \E u \in Users, included \in Plans : RenewPeriod(u, included)
    \/ \E e \in Editors : (\E s \in Sessions : OpenSession(e, s)) \/ SaveOpened(e)
    \/ \E q \in Readers : (\E u \in Users : ReadUsage(q, u)) \/ WriteUsage(q)

Spec == Init /\ [][Next]_vars

(* Time passes; a worker that can start starts; a worker's event loop gives
   every job its next step (finalizeStory returns or throws: its waits have
   timeouts); the reaper's timer is re-armed after every round, and a round
   does not throw before the same document for ever. *)
Fairness ==
    /\ WF_vars(Tick)
    /\ \A r \in Runners : /\ WF_vars(StartRunner(r))
                          /\ WF_vars(ReapSnapshot(r))
                          /\ \A a \in Attempts : /\ WF_vars(TaskStep(r, a))
                                                 /\ SF_vars(ReapStep(r, a))

FairSpec == Spec /\ Fairness
=============================================================================
