------------------------ MODULE FinalizeProperties ------------------------
(***************************************************************************)
(* What the finalize attempts of module FinalizeAttempts promise.          *)
(***************************************************************************)
EXTENDS FinalizeAttempts, Totals

(* Every variable keeps its type. *)
TypeOK ==
    /\ docs \in [Attempts -> Attempt \cup {None}]
    /\ locks \in [Sessions -> Lock \cup {None}]
    /\ usage \in [Users -> Ledger]
    /\ video \in [Sessions -> Video \cup {None}]
    /\ api \in [Clients -> Waiting \cup {IdleRequest}]
    /\ status \in [Runners -> {"new", "up", "down"}]
    /\ seen \in [Runners -> [Attempts -> 0..BackoffTime \cup {None}]]
    /\ task \in [Runners -> [Attempts -> TaskStates]]
    /\ held \in [Runners -> [Attempts -> Video \cup {None}]]
    /\ summary \in [Readers -> Summary \cup {None}]
    /\ editing \in [Editors -> Opened \cup {None}]
    /\ reaping \in [Runners -> [Attempts -> Copy \cup {None}]]

-----------------------------------------------------------------------------
(* The session lock *)

(* An active attempt holds the lock of its session and the lock mirrors its
   state: admission, claim, requeue and the two ways of ending a job write both
   documents, and no ending deletes a lock a newer attempt has taken. *)
ActiveAttemptHoldsLock ==
    \A a \in ActiveAttempts :
        locks[docs[a].session] = [attempt |-> a, state |-> docs[a].state]

(* A lock is never left behind: the attempt it names is active and of that
   session, so a session is never blocked by a job that has ended. *)
LockNamesActiveAttempt ==
    \A s \in Sessions :
        locks[s] # None => /\ IsActive(locks[s].attempt)
                           /\ docs[locks[s].attempt].session = s

SessionLockExact == ActiveAttemptHoldsLock /\ LockNamesActiveAttempt

-----------------------------------------------------------------------------
(* Workers *)

(* What a worker holds of an attempt, it holds of an attempt that exists, and
   only a process that is up walks a snapshot or runs a task. *)
CopiesHaveDocs ==
    \A r \in Runners, a \in Attempts :
        /\ seen[r][a] # None => docs[a] # None /\ status[r] = "up"
        /\ task[r][a] # "none" => docs[a] # None /\ status[r] = "up"

(* A worker that still has a task for an active attempt is the runner the
   attempt records, so a live job is executed by one worker only, however the
   snapshots of two claim loops, the reaper and a requeue interleave. *)
TaskHoldsAttempt ==
    \A r \in Runners, a \in Attempts :
        task[r][a] # "none" /\ IsActive(a) =>
            /\ docs[a].state = "running"
            /\ docs[a].runner = r

(* The executions of an attempt tell its story: all but the last were given
   back as retryable, and the last one agrees with the state of the job. *)
LineageAgrees(d) ==
    LET last == CurrentExecution(d)
    IN  /\ \A i \in 1..Len(d.executions) - 1 :
               d.executions[i].state = "failed_retryable"
        /\ d.state = "queued" <=> last.state = "created"
        /\ d.state = "running" => /\ last.state \in {"claimed", "running"}
                                  /\ last.worker = d.runner
        /\ d.state = "done" <=> last.state = "succeeded"
        /\ d.state \in {"failed", "expired"} <=>
               last.state \in {"failed_terminal", "abandoned"}

(* The lineage of every attempt agrees with its state: requeues, late
   failures and reaped jobs close the execution they end and no other. *)
LineageMatchesState == \A a \in Attempts : docs[a] # None => LineageAgrees(docs[a])

-----------------------------------------------------------------------------
(* Money *)

ReservedBy(u) == {a \in ActiveAttempts : UserOf[a] = u}

(* By how much the ledger is off: what it has reserved beyond (below zero: short
   of) what the active attempts of the account hold. *)
Drift(u) ==
    usage[u].reserved - Total([a \in Attempts |-> docs[a].reserved], ReservedBy(u))

(* The step in which a usage summary puts back the ledger it has read. *)
WrittenBack(u) ==
    \E q \in Readers :
        /\ summary[q] # None /\ summary'[q] = None
        /\ summary[q].user = u
        /\ usage'[u] = summary[q].ledger

(* The reserved time of an account balances with what its active attempts hold:
   each reservation is taken once and released or settled once, whichever of
   the worker, the reaper and the API ends the attempt.  Only a usage summary
   that puts an outdated ledger back takes it out of balance; what is missing
   after that shrinks, as a job gives back time the ledger no longer has, and
   nothing else changes it. *)
ReservationsBalance ==
    [][\A u \in Users :
          \/ WrittenBack(u)
          \/ Drift(u)' = Drift(u)
          \/ Drift(u) < Drift(u)' /\ Drift(u)' <= 0]_<<docs, usage>>

(* Whatever a step takes from an account is covered by its plan: used plus
   reserved time grows only up to what the plan includes.  It may stand above
   that because Stripe moved the account to a smaller plan, or because a
   usage summary put an outdated ledger back: a settlement of a job whose
   reservation that has erased takes at most what was erased. *)
Taken(l) == l.used + l.reserved

NoOverdraft ==
    [][\A u \in Users :
          Taken(usage'[u]) > Taken(usage[u]) =>
              \/ Taken(usage'[u]) <= usage'[u].included
              \/ Taken(usage'[u]) <= Taken(usage[u]) - Drift(u)
              \/ WrittenBack(u)]_vars

(* Used time grows only by a step that turns one active attempt of the account
   into a done one, by what that attempt records as billed and never by more
   than it had reserved: nobody pays for a failed job or twice for one job,
   unless a usage summary puts back a used time from before a renewal. *)
ChargeStep(u) ==
    \E a \in Attempts :
        /\ UserOf[a] = u
        /\ IsActive(a)
        /\ docs'[a].state = "done"
        /\ usage'[u].used = usage[u].used + docs'[a].billed
        /\ docs'[a].billed <= docs[a].reserved

ChargedOnlyBySettlement ==
    [][\A u \in Users :
          usage'[u].used > usage[u].used => ChargeStep(u) \/ WrittenBack(u)]_vars

(* A job that has ended never changes again: a late worker, a late reaper, a
   replayed request or a webhook leaves the terminal document alone. *)
TerminalIsFinal ==
    [][\A a \in Attempts :
          docs[a] # None /\ docs[a].state \in FinalStates => docs'[a] = docs[a]]_vars

-----------------------------------------------------------------------------
(* Admission *)

Admitted == {c \in Clients : api[c].pc = "admitted"}

(* Requests that passed the backlog check together can overshoot the limit,
   but by no more than the other requests in flight. *)
BacklogBounded ==
    Backlog + Cardinality(Admitted) <= BacklogLimit - 1 + Cardinality(Clients)

-----------------------------------------------------------------------------
(* The promise of module PaidRender, kept by the queue *)

Job == [phase : {"held", "charged", "released"}, session : Sessions,
        held : Estimates, paid : Charges]

ASSUME NoneIsNoJob == None \notin Job

JobOf(d) ==
    IF d = None
    THEN None
    ELSE [phase |-> IF d.state \in ActiveStates THEN "held"
                    ELSE IF d.state = "done" THEN "charged" ELSE "released",
          session |-> d.session,
          held |-> d.reserved,
          paid |-> d.billed]

Paid == INSTANCE PaidRender
            WITH job <- [a \in Attempts |-> JobOf(docs[a])], ledger <- usage, read <- summary

(* Claims, heartbeats, requeues, crashes, copies and retries are invisible to
   the account: every step of the queue reserves, charges or releases exactly
   one job as PaidRender allows, opens a period, is one of a usage summary, or
   changes neither. *)
ImplementsPaidRender == Paid!Spec

-----------------------------------------------------------------------------
(* Progress *)

(* Every accepted job ends, although workers crash, tasks die half way and
   requeues repeat: it is settled, failed or expired. *)
EveryAttemptEnds ==
    \A a \in Attempts : IsActive(a) ~> docs[a] # None /\ docs[a].state \in FinalStates

-----------------------------------------------------------------------------
(* Statements of the repository that the code does not keep *)

(* "Running attempts with expired leases mark the active embedded execution
   attempt `abandoned`": only an attempt whose lease has run out is abandoned. *)
AbandonedOnlyAfterLease ==
    [][\A a \in Attempts :
          /\ IsActive(a)
          /\ docs'[a].state = "failed"
          /\ CurrentExecution(docs'[a]).state = "abandoned"
          => docs[a].state = "running" /\ docs[a].lease = 0]_vars

(* "cycleReservedSec may carry across a period transition only to preserve a
   legitimate in-flight finalize reservation": an account without an active
   attempt has nothing reserved. *)
ReservedOnlyInFlight ==
    \A u \in Users : usage[u].reserved # 0 => ReservedBy(u) # {}

(* "Starting a new paid billing period resets cycleUsedSec to 0": only what is
   settled in a period is used in it. *)
UsedStaysInPeriod ==
    [][\A u \in Users : usage'[u].used > usage[u].used => ChargeStep(u)]_vars

(* "settle once": a rendered short is charged to the account once. *)
ShortChargedOnce ==
    \A a, b \in Attempts :
        /\ docs[a] # None /\ docs[a].state = "done"
        /\ docs[b] # None /\ docs[b].state = "done"
        /\ docs[a].short = docs[b].short
        => a = b

(* "genuinely new finalize admissions over cap return 503": the backlog stays
   within its limit. *)
BacklogWithinLimit == Backlog <= BacklogLimit
=============================================================================
