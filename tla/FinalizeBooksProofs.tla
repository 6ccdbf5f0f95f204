------------------------ MODULE FinalizeBooksProofs ------------------------
(***************************************************************************)
(* Proofs about the books that are kept of finalize attempts, in three     *)
(* parts.                                                                  *)
(*                                                                         *)
(* The money: reservations balance, nothing is taken beyond the plan, used *)
(* time grows by settlements only, and the queue implements PaidRender,    *)
(* but for the steps in which a usage summary puts an older ledger back,   *)
(* outside a transaction, and by no more than these have erased.           *)
(*                                                                         *)
(* The counters of FinalizeMetrics: an end is told, or whoever recorded it *)
(* is at it, has died or has thrown.                                       *)
(*                                                                         *)
(* The dashboard of ControlRoom: every figure was so while the answer was  *)
(* put together, and the parts of the page do not contradict each other.   *)
(***************************************************************************)
EXTENDS FinalizeAttemptsProofs, TotalsProofs, FinalizeMetrics, ControlRoom

-----------------------------------------------------------------------------
(* Steps, by what they do to the jobs of PaidRender and to the ledger. *)

Unpaid ==
    /\ \A a \in Attempts : JobOf(docs'[a]) = JobOf(docs[a])
    /\ UNCHANGED usage

Reserves(a, s, est) ==
    /\ MayEnqueue(a, s, est)
    /\ UserOf[a] = UserOf[s]
    /\ docs' = [docs EXCEPT ![a] = NewAttempt(s, est)]
    /\ usage' = [usage EXCEPT ![UserOf[a]] = ApplyUsageDelta(usage[UserOf[a]], 0, est)]

Charged(a, d, ms) ==
    d.state = "done" /\ d.billed = ms /\ ms \in Charges /\ 0 < ms /\ ms <= docs[a].reserved

Released(a, d, ms) ==
    d.state \in {"failed", "expired"} /\ d.billed = docs[a].billed /\ ms = 0

GivesBack(a, d, ms) ==
    /\ IsActive(a)
    /\ d \in Attempt /\ d.session = docs[a].session /\ d.reserved = docs[a].reserved
    /\ Charged(a, d, ms) \/ Released(a, d, ms)
    /\ docs' = [docs EXCEPT ![a] = d]
    /\ usage' = [usage EXCEPT ![UserOf[a]] =
                     ApplyUsageDelta(usage[UserOf[a]], ms, -docs[a].reserved)]

Renews(u, included) ==
    /\ \E used \in {0, usage[u].used} :
           usage' = [usage EXCEPT ![u] = [usage[u] EXCEPT !.used = used, !.included = included]]
    /\ UNCHANGED docs

(* What is no step of a usage summary *)
MoneyEffect ==
    \/ Unpaid
    \/ \E a \in Attempts, s \in Sessions, est \in Estimates : Reserves(a, s, est)
    \/ \E a \in Attempts : \E d, ms : GivesBack(a, d, ms)
    \/ \E u \in Users, included \in Plans : Renews(u, included)

SummaryStep ==
    \E q \in Readers : (\E u \in Users : ReadUsage(q, u)) \/ WriteUsage(q)

(* What the writers leave of a document. *)
LEMMA WritersKeepMoney ==
    ASSUME NEW d \in Attempt, NEW r \in Runners
    PROVE  /\ \A f \in {ClaimedAttempt(d, r), StartedAttempt(d, r), RenewedAttempt(d, r),
                        RequeuedAttempt(d, r), TickedAttempt(d)} :
                  f.reserved = d.reserved /\ f.billed = d.billed
           /\ \A st, ex : LET f == FailedAttempt(d, st, ex) IN
                  f.reserved = d.reserved /\ f.billed = d.billed
           /\ \A v : LET f == SettledAttempt(d, v) IN f.reserved = d.reserved
<1>1. /\ ClaimedAttempt(d, r).reserved = d.reserved /\ ClaimedAttempt(d, r).billed = d.billed
      /\ StartedAttempt(d, r).reserved = d.reserved /\ StartedAttempt(d, r).billed = d.billed
      /\ RenewedAttempt(d, r).reserved = d.reserved /\ RenewedAttempt(d, r).billed = d.billed
  BY DEF Attempt, ClaimedAttempt, StartedAttempt, RenewedAttempt
<1>2. RequeuedAttempt(d, r).reserved = d.reserved /\ RequeuedAttempt(d, r).billed = d.billed
  BY DEF Attempt, RequeuedAttempt
<1>3. TickedAttempt(d).reserved = d.reserved /\ TickedAttempt(d).billed = d.billed
  BY DEF Attempt, TickedAttempt
<1>4. ASSUME NEW st, NEW ex
      PROVE  /\ FailedAttempt(d, st, ex).reserved = d.reserved
             /\ FailedAttempt(d, st, ex).billed = d.billed
  BY DEF Attempt, FailedAttempt
<1>5. ASSUME NEW v PROVE SettledAttempt(d, v).reserved = d.reserved
  BY DEF Attempt, SettledAttempt
<1> QED  BY <1>1, <1>2, <1>3, <1>4, <1>5

(* A document that stays active, for the same session, time and bill, is the
   same job. *)
LEMMA SameJob ==
    ASSUME TypeOK, NEW a \in Attempts, NEW d \in Attempt, docs[a] \in Attempt,
           d.session = docs[a].session, d.reserved = docs[a].reserved,
           d.billed = docs[a].billed,
           (d.state \in ActiveStates /\ docs[a].state \in ActiveStates) \/ d.state = docs[a].state,
           docs' = [docs EXCEPT ![a] = d]
    PROVE  \A b \in Attempts : JobOf(docs'[b]) = JobOf(docs[b])
<1>1. docs'[a] = d /\ \A b \in Attempts \ {a} : docs'[b] = docs[b]
  BY DEF TypeOK
<1>2. d # None /\ docs[a] # None
  BY NoneAssumption
<1> QED  BY <1>1, <1>2 DEF JobOf

(* Ending an attempt without a charge gives its reservation back, or finds it
   ended. *)
LEMMA FailureMoney ==
    ASSUME TypeOK, NEW a \in Attempts, NEW st \in {"failed", "expired"},
           NEW ex \in {"failed_terminal", "abandoned"},
           FinalizeAttemptFailure(a, st, ex)
    PROVE  Unpaid \/ \E d, ms : GivesBack(a, d, ms)
<1>1. CASE ~IsActive(a)
  BY <1>1 DEF FinalizeAttemptFailure, Unpaid, JobOf
<1>2. CASE IsActive(a)
  <2> DEFINE d == FailedAttempt(docs[a], st, ex)
  <2>1. docs[a] \in Attempt
    BY <1>2, ActiveIsDocument DEF IsActive
  <2>2. d \in Attempt /\ d.state = st /\ d.session = docs[a].session
    BY <2>1, FailedAttemptProperties
  <2>3. d.reserved = docs[a].reserved /\ d.billed = docs[a].billed
    BY <2>1 DEF FailedAttempt, Attempt
  <2>4. /\ docs' = [docs EXCEPT ![a] = d]
        /\ usage' = [usage EXCEPT ![UserOf[a]] =
                         ApplyUsageDelta(usage[UserOf[a]], 0, -docs[a].reserved)]
    BY <1>2 DEF FinalizeAttemptFailure
  <2> HIDE DEF d
  <2>5. GivesBack(a, d, 0)
    BY <1>2, <2>2, <2>3, <2>4 DEF GivesBack, Released
  <2> QED  BY <2>5
<1> QED  BY <1>1, <1>2

(* What an account knows of its requests: the session is its own. *)
OwnRequests ==
    \A c \in Clients : api[c] # IdleRequest =>
        UserOf[api[c].attempt] = UserOf[api[c].session]

(* Every step but those of the summaries leaves what they have read. *)
LEMMA SummaryKept ==
    ASSUME Next, ~SummaryStep
    PROVE  summary' = summary
<1>1. ASSUME NEW c \in Clients, ApiStep(c) PROVE summary' = summary
  BY <1>1 DEF ApiStep, PrepareChecks, CheckBackpressure, PrepareTx, PersistPending,
              PersistPendingFails, RequestDies
<1>2. ASSUME NEW r \in Runners, RunnerStep(r) PROVE summary' = summary
  <2>1. ASSUME NEW a \in Attempts,
               PassOver(r, a) \/ Claim(r, a) \/ Heartbeat(r, a) \/ TaskStep(r, a) \/ ReapStep(r, a)
        PROVE  summary' = summary
    BY <2>1 DEF PassOver, Claim, Heartbeat, TaskStep, ReapStep, MarkStarted, LoadSession,
                SaveSession, RenderBusy, RenderSucceeds, TaskThrows, Settle, QueueForRetry,
                FailTask, TaskDies, ReapNothing, ReapExpired
  <2> QED  BY <1>2, <2>1 DEF RunnerStep, StartRunner, StopRunner, PollQueue, ReapSnapshot,
                             ReaperThrows
<1> QED  BY <1>1, <1>2 DEF Next, SummaryStep, Tick, EditSession, OpenSession, SaveOpened,
                            RenewPeriod

(* Every other step has one of the four effects. *)
LEMMA MoneyEffects ==
    ASSUME TypeOK, CopiesHaveDocs, OwnRequests, Next, ~SummaryStep
    PROVE  MoneyEffect
<1>0. ASSUME UNCHANGED <<docs, usage>> PROVE Unpaid
  BY <1>0 DEF Unpaid, JobOf
<1>1. ASSUME NEW c \in Clients, ApiStep(c) PROVE MoneyEffect
  <2>1. CASE \/ \E a \in Attempts, s \in Sessions, est \in Estimates : PrepareChecks(c, a, s, est)
             \/ CheckBackpressure(c) \/ PersistPending(c) \/ RequestDies(c)
    BY <1>0, <2>1 DEF PrepareChecks, CheckBackpressure, PersistPending, RequestDies, MoneyEffect
  <2>2. CASE PrepareTx(c)
    <3> DEFINE a == api[c].attempt
               s == api[c].session
               est == api[c].estimate
    <3>1. /\ a \in Attempts /\ s \in Sessions /\ est \in Estimates
          /\ UserOf[a] = UserOf[s]
      BY <2>2 DEF PrepareTx, TypeOK, IdleRequest, Waiting, OwnRequests
    <3>2. CASE MayEnqueue(a, s, est)
      <4>1. Reserves(a, s, est)
        BY <2>2, <3>1, <3>2 DEF PrepareTx, Reserves
      <4> HIDE DEF a, s, est
      <4> QED  BY <3>1, <4>1 DEF MoneyEffect
    <3>3. CASE ~MayEnqueue(a, s, est)
      BY <1>0, <2>2, <3>3 DEF PrepareTx, MoneyEffect
    <3> QED  BY <3>2, <3>3
  <2>3. CASE PersistPendingFails(c)
    <3>1. api[c].attempt \in Attempts
      BY <2>3 DEF PersistPendingFails, TypeOK, IdleRequest, Waiting
    <3> QED  BY <2>3, <3>1, FailureMoney DEF PersistPendingFails, MoneyEffect
  <2> QED  BY <1>1, <2>1, <2>2, <2>3 DEF ApiStep
<1>2. ASSUME NEW r \in Runners,
             \/ StartRunner(r) \/ StopRunner(r) \/ PollQueue(r)
             \/ ReapSnapshot(r) \/ ReaperThrows(r)
      PROVE  MoneyEffect
  BY <1>0, <1>2 DEF StartRunner, StopRunner, PollQueue, ReapSnapshot, ReaperThrows, MoneyEffect
<1>3. ASSUME NEW r \in Runners, NEW a \in Attempts,
             \/ PassOver(r, a) \/ LoadSession(r, a) \/ SaveSession(r, a) \/ RenderBusy(r, a)
             \/ \E charge \in Charges : RenderSucceeds(r, a, charge)
             \/ TaskThrows(r, a) \/ TaskDies(r, a) \/ ReapNothing(r, a)
      PROVE  MoneyEffect
  BY <1>0, <1>3 DEF PassOver, LoadSession, SaveSession, RenderBusy, RenderSucceeds,
                    TaskThrows, TaskDies, ReapNothing, MoneyEffect
<1>4. ASSUME NEW r \in Runners, NEW a \in Attempts, Claim(r, a)
      PROVE  Unpaid
  <2>1. docs[a] \in Attempt /\ docs[a].state = "queued"
    BY <1>4, ActiveIsDocument DEF Claim, CopiesHaveDocs
  <2>2. /\ docs' = [docs EXCEPT ![a] = ClaimedAttempt(docs[a], r)]
        /\ UNCHANGED usage
    BY <1>4 DEF Claim
  <2> QED  BY <2>1, <2>2, ClaimedAttemptProperties, WritersKeepMoney, SameJob
           DEF Unpaid, ActiveStates
<1>5. ASSUME NEW r \in Runners, NEW a \in Attempts, MarkStarted(r, a) \/ Heartbeat(r, a)
      PROVE  MoneyEffect
  <2>1. CASE UNCHANGED docs
    BY <1>0, <1>5, <2>1 DEF MarkStarted, Heartbeat, MoneyEffect
  <2>2. CASE docs' # docs
    <3>1. PICK d \in {StartedAttempt(docs[a], r), RenewedAttempt(docs[a], r)} :
             docs' = [docs EXCEPT ![a] = d]
      BY <1>5, <2>2 DEF MarkStarted, Heartbeat
    <3>2. docs[a] \in Attempt
      BY <1>5, ActiveIsDocument DEF MarkStarted, Heartbeat, CopiesHaveDocs
    <3>3. /\ d \in Attempt /\ d.session = docs[a].session /\ d.state = docs[a].state
          /\ d.reserved = docs[a].reserved /\ d.billed = docs[a].billed
      BY <3>1, <3>2, StartedAttemptProperties, RenewedAttemptProperties, WritersKeepMoney
    <3>4. UNCHANGED usage
      BY <1>5 DEF MarkStarted, Heartbeat
    <3> QED  BY <3>1, <3>2, <3>3, <3>4, SameJob DEF Unpaid, MoneyEffect
  <2> QED  BY <2>1, <2>2
<1>6. ASSUME NEW r \in Runners, NEW a \in Attempts, Settle(r, a)
      PROVE  MoneyEffect
  <2> DEFINE v == held[r][a]
             d == SettledAttempt(docs[a], v)
  <2>1. CASE IsActive(a) /\ Billable(v, docs[a])
    <3>1. docs[a] \in Attempt /\ v \in Video
      BY <2>1, ActiveIsDocument DEF TypeOK, Billable, IsActive
    <3>2. /\ d \in Attempt /\ d.state = "done" /\ d.session = docs[a].session
          /\ d.billed = v.charge /\ d.reserved = docs[a].reserved
      BY <3>1, SettledAttemptProperties, WritersKeepMoney
    <3>3. v.charge \in Charges /\ 0 < v.charge /\ v.charge <= docs[a].reserved
      BY <2>1, <3>1 DEF Billable, Video
    <3>4. /\ docs' = [docs EXCEPT ![a] = d]
          /\ usage' = [usage EXCEPT ![UserOf[a]] =
                           ApplyUsageDelta(usage[UserOf[a]], v.charge, -docs[a].reserved)]
      BY <1>6, <2>1 DEF Settle
    <3> HIDE DEF d, v
    <3>5. GivesBack(a, d, v.charge)
      BY <2>1, <3>2, <3>3, <3>4 DEF GivesBack, Charged
    <3> QED  BY <3>5 DEF MoneyEffect
  <2>2. CASE ~(IsActive(a) /\ Billable(v, docs[a]))
    BY <1>0, <1>6, <2>2 DEF Settle, MoneyEffect
  <2> QED  BY <2>1, <2>2
<1>7. ASSUME NEW r \in Runners, NEW a \in Attempts, QueueForRetry(r, a)
      PROVE  MoneyEffect
  <2>1. CASE Holds(r, a)
    <3>1. docs[a] \in Attempt /\ docs[a].state = "running"
      BY <2>1, ActiveIsDocument DEF Holds
    <3>2. docs' = [docs EXCEPT ![a] = RequeuedAttempt(docs[a], r)] /\ UNCHANGED usage
      BY <1>7, <2>1 DEF QueueForRetry
    <3>3. Unpaid
      BY <3>1, <3>2, RequeuedAttemptProperties, WritersKeepMoney, SameJob
      DEF Unpaid, ActiveStates
    <3> QED  BY <3>3 DEF MoneyEffect
  <2>2. CASE ~Holds(r, a)
    BY <1>0, <1>7, <2>2 DEF QueueForRetry, MoneyEffect
  <2> QED  BY <2>1, <2>2
<1>8. ASSUME NEW r \in Runners, NEW a \in Attempts, FailTask(r, a) \/ ReapExpired(r, a)
      PROVE  MoneyEffect
  BY <1>8, FailureMoney DEF FailTask, ReapExpired, MoneyEffect
<1>9. CASE Tick
  <2>1. ASSUME NEW b \in Attempts PROVE JobOf(docs'[b]) = JobOf(docs[b])
    <3>1. docs'[b] = TickedAttempt(docs[b])
      BY <1>9 DEF Tick
    <3>2. CASE docs[b] = None
      BY <3>1, <3>2 DEF TickedAttempt, JobOf
    <3>3. CASE docs[b] # None
      <4>1. docs[b] \in Attempt
        BY <3>3, ActiveIsDocument
      <4>2. /\ docs'[b] \in Attempt /\ docs'[b].state = docs[b].state
            /\ docs'[b].session = docs[b].session
        BY <3>1, <4>1, TickedAttemptProperties
      <4>3. docs'[b].reserved = docs[b].reserved /\ docs'[b].billed = docs[b].billed
        BY <3>1, <4>1 DEF TickedAttempt, Attempt
      <4> QED  BY <3>3, <4>2, <4>3, NoneAssumption DEF JobOf
    <3> QED  BY <3>2, <3>3
  <2> QED  BY <1>9, <2>1 DEF Tick, Unpaid, MoneyEffect
<1>10. ASSUME NEW u \in Users, NEW included \in Plans, RenewPeriod(u, included)
       PROVE  MoneyEffect
  <2>1. usage[u] \in Ledger
    BY DEF TypeOK
  <2>2. PICK used \in {0, usage[u].used} :
           usage' = [usage EXCEPT ![u] = [usage[u] EXCEPT !.used = used,
                                                          !.included = included]]
    BY <1>10, <2>1 DEF RenewPeriod
  <2> QED  BY <1>10, <2>2 DEF RenewPeriod, Renews, MoneyEffect
<1>11. CASE \/ \E s \in Sessions : EditSession(s)
            \/ \E e \in Editors : (\E s \in Sessions : OpenSession(e, s)) \/ SaveOpened(e)
  BY <1>0, <1>11 DEF EditSession, OpenSession, SaveOpened, MoneyEffect
<1> QED
  BY <1>1, <1>2, <1>3, <1>4, <1>5, <1>6, <1>7, <1>8, <1>9, <1>10, <1>11
  DEF Next, RunnerStep, TaskStep, ReapStep, MoneyEffect, SummaryStep
-----------------------------------------------------------------------------
(* The balance of reservations *)

(* What an attempt has reserved while it is active *)
HeldBy == [a \in Attempts |-> docs[a].reserved]

Documents == {a \in Attempts : docs[a] # None}

(* An account's active attempts are finitely many and hold natural numbers. *)
LEMMA HeldProperties ==
    ASSUME TypeOK, IsFiniteSet(Documents), NEW u \in Users
    PROVE  /\ IsFiniteSet(ReservedBy(u))
           /\ \A a \in ReservedBy(u) : a \in Attempts /\ HeldBy[a] = docs[a].reserved /\ HeldBy[a] \in Nat
           /\ Total(HeldBy, ReservedBy(u)) \in Nat
<1>1. ReservedBy(u) \subseteq Documents
  BY DEF ReservedBy, ActiveAttempts, IsActive, Documents
<1>2. IsFiniteSet(ReservedBy(u))
  BY <1>1, FS_Subset
<1>3. ASSUME NEW a \in ReservedBy(u)
      PROVE  a \in Attempts /\ HeldBy[a] = docs[a].reserved /\ HeldBy[a] \in Nat
  <2>1. a \in Attempts /\ docs[a] \in Attempt
    BY ActiveIsDocument DEF ReservedBy, ActiveAttempts, IsActive
  <2> QED  BY <2>1, EstimatesAssumption DEF HeldBy, Attempt
<1> QED  BY <1>2, <1>3, TotalType

(* An active attempt is a job that holds its reservation. *)
LEMMA HeldJobs ==
    ASSUME NEW d \in Attempt \cup {None}
    PROVE  /\ d # None => JobOf(d) \in Job
           /\ d = None <=> JobOf(d) = None
           /\ d # None /\ d.state \in ActiveStates <=>
                  JobOf(d) # None /\ JobOf(d).phase = "held"
           /\ d # None => /\ JobOf(d).session = d.session
                          /\ JobOf(d).held = d.reserved
                          /\ JobOf(d).paid = d.billed
<1>1. d # None => JobOf(d) \in Job
  BY DEF JobOf, Job, Attempt, ActiveStates, FinalStates
<1>2. d = None <=> JobOf(d) = None
  BY <1>1, NoneIsNoJob DEF JobOf
<1>3. d # None => /\ d.state \in ActiveStates <=> JobOf(d).phase = "held"
                  /\ JobOf(d).session = d.session
                  /\ JobOf(d).held = d.reserved
                  /\ JobOf(d).paid = d.billed
  BY DEF JobOf
<1> QED  BY <1>1, <1>2, <1>3

(* There are only ever finitely many documents: a step creates one at most. *)
LEMMA DocumentsFinite ==
    ASSUME TypeOK, TypeOK', IsFiniteSet(Documents), MoneyEffect
    PROVE  IsFiniteSet(Documents)'
<1>1. CASE Unpaid
  <2>1. ASSUME NEW a \in Attempts PROVE docs'[a] = None <=> docs[a] = None
    <3>1. docs[a] \in Attempt \cup {None} /\ docs'[a] \in Attempt \cup {None}
      BY DEF TypeOK
    <3>2. JobOf(docs'[a]) = JobOf(docs[a])
      BY <1>1 DEF Unpaid
    <3> QED  BY <3>1, <3>2, HeldJobs
  <2> QED  BY <2>1 DEF Documents
<1>2. ASSUME NEW a \in Attempts, NEW d, docs' = [docs EXCEPT ![a] = d]
      PROVE  IsFiniteSet(Documents)'
  <2>1. Documents' \subseteq Documents \cup {a}
    BY <1>2 DEF Documents, TypeOK
  <2> QED  BY <2>1, FS_AddElement, FS_Subset
<1>3. CASE UNCHANGED docs
  BY <1>3 DEF Documents
<1> QED  BY <1>1, <1>2, <1>3 DEF MoneyEffect, Reserves, GivesBack, Renews

Balanced(u) ==
    \/ Drift(u)' = Drift(u)
    \/ Drift(u) < Drift(u)' /\ Drift(u)' <= 0

(* A reservation is taken once and given back once: what is reserved stays
   as far from the total of what active attempts hold, or comes nearer where
   the ledger has less than a job gives back. *)
LEMMA BalanceKept ==
    ASSUME TypeOK, TypeOK', IsFiniteSet(Documents), MoneyEffect
    PROVE  \A u \in Users : Balanced(u)
<1> DEFINE R(u) == ReservedBy(u)
<1>0. \A u \in Users : /\ usage[u] \in Ledger
                       /\ usage[u].reserved \in Nat /\ Total(HeldBy, R(u)) \in Nat
                       /\ Drift(u) = usage[u].reserved - Total(HeldBy, R(u))
                       /\ Drift(u)' = usage'[u].reserved - Total(HeldBy', R(u)')
  BY HeldProperties DEF HeldBy, TypeOK, Ledger, Drift
<1>1. ASSUME Unpaid, NEW u \in Users
      PROVE  Balanced(u)
  <2>1. ASSUME NEW a \in Attempts
        PROVE  /\ IsActive(a)' <=> IsActive(a)
               /\ docs[a] # None => docs'[a].reserved = docs[a].reserved
    <3>1. docs[a] \in Attempt \cup {None} /\ docs'[a] \in Attempt \cup {None}
      BY DEF TypeOK
    <3>2. JobOf(docs'[a]) = JobOf(docs[a])
      BY <1>1 DEF Unpaid
    <3> QED  BY <3>1, <3>2, HeldJobs DEF IsActive
  <2>2. R(u)' = R(u)
    BY <2>1 DEF ReservedBy, ActiveAttempts
  <2>3. \A a \in R(u) : HeldBy[a] = HeldBy'[a]
    BY <2>1 DEF HeldBy, ReservedBy, ActiveAttempts, IsActive
  <2>4. Total(HeldBy, R(u)) = Total(HeldBy', R(u))
    BY <2>3, TotalSame
  <2>5. usage' = usage
    BY <1>1 DEF Unpaid
  <2> QED  BY <1>0, <2>2, <2>4, <2>5 DEF Balanced
<1>2. ASSUME NEW a \in Attempts, NEW s \in Sessions, NEW est \in Estimates,
             Reserves(a, s, est), NEW u \in Users
      PROVE  Balanced(u)
  <2>1. /\ docs[a] = None
        /\ docs'[a] = NewAttempt(s, est)
        /\ \A b \in Attempts \ {a} : docs'[b] = docs[b]
    BY <1>2 DEF Reserves, MayEnqueue, TypeOK
  <2>2. /\ docs'[a] # None /\ docs'[a].state \in ActiveStates
        /\ docs'[a].reserved = est /\ est \in Nat
    BY <2>1, NewAttemptProperties, NoneAssumption, EstimatesAssumption
    DEF NewAttempt, ActiveStates
  <2>3. IsActive(a)' /\ ~IsActive(a)
    BY <2>1, <2>2 DEF IsActive
  <2>4. \A b \in Attempts \ {a} : IsActive(b)' <=> IsActive(b)
    BY <2>1 DEF IsActive
  <2>7. a \notin R(u) /\ R(u)' = IF UserOf[a] = u THEN R(u) \cup {a} ELSE R(u)
    BY <2>3, <2>4 DEF ReservedBy, ActiveAttempts
  <2>8. /\ \A b \in R(u) : HeldBy'[b] = HeldBy[b] /\ HeldBy[b] \in Nat
        /\ IsFiniteSet(R(u)) /\ Total(HeldBy, R(u)) \in Nat
        /\ HeldBy'[a] = est
    BY <2>1, <2>2, <2>7, HeldProperties DEF HeldBy
  <2>9. Total(HeldBy', R(u)) = Total(HeldBy, R(u))
    BY <2>8, TotalSame
  <2>10. CASE UserOf[a] = u
    <3>1. Total(HeldBy', R(u) \cup {a}) = Total(HeldBy', R(u)) + est
      <4>1. \A b \in R(u) \cup {a} : HeldBy'[b] \in Nat
        BY <2>2, <2>8
      <4> HIDE DEF R
      <4> QED  BY <2>7, <2>8, <4>1, TotalAdd
    <3>2. usage'[u] = ApplyUsageDelta(usage[u], 0, est)
      BY <1>2, <2>10 DEF Reserves, TypeOK
    <3>3. usage'[u].reserved = usage[u].reserved + est
      BY <1>0, <2>2, <3>2 DEF ApplyUsageDelta, AtLeastZero, Ledger
    <3>4. Total(HeldBy', R(u)') = Total(HeldBy, R(u)) + est
      BY <2>7, <2>9, <2>10, <3>1
    <3> HIDE DEF R
    <3>5. Drift(u)' = Drift(u)
      BY <1>0, <2>2, <3>3, <3>4
    <3> QED  BY <3>5 DEF Balanced
  <2>11. CASE UserOf[a] # u
    <3>1. usage'[u] = usage[u]
      BY <1>2, <2>11 DEF Reserves, TypeOK
    <3> QED  BY <1>0, <2>7, <2>9, <2>11, <3>1 DEF Balanced
  <2> QED  BY <2>10, <2>11
<1>3. ASSUME NEW a \in Attempts, NEW d, NEW ms, GivesBack(a, d, ms), NEW u \in Users
      PROVE  Balanced(u)
  <2>1. /\ docs[a] # None /\ d # None
        /\ docs'[a] = d
        /\ \A b \in Attempts \ {a} : docs'[b] = docs[b]
    BY <1>3, NoneAssumption DEF GivesBack, IsActive, TypeOK
  <2>2. IsActive(a) /\ ~IsActive(a)'
    BY <1>3, <2>1 DEF GivesBack, Charged, Released, IsActive, ActiveStates
  <2>3. \A b \in Attempts \ {a} : IsActive(b)' <=> IsActive(b)
    BY <2>1 DEF IsActive
  <2>5. /\ R(u)' = R(u) \ {a}
        /\ a \in R(u) <=> UserOf[a] = u
    BY <2>2, <2>3 DEF ReservedBy, ActiveAttempts
  <2>6. /\ \A b \in R(u) : HeldBy[b] \in Nat
        /\ \A b \in R(u) \ {a} : HeldBy'[b] = HeldBy[b]
        /\ IsFiniteSet(R(u)) /\ Total(HeldBy, R(u)) \in Nat
        /\ HeldBy[a] = docs[a].reserved
    BY <2>1, HeldProperties DEF HeldBy
  <2>7. Total(HeldBy', R(u) \ {a}) = Total(HeldBy, R(u) \ {a})
    BY <2>6, TotalSame
  <2>8. CASE UserOf[a] = u
    <3>1. /\ Total(HeldBy, R(u) \ {a}) = Total(HeldBy, R(u)) - HeldBy[a]
          /\ HeldBy[a] <= Total(HeldBy, R(u))
          /\ HeldBy[a] \in Nat
      <4>1. a \in R(u)
        BY <2>5, <2>8
      <4> HIDE DEF R
      <4> QED  BY <2>6, <4>1, TotalRemove
    <3>2. usage'[u] = ApplyUsageDelta(usage[u], ms, -docs[a].reserved)
      BY <1>3, <2>8 DEF GivesBack, TypeOK
    <3>3. usage'[u].reserved = AtLeastZero(usage[u].reserved - HeldBy[a])
      BY <1>0, <2>6, <3>1, <3>2 DEF ApplyUsageDelta, AtLeastZero, Ledger
    <3>4. Total(HeldBy', R(u)') = Total(HeldBy, R(u)) - HeldBy[a]
      BY <2>5, <2>7, <3>1
    <3> HIDE DEF R
    <3>5. CASE HeldBy[a] <= usage[u].reserved
      <4>1. usage'[u].reserved = usage[u].reserved - HeldBy[a]
        BY <1>0, <3>1, <3>3, <3>5 DEF AtLeastZero
      <4>2. Drift(u)' = Drift(u)
        BY <1>0, <3>1, <3>4, <4>1
      <4> QED  BY <4>2 DEF Balanced
    <3>6. CASE usage[u].reserved < HeldBy[a]
      <4>1. usage'[u].reserved = 0
        BY <1>0, <3>1, <3>3, <3>6 DEF AtLeastZero
      <4>2. Drift(u) < Drift(u)' /\ Drift(u)' <= 0
        BY <1>0, <3>1, <3>4, <3>6, <4>1
      <4> QED  BY <4>2 DEF Balanced
    <3> QED  BY <1>0, <3>1, <3>5, <3>6
  <2>9. CASE UserOf[a] # u
    <3>1. usage'[u] = usage[u]
      BY <1>3, <2>9 DEF GivesBack, TypeOK
    <3>2. R(u) \ {a} = R(u)
      BY <2>5, <2>9
    <3> QED  BY <1>0, <2>5, <2>7, <3>1, <3>2 DEF Balanced
  <2> QED  BY <2>8, <2>9
<1>4. ASSUME NEW v \in Users, NEW included \in Plans, Renews(v, included), NEW u \in Users
      PROVE  Balanced(u)
  <2>1. R(u)' = R(u) /\ HeldBy' = HeldBy
    BY <1>4 DEF Renews, ReservedBy, ActiveAttempts, IsActive, HeldBy
  <2>2. usage'[u].reserved = usage[u].reserved
    <3>1. PICK used \in {0, usage[v].used} :
             usage' = [usage EXCEPT ![v] = [usage[v] EXCEPT !.used = used,
                                                            !.included = included]]
      BY <1>4 DEF Renews
    <3> QED  BY <1>0, <3>1 DEF Ledger, TypeOK
  <2> QED  BY <1>0, <2>1, <2>2 DEF Balanced
<1> HIDE DEF R
<1> QED  BY <1>1, <1>2, <1>3, <1>4 DEF MoneyEffect
-----------------------------------------------------------------------------
(* The invariant *)

(* A request is for a session of the account it is made by. *)
LEMMA OwnRequestsKept ==
    ASSUME TypeOK, OwnRequests, Next
    PROVE  OwnRequests'
<1> SUFFICES ASSUME NEW c \in Clients, api'[c] # IdleRequest
             PROVE  UserOf[api'[c].attempt] = UserOf[api'[c].session]
  BY DEF OwnRequests
<1>1. CASE api' = api
  BY <1>1 DEF OwnRequests
<1>2. ASSUME NEW b \in Clients, ApiStep(b)
      PROVE  UserOf[api'[c].attempt] = UserOf[api'[c].session]
  <2>1. CASE c # b
    BY <1>2, <2>1 DEF ApiStep, PrepareChecks, CheckBackpressure, PrepareTx, PersistPending,
                      PersistPendingFails, RequestDies, TypeOK, OwnRequests
  <2>2. CASE c = b
    <3>1. ASSUME NEW a \in Attempts, NEW s \in Sessions, NEW est \in Estimates,
                 PrepareChecks(b, a, s, est)
          PROVE  UserOf[api'[c].attempt] = UserOf[api'[c].session]
      BY <2>2, <3>1 DEF PrepareChecks, TypeOK, IdleRequest
    <3>2. CASE CheckBackpressure(b) \/ PrepareTx(b)
      <4>1. api[b] \in Waiting /\ api[b] # IdleRequest
        BY <3>2 DEF CheckBackpressure, PrepareTx, TypeOK, IdleRequest
      <4>2. api'[b].attempt = api[b].attempt /\ api'[b].session = api[b].session
        BY <2>2, <3>2, <4>1 DEF CheckBackpressure, PrepareTx, TypeOK, Waiting
      <4> QED  BY <2>2, <4>1, <4>2 DEF OwnRequests
    <3>3. CASE PersistPending(b) \/ PersistPendingFails(b) \/ RequestDies(b)
      BY <2>2, <3>3 DEF PersistPending, PersistPendingFails, RequestDies, TypeOK
    <3> QED  BY <1>2, <3>1, <3>2, <3>3 DEF ApiStep
  <2> QED  BY <2>1, <2>2
<1> QED  BY <1>1, <1>2, RequestsKept DEF Next

(* The balance needs the types and the copies of IInv to know what a step
   writes, requests of their own account, as time is reserved with the account
   of the session and given back to the account of the attempt, and totals of
   finitely many. *)
MoneyInv ==
    /\ IInv
    /\ OwnRequests
    /\ IsFiniteSet(Documents)

LEMMA InitMoneyInv == Init => MoneyInv
<1> SUFFICES ASSUME Init PROVE MoneyInv
  OBVIOUS
<1>1. IInv
  BY InitIInv
<1>2. OwnRequests
  BY DEF Init, OwnRequests
<1>3. Documents = {}
  BY DEF Init, Documents
<1> QED  BY <1>1, <1>2, <1>3, FS_EmptySet DEF MoneyInv

LEMMA NextMoneyInv == MoneyInv /\ [Next]_vars => MoneyInv'
<1> SUFFICES ASSUME MoneyInv, [Next]_vars PROVE MoneyInv'
  OBVIOUS
<1>0. IInv /\ IInv' /\ TypeOK /\ TypeOK' /\ CopiesHaveDocs
  BY NextIInv DEF MoneyInv, IInv
<1>1. CASE Next
  <2>1. OwnRequests'
    BY <1>0, <1>1, OwnRequestsKept DEF MoneyInv
  <2>2. CASE SummaryStep
    BY <1>0, <2>1, <2>2 DEF MoneyInv, SummaryStep, ReadUsage, WriteUsage, Documents
  <2>3. CASE ~SummaryStep
    <3>1. MoneyEffect
      BY <1>0, <1>1, <2>3, MoneyEffects DEF MoneyInv
    <3> QED  BY <1>0, <2>1, <3>1, DocumentsFinite DEF MoneyInv
  <2> QED  BY <2>2, <2>3
<1>2. CASE UNCHANGED vars
  BY <1>0, <1>2 DEF vars, MoneyInv, OwnRequests, Documents
<1> QED  BY <1>1, <1>2

(* The invariant holds in every state. *)
LEMMA MoneyInvariance == Spec => []MoneyInv
<1> QED  BY InitMoneyInv, NextMoneyInv, PTL DEF Spec

-----------------------------------------------------------------------------
(* What a step does to a ledger *)

(* An active attempt holds no more than its account's attempts together. *)
LEMMA HeldIsCounted ==
    ASSUME MoneyInv, NEW a \in Attempts, IsActive(a)
    PROVE  /\ docs[a].reserved \in Nat
           /\ Drift(UserOf[a]) \in Int
           /\ docs[a].reserved <= usage[UserOf[a]].reserved - Drift(UserOf[a])
<1> DEFINE u == UserOf[a]
           S == ReservedBy(u)
<1>1. TypeOK /\ IsFiniteSet(Documents) /\ u \in Users
  BY UserOfAssumption DEF MoneyInv, IInv
<1>2. a \in S
  BY DEF ReservedBy, ActiveAttempts
<1>3. /\ IsFiniteSet(S) /\ HeldBy[a] = docs[a].reserved
      /\ \A x \in S : HeldBy[x] \in Nat
      /\ Total(HeldBy, S) \in Nat
  BY <1>1, <1>2, HeldProperties
<1>4. Drift(u) = usage[u].reserved - Total(HeldBy, S) /\ usage[u].reserved \in Nat
  BY <1>1 DEF Drift, HeldBy, TypeOK, Ledger
<1> HIDE DEF u, S
<1>5. HeldBy[a] <= Total(HeldBy, S) /\ HeldBy[a] \in Nat
  BY <1>2, <1>3, TotalRemove
<1> QED  BY <1>3, <1>4, <1>5 DEF u, S

(* A ledger is its three fields. *)
LEMMA LedgerFields ==
    ASSUME NEW l \in Ledger, NEW m \in Ledger,
           l.included = m.included, l.used = m.used, l.reserved = m.reserved
    PROVE  l = m
BY DEF Ledger

(* A ledger with two of its fields written is the ledger of these fields. *)
LEMMA LedgerWritten ==
    ASSUME NEW l \in Ledger, NEW x \in Nat, NEW y \in Nat
    PROVE  /\ [l EXCEPT !.used = x, !.reserved = y] =
                  [included |-> l.included, used |-> x, reserved |-> y]
           /\ [l EXCEPT !.used = x, !.included = y] =
                  [included |-> y, used |-> x, reserved |-> l.reserved]
<1> DEFINE m == [l EXCEPT !.used = x, !.reserved = y]
           n == [l EXCEPT !.used = x, !.included = y]
           p == [included |-> l.included, used |-> x, reserved |-> y]
           q == [included |-> y, used |-> x, reserved |-> l.reserved]
<1>1. m \in Ledger /\ p \in Ledger /\ n \in Ledger /\ q \in Ledger
  BY DEF Ledger
<1>2. m.included = p.included /\ m.used = p.used /\ m.reserved = p.reserved
  BY DEF Ledger
<1>3. n.included = q.included /\ n.used = q.used /\ n.reserved = q.reserved
  BY DEF Ledger
<1> HIDE DEF m, n, p, q
<1>4. m = p
  BY <1>1, <1>2, LedgerFields
<1>5. n = q
  BY <1>1, <1>3, LedgerFields
<1> QED  BY <1>4, <1>5 DEF m, n, p, q

(* Each effect on the ledger: a floor is met only when time is given back. *)
LEMMA LedgerEffects ==
    ASSUME MoneyInv
    PROVE  /\ \A a \in Attempts, s \in Sessions, est \in Estimates :
                  LET l == usage[UserOf[a]] IN
                  Reserves(a, s, est) =>
                      /\ l.used + l.reserved + est <= l.included
                      /\ usage' = [usage EXCEPT ![UserOf[a]] =
                             [included |-> l.included, used |-> l.used,
                              reserved |-> l.reserved + est]]
           /\ \A a \in Attempts : \A d, ms :
                  LET l == usage[UserOf[a]] IN
                  GivesBack(a, d, ms) =>
                      usage' = [usage EXCEPT ![UserOf[a]] =
                             [included |-> l.included, used |-> l.used + ms,
                              reserved |-> AtLeastZero(l.reserved - docs[a].reserved)]]
           /\ \A u \in Users, included \in Plans : Renews(u, included) =>
                  \E used \in {0, usage[u].used} :
                      usage' = [usage EXCEPT ![u] = [included |-> included, used |-> used,
                                                    reserved |-> usage[u].reserved]]
<1>0. \A u \in Users : usage[u] \in Ledger
  BY DEF MoneyInv, IInv, TypeOK
<1>1. ASSUME NEW a \in Attempts, NEW s \in Sessions, NEW est \in Estimates,
             Reserves(a, s, est)
      PROVE  LET l == usage[UserOf[a]] IN
             /\ l.used + l.reserved + est <= l.included
             /\ usage' = [usage EXCEPT ![UserOf[a]] =
                    [included |-> l.included, used |-> l.used,
                     reserved |-> l.reserved + est]]
  <2> DEFINE l == usage[UserOf[a]]
  <2>1. l \in Ledger /\ est \in Nat /\ est > 0
    BY <1>0, UserOfAssumption, EstimatesAssumption
  <2>2. AvailableMs(l) >= est
    BY <1>1 DEF Reserves, MayEnqueue
  <2>3. usage' = [usage EXCEPT ![UserOf[a]] = ApplyUsageDelta(l, 0, est)]
    BY <1>1 DEF Reserves
  <2> HIDE DEF l
  <2>4. l.used + l.reserved + est <= l.included
    BY <2>1, <2>2 DEF AvailableMs, AtLeastZero, Ledger
  <2>5. ApplyUsageDelta(l, 0, est) =
            [included |-> l.included, used |-> l.used, reserved |-> l.reserved + est]
    <3>1. AtLeastZero(l.used + 0) = l.used /\ AtLeastZero(l.reserved + est) = l.reserved + est
      BY <2>1 DEF AtLeastZero, Ledger
    <3>2. ApplyUsageDelta(l, 0, est) = [l EXCEPT !.used = l.used, !.reserved = l.reserved + est]
      BY <3>1 DEF ApplyUsageDelta
    <3>3. l.used \in Nat /\ l.reserved + est \in Nat
      BY <2>1 DEF Ledger
    <3> QED  BY <2>1, <3>2, <3>3, LedgerWritten
  <2> QED  BY <2>3, <2>4, <2>5 DEF l
<1>2. ASSUME NEW a \in Attempts, NEW d, NEW ms, GivesBack(a, d, ms)
      PROVE  LET l == usage[UserOf[a]] IN
             usage' = [usage EXCEPT ![UserOf[a]] =
                    [included |-> l.included, used |-> l.used + ms,
                     reserved |-> AtLeastZero(l.reserved - docs[a].reserved)]]
  <2> DEFINE l == usage[UserOf[a]]
             mine == docs[a].reserved
  <2>1. l \in Ledger /\ ms \in Nat
    BY <1>0, <1>2, UserOfAssumption, ChargesAssumption DEF GivesBack, Charged, Released
  <2>2. mine \in Nat
    BY <1>2, HeldIsCounted DEF GivesBack
  <2>3. usage' = [usage EXCEPT ![UserOf[a]] = ApplyUsageDelta(l, ms, -mine)]
    BY <1>2 DEF GivesBack
  <2> HIDE DEF l, mine
  <2>4. ApplyUsageDelta(l, ms, -mine) =
            [included |-> l.included, used |-> l.used + ms,
             reserved |-> AtLeastZero(l.reserved - mine)]
    <3> DEFINE rest == AtLeastZero(l.reserved - mine)
    <3>1. /\ AtLeastZero(l.used + ms) = l.used + ms
          /\ AtLeastZero(l.reserved + (-mine)) = rest
          /\ l.used + ms \in Nat /\ rest \in Nat
      BY <2>1, <2>2 DEF AtLeastZero, Ledger
    <3> HIDE DEF rest
    <3>2. ApplyUsageDelta(l, ms, -mine) = [l EXCEPT !.used = l.used + ms, !.reserved = rest]
      BY <3>1 DEF ApplyUsageDelta
    <3>3. ApplyUsageDelta(l, ms, -mine) =
              [included |-> l.included, used |-> l.used + ms, reserved |-> rest]
      BY <2>1, <3>1, <3>2, LedgerWritten
    <3> QED  BY <3>3 DEF rest
  <2> QED  BY <2>3, <2>4 DEF l, mine
<1>3. ASSUME NEW u \in Users, NEW included \in Plans, Renews(u, included)
      PROVE  \E used \in {0, usage[u].used} :
                 usage' = [usage EXCEPT ![u] = [included |-> included, used |-> used,
                                               reserved |-> usage[u].reserved]]
  <2>1. PICK used \in {0, usage[u].used} :
           usage' = [usage EXCEPT ![u] = [usage[u] EXCEPT !.used = used,
                                                          !.included = included]]
    BY <1>3 DEF Renews
  <2>2. [usage[u] EXCEPT !.used = used, !.included = included] =
            [included |-> included, used |-> used, reserved |-> usage[u].reserved]
    <3>1. usage[u] \in Ledger /\ used \in Nat /\ included \in Nat
      BY <1>0, LimitsAssumption DEF Ledger
    <3> QED  BY <3>1, LedgerWritten
  <2> QED  BY <2>1, <2>2
<1> QED  BY <1>1, <1>2, <1>3
-----------------------------------------------------------------------------
(* The refinement *)

Jobs == [a \in Attempts |-> JobOf(docs[a])]

(* A job is its four fields. *)
LEMMA JobFields ==
    ASSUME NEW j \in Job, NEW k \in Job,
           j.phase = k.phase, j.session = k.session, j.held = k.held, j.paid = k.paid
    PROVE  j = k
BY DEF Job

(* A job that is charged, and one that is released. *)
LEMMA JobEnds ==
    ASSUME NEW j \in Job, NEW ms \in Charges
    PROVE  /\ [j EXCEPT !.phase = "charged", !.paid = ms] =
                  [phase |-> "charged", session |-> j.session, held |-> j.held, paid |-> ms]
           /\ [j EXCEPT !.phase = "released"] =
                  [phase |-> "released", session |-> j.session, held |-> j.held, paid |-> j.paid]
<1> DEFINE m == [j EXCEPT !.phase = "charged", !.paid = ms]
           n == [j EXCEPT !.phase = "released"]
           p == [phase |-> "charged", session |-> j.session, held |-> j.held, paid |-> ms]
           q == [phase |-> "released", session |-> j.session, held |-> j.held, paid |-> j.paid]
<1>1. m \in Job /\ p \in Job /\ n \in Job /\ q \in Job
  BY DEF Job
<1>2. m.phase = p.phase /\ m.session = p.session /\ m.held = p.held /\ m.paid = p.paid
  BY DEF Job
<1>3. n.phase = q.phase /\ n.session = q.session /\ n.held = q.held /\ n.paid = q.paid
  BY DEF Job
<1> HIDE DEF m, n, p, q
<1>4. m = p
  BY <1>1, <1>2, JobFields
<1>5. n = q
  BY <1>1, <1>3, JobFields
<1> QED  BY <1>4, <1>5 DEF m, n, p, q

(* The jobs of the attempts, and what the account holds of them. *)
LEMMA JobsType ==
    ASSUME TypeOK
    PROVE  /\ Jobs \in [Attempts -> Job \cup {None}]
           /\ \A a \in Attempts : Paid!Holding(a) <=> IsActive(a)
           /\ \A a \in Attempts : IsActive(a) =>
                  /\ Jobs[a] \in Job
                  /\ Jobs[a].session = docs[a].session
                  /\ Jobs[a].held = docs[a].reserved
                  /\ Jobs[a].paid = docs[a].billed
<1>1. \A a \in Attempts : docs[a] \in Attempt \cup {None} /\ Jobs[a] = JobOf(docs[a])
  BY DEF TypeOK, Jobs
<1>2. \A a \in Attempts : Paid!Holding(a) <=> Jobs[a] # None /\ Jobs[a].phase = "held"
  BY DEF Paid!Holding, Jobs
<1>3. \A a \in Attempts : Jobs[a] \in Job \cup {None}
  BY <1>1, HeldJobs
<1>4. Jobs \in [Attempts -> Job \cup {None}]
  BY <1>3 DEF Jobs
<1> QED  BY <1>1, <1>2, <1>4, HeldJobs DEF IsActive

(* A reservation is one of PaidRender: the lock has kept every other attempt of
   the session out. *)
LEMMA ReservesPaid ==
    ASSUME MoneyInv, NEW a \in Attempts, NEW s \in Sessions, NEW est \in Estimates,
           Reserves(a, s, est), UNCHANGED summary
    PROVE  Paid!Reserve(a, s, est)
<1> DEFINE l == usage[UserOf[a]]
           j == [phase |-> "held", session |-> s, held |-> est, paid |-> 0]
<1>0. TypeOK /\ SessionLockExact /\ UserOf[a] \in Users
  BY UserOfAssumption DEF MoneyInv, IInv
<1>1. Jobs[a] = None /\ UserOf[a] = UserOf[s]
  BY DEF Reserves, MayEnqueue, Jobs, JobOf
<1>2. ASSUME NEW b \in Attempts, Paid!Holding(b) PROVE Jobs[b].session # s
  <2>1. IsActive(b) /\ Jobs[b].session = docs[b].session
    BY <1>0, <1>2, JobsType
  <2>2. b # a
    BY <2>1 DEF Reserves, MayEnqueue, IsActive
  <2>3. docs[b].session = s => locks[s] = [attempt |-> b, state |-> docs[b].state]
    BY <1>0, <2>1 DEF SessionLockExact, ActiveAttemptHoldsLock, ActiveAttempts
  <2>4. docs[b].session = s => locks[s] # None /\ locks[s].attempt = b
    <3>1. [attempt |-> b, state |-> docs[b].state] \in Lock
      BY <2>1 DEF IsActive, Lock
    <3> QED  BY <2>3, <3>1, NoneAssumption
  <2> QED  BY <2>1, <2>2, <2>4 DEF Reserves, MayEnqueue, LockedByOther, IsActive
<1>3. /\ l.used + l.reserved + est <= l.included
      /\ usage' = [usage EXCEPT ![UserOf[a]] =
             [included |-> l.included, used |-> l.used, reserved |-> l.reserved + est]]
  BY LedgerEffects
<1>4. usage' = [usage EXCEPT ![UserOf[a]].reserved = @ + est]
  <2>1. l \in Ledger
    BY <1>0 DEF TypeOK
  <2>2. [l EXCEPT !.reserved = l.reserved + est] =
            [included |-> l.included, used |-> l.used, reserved |-> l.reserved + est]
    <3> HIDE DEF l
    <3> QED  BY <2>1 DEF Ledger
  <2> QED  BY <1>3, <2>2
<1>5. Jobs' = [Jobs EXCEPT ![a] = j]
  <2>1. JobOf(NewAttempt(s, est)) = j
    BY NewAttemptProperties, NoneAssumption DEF JobOf, NewAttempt, ActiveStates
  <2>2. \A b \in Attempts : docs'[b] = IF b = a THEN NewAttempt(s, est) ELSE docs[b]
    BY <1>0 DEF Reserves, TypeOK
  <2> HIDE DEF j
  <2>3. \A b \in Attempts : JobOf(docs'[b]) = IF b = a THEN j ELSE JobOf(docs[b])
    BY <2>1, <2>2
  <2> QED  BY <2>3 DEF Jobs
<1> QED  BY <1>1, <1>2, <1>3, <1>4, <1>5 DEF Paid!Reserve, Jobs

(* An end is a charge or a release of PaidRender. *)
LEMMA GivesBackPaid ==
    ASSUME MoneyInv, NEW a \in Attempts, NEW d, NEW ms, GivesBack(a, d, ms), UNCHANGED summary
    PROVE  (\E paid \in Charges : Paid!Charge(a, paid)) \/ Paid!Release(a)
<1> DEFINE l == usage[UserOf[a]]
           j == Jobs[a]
           rest == AtLeastZero(l.reserved - j.held)
<1>0. TypeOK /\ UserOf[a] \in Users /\ l \in Ledger
  BY UserOfAssumption DEF MoneyInv, IInv, TypeOK
<1>1. /\ Paid!Holding(a) /\ j \in Job /\ j.held = docs[a].reserved
      /\ j.session = docs[a].session /\ j.paid = docs[a].billed
  BY <1>0, JobsType DEF GivesBack
<1>2. usage' = [usage EXCEPT ![UserOf[a]] =
          [included |-> l.included, used |-> l.used + ms, reserved |-> rest]]
  BY <1>1, LedgerEffects
<1>3. \A b \in Attempts : docs'[b] = IF b = a THEN d ELSE docs[b]
  BY <1>0 DEF GivesBack, TypeOK
<1>4. Jobs' = [Jobs EXCEPT ![a] = JobOf(d)]
  BY <1>3 DEF Jobs
<1>5. d # None /\ d.session = j.session /\ d.reserved = j.held
  BY <1>1, NoneAssumption DEF GivesBack
<1>6. rest \in Nat /\ rest = Paid!Without(l.reserved, j.held)
  <2>1. j.held \in Nat /\ l.reserved \in Nat
    BY <1>0, <1>1, HeldIsCounted DEF GivesBack, Ledger
  <2> HIDE DEF j, l
  <2> QED  BY <2>1 DEF Paid!Without, AtLeastZero
<1> HIDE DEF rest
<1>7. CASE Charged(a, d, ms)
  <2>1. JobOf(d) = [phase |-> "charged", session |-> j.session, held |-> j.held, paid |-> ms]
    BY <1>5, <1>7 DEF Charged, JobOf, ActiveStates
  <2>2. ms \in Charges /\ ms \in Nat /\ 0 < ms /\ ms <= j.held
    BY <1>1, <1>7, ChargesAssumption DEF Charged
  <2>3. Jobs' = [Jobs EXCEPT ![a].phase = "charged", ![a].paid = ms]
    <3>1. JobOf(d) = [j EXCEPT !.phase = "charged", !.paid = ms]
      BY <1>1, <2>1, <2>2, JobEnds
    <3>2. Jobs' = [Jobs EXCEPT ![a] = [j EXCEPT !.phase = "charged", !.paid = ms]]
      BY <1>4, <3>1
    <3> QED  BY <1>0, <3>2, JobsType
  <2>4. usage' = [usage EXCEPT ![UserOf[a]].used = @ + ms, ![UserOf[a]].reserved = rest]
    <3>1. [l EXCEPT !.used = l.used + ms, !.reserved = rest] =
              [included |-> l.included, used |-> l.used + ms, reserved |-> rest]
      <4>1. l.used + ms \in Nat
        BY <1>0, <2>2 DEF Ledger
      <4> QED  BY <1>0, <1>6, <4>1, LedgerWritten
    <3>2. usage' = [usage EXCEPT ![UserOf[a]] = [l EXCEPT !.used = l.used + ms, !.reserved = rest]]
      BY <1>2, <3>1
    <3> QED  BY <1>0, <3>2 DEF TypeOK
  <2>5. Paid!Charge(a, ms)
    BY <1>1, <1>6, <2>2, <2>3, <2>4 DEF Paid!Charge, Jobs
  <2> QED  BY <2>2, <2>5
<1>8. CASE Released(a, d, ms)
  <2>1. JobOf(d) = [phase |-> "released", session |-> j.session, held |-> j.held, paid |-> j.paid]
    BY <1>1, <1>5, <1>8 DEF Released, JobOf, ActiveStates
  <2>2. Jobs' = [Jobs EXCEPT ![a].phase = "released"]
    <3>1. JobOf(d) = [j EXCEPT !.phase = "released"]
      BY <1>1, <2>1, JobEnds, ChargesAssumption
    <3> QED  BY <1>4, <3>1
  <2>3. usage' = [usage EXCEPT ![UserOf[a]].reserved = rest]
    <3>1. [l EXCEPT !.reserved = rest] =
              [included |-> l.included, used |-> l.used + ms, reserved |-> rest]
      <4>1. l.used + ms = l.used
        BY <1>0, <1>8 DEF Released, Ledger
      <4> HIDE DEF l, j
      <4> QED  BY <1>0, <4>1 DEF Ledger
    <3> QED  BY <1>2, <3>1
  <2> QED  BY <1>1, <1>6, <2>2, <2>3 DEF Paid!Release, Jobs
<1> QED  BY <1>7, <1>8 DEF GivesBack

(* A change of the plan is a period of PaidRender. *)
LEMMA RenewsPaid ==
    ASSUME MoneyInv, NEW u \in Users, NEW included \in Plans, Renews(u, included),
           UNCHANGED summary
    PROVE  Paid!OpenPeriod(u, included)
<1>1. PICK used \in {0, usage[u].used} :
         usage' = [usage EXCEPT ![u] = [usage[u] EXCEPT !.used = used,
                                                        !.included = included]]
  BY DEF Renews
<1>2. usage' = [usage EXCEPT ![u].used = used, ![u].included = included]
  BY <1>1 DEF MoneyInv, IInv, TypeOK
<1>3. Jobs' = Jobs
  BY DEF Renews, Jobs
<1> QED  BY <1>2, <1>3 DEF Paid!OpenPeriod, Jobs

(* A usage summary is one of PaidRender. *)
LEMMA SummaryPaid ==
    ASSUME TypeOK, NEW q \in Readers
    PROVE  /\ \A u \in Users : ReadUsage(q, u) => Paid!Read(q, u)
           /\ WriteUsage(q) => Paid!PutBack(q)
BY DEF ReadUsage, WriteUsage, Paid!Read, Paid!PutBack

(* The queue starts as PaidRender does. *)
LEMMA InitPaid == Init => Paid!Init
BY DEF Init, Paid!Init, JobOf

(* Every step of the queue is one of PaidRender, or one it does not see. *)
LEMMA NextPaid ==
    ASSUME MoneyInv, [Next]_vars
    PROVE  [Paid!Next]_(Paid!paidVars)
<1>1. CASE UNCHANGED vars
  BY <1>1 DEF vars, Paid!paidVars
<1>2. CASE SummaryStep
  <2>1. TypeOK
    BY DEF MoneyInv, IInv
  <2>2. Paid!Next
    BY <1>2, <2>1, SummaryPaid DEF SummaryStep, Paid!Next
  <2> QED  BY <2>2
<1>3. CASE Next /\ ~SummaryStep
  <2>1. MoneyEffect /\ UNCHANGED summary
    BY <1>3, MoneyEffects, SummaryKept DEF MoneyInv, IInv
  <2>2. CASE Unpaid
    BY <2>1, <2>2 DEF Unpaid, Paid!paidVars
  <2>3. ASSUME NEW a \in Attempts, NEW s \in Sessions, NEW est \in Estimates,
               Reserves(a, s, est)
        PROVE  Paid!Next
    BY <2>1, <2>3, ReservesPaid DEF Paid!Next
  <2>4. ASSUME NEW a \in Attempts, NEW d, NEW ms, GivesBack(a, d, ms)
        PROVE  Paid!Next
    BY <2>1, <2>4, GivesBackPaid DEF Paid!Next
  <2>5. ASSUME NEW u \in Users, NEW included \in Plans, Renews(u, included)
        PROVE  Paid!Next
    BY <2>1, <2>5, RenewsPaid DEF Paid!Next
  <2> QED  BY <2>1, <2>2, <2>3, <2>4, <2>5 DEF MoneyEffect
<1> QED  BY <1>1, <1>2, <1>3

-----------------------------------------------------------------------------
(* What an account can rely on *)

CoveredStep(u) ==
    \/ Taken(usage'[u]) <= usage'[u].included
    \/ Taken(usage'[u]) <= Taken(usage[u]) - Drift(u)

(* What a step takes is covered by the plan: a reservation asks for it, and a
   job takes more than it gives back only where the ledger has lost that. *)
LEMMA TakenIsCovered ==
    ASSUME MoneyInv, MoneyEffect, NEW u \in Users, Taken(usage'[u]) > Taken(usage[u])
    PROVE  CoveredStep(u)
<1>0. TypeOK /\ usage[u] \in Ledger /\ usage \in [Users -> Ledger]
  BY DEF MoneyInv, IInv, TypeOK
<1>1. CASE Unpaid
  BY <1>0, <1>1 DEF Unpaid, Taken, Ledger
<1>2. ASSUME NEW a \in Attempts, NEW s \in Sessions, NEW est \in Estimates,
             Reserves(a, s, est)
      PROVE  CoveredStep(u)
  <2> DEFINE l == usage[UserOf[a]]
  <2>1. /\ l.used + l.reserved + est <= l.included
        /\ usage' = [usage EXCEPT ![UserOf[a]] =
               [included |-> l.included, used |-> l.used, reserved |-> l.reserved + est]]
    BY <1>2, LedgerEffects
  <2>2. l \in Ledger /\ est \in Nat
    BY <1>0, UserOfAssumption, EstimatesAssumption
  <2>3. CASE u = UserOf[a]
    <3>1. usage'[u] =
             [included |-> l.included, used |-> l.used, reserved |-> l.reserved + est]
      BY <1>0, <2>1, <2>3
    <3> QED  BY <2>1, <2>2, <3>1 DEF Taken, Ledger, CoveredStep
  <2>4. CASE u # UserOf[a]
    <3>1. usage'[u] = usage[u]
      BY <1>0, <2>1, <2>4
    <3> QED  BY <1>0, <3>1 DEF Taken, Ledger
  <2> QED  BY <2>3, <2>4
<1>3. ASSUME NEW a \in Attempts, NEW d, NEW ms, GivesBack(a, d, ms)
      PROVE  CoveredStep(u)
  <2> DEFINE l == usage[UserOf[a]]
             mine == docs[a].reserved
             rest == AtLeastZero(l.reserved - mine)
  <2>1. usage' = [usage EXCEPT ![UserOf[a]] =
           [included |-> l.included, used |-> l.used + ms, reserved |-> rest]]
    BY <1>3, LedgerEffects
  <2>2. l \in Ledger /\ l.used \in Nat /\ l.reserved \in Nat
    BY <1>0, UserOfAssumption DEF Ledger
  <2>3. mine \in Nat /\ Drift(UserOf[a]) \in Int /\ mine <= l.reserved - Drift(UserOf[a])
    BY <1>3, HeldIsCounted DEF GivesBack
  <2>4. ms \in Nat /\ ms <= mine
    <3>1. CASE Charged(a, d, ms)
      BY <3>1, ChargesAssumption DEF Charged
    <3>2. CASE Released(a, d, ms)
      BY <2>3, <3>2 DEF Released
    <3> QED  BY <1>3, <3>1, <3>2 DEF GivesBack
  <2>5. CASE u = UserOf[a]
    <3>1. usage'[u] = [included |-> l.included, used |-> l.used + ms, reserved |-> rest]
      BY <1>0, <2>1, <2>5
    <3>2. usage[u] = l
      BY <2>5
    <3>3. Taken(usage'[u]) = l.used + ms + rest /\ Taken(l) = l.used + l.reserved
      BY <3>1 DEF Taken
    <3> HIDE DEF l, mine
    <3>4. rest = 0
      BY <2>2, <2>3, <2>4, <3>2, <3>3 DEF AtLeastZero
    <3>5. Taken(usage'[u]) <= Taken(l) - Drift(UserOf[a])
      BY <2>2, <2>3, <2>4, <3>3, <3>4
    <3> QED  BY <2>5, <3>2, <3>5 DEF CoveredStep
  <2>6. CASE u # UserOf[a]
    <3>1. usage'[u] = usage[u]
      BY <1>0, <2>1, <2>6
    <3> QED  BY <1>0, <3>1 DEF Taken, Ledger
  <2> QED  BY <2>5, <2>6
<1>4. ASSUME NEW v \in Users, NEW included \in Plans, Renews(v, included)
      PROVE  FALSE
  <2>1. PICK used \in {0, usage[v].used} :
            usage' = [usage EXCEPT ![v] = [included |-> included, used |-> used,
                                          reserved |-> usage[v].reserved]]
    BY <1>4, LedgerEffects
  <2>2. CASE u = v
    <3>1. usage'[u] = [included |-> included, used |-> used, reserved |-> usage[u].reserved]
      BY <1>0, <2>1, <2>2
    <3>2. used \in Nat /\ used <= usage[u].used
      BY <1>0, <2>2 DEF Ledger
    <3> QED  BY <1>0, <3>1, <3>2 DEF Taken, Ledger
  <2>3. CASE u # v
    <3>1. usage'[u] = usage[u]
      BY <1>0, <2>1, <2>3
    <3> QED  BY <1>0, <3>1 DEF Taken, Ledger
  <2> QED  BY <2>2, <2>3
<1> QED  BY <1>1, <1>2, <1>3, <1>4 DEF MoneyEffect

(* Only a settlement charges, and what it records. *)
LEMMA ChargesAreSettled ==
    ASSUME MoneyInv, MoneyEffect, NEW u \in Users, usage'[u].used > usage[u].used
    PROVE  ChargeStep(u)
<1>0. TypeOK /\ usage[u] \in Ledger /\ usage \in [Users -> Ledger] /\ usage[u].used \in Nat
  BY DEF MoneyInv, IInv, TypeOK, Ledger
<1>1. CASE Unpaid
  BY <1>0, <1>1 DEF Unpaid
<1>2. ASSUME NEW a \in Attempts, NEW s \in Sessions, NEW est \in Estimates,
             Reserves(a, s, est)
      PROVE  FALSE
  <2> DEFINE l == usage[UserOf[a]]
  <2>0. usage' = [usage EXCEPT ![UserOf[a]] =
           [included |-> l.included, used |-> l.used, reserved |-> l.reserved + est]]
    BY <1>2, LedgerEffects
  <2>1. usage'[u].used = usage[u].used
    BY <1>0, <2>0
  <2> QED  BY <1>0, <2>1
<1>3. ASSUME NEW a \in Attempts, NEW d, NEW ms, GivesBack(a, d, ms)
      PROVE  ChargeStep(u)
  <2>1. usage' = [usage EXCEPT ![UserOf[a]] =
           [included |-> usage[UserOf[a]].included, used |-> usage[UserOf[a]].used + ms,
            reserved |-> AtLeastZero(usage[UserOf[a]].reserved - docs[a].reserved)]]
    BY <1>3, LedgerEffects
  <2>2. UserOf[a] = u
    <3>1. UserOf[a] # u => usage'[u] = usage[u]
      BY <1>0, <2>1
    <3> QED  BY <1>0, <3>1
  <2>3. usage'[u].used = usage[u].used + ms
    BY <1>0, <2>1, <2>2
  <2>4. Charged(a, d, ms)
    BY <1>0, <1>3, <2>3 DEF GivesBack, Released
  <2>5. docs'[a] = d /\ IsActive(a)
    BY <1>0, <1>3 DEF GivesBack, TypeOK
  <2> QED  BY <2>2, <2>3, <2>4, <2>5 DEF ChargeStep, Charged
<1>4. ASSUME NEW v \in Users, NEW included \in Plans, Renews(v, included)
      PROVE  FALSE
  <2>1. PICK used \in {0, usage[v].used} :
            usage' = [usage EXCEPT ![v] = [included |-> included, used |-> used,
                                          reserved |-> usage[v].reserved]]
    BY <1>4, LedgerEffects
  <2>2. usage'[u].used \in {0, usage[u].used}
    BY <1>0, <2>1
  <2> QED  BY <1>0, <2>2
<1> QED  BY <1>1, <1>2, <1>3, <1>4 DEF MoneyEffect

(* A summary changes the ledger of the account it has read, or none. *)
LEMMA SummaryWrites ==
    ASSUME MoneyInv, SummaryStep, NEW u \in Users
    PROVE  \/ WrittenBack(u)
           \/ usage'[u] = usage[u] /\ UNCHANGED docs
<1>1. usage \in [Users -> Ledger] /\ summary \in [Readers -> Summary \cup {None}]
  BY DEF MoneyInv, IInv, TypeOK
<1>2. ASSUME NEW q \in Readers, NEW v \in Users, ReadUsage(q, v)
      PROVE  usage'[u] = usage[u] /\ UNCHANGED docs
  BY <1>2 DEF ReadUsage
<1>3. ASSUME NEW q \in Readers, WriteUsage(q)
      PROVE  \/ WrittenBack(u)
             \/ usage'[u] = usage[u] /\ UNCHANGED docs
  <2>1. CASE summary[q].user = u
    BY <1>1, <1>3, <2>1 DEF WriteUsage, WrittenBack
  <2>2. CASE summary[q].user # u
    BY <1>1, <1>3, <2>2 DEF WriteUsage
  <2> QED  BY <2>1, <2>2
<1> QED  BY <1>2, <1>3 DEF SummaryStep

(* What an account has reserved stays in balance with what its active attempts
   hold, but for the summaries that put an older ledger back. *)
THEOREM Balance == Spec => ReservationsBalance
<1> DEFINE Step == \A u \in Users : WrittenBack(u) \/ Balanced(u)
<1>1. MoneyInv /\ MoneyInv' /\ [Next]_vars => [Step]_<<docs, usage>>
  <2> SUFFICES ASSUME MoneyInv, MoneyInv', Next, NEW u \in Users
               PROVE  WrittenBack(u) \/ Balanced(u)
    BY DEF vars
  <2>1. CASE SummaryStep
    <3>1. usage'[u] = usage[u] /\ UNCHANGED docs => Drift(u)' = Drift(u)
      BY DEF Drift, ReservedBy, ActiveAttempts, IsActive
    <3> QED  BY <2>1, <3>1, SummaryWrites DEF Balanced
  <2>2. CASE ~SummaryStep
    BY <2>2, MoneyEffects, BalanceKept DEF MoneyInv, IInv
  <2> QED  BY <2>1, <2>2
<1>2. Step <=> \A u \in Users :
          \/ WrittenBack(u)
          \/ Drift(u)' = Drift(u)
          \/ Drift(u) < Drift(u)' /\ Drift(u)' <= 0
  BY DEF Balanced
<1> HIDE DEF Step
<1> QED  BY <1>1, <1>2, MoneyInvariance, PTL DEF Spec, ReservationsBalance

(* No step takes from an account more than its plan still includes, beyond what
   a summary has erased. *)
THEOREM Covered == Spec => NoOverdraft
<1> DEFINE Step == \A u \in Users :
                      Taken(usage'[u]) > Taken(usage[u]) => CoveredStep(u) \/ WrittenBack(u)
<1>1. MoneyInv /\ [Next]_vars => [Step]_vars
  <2> SUFFICES ASSUME MoneyInv, Next, NEW u \in Users, Taken(usage'[u]) > Taken(usage[u])
               PROVE  CoveredStep(u) \/ WrittenBack(u)
    OBVIOUS
  <2>1. CASE SummaryStep
    <3>1. usage'[u] # usage[u]
      BY DEF MoneyInv, IInv, TypeOK, Taken, Ledger
    <3> QED  BY <2>1, <3>1, SummaryWrites
  <2>2. CASE ~SummaryStep
    BY <2>2, MoneyEffects, TakenIsCovered DEF MoneyInv, IInv
  <2> QED  BY <2>1, <2>2
<1>2. Step <=> \A u \in Users :
          Taken(usage'[u]) > Taken(usage[u]) =>
              \/ Taken(usage'[u]) <= usage'[u].included
              \/ Taken(usage'[u]) <= Taken(usage[u]) - Drift(u)
              \/ WrittenBack(u)
  BY DEF CoveredStep
<1> HIDE DEF Step
<1> QED  BY <1>1, <1>2, MoneyInvariance, PTL DEF Spec, NoOverdraft

(* Used time grows by settlements, or as a summary puts back what it has read. *)
THEOREM ChargedOnce == Spec => ChargedOnlyBySettlement
<1> DEFINE Step == \A u \in Users :
                      usage'[u].used > usage[u].used => ChargeStep(u) \/ WrittenBack(u)
<1>1. MoneyInv /\ [Next]_vars => [Step]_vars
  <2> SUFFICES ASSUME MoneyInv, Next, NEW u \in Users, usage'[u].used > usage[u].used
               PROVE  ChargeStep(u) \/ WrittenBack(u)
    OBVIOUS
  <2>1. CASE SummaryStep
    <3>1. usage'[u] # usage[u]
      BY DEF MoneyInv, IInv, TypeOK, Ledger
    <3> QED  BY <2>1, <3>1, SummaryWrites
  <2>2. CASE ~SummaryStep
    BY <2>2, MoneyEffects, ChargesAreSettled DEF MoneyInv, IInv
  <2> QED  BY <2>1, <2>2
<1> QED  BY <1>1, MoneyInvariance, PTL DEF Spec, ChargedOnlyBySettlement

(* The queue with its workers, reapers, requests and summaries implements
   PaidRender. *)
THEOREM Refinement == Spec => ImplementsPaidRender
<1>1. MoneyInv /\ [Next]_vars => [Paid!Next]_(Paid!paidVars)
  BY NextPaid
<1> QED  BY <1>1, InitPaid, MoneyInvariance, PTL DEF Spec, ImplementsPaidRender, Paid!Spec

-----------------------------------------------------------------------------
(* The counters of FinalizeMetrics. *)

RecordType ==
    [state : {"none", "queued", "running", "settled", "failed"},
     by : Machines \cup {Nobody}, runs : Nat]

AskedPlaces == {"preparing", "projecting", "replying", "answered", "lost"}
HeldPlaces == {"working", "requeueing", "settling", "paying"}
SharedPlaces == {"idle", "failing", "ending", "telling"}

Places == AskedPlaces \cup HeldPlaces \cup SharedPlaces \cup {"paid"}
Ways == {"none", "accepted", "replayed", "refused", "quiet", "ender", "gone"}

PlaceType == [at : Places, of : JobKeys \cup {Nobody}, as : Ways]

MetricsType ==
    /\ record \in [JobKeys -> RecordType]
    /\ thread \in [Threads -> PlaceType]
    /\ swept \in [Sweepers -> SUBSET JobKeys]
    /\ outcomes \in [Asked -> Nat]
    /\ counter \in [Counters -> [JobKeys -> Nat]]
    /\ unheard \subseteq Counters \X JobKeys

(* Who can stand where, and what is so of its job *)
InHand(t) == thread[t].at \in HeldPlaces

Makes(t) ==
    \/ thread[t].at = "projecting"
    \/ thread[t].at = "replying" /\ thread[t].as = "accepted"

(* the state its job is in *)
Stands(t) ==
    /\ thread[t].at = "telling" => record[thread[t].of].state \in {"settled", "failed"}
    /\ thread[t].at = "paid" => record[thread[t].of].state = "settled"
    /\ InHand(t) => record[thread[t].of].state \in {"running", "failed"}
    /\ Makes(t) \/ thread[t].at \in {"failing", "ending"} => record[thread[t].of].state # "none"

Fits(t) ==
    /\ IF thread[t].at = "idle" THEN thread[t].of = Nobody ELSE thread[t].of \in JobKeys
    /\ thread[t].at \in AskedPlaces => t \in Asked
    /\ thread[t].at \in HeldPlaces \cup {"paid"} => t \in Hands
    /\ thread[t].at \in {"failing", "ending"} => thread[t].as # "ender"
    /\ thread[t].at \in {"failing", "ending", "telling"} /\ thread[t].as = "quiet" =>
           counter["failures"][thread[t].of] > 0
    /\ Stands(t)
    /\ thread[t].at = "paid" => /\ thread[t].as = "ender"
                                /\ <<"settled", thread[t].of>> \notin unheard
    /\ Makes(t) => counter["accepted"][thread[t].of] = 0
    /\ thread[t].at = "projecting" => <<"created", thread[t].of>> \notin unheard
    /\ Makes(t) /\ thread[t].at = "replying" => counter["created"][thread[t].of] = 1

(* One of a kind for each job *)
Alike(t, u) ==
    \/ InHand(t) /\ InHand(u)
    \/ thread[t].at = "paid" /\ thread[u].at = "paid"
    \/ Makes(t) /\ Makes(u)

Alone == \A t, u \in Threads : Alike(t, u) /\ thread[t].of = thread[u].of => t = u

NotYet ==
    \A k \in JobKeys :
        /\ record[k].state = "none" => <<"created", k>> \notin unheard
        /\ record[k].state # "settled" => <<"settled", k>> \notin unheard

SweptMade == \A s \in Sweepers : \A k \in swept[s] : record[k].state # "none"

MetricsInv ==
    /\ MetricsType
    /\ SweptMade
    /\ \A t \in Threads : Fits(t)
    /\ Alone
    /\ NotYet
    /\ AnswersCounted
    /\ CreatedOnce
    /\ EndsTold



(* A step is one of one thread, about one job. *)
Moves(t) ==
    /\ thread' \in [Threads -> PlaceType]
    /\ \A u \in Threads : u # t => thread'[u] = thread[u]

KeyKept(k) ==
    /\ record'[k].state = record[k].state
    /\ \A name \in Counters : /\ counter'[name][k] = counter[name][k]
                              /\ <<name, k>> \in unheard' <=> <<name, k>> \in unheard

About(t, k) ==
    /\ Moves(t)
    /\ thread[t].of \in {k, Nobody} /\ thread'[t].of \in {k, Nobody}
    /\ \A j \in JobKeys : j # k => KeyKept(j)
    /\ \A s \in Sweepers : swept'[s] \subseteq swept[s]
    /\ record[k].state # "none" => record'[k].state # "none"

(* Failures may have been counted meanwhile. *)
KeyGrown(k) ==
    /\ record'[k].state = record[k].state
    /\ counter'["failures"][k] >= counter["failures"][k]
    /\ \A name \in {"created", "accepted", "settled"} : counter'[name][k] = counter[name][k]
    /\ \A name \in Counters : <<name, k>> \in unheard' <=> <<name, k>> \in unheard

LEMMA KeptIsGrown ==
  ASSUME MetricsInv, NEW k \in JobKeys, KeyKept(k) PROVE KeyGrown(k)
BY DEF MetricsInv, MetricsType, KeyKept, KeyGrown, Counters

LEMMA FitsKept ==
  ASSUME MetricsInv, MetricsType', NEW u \in Threads, thread'[u] = thread[u],
         thread[u].at # "idle" => KeyGrown(thread[u].of)
  PROVE  Fits(u)'
<1>1. Fits(u)
  BY DEF MetricsInv
<1>2. thread[u].of \in JobKeys => /\ counter["failures"][thread[u].of] \in Nat
                                 /\ counter'["failures"][thread[u].of] \in Nat
  BY DEF MetricsInv, MetricsType, Counters
<1>3. QED
  BY <1>1, <1>2 DEF Fits, Stands, InHand, Makes, KeyGrown, Counters, HeldPlaces

LEMMA OthersFit ==
  ASSUME MetricsInv, MetricsType', NEW t \in Threads, NEW k \in JobKeys, About(t, k),
         NEW u \in Threads, u # t, thread[u].of # k
  PROVE  Fits(u)'
<1>1. Fits(u) /\ thread'[u] = thread[u]
  BY DEF MetricsInv, About, Moves
<1>2. thread[u].at # "idle" => KeyGrown(thread[u].of)
  BY <1>1, KeptIsGrown DEF Fits, About
<1>3. QED
  BY <1>1, <1>2, FitsKept

CreatedOnceOf(k) ==
    /\ counter["accepted"][k] <= counter["created"][k]
    /\ counter["created"][k] =
           IF record[k].state = "none" \/ Making(k) \/ <<"created", k>> \in unheard
           THEN 0 ELSE 1

EndToldOf(k) ==
    /\ counter["settled"][k] =
           IF record[k].state # "settled" \/ Telling(k, "paid")
                                          \/ <<"settled", k>> \in unheard
           THEN 0 ELSE 1
    /\ record[k].state = "failed" =>
           \/ counter["failures"][k] > 0
           \/ Telling(k, "telling")
           \/ <<"failures", k>> \in unheard

NotYetOf(k) ==
    /\ record[k].state = "none" => <<"created", k>> \notin unheard
    /\ record[k].state # "settled" => <<"settled", k>> \notin unheard

KeyFine(k) == CreatedOnceOf(k) /\ EndToldOf(k) /\ NotYetOf(k)

LEMMA KeysFine ==
  /\ NotYet /\ CreatedOnce /\ EndsTold <=> \A k \in JobKeys : KeyFine(k)
  /\ (NotYet /\ CreatedOnce /\ EndsTold)' <=> \A k \in JobKeys : KeyFine(k)'
<1>1. NotYet /\ CreatedOnce /\ EndsTold <=> \A k \in JobKeys : KeyFine(k)
  BY DEF NotYet, CreatedOnce, EndsTold, KeyFine, CreatedOnceOf, EndToldOf, NotYetOf
<1>2. (NotYet /\ CreatedOnce /\ EndsTold)' <=> \A k \in JobKeys : KeyFine(k)'
  BY DEF NotYet, CreatedOnce, EndsTold, KeyFine, CreatedOnceOf, EndToldOf, NotYetOf
<1>3. QED
  BY <1>1, <1>2

LEMMA OtherKeys ==
  ASSUME MetricsInv, NEW t \in Threads, NEW k \in JobKeys, About(t, k),
         NEW j \in JobKeys, j # k
  PROVE  KeyFine(j)'
<1>1. KeyKept(j) /\ KeyFine(j)
  BY KeysFine DEF About, MetricsInv
<1>2. \A u \in Threads : thread[u].of = j \/ thread'[u].of = j => thread'[u] = thread[u]
  BY ThreadsApart DEF About, Moves
<1>3. Asked \subseteq Threads
  BY DEF Threads
<1>4. (Making(j) <=> Making(j)') /\ (Telling(j, "paid") <=> Telling(j, "paid")')
      /\ (Telling(j, "telling") <=> Telling(j, "telling")')
  BY <1>2, <1>3 DEF Making, Telling
<1>5. QED
  BY <1>1, <1>4 DEF KeyKept, KeyFine, CreatedOnceOf, EndToldOf, NotYetOf, Counters

(* Who owes no event *)
Silent(t) ==
    /\ thread[t].at \notin {"projecting", "paid"}
    /\ ~(thread[t].at = "telling" /\ thread[t].as = "ender")

LEMMA SilentKey ==
  ASSUME MetricsInv, MetricsType', NEW t \in Threads, NEW k \in JobKeys, About(t, k),
         KeyGrown(k), Silent(t), Silent(t)'
  PROVE  KeyFine(k)'
<1>1. KeyFine(k)
  BY KeysFine DEF MetricsInv
<1>2. Asked \subseteq Threads
  BY DEF Threads
<1>3. (Making(k) <=> Making(k)') /\ (Telling(k, "paid") <=> Telling(k, "paid")')
      /\ (Telling(k, "telling") <=> Telling(k, "telling")')
  BY <1>2 DEF Making, Telling, About, Moves, Silent
<1>4. counter["failures"][k] \in Nat /\ counter'["failures"][k] \in Nat
  BY DEF MetricsInv, MetricsType, Counters
<1>5. QED
  BY <1>1, <1>3, <1>4
     DEF KeyGrown, KeyFine, CreatedOnceOf, EndToldOf, NotYetOf, Counters

LEMMA OthersAlone ==
  ASSUME MetricsInv, NEW t \in Threads, NEW k \in JobKeys, About(t, k),
         \A u \in Threads : ~(u # t /\ Alike(t, u)' /\ thread'[t].of = thread'[u].of)
  PROVE  Alone'
<1>1. ASSUME NEW u \in Threads, NEW v \in Threads, u # t, v # t,
             Alike(u, v)', thread'[u].of = thread'[v].of
      PROVE  u = v
  <2>1. thread'[u] = thread[u] /\ thread'[v] = thread[v]
    BY <1>1 DEF About, Moves
  <2>2. Alike(u, v)
    BY <1>1, <2>1 DEF Alike, InHand, Makes
  <2>3. QED
    BY <1>1, <2>1, <2>2 DEF MetricsInv, Alone
<1>2. \A u, v \in Threads : Alike(u, v)' => Alike(v, u)'
  BY DEF Alike
<1>3. QED
  BY <1>1, <1>2 DEF Alone

(* What is left to show of a step *)
LEMMA StepKeeps ==
  ASSUME MetricsInv, MetricsType', NEW t \in Threads, NEW k \in JobKeys, About(t, k),
         Fits(t)',
         \A u \in Threads : u # t /\ thread[u].of = k => Fits(u)',
         \A u \in Threads : ~(u # t /\ Alike(t, u)' /\ thread'[t].of = thread'[u].of),
         KeyFine(k)', AnswersCounted'
  PROVE  MetricsInv'
<1>1. \A u \in Threads : Fits(u)'
  BY OthersFit
<1>2. \A j \in JobKeys : KeyFine(j)'
  BY OtherKeys
<1>3. (NotYet /\ CreatedOnce /\ EndsTold)'
  BY <1>2, KeysFine
<1>4. Alone'
  BY OthersAlone
<1>5. SweptMade'
  BY DEF MetricsInv, MetricsType, SweptMade, About, KeyKept
<1>6. QED
  BY <1>1, <1>3, <1>4, <1>5 DEF MetricsInv

LEMMA SilentStep ==
  ASSUME MetricsInv, MetricsType', NEW t \in Threads, NEW k \in JobKeys, About(t, k),
         KeyGrown(k), Silent(t), Silent(t)', Fits(t)',
         \A u \in Threads : ~(u # t /\ Alike(t, u)' /\ thread'[t].of = thread'[u].of),
         AnswersCounted'
  PROVE  MetricsInv'
<1>1. ASSUME NEW u \in Threads, u # t, thread[u].of = k PROVE Fits(u)'
  BY <1>1, FitsKept DEF About, Moves
<1>2. KeyFine(k)'
  BY SilentKey
<1>3. QED
  BY <1>1, <1>2, StepKeeps

LEMMA AnswersKept ==
  ASSUME MetricsInv, NEW t \in Threads, NEW k \in JobKeys, About(t, k),
         Ended(k) => Ended(k)',
         \A r \in Asked : r # t => outcomes'[r] = outcomes[r],
         t \in Asked => /\ thread[t].at # "answered"
                        /\ thread'[t].at # "answered" => outcomes'[t] = outcomes[t]
                        /\ thread'[t].at = "answered" =>
                              \/ outcomes'[t] = outcomes[t] + 1
                              \/ outcomes'[t] = outcomes[t] /\ Ended(thread[t].of)'
  PROVE  AnswersCounted'
<1>1. \A j \in JobKeys : Ended(j) => Ended(j)'
  BY DEF About, KeyKept, Ended
<1>2. ASSUME NEW r \in Asked, r # t
      PROVE  /\ thread'[r].at # "answered" => outcomes'[r] = 0
             /\ thread'[r].at = "answered" =>
                    outcomes'[r] = 1 \/ (outcomes'[r] = 0 /\ Ended(thread[r].of)')
  <2>1. thread'[r] = thread[r] /\ outcomes'[r] = outcomes[r] /\ Fits(r)
    BY <1>2 DEF About, Moves, MetricsInv, Threads
  <2>2. thread[r].at = "answered" => (Ended(thread[r].of) => Ended(thread[r].of)')
    BY <1>1, <2>1 DEF Fits
  <2>3. QED
    BY <1>2, <2>1, <2>2 DEF MetricsInv, AnswersCounted, Ended
<1>3. t \in Asked => outcomes[t] = 0
  BY DEF MetricsInv, AnswersCounted
<1>4. QED
  BY <1>2, <1>3 DEF AnswersCounted, Ended

AllKept == \A j \in JobKeys : KeyKept(j)

LEMMA NothingCounted ==
  ASSUME UNCHANGED <<record, counter, unheard>> PROVE AllKept
BY DEF AllKept, KeyKept

LEMMA Placed ==
  ASSUME MetricsInv, NEW t \in Threads, thread[t].at # "idle",
         NEW at \in Places, NEW as \in Ways, Place(t, at, as)
  PROVE  /\ Moves(t)
         /\ thread'[t] = [at |-> at, of |-> thread[t].of, as |-> as]
         /\ thread[t].of \in JobKeys
<1>1. thread \in [Threads -> PlaceType] /\ thread[t].of \in JobKeys
  BY DEF MetricsInv, MetricsType, Fits
<1>2. [at |-> at, of |-> thread[t].of, as |-> as] \in PlaceType
  BY <1>1 DEF PlaceType
<1>3. QED
  BY <1>1, <1>2 DEF Place, Moves

LEMMA Rested ==
  ASSUME MetricsInv, NEW t \in Threads, Rest(t)
  PROVE  Moves(t) /\ thread'[t] = Resting
<1>1. Resting \in PlaceType
  BY DEF Resting, PlaceType, Places, SharedPlaces, Ways
<1>2. thread \in [Threads -> PlaceType]
  BY DEF MetricsInv, MetricsType
<1>3. QED
  BY <1>1, <1>2 DEF Rest, Moves

LEMMA Began ==
  ASSUME MetricsInv, NEW t \in Threads, NEW k \in JobKeys, NEW at \in Places,
         thread' = [thread EXCEPT ![t] = [at |-> at, of |-> k, as |-> "none"]]
  PROVE  Moves(t) /\ thread'[t] = [at |-> at, of |-> k, as |-> "none"]
<1>1. thread \in [Threads -> PlaceType]
  BY DEF MetricsInv, MetricsType
<1>2. [at |-> at, of |-> k, as |-> "none"] \in PlaceType
  BY DEF PlaceType, Ways
<1>3. QED
  BY <1>1, <1>2 DEF Moves

(* A thread that is at rest, has been answered or has not begun has nothing to fit. *)
Apart(t) ==
    \/ thread[t].at = "idle" /\ thread[t].of = Nobody
    \/ t \in Asked /\ thread[t].at \in {"answered", "lost", "preparing"}
                   /\ thread[t].of \in JobKeys

LEMMA ApartFits ==
  ASSUME NEW t \in Threads, Apart(t)'
  PROVE  /\ Fits(t)' /\ Silent(t)'
         /\ \A u \in Threads : ~Alike(t, u)'
BY DEF Apart, Resting, Fits, Stands, Silent, Alike, InHand, Makes, AskedPlaces, HeldPlaces

LEMMA SilentAside ==
  ASSUME MetricsInv, MetricsType', NEW t \in Threads, NEW k \in JobKeys, About(t, k),
         KeyGrown(k), Silent(t), Apart(t)', AnswersCounted'
  PROVE  MetricsInv'
BY ApartFits, SilentStep

LEMMA Outcomes ==
  ASSUME MetricsInv, NEW r \in Asked, Answer(r), thread[r].at # "idle"
  PROVE  /\ Moves(r) /\ Apart(r)'
         /\ thread'[r].at = "answered" /\ thread'[r].of = thread[r].of
         /\ outcomes' \in [Asked -> Nat]
         /\ outcomes'[r] = outcomes[r] + 1
         /\ \A q \in Asked : q # r => outcomes'[q] = outcomes[q]
<1>1. r \in Threads /\ thread[r].as \in Ways /\ outcomes \in [Asked -> Nat]
  BY DEF Threads, MetricsInv, MetricsType, PlaceType
<1>2. "answered" \in Places
  BY DEF Places, AskedPlaces
<1>3. /\ Moves(r)
      /\ thread'[r] = [at |-> "answered", of |-> thread[r].of, as |-> thread[r].as]
      /\ thread[r].of \in JobKeys
  BY <1>1, <1>2, Placed DEF Answer
<1>4. QED
  BY <1>1, <1>3 DEF Answer, Apart, Resting

-----------------------------------------------------------------------------
LEMMA AskStep == ASSUME MetricsInv, NEW r \in Asked, Ask(r) PROVE MetricsInv'
<1>1. PICK k \in JobKeys :
          thread' = [thread EXCEPT ![r] = [at |-> "preparing", of |-> k, as |-> "none"]]
  BY DEF Ask
<1>2. r \in Threads /\ "preparing" \in Places
  BY DEF Threads, Places, AskedPlaces
<1>3. Moves(r) /\ thread'[r] = [at |-> "preparing", of |-> k, as |-> "none"]
  BY <1>1, <1>2, Began
<1>4. MetricsType'
  BY <1>3 DEF Ask, MetricsInv, MetricsType, Moves
<1>5. AllKept
  BY NothingCounted DEF Ask
<1>6. About(r, k) /\ KeyGrown(k)
  <2>1. thread[r].of = Nobody
    BY <1>2 DEF Ask, MetricsInv, Fits
  <2>2. KeyGrown(k)
    BY <1>5, KeptIsGrown DEF AllKept
  <2>3. QED
    BY <1>3, <1>5, <2>1, <2>2 DEF About, AllKept, KeyKept, Ask
<1>7. Silent(r) /\ Apart(r)'
  BY <1>3 DEF Silent, Apart, Ask, Resting
<1>8. AnswersCounted'
  BY <1>2, <1>3, <1>6, AnswersKept DEF Ask, Ended
<1>9. QED
  BY <1>2, <1>4, <1>6, <1>7, <1>8, SilentAside

LEMMA TurnAwayStep == ASSUME MetricsInv, NEW r \in Asked, TurnAway(r) PROVE MetricsInv'
<1>1. r \in Threads /\ thread[r].of \in JobKeys
  BY DEF Threads, TurnAway, MetricsInv, Fits
<1>2. /\ Moves(r) /\ Apart(r)'
      /\ thread'[r].at = "answered" /\ thread'[r].of = thread[r].of
      /\ outcomes' \in [Asked -> Nat]
      /\ outcomes'[r] = outcomes[r] + 1
      /\ \A q \in Asked : q # r => outcomes'[q] = outcomes[q]
  BY Outcomes DEF TurnAway
<1>3. MetricsType'
  BY <1>2 DEF TurnAway, MetricsInv, MetricsType, Moves
<1>4. AllKept
  BY NothingCounted DEF TurnAway
<1>5. About(r, thread[r].of) /\ KeyGrown(thread[r].of)
  BY <1>1, <1>2, <1>4, KeptIsGrown DEF About, AllKept, KeyKept, TurnAway
<1>6. AnswersCounted'
  BY <1>1, <1>2, <1>5, AnswersKept DEF TurnAway, Ended
<1>7. Silent(r)
  BY DEF TurnAway, Silent
<1>8. QED
  BY <1>1, <1>2, <1>3, <1>5, <1>6, <1>7, SilentAside

(* Steps that count nothing of a job but failures, taken by one that stays *)
LEMMA Onwards ==
  ASSUME MetricsInv, MetricsType', NEW t \in Threads, NEW k \in JobKeys,
         thread[t].of = k, thread[t].at \notin {"idle", "answered"},
         NEW at \in Places, NEW as \in Ways, Place(t, at, as),
         \A j \in JobKeys : j # k => KeyKept(j), KeyGrown(k),
         UNCHANGED <<swept, outcomes>>, at # "answered",
         Silent(t), Silent(t)', Fits(t)',
         at \notin HeldPlaces \/ InHand(t),
         at # "projecting", at = "replying" => as # "accepted"
  PROVE  MetricsInv'
<1>1. Moves(t) /\ thread'[t] = [at |-> at, of |-> k, as |-> as]
  BY Placed
<1>2. About(t, k)
  BY <1>1 DEF About, KeyGrown
<1>3. ASSUME NEW u \in Threads, u # t, Alike(t, u)', thread'[t].of = thread'[u].of
      PROVE  FALSE
  <2>1. thread'[u] = thread[u] /\ thread[t].of = thread[u].of
    BY <1>1, <1>3 DEF Moves
  <2>2. InHand(t)' /\ InHand(u)'
    <3>1. thread'[t].at = at /\ thread'[t].as = as
      BY <1>1
    <3>2. ~Makes(t)'
      BY <3>1 DEF Makes
    <3>3. thread'[t].at # "paid"
      BY DEF Silent
    <3>4. QED
      BY <1>3, <3>2, <3>3 DEF Alike
  <2>3. InHand(t) /\ InHand(u)
    BY <1>1, <2>1, <2>2 DEF InHand
  <2>4. QED
    BY <1>3, <2>1, <2>3 DEF MetricsInv, Alone, Alike
<1>4. AnswersCounted'
  BY <1>1, <1>2, AnswersKept DEF KeyGrown, Ended
<1>5. QED
  BY <1>1, <1>2, <1>3, <1>4, SilentStep

LEMMA ReplayStep ==
  ASSUME MetricsInv, NEW r \in Asked, NEW k \in JobKeys,
         thread[r].of = k, thread[r].at = "preparing",
         NEW as \in {"replayed", "refused"}, Place(r, "replying", as),
         UNCHANGED <<record, swept, outcomes, counter, unheard>>
  PROVE  MetricsInv'
<1>1. r \in Threads /\ "replying" \in Places /\ as \in Ways
  BY DEF Threads, Places, AskedPlaces, Ways
<1>2. Moves(r) /\ thread'[r] = [at |-> "replying", of |-> k, as |-> as]
  BY <1>1, Placed
<1>3. MetricsType'
  BY <1>2 DEF MetricsInv, MetricsType, Moves
<1>4. AllKept /\ KeyGrown(k)
  BY <1>1, NothingCounted, KeptIsGrown DEF AllKept
<1>5. Silent(r) /\ Silent(r)'
  BY <1>2 DEF Silent
<1>6. Fits(r)'
  <2>1. thread'[r].at = "replying" /\ thread'[r].of = k /\ thread'[r].as = as
    BY <1>2
  <2>2. ~Makes(r)' /\ ~InHand(r)'
    BY <2>1 DEF Makes, InHand, HeldPlaces
  <2>3. QED
    BY <1>1, <2>1, <2>2 DEF Fits, Stands, HeldPlaces, AskedPlaces
<1>7. QED
  BY <1>1, <1>3, <1>4, <1>5, <1>6, Onwards DEF AllKept, HeldPlaces

LEMMA EnqueueStep ==
  ASSUME MetricsInv, NEW r \in Asked, NEW k \in JobKeys,
         thread[r].of = k, thread[r].at = "preparing",
         record[k].state = "none",
         record' = [record EXCEPT ![k].state = "queued"],
         Place(r, "projecting", "accepted"),
         UNCHANGED <<swept, outcomes, counter, unheard>>
  PROVE  MetricsInv'
<1>1. r \in Threads /\ "projecting" \in Places /\ "accepted" \in Ways
  BY DEF Threads, Places, AskedPlaces, Ways
<1>2. Moves(r) /\ thread'[r] = [at |-> "projecting", of |-> k, as |-> "accepted"]
  BY <1>1, Placed
<1>3. MetricsType' /\ record'[k].state = "queued"
      /\ \A j \in JobKeys : j # k => record'[j] = record[j]
  <2>1. record \in [JobKeys -> RecordType] /\ [record[k] EXCEPT !.state = "queued"] \in RecordType
    BY DEF MetricsInv, MetricsType, RecordType
  <2>2. /\ record' \in [JobKeys -> RecordType]
        /\ record'[k] = [record[k] EXCEPT !.state = "queued"]
        /\ \A j \in JobKeys : j # k => record'[j] = record[j]
    BY <2>1
  <2>3. record'[k].state = "queued"
    BY <2>1, <2>2 DEF RecordType
  <2>4. MetricsType'
    BY <1>2, <2>2 DEF MetricsInv, MetricsType, Moves
  <2>5. QED
    BY <2>2, <2>3, <2>4
<1>4. About(r, k)
  BY <1>2, <1>3 DEF About, KeyKept
<1>5. KeyFine(k) /\ counter["accepted"][k] \in Nat
  BY <1>1, KeysFine DEF MetricsInv, MetricsType, Counters
<1>6. counter["accepted"][k] = 0 /\ counter["created"][k] = 0 /\ <<"created", k>> \notin unheard
  BY <1>5 DEF KeyFine, CreatedOnceOf, NotYetOf
<1>7. Fits(r)'
  BY <1>1, <1>2, <1>3, <1>6 DEF Fits, Stands, InHand, Makes, HeldPlaces, AskedPlaces
<1>8. ASSUME NEW u \in Threads, u # r, thread[u].of = k
      PROVE  Fits(u)' /\ ~Alike(r, u)'
  <2>1. thread'[u] = thread[u] /\ Fits(u)
    BY <1>2, <1>8 DEF Moves, MetricsInv
  <2>2. ~InHand(u) /\ ~Makes(u) /\ thread[u].at \notin {"telling", "paid", "failing", "ending"}
    BY <1>8, <2>1 DEF Fits, Stands
  <2>3. Fits(u)'
    BY <1>2, <2>1, <2>2 DEF Fits, Stands, InHand, Makes, HeldPlaces
  <2>4. ~Alike(r, u)'
    BY <1>2, <2>1, <2>2 DEF Alike, InHand, Makes, HeldPlaces
  <2>5. QED
    BY <2>3, <2>4
<1>9. KeyFine(k)'
  <2>1. Making(k)'
    BY <1>2 DEF Making
  <2>2. QED
    <3>1. CreatedOnceOf(k)'
      BY <1>5, <1>6, <2>1 DEF CreatedOnceOf
    <3>2. EndToldOf(k)'
      BY <1>3, <1>5 DEF KeyFine, EndToldOf
    <3>3. NotYetOf(k)'
      BY <1>3, <1>5 DEF KeyFine, NotYetOf
    <3>4. QED
      BY <3>1, <3>2, <3>3 DEF KeyFine
<1>10. AnswersCounted'
  BY <1>1, <1>2, <1>4, AnswersKept DEF Ended
<1>11. QED
  BY <1>1, <1>2, <1>3, <1>4, <1>7, <1>8, <1>9, <1>10, StepKeeps DEF Moves

LEMMA PrepareStep == ASSUME MetricsInv, NEW r \in Asked, Prepare(r) PROVE MetricsInv'
<1>1. thread[r].of \in JobKeys
  BY DEF Prepare, MetricsInv, Fits, Threads
<1>2. QED
  BY <1>1, ReplayStep, EnqueueStep DEF Prepare

-----------------------------------------------------------------------------
(* Steps that count *)
LEMMA CounterMoves ==
  ASSUME MetricsInv, NEW name \in Counters, NEW k \in JobKeys, NEW n \in Nat,
         Count(name, k, n)
  PROVE  /\ counter' \in [Counters -> [JobKeys -> Nat]]
         /\ counter[name][k] \in Nat
         /\ counter'[name][k] = counter[name][k] + n
         /\ \A m \in Counters, j \in JobKeys :
                m # name \/ j # k => counter'[m][j] = counter[m][j]
<1>1. counter \in [Counters -> [JobKeys -> Nat]]
  BY DEF MetricsInv, MetricsType
<1>2. counter' = [counter EXCEPT ![name] = [counter[name] EXCEPT ![k] = counter[name][k] + n]]
  BY DEF Count
<1>3. [counter[name] EXCEPT ![k] = counter[name][k] + n] \in [JobKeys -> Nat]
  BY <1>1
<1>4. QED
  BY <1>1, <1>2, <1>3

LEMMA CountedFailures ==
  ASSUME MetricsInv, NEW k \in JobKeys, NEW n \in Nat, Count("failures", k, n),
         UNCHANGED <<record, unheard>>
  PROVE  /\ counter' \in [Counters -> [JobKeys -> Nat]]
         /\ \A j \in JobKeys : j # k => KeyKept(j)
         /\ KeyGrown(k)
         /\ n > 0 => counter'["failures"][k] > 0
<1>1. "failures" \in Counters
  BY DEF Counters
<1>2. QED
  BY <1>1, CounterMoves DEF KeyKept, KeyGrown, Counters

LEMMA Silenced ==
  ASSUME MetricsInv, NEW name \in Counters, NEW k \in JobKeys, Unheard(name, k)
  PROVE  /\ unheard' \subseteq Counters \X JobKeys
         /\ <<name, k>> \in unheard'
         /\ \A m \in Counters, j \in JobKeys :
                m # name \/ j # k => (<<m, j>> \in unheard' <=> <<m, j>> \in unheard)
BY DEF MetricsInv, MetricsType, Unheard

(* The rest of those with the job fit when it stands as they need it. *)
LEMMA FitsBeside ==
  ASSUME MetricsInv, MetricsType', NEW t \in Threads, NEW k \in JobKeys, About(t, k),
         NEW u \in Threads, u # t, thread[u].of = k,
         counter'["failures"][k] >= counter["failures"][k],
         Makes(u) => /\ \A name \in {"created", "accepted"} :
                            counter'[name][k] = counter[name][k]
                     /\ <<"created", k>> \in unheard' => <<"created", k>> \in unheard,
         thread[u].at = "paid" => (<<"settled", k>> \in unheard' => <<"settled", k>> \in unheard),
         Stands(u)'
  PROVE  Fits(u)'
<1>1. Fits(u) /\ thread'[u] = thread[u]
  BY DEF MetricsInv, About, Moves
<1>2. counter["failures"][k] \in Nat /\ counter'["failures"][k] \in Nat
  BY DEF MetricsInv, MetricsType, Counters
<1>3. Makes(u)' <=> Makes(u)
  BY <1>1 DEF Makes
<1>4. QED
  BY <1>1, <1>2, <1>3 DEF Fits, Makes

LEMMA StandsStill ==
  ASSUME MetricsInv, NEW t \in Threads, NEW k \in JobKeys, About(t, k),
         NEW u \in Threads, u # t, thread[u].of = k,
         record'[k].state = record[k].state
  PROVE  Stands(u)'
<1>1. Stands(u) /\ thread'[u] = thread[u]
  BY DEF MetricsInv, About, Moves, Fits
<1>2. QED
  BY <1>1 DEF Stands, InHand, Makes

LEMMA StillAlone ==
  ASSUME MetricsInv, NEW t \in Threads, NEW k \in JobKeys, About(t, k),
         thread[t].of = k, thread'[t].of = k,
         InHand(t)' => InHand(t), Makes(t)' => Makes(t), thread'[t].at # "paid",
         NEW u \in Threads, u # t
  PROVE  ~(Alike(t, u)' /\ thread'[t].of = thread'[u].of)
<1>1. SUFFICES ASSUME Alike(t, u)', thread'[t].of = thread'[u].of PROVE FALSE
  OBVIOUS
<1>2. thread'[u] = thread[u]
  BY DEF About, Moves
<1>3. Alike(t, u)
  BY <1>1, <1>2 DEF Alike, InHand, Makes
<1>4. QED
  BY <1>1, <1>2, <1>3 DEF MetricsInv, Alone

LEMMA CreatedStep ==
  ASSUME MetricsInv, NEW r \in Asked, NEW k \in JobKeys,
         thread[r].of = k, thread[r].at = "projecting",
         Count("created", k, 1), Place(r, "replying", "accepted"),
         UNCHANGED <<record, swept, outcomes, unheard>>
  PROVE  MetricsInv'
<1>1. r \in Threads /\ "replying" \in Places /\ "accepted" \in Ways /\ "created" \in Counters
  BY DEF Threads, Places, AskedPlaces, Ways, Counters
<1>2. Moves(r) /\ thread'[r].at = "replying" /\ thread'[r].of = k /\ thread'[r].as = "accepted"
  <2>1. Moves(r) /\ thread'[r] = [at |-> "replying", of |-> k, as |-> "accepted"]
    BY <1>1, Placed
  <2>2. QED
    BY <2>1
<1>3. /\ counter' \in [Counters -> [JobKeys -> Nat]]
      /\ counter'["created"][k] = counter["created"][k] + 1
      /\ \A m \in Counters, j \in JobKeys :
             m # "created" \/ j # k => counter'[m][j] = counter[m][j]
  BY <1>1, CounterMoves
<1>4. MetricsType'
  BY <1>2, <1>3 DEF MetricsInv, MetricsType, Moves
<1>5. About(r, k)
  BY <1>2, <1>3 DEF About, KeyKept
<1>6. Makes(r) /\ Fits(r) /\ Making(k)
  BY <1>1 DEF Makes, MetricsInv, Making
<1>7. /\ record[k].state # "none" /\ counter["accepted"][k] = 0
      /\ <<"created", k>> \notin unheard
  BY <1>6 DEF Fits, Stands
<1>8. KeyFine(k)
  BY KeysFine DEF MetricsInv
<1>9. counter["created"][k] = 0
  BY <1>6, <1>8 DEF KeyFine, CreatedOnceOf
<1>10. counter'["created"][k] = 1 /\ counter'["accepted"][k] = 0
       /\ counter'["settled"][k] = counter["settled"][k]
       /\ counter'["failures"][k] = counter["failures"][k]
       /\ counter["failures"][k] \in Nat
  BY <1>3, <1>7, <1>9 DEF Counters, MetricsInv, MetricsType
<1>11. \A u \in Threads : u # r /\ thread[u].of = k => ~Makes(u)
  BY <1>1, <1>6 DEF MetricsInv, Alone, Alike
<1>12. Fits(r)'
  BY <1>1, <1>2, <1>7, <1>10 DEF Fits, Stands, InHand, Makes, HeldPlaces, AskedPlaces
<1>13. \A u \in Threads : u # r /\ thread[u].of = k => Fits(u)'
  <2>1. SUFFICES ASSUME NEW u \in Threads, u # r, thread[u].of = k PROVE Fits(u)'
    OBVIOUS
  <2>2. Stands(u)'
    BY <1>1, <1>5, <2>1, StandsStill
  <2>3. ~Makes(u) /\ unheard' = unheard /\ counter'["failures"][k] >= counter["failures"][k]
    BY <1>10, <1>11, <2>1
  <2>4. QED
    BY <1>1, <1>4, <1>5, <2>1, <2>2, <2>3, FitsBeside
<1>14. \A u \in Threads : ~(u # r /\ Alike(r, u)' /\ thread'[r].of = thread'[u].of)
  BY <1>1, <1>2, <1>5, <1>6, StillAlone DEF InHand, HeldPlaces
<1>15. KeyFine(k)'
  <2>1. ~Making(k)'
    <3>1. \A u \in Asked : u # r => ~(thread'[u].at = "projecting" /\ thread'[u].of = k)
      BY <1>2, <1>11 DEF Moves, Makes, Threads
    <3>2. QED
      BY <1>2, <3>1 DEF Making
  <2>2. Telling(k, "paid")' <=> Telling(k, "paid")
    BY <1>2, <1>1 DEF Telling, Moves, Makes
  <2>3. Telling(k, "telling")' <=> Telling(k, "telling")
    BY <1>2, <1>1 DEF Telling, Moves, Makes
  <2>4. CreatedOnceOf(k)'
    BY <1>7, <1>10, <2>1 DEF CreatedOnceOf
  <2>5. EndToldOf(k)'
    BY <1>8, <1>10, <2>2, <2>3 DEF KeyFine, EndToldOf
  <2>6. QED
    BY <1>8, <2>4, <2>5 DEF KeyFine, NotYetOf
<1>16. AnswersCounted'
  BY <1>1, <1>2, <1>5, AnswersKept DEF Ended
<1>17. QED
  BY <1>1, <1>4, <1>5, <1>12, <1>13, <1>14, <1>15, <1>16, StepKeeps

(* The job was made and is not said to be: by one that fails it or answers. *)
LEMMA UncreatedStep ==
  ASSUME MetricsInv, MetricsType', NEW r \in Asked, NEW k \in JobKeys,
         thread[r].of = k, thread[r].at = "projecting",
         Moves(r), thread'[r].of = k, thread'[r].at \in {"failing", "answered"},
         Fits(r)', AnswersCounted',
         Unheard("created", k), UNCHANGED <<record, swept, counter>>
  PROVE  MetricsInv'
<1>1. r \in Threads /\ "created" \in Counters /\ "settled" \in Counters /\ "failures" \in Counters
  BY DEF Threads, Counters
<1>2. /\ <<"created", k>> \in unheard'
      /\ \A m \in Counters, j \in JobKeys :
             m # "created" \/ j # k => (<<m, j>> \in unheard' <=> <<m, j>> \in unheard)
  BY <1>1, Silenced
<1>3. About(r, k)
  BY <1>2 DEF About, KeyKept
<1>4. Makes(r) /\ Making(k) /\ record[k].state # "none"
  BY <1>1 DEF Makes, MetricsInv, Fits, Stands, Making
<1>5. \A u \in Threads : u # r /\ thread[u].of = k => ~Makes(u)
  BY <1>1, <1>4 DEF MetricsInv, Alone, Alike
<1>6. KeyFine(k)
  BY KeysFine DEF MetricsInv
<1>7. counter["failures"][k] \in Nat
  BY <1>1 DEF MetricsInv, MetricsType
<1>8. \A u \in Threads : u # r /\ thread[u].of = k => Fits(u)'
  <2>1. SUFFICES ASSUME NEW u \in Threads, u # r, thread[u].of = k PROVE Fits(u)'
    OBVIOUS
  <2>2. Stands(u)'
    BY <1>1, <1>3, <2>1, StandsStill
  <2>3. ~Makes(u) /\ (<<"settled", k>> \in unheard' => <<"settled", k>> \in unheard)
        /\ counter'["failures"][k] >= counter["failures"][k]
    BY <1>1, <1>2, <1>5, <1>7, <2>1
  <2>4. QED
    BY <1>1, <1>3, <2>1, <2>2, <2>3, FitsBeside
<1>9. \A u \in Threads : ~(u # r /\ Alike(r, u)' /\ thread'[r].of = thread'[u].of)
  BY <1>1, <1>3, StillAlone DEF InHand, Makes, HeldPlaces
<1>10. KeyFine(k)'
  <2>1. Telling(k, "paid")' <=> Telling(k, "paid")
    BY <1>1 DEF Telling, Moves
  <2>2. Telling(k, "telling")' <=> Telling(k, "telling")
    BY <1>1 DEF Telling, Moves
  <2>3. CreatedOnceOf(k)'
    BY <1>2, <1>4, <1>6 DEF KeyFine, CreatedOnceOf
  <2>4. EndToldOf(k)'
    BY <1>1, <1>2, <1>6, <2>1, <2>2 DEF KeyFine, EndToldOf
  <2>5. NotYetOf(k)'
    BY <1>1, <1>2, <1>4, <1>6 DEF KeyFine, NotYetOf
  <2>6. QED
    BY <2>3, <2>4, <2>5 DEF KeyFine
<1>11. QED
  BY <1>1, <1>3, <1>8, <1>9, <1>10, StepKeeps

LEMMA ProjectStep == ASSUME MetricsInv, NEW r \in Asked, Project(r) PROVE MetricsInv'
<1>1. r \in Threads /\ thread[r].of \in JobKeys /\ "created" \in Counters
      /\ thread[r].at = "projecting"
  BY DEF Project, MetricsInv, Fits, Threads, Counters
<1>2. CASE /\ Place(r, "failing", "none")
           /\ Unheard("created", thread[r].of)
           /\ UNCHANGED <<record, swept, outcomes, counter>>
  <2>1. "failing" \in Places /\ "none" \in Ways
    BY DEF Places, SharedPlaces, Ways
  <2>2. Moves(r) /\ thread'[r] = [at |-> "failing", of |-> thread[r].of, as |-> "none"]
    BY <1>1, <1>2, <2>1, Placed
  <2>3. unheard' \subseteq Counters \X JobKeys
    BY <1>1, <1>2, Silenced
  <2>4. MetricsType'
    BY <1>2, <2>2, <2>3 DEF MetricsInv, MetricsType, Moves
  <2>5. record[thread[r].of].state # "none"
    BY <1>1 DEF MetricsInv, Fits, Stands, Makes
  <2>6. Fits(r)'
    BY <1>1, <1>2, <2>2, <2>5 DEF Fits, Stands, InHand, Makes, HeldPlaces, AskedPlaces
  <2>7. AnswersCounted'
    BY <1>1, <1>2, <2>2 DEF MetricsInv, AnswersCounted, Moves, Threads, Ended
  <2>8. QED
    BY <1>1, <1>2, <2>2, <2>4, <2>6, <2>7, UncreatedStep
<1>3. CASE /\ Answer(r)
           /\ Unheard("created", thread[r].of)
           /\ UNCHANGED <<record, swept, counter>>
  <2>1. /\ Moves(r) /\ Apart(r)'
        /\ thread'[r].at = "answered" /\ thread'[r].of = thread[r].of
        /\ outcomes' \in [Asked -> Nat]
        /\ outcomes'[r] = outcomes[r] + 1
        /\ \A q \in Asked : q # r => outcomes'[q] = outcomes[q]
    BY <1>1, <1>3, Outcomes
  <2>2. unheard' \subseteq Counters \X JobKeys
    BY <1>1, <1>3, Silenced
  <2>3. MetricsType'
    BY <1>3, <2>1, <2>2 DEF MetricsInv, MetricsType, Moves
  <2>4. Fits(r)'
    BY <1>1, <2>1, ApartFits
  <2>5. AnswersCounted'
    <3>1. outcomes[r] = 0
      BY <1>1 DEF MetricsInv, AnswersCounted
    <3>2. \A q \in Asked : q # r => thread'[q] = thread[q]
      BY <2>1 DEF Moves, Threads
    <3>3. QED
      BY <1>3, <2>1, <3>1, <3>2 DEF MetricsInv, AnswersCounted, Ended
  <2>6. QED
    BY <1>1, <1>3, <2>1, <2>3, <2>4, <2>5, UncreatedStep
<1>4. QED
  BY <1>1, <1>2, <1>3, CreatedStep DEF Project

LEMMA AcceptedStep ==
  ASSUME MetricsInv, NEW r \in Asked, NEW k \in JobKeys,
         thread[r].of = k, thread[r].at = "replying", thread[r].as = "accepted",
         Answer(r), Count("accepted", k, 1), UNCHANGED <<record, swept, unheard>>
  PROVE  MetricsInv'
<1>1. r \in Threads /\ "accepted" \in Counters
  BY DEF Threads, Counters
<1>2. /\ Moves(r) /\ Apart(r)'
      /\ thread'[r].at = "answered" /\ thread'[r].of = k
      /\ outcomes' \in [Asked -> Nat]
      /\ outcomes'[r] = outcomes[r] + 1
      /\ \A q \in Asked : q # r => outcomes'[q] = outcomes[q]
  BY Outcomes
<1>3. /\ counter' \in [Counters -> [JobKeys -> Nat]]
      /\ counter'["accepted"][k] = counter["accepted"][k] + 1
      /\ \A m \in Counters, j \in JobKeys :
             m # "accepted" \/ j # k => counter'[m][j] = counter[m][j]
  BY <1>1, CounterMoves
<1>4. MetricsType'
  BY <1>2, <1>3 DEF MetricsInv, MetricsType, Moves
<1>5. About(r, k)
  BY <1>2, <1>3 DEF About, KeyKept
<1>6. Makes(r) /\ Fits(r)
  BY <1>1 DEF Makes, MetricsInv
<1>7. counter["accepted"][k] = 0 /\ counter["created"][k] = 1
  BY <1>6 DEF Fits
<1>8. /\ counter'["accepted"][k] = 1 /\ counter'["created"][k] = 1
      /\ counter'["settled"][k] = counter["settled"][k]
      /\ counter'["failures"][k] = counter["failures"][k]
      /\ counter["failures"][k] \in Nat
  BY <1>3, <1>7 DEF Counters, MetricsInv, MetricsType
<1>9. \A u \in Threads : u # r /\ thread[u].of = k => ~Makes(u)
  BY <1>1, <1>6 DEF MetricsInv, Alone, Alike
<1>10. Fits(r)' /\ \A u \in Threads : ~(u # r /\ Alike(r, u)' /\ thread'[r].of = thread'[u].of)
  BY <1>1, <1>2, ApartFits
<1>11. \A u \in Threads : u # r /\ thread[u].of = k => Fits(u)'
  <2>1. SUFFICES ASSUME NEW u \in Threads, u # r, thread[u].of = k PROVE Fits(u)'
    OBVIOUS
  <2>2. Stands(u)'
    BY <1>1, <1>5, <2>1, StandsStill
  <2>3. ~Makes(u) /\ counter'["failures"][k] >= counter["failures"][k]
    BY <1>8, <1>9, <2>1
  <2>4. QED
    BY <1>1, <1>4, <1>5, <2>1, <2>2, <2>3, FitsBeside
<1>12. KeyFine(k)'
  <2>1. KeyFine(k)
    BY KeysFine DEF MetricsInv
  <2>2. Making(k)' <=> Making(k)
    BY <1>1, <1>2 DEF Making, Moves, Threads
  <2>3. Telling(k, "paid")' <=> Telling(k, "paid")
    BY <1>1, <1>2 DEF Telling, Moves
  <2>4. Telling(k, "telling")' <=> Telling(k, "telling")
    BY <1>1, <1>2 DEF Telling, Moves
  <2>5. CreatedOnceOf(k)'
    BY <1>7, <1>8, <2>1, <2>2 DEF KeyFine, CreatedOnceOf
  <2>6. EndToldOf(k)'
    BY <1>8, <2>1, <2>3, <2>4 DEF KeyFine, EndToldOf
  <2>7. QED
    BY <2>1, <2>5, <2>6 DEF KeyFine, NotYetOf
<1>13. AnswersCounted'
  BY <1>1, <1>2, <1>5, AnswersKept DEF Ended
<1>14. QED
  BY <1>1, <1>4, <1>5, <1>10, <1>11, <1>12, <1>13, StepKeeps

LEMMA RepliedStep ==
  ASSUME MetricsInv, NEW r \in Asked, NEW k \in JobKeys,
         thread[r].of = k, thread[r].at = "replying",
         Answer(r), UNCHANGED <<record, swept, counter, unheard>>
  PROVE  MetricsInv'
<1>1. r \in Threads
  BY DEF Threads
<1>2. /\ Moves(r) /\ Apart(r)'
      /\ thread'[r].at = "answered" /\ thread'[r].of = thread[r].of
      /\ outcomes' \in [Asked -> Nat]
      /\ outcomes'[r] = outcomes[r] + 1
      /\ \A q \in Asked : q # r => outcomes'[q] = outcomes[q]
  BY Outcomes
<1>3. MetricsType'
  BY <1>2 DEF MetricsInv, MetricsType, Moves
<1>4. AllKept
  BY NothingCounted
<1>5. About(r, k) /\ KeyGrown(k)
  BY <1>1, <1>2, <1>4, KeptIsGrown DEF About, AllKept, KeyKept
<1>6. AnswersCounted'
  BY <1>1, <1>2, <1>5, AnswersKept DEF Ended
<1>7. Silent(r)
  BY DEF Silent
<1>8. QED
  BY <1>1, <1>2, <1>3, <1>5, <1>6, <1>7, SilentAside

LEMMA ReplyStep == ASSUME MetricsInv, NEW r \in Asked, Reply(r) PROVE MetricsInv'
<1>1. thread[r].of \in JobKeys
  BY DEF Reply, MetricsInv, Fits, Threads
<1>2. QED
  BY <1>1, AcceptedStep, RepliedStep DEF Reply

-----------------------------------------------------------------------------
(* A thread that is done with a failure *)
LEMMA GivenUp ==
  ASSUME MetricsInv, NEW t \in Threads, NEW k \in JobKeys, thread[t].of = k,
         thread[t].at # "idle", GiveUp(t)
  PROVE  /\ Moves(t) /\ Apart(t)' /\ thread'[t].of \in {k, Nobody}
         /\ swept' \in [Sweepers -> SUBSET JobKeys]
         /\ \A s \in Sweepers : swept'[s] \subseteq swept[s]
         /\ outcomes' \in [Asked -> Nat]
         /\ \A q \in Asked : q # t => outcomes'[q] = outcomes[q]
         /\ t \in Asked => thread'[t].at = "answered" /\ outcomes'[t] = outcomes[t] + 1
<1>1. swept \in [Sweepers -> SUBSET JobKeys] /\ outcomes \in [Asked -> Nat]
  BY DEF MetricsInv, MetricsType
<1>2. CASE t \in Asked /\ Answer(t) /\ UNCHANGED swept
  BY <1>1, <1>2, Outcomes
<1>3. CASE t \notin Asked /\ Rest(t) /\ UNCHANGED outcomes
           /\ (UNCHANGED swept \/ swept' = [swept EXCEPT ![t] = {}])
  BY <1>1, <1>3, Rested DEF Apart, Resting
<1>4. QED
  BY <1>2, <1>3, ThreadsApart DEF GiveUp

LEMMA GoneOn ==
  ASSUME MetricsInv, NEW t \in Threads, NEW k \in JobKeys, thread[t].of = k,
         thread[t].at # "idle", GoOn(t)
  PROVE  /\ Moves(t) /\ Apart(t)' /\ thread'[t].of \in {k, Nobody}
         /\ UNCHANGED <<swept, outcomes>>
         /\ t \in Asked => thread'[t].at = "answered" /\ thread'[t].of = k
<1>1. CASE t \in Asked
  <2>1. "answered" \in Places /\ "gone" \in Ways
    BY DEF Places, AskedPlaces, Ways
  <2>2. Moves(t) /\ thread'[t] = [at |-> "answered", of |-> k, as |-> "gone"]
    BY <1>1, <2>1, Placed DEF GoOn
  <2>3. QED
    BY <1>1, <2>2 DEF GoOn, Apart, Resting
<1>2. CASE t \notin Asked
  BY <1>2, Rested DEF GoOn, Apart, Resting
<1>3. QED
  BY <1>1, <1>2

(* What both come to *)
Leaves(t) ==
    /\ Moves(t) /\ Apart(t)' /\ thread'[t].of \in {thread[t].of, Nobody}
    /\ swept' \in [Sweepers -> SUBSET JobKeys]
    /\ \A s \in Sweepers : swept'[s] \subseteq swept[s]
    /\ outcomes' \in [Asked -> Nat]
    /\ \A q \in Asked : q # t => outcomes'[q] = outcomes[q]
    /\ t \in Asked => /\ thread'[t].at = "answered"
                      /\ \/ outcomes'[t] = outcomes[t] + 1
                         \/ outcomes'[t] = outcomes[t] /\ Ended(thread[t].of)'

LEMMA DoneLeaves ==
  ASSUME MetricsInv, NEW t \in Threads, NEW k \in JobKeys, thread[t].of = k,
         thread[t].at # "idle", GiveUp(t) \/ (GoOn(t) /\ Ended(k)')
  PROVE  Leaves(t)
<1>1. CASE GiveUp(t)
  BY <1>1, GivenUp DEF Leaves
<1>2. CASE GoOn(t) /\ Ended(k)'
  <2>1. swept \in [Sweepers -> SUBSET JobKeys] /\ outcomes \in [Asked -> Nat]
    BY DEF MetricsInv, MetricsType
  <2>2. QED
    BY <1>2, <2>1, GoneOn DEF Leaves, Ended
<1>3. QED
  BY <1>1, <1>2

LEMMA LeavesAside ==
  ASSUME MetricsInv, NEW t \in Threads, NEW k \in JobKeys, thread[t].of = k,
         thread[t].at \notin {"idle", "answered"}, Leaves(t), Silent(t),
         UNCHANGED <<record, unheard>>, counter' \in [Counters -> [JobKeys -> Nat]],
         \A j \in JobKeys : j # k => KeyKept(j), KeyGrown(k)
  PROVE  MetricsInv'
<1>1. MetricsType'
  BY DEF Leaves, Moves, MetricsInv, MetricsType
<1>2. About(t, k)
  BY DEF About, Leaves
<1>3. AnswersCounted'
  BY <1>2, AnswersKept DEF Leaves, Ended
<1>4. QED
  BY <1>1, <1>2, <1>3, SilentAside DEF Leaves

LEMMA FailReadsStep ==
  ASSUME MetricsInv, NEW t \in Threads, NEW k \in JobKeys, thread[t].of = k, FailReads(t)
  PROVE  MetricsInv'
<1>1. thread[t].at = "failing" /\ Fits(t)
  BY DEF FailReads, MetricsInv
<1>2. AllKept
  BY NothingCounted DEF FailReads
<1>3. Silent(t)
  BY <1>1 DEF Silent
<1>4. CASE GiveUp(t) \/ (GoOn(t) /\ ~Ongoing(k))
  <2>1. Ended(k)' \/ GiveUp(t)
    <3>1. record[k].state # "none" /\ record[k] \in RecordType
      BY <1>1 DEF Fits, Stands, MetricsInv, MetricsType
    <3>2. record' = record
      BY DEF FailReads
    <3>3. QED
      BY <1>4, <3>1, <3>2 DEF Ongoing, Ended, RecordType
  <2>2. counter' \in [Counters -> [JobKeys -> Nat]]
    BY DEF FailReads, MetricsInv, MetricsType
  <2>3. Leaves(t)
    BY <1>1, <1>4, <2>1, DoneLeaves
  <2>4. KeyGrown(k)
    BY <1>1, <1>2, KeptIsGrown DEF AllKept
  <2>5. QED
    BY <1>1, <1>2, <1>3, <2>2, <2>3, <2>4, LeavesAside DEF AllKept, FailReads
<1>5. CASE Place(t, "ending", thread[t].as) /\ UNCHANGED <<swept, outcomes>>
  <2>1. "ending" \in Places /\ thread[t].as \in Ways
    BY DEF Places, SharedPlaces, MetricsInv, MetricsType, PlaceType
  <2>2. Moves(t) /\ thread'[t] = [at |-> "ending", of |-> k, as |-> thread[t].as]
    BY <1>1, <1>5, <2>1, Placed
  <2>3. thread'[t].at = "ending" /\ thread'[t].of = k /\ thread'[t].as = thread[t].as
    BY <2>2
  <2>4. MetricsType'
    BY <1>5, <2>2 DEF FailReads, MetricsInv, MetricsType, Moves
  <2>5. Silent(t)' /\ Fits(t)'
    BY <1>1, <2>3 DEF FailReads, Silent, Fits, Stands, InHand, Makes, HeldPlaces, AskedPlaces
  <2>6. KeyGrown(k)
    BY <1>1, <1>2, KeptIsGrown DEF AllKept
  <2>7. QED
    BY <1>1, <1>2, <1>3, <1>5, <2>1, <2>4, <2>5, <2>6, Onwards DEF AllKept, HeldPlaces
<1>6. QED
  BY <1>4, <1>5 DEF FailReads

(* The state of a job is written. *)
LEMMA Written ==
  ASSUME MetricsInv, NEW k \in JobKeys, NEW r \in RecordType,
         record' = [record EXCEPT ![k] = r]
  PROVE  /\ record' \in [JobKeys -> RecordType] /\ record'[k] = r
         /\ \A j \in JobKeys : j # k => record'[j] = record[j]
BY DEF MetricsInv, MetricsType

LEMMA FailedStep ==
  ASSUME MetricsInv, NEW t \in Threads, NEW k \in JobKeys, thread[t].of = k,
         thread[t].at = "ending", Ongoing(k), Fails(k),
         Place(t, "telling", IF thread[t].as = "quiet" THEN "quiet" ELSE "ender"),
         UNCHANGED <<swept, outcomes, counter, unheard>>
  PROVE  MetricsInv'
<1> DEFINE as == IF thread[t].as = "quiet" THEN "quiet" ELSE "ender"
<1>1. Place(t, "telling", as) /\ "telling" \in Places /\ as \in Ways
  BY DEF Places, SharedPlaces, Ways
<1> HIDE DEF as
<1>2. Moves(t) /\ thread'[t] = [at |-> "telling", of |-> k, as |-> as]
  BY <1>1, Placed
<1>3. thread'[t].at = "telling" /\ thread'[t].of = k /\ thread'[t].as = as
  BY <1>2
<1>4. /\ record' \in [JobKeys -> RecordType] /\ record'[k].state = "failed"
      /\ \A j \in JobKeys : j # k => record'[j] = record[j]
  <2>1. record[k] \in RecordType
    BY DEF MetricsInv, MetricsType
  <2>2. [record[k] EXCEPT !.state = "failed", !.by = Nobody] \in RecordType
    BY <2>1 DEF RecordType
  <2>3. record' = [record EXCEPT ![k] = [record[k] EXCEPT !.state = "failed", !.by = Nobody]]
    BY DEF Fails, MetricsInv, MetricsType
  <2>4. QED
    BY <2>1, <2>2, <2>3, Written DEF RecordType
<1>5. MetricsType'
  BY <1>2, <1>4 DEF MetricsInv, MetricsType, Moves
<1>6. About(t, k)
  BY <1>2, <1>3, <1>4 DEF About, KeyKept
<1>7. Fits(t) /\ KeyFine(k) /\ counter["failures"][k] \in Nat
  BY KeysFine DEF MetricsInv, MetricsType, Counters
<1>8. as = "quiet" => counter["failures"][k] > 0
  BY <1>7 DEF Fits, as
<1>9. Fits(t)'
  BY <1>1, <1>3, <1>4, <1>8 DEF Fits, Stands, InHand, Makes, HeldPlaces, AskedPlaces
<1>10. ASSUME NEW u \in Threads, u # t, thread[u].of = k
       PROVE  Fits(u)'
  <2>1. thread'[u] = thread[u] /\ Stands(u)
    BY <1>2, <1>10 DEF Moves, MetricsInv, Fits
  <2>2. thread[u].at # "paid"
    BY <1>10, <2>1 DEF Stands, Ongoing
  <2>3. Stands(u)'
    BY <1>4, <1>10, <2>1, <2>2 DEF Stands
  <2>4. counter' = counter /\ unheard' = unheard /\ counter'["failures"][k] >= counter["failures"][k]
    BY <1>7
  <2>5. QED
    BY <1>5, <1>6, <1>10, <2>3, <2>4, FitsBeside
<1>11. \A u \in Threads : ~(u # t /\ Alike(t, u)' /\ thread'[t].of = thread'[u].of)
  BY <1>3, <1>6, StillAlone DEF InHand, Makes, HeldPlaces
<1>12. KeyFine(k)'
  <2>1. Making(k)' <=> Making(k)
    BY <1>2, <1>3 DEF Making, Moves, Threads
  <2>2. record[k].state # "settled" /\ record[k].state # "none"
    BY DEF Ongoing
  <2>3. as = "quiet" \/ Telling(k, "telling")'
    BY <1>3 DEF Telling, as
  <2>4. CreatedOnceOf(k)'
    BY <1>4, <1>7, <2>1, <2>2 DEF KeyFine, CreatedOnceOf
  <2>5. EndToldOf(k)'
    BY <1>4, <1>7, <1>8, <2>2, <2>3 DEF KeyFine, EndToldOf
  <2>6. QED
    BY <1>4, <1>7, <2>2, <2>4, <2>5 DEF KeyFine, NotYetOf
<1>13. AnswersCounted'
  BY <1>3, <1>4, <1>6, AnswersKept DEF Ended
<1>14. QED
  BY <1>5, <1>6, <1>9, <1>10, <1>11, <1>12, <1>13, StepKeeps

LEMMA FailEndsStep ==
  ASSUME MetricsInv, NEW t \in Threads, NEW k \in JobKeys, thread[t].of = k, FailEnds(t)
  PROVE  MetricsInv'
<1>1. thread[t].at = "ending" /\ Fits(t)
  BY DEF FailEnds, MetricsInv
<1>2. Silent(t)
  BY <1>1 DEF Silent
<1>3. CASE GiveUp(t) /\ UNCHANGED record
  <2>1. AllKept
    BY <1>3, NothingCounted DEF FailEnds
  <2>2. counter' \in [Counters -> [JobKeys -> Nat]]
    BY DEF FailEnds, MetricsInv, MetricsType
  <2>3. KeyGrown(k)
    BY <2>1, KeptIsGrown DEF AllKept
  <2>4. Leaves(t)
    BY <1>1, <1>3, DoneLeaves
  <2>5. QED
    BY <1>1, <1>2, <1>3, <2>1, <2>2, <2>3, <2>4, LeavesAside DEF AllKept, FailEnds
<1>4. CASE ~Ongoing(k) /\ Place(t, "telling", thread[t].as) /\ UNCHANGED <<record, swept, outcomes>>
  <2>1. "telling" \in Places /\ thread[t].as \in Ways
    BY DEF Places, SharedPlaces, MetricsInv, MetricsType, PlaceType
  <2>2. Moves(t) /\ thread'[t] = [at |-> "telling", of |-> k, as |-> thread[t].as]
    BY <1>1, <1>4, <2>1, Placed
  <2>3. thread'[t].at = "telling" /\ thread'[t].of = k /\ thread'[t].as = thread[t].as
    BY <2>2
  <2>4. MetricsType' /\ AllKept
    BY <1>4, <2>2, NothingCounted DEF FailEnds, MetricsInv, MetricsType, Moves
  <2>5. record[k].state \in {"settled", "failed"}
    BY <1>1, <1>4 DEF Ongoing, Fits, Stands, MetricsInv, MetricsType, RecordType
  <2>6. thread[t].as # "ender"
    BY <1>1 DEF Fits
  <2>7. Silent(t)'
    BY <2>3, <2>6 DEF Silent
  <2>8. counter' = counter
    BY DEF FailEnds
  <2>9. Fits(t)'
    BY <1>1, <1>4, <2>3, <2>5, <2>8 DEF Fits, Stands, InHand, Makes, HeldPlaces, AskedPlaces
  <2>10. KeyGrown(k)
    BY <2>4, KeptIsGrown DEF AllKept
  <2>11. QED
    BY <1>1, <1>2, <1>4, <2>1, <2>4, <2>7, <2>9, <2>10, Onwards DEF AllKept, HeldPlaces
<1>5. QED
  BY <1>3, <1>4, FailedStep DEF FailEnds

(* The failure of an ended job is told, or never will be. *)
LEMMA ToldStep ==
  ASSUME MetricsInv, NEW t \in Threads, NEW k \in JobKeys, thread[t].of = k,
         thread[t].at = "telling", Leaves(t), UNCHANGED record,
         counter' \in [Counters -> [JobKeys -> Nat]], unheard' \subseteq Counters \X JobKeys,
         \A name \in Counters, j \in JobKeys : name # "failures" \/ j # k =>
             /\ counter'[name][j] = counter[name][j]
             /\ <<name, j>> \in unheard' <=> <<name, j>> \in unheard,
         counter'["failures"][k] >= counter["failures"][k],
         thread[t].as = "ender" =>
             counter'["failures"][k] > 0 \/ <<"failures", k>> \in unheard',
         <<"failures", k>> \in unheard => <<"failures", k>> \in unheard'
  PROVE  MetricsInv'
<1>1. MetricsType'
  BY DEF Leaves, Moves, MetricsInv, MetricsType
<1>2. About(t, k)
  BY DEF About, Leaves, KeyKept
<1>3. Fits(t)' /\ \A u \in Threads : ~Alike(t, u)'
  BY ApartFits DEF Leaves
<1>4. ASSUME NEW u \in Threads, u # t, thread[u].of = k
      PROVE  Fits(u)'
  <2>1. Stands(u)'
    BY <1>2, <1>4, StandsStill
  <2>2. QED
    BY <1>1, <1>2, <1>4, <2>1, FitsBeside DEF Counters
<1>5. KeyFine(k)'
  <2>1. KeyFine(k)
    BY KeysFine DEF MetricsInv
  <2>2. thread'[t].at \notin {"projecting", "paid", "telling"}
    BY DEF Leaves, Apart, Resting
  <2>3. Making(k)' <=> Making(k)
    BY <2>2 DEF Making, Leaves, Moves, Threads
  <2>4. Telling(k, "paid")' <=> Telling(k, "paid")
    BY <2>2 DEF Telling, Leaves, Moves
  <2>5. Telling(k, "telling") => Telling(k, "telling")' \/ thread[t].as = "ender"
    BY DEF Telling, Leaves, Moves
  <2>6. counter["failures"][k] \in Nat /\ counter'["failures"][k] \in Nat
    BY DEF MetricsInv, MetricsType, Counters
  <2>7. CreatedOnceOf(k)'
    BY <2>1, <2>3 DEF KeyFine, CreatedOnceOf, Counters
  <2>8. EndToldOf(k)'
    BY <2>1, <2>4, <2>5, <2>6 DEF KeyFine, EndToldOf, Counters
  <2>9. NotYetOf(k)'
    BY <2>1 DEF KeyFine, NotYetOf, Counters
  <2>10. QED
    BY <2>7, <2>8, <2>9 DEF KeyFine
<1>6. AnswersCounted'
  BY <1>2, AnswersKept DEF Leaves, Ended
<1>7. QED
  BY <1>1, <1>2, <1>3, <1>4, <1>5, <1>6, StepKeeps

LEMMA FailTellsStep ==
  ASSUME MetricsInv, NEW t \in Threads, NEW k \in JobKeys, thread[t].of = k, FailTells(t)
  PROVE  MetricsInv'
<1>1. thread[t].at = "telling" /\ Fits(t) /\ "failures" \in Counters
  BY DEF FailTells, MetricsInv, Counters
<1>2. Ended(k) /\ Ended(k)'
  BY <1>1 DEF FailTells, Fits, Stands, Ended
<1>3. Leaves(t)
  BY <1>1, <1>2, DoneLeaves DEF FailTells
<1>4. /\ counter["failures"][k] \in Nat /\ counter \in [Counters -> [JobKeys -> Nat]]
      /\ unheard \subseteq Counters \X JobKeys
  BY <1>1 DEF MetricsInv, MetricsType
<1>5. CASE UNCHANGED <<counter, unheard>> /\ thread[t].as # "ender"
  <2>1. counter'["failures"][k] >= counter["failures"][k] /\ counter' = counter /\ unheard' = unheard
    BY <1>4, <1>5
  <2>2. QED
    BY <1>1, <1>3, <1>4, <1>5, <2>1, ToldStep DEF FailTells
<1>6. CASE Count("failures", k, 1) /\ UNCHANGED unheard
  <2>1. /\ counter' \in [Counters -> [JobKeys -> Nat]]
        /\ counter'["failures"][k] = counter["failures"][k] + 1
        /\ \A m \in Counters, j \in JobKeys :
               m # "failures" \/ j # k => counter'[m][j] = counter[m][j]
    BY <1>1, <1>6, CounterMoves
  <2>2. counter'["failures"][k] >= counter["failures"][k] /\ counter'["failures"][k] > 0
    BY <1>4, <2>1
  <2>3. QED
    BY <1>1, <1>3, <1>4, <1>6, <2>1, <2>2, ToldStep DEF FailTells
<1>7. CASE Unheard("failures", k) /\ UNCHANGED counter
  <2>1. /\ unheard' \subseteq Counters \X JobKeys
        /\ <<"failures", k>> \in unheard'
        /\ \A m \in Counters, j \in JobKeys :
               m # "failures" \/ j # k => (<<m, j>> \in unheard' <=> <<m, j>> \in unheard)
    BY <1>1, <1>7, Silenced
  <2>2. QED
    BY <1>1, <1>3, <1>4, <1>7, <2>1, ToldStep DEF FailTells
<1>8. QED
  BY <1>5, <1>6, <1>7 DEF FailTells

-----------------------------------------------------------------------------
(* A task *)
LEMMA ClaimStep ==
  ASSUME MetricsInv, NEW h \in Hands, NEW k \in JobKeys, ClaimJob(h, k)
  PROVE  MetricsInv'
<1> DEFINE claimed == [state |-> "running", by |-> MachineOf[h], runs |-> record[k].runs + 1]
<1>1. h \in Threads /\ "working" \in Places /\ h \notin Asked
  BY ThreadsApart DEF Threads, Places, HeldPlaces
<1>2. Moves(h) /\ thread'[h] = [at |-> "working", of |-> k, as |-> "none"]
  BY <1>1, Began DEF ClaimJob
<1>3. thread'[h].at = "working" /\ thread'[h].of = k /\ thread'[h].as = "none"
  BY <1>2
<1>4. record[k].state = "queued" /\ thread[h].at = "idle" /\ thread[h].of = Nobody
  BY <1>1 DEF ClaimJob, MetricsInv, Fits
<1>5. /\ record' \in [JobKeys -> RecordType] /\ record'[k].state = "running"
      /\ \A j \in JobKeys : j # k => record'[j] = record[j]
  <2>1. record[k].runs + 1 \in Nat /\ MachineOf[h] \in Machines
    BY <1>1, ThreadsApart DEF MetricsInv, MetricsType, RecordType
  <2>2. claimed \in RecordType
    BY <2>1 DEF RecordType
  <2>3. record' = [record EXCEPT ![k] = claimed]
    BY DEF ClaimJob
  <2>4. QED
    BY <2>2, <2>3, Written
<1>6. MetricsType'
  BY <1>2, <1>5 DEF ClaimJob, MetricsInv, MetricsType, Moves
<1>7. About(h, k)
  BY <1>2, <1>3, <1>4, <1>5 DEF ClaimJob, About, KeyKept
<1>8. /\ KeyFine(k) /\ counter["failures"][k] \in Nat
      /\ counter' = counter /\ unheard' = unheard
      /\ counter'["failures"][k] >= counter["failures"][k]
  BY KeysFine DEF ClaimJob, MetricsInv, MetricsType, Counters
<1>9. Fits(h)'
  BY <1>3, <1>5 DEF Fits, Stands, InHand, Makes, HeldPlaces, AskedPlaces
<1>10. ASSUME NEW u \in Threads, u # h, thread[u].of = k
       PROVE  Fits(u)' /\ ~InHand(u)'
  <2>1. thread'[u] = thread[u] /\ Stands(u)
    BY <1>2, <1>10 DEF Moves, MetricsInv, Fits
  <2>2. thread[u].at \notin {"paid", "telling"} /\ ~InHand(u)
    BY <1>4, <1>10, <2>1 DEF Stands
  <2>3. Stands(u)' /\ ~InHand(u)'
    BY <1>5, <1>10, <2>1, <2>2 DEF Stands, InHand
  <2>4. QED
    BY <1>1, <1>6, <1>7, <1>8, <1>10, <2>3, FitsBeside
<1>11. \A u \in Threads : ~(u # h /\ Alike(h, u)' /\ thread'[h].of = thread'[u].of)
  BY <1>2, <1>3, <1>10 DEF Alike, Makes, Moves
<1>12. KeyFine(k)'
  <2>1. Making(k)' <=> Making(k)
    BY <1>1, <1>2 DEF Making, Moves, Threads
  <2>2. CreatedOnceOf(k)'
    BY <1>4, <1>5, <1>8, <2>1 DEF KeyFine, CreatedOnceOf
  <2>3. EndToldOf(k)'
    BY <1>4, <1>5, <1>8 DEF KeyFine, EndToldOf
  <2>4. QED
    BY <1>4, <1>5, <1>8, <2>2, <2>3 DEF KeyFine, NotYetOf
<1>13. AnswersCounted'
  BY <1>1, <1>4, <1>7, AnswersKept DEF ClaimJob, Ended
<1>14. QED
  BY <1>1, <1>6, <1>7, <1>9, <1>10, <1>11, <1>12, <1>13, StepKeeps

(* A task that throws has counted a failure. *)
LEMMA CaughtStep ==
  ASSUME MetricsInv, NEW h \in Hands, NEW k \in JobKeys, thread[h].of = k,
         InHand(h), NEW n \in Nat, n > 0, Caught(h, n),
         UNCHANGED <<record, swept, outcomes, unheard>>
  PROVE  MetricsInv'
<1>1. /\ h \in Threads /\ "failing" \in Places /\ "quiet" \in Ways
      /\ thread[h].at \notin {"idle", "answered", "projecting", "paid", "telling"}
  BY DEF Threads, Places, SharedPlaces, Ways, InHand, HeldPlaces
<1>2. Moves(h) /\ thread'[h] = [at |-> "failing", of |-> k, as |-> "quiet"]
  BY <1>1, Placed DEF Caught
<1>3. thread'[h].at = "failing" /\ thread'[h].of = k /\ thread'[h].as = "quiet"
  BY <1>2
<1>4. /\ counter' \in [Counters -> [JobKeys -> Nat]]
      /\ \A j \in JobKeys : j # k => KeyKept(j)
      /\ KeyGrown(k)
      /\ counter'["failures"][k] > 0
  BY CountedFailures DEF Caught
<1>5. MetricsType'
  BY <1>2, <1>4 DEF MetricsInv, MetricsType, Moves
<1>6. record[k].state # "none"
  BY <1>1 DEF MetricsInv, Fits, Stands
<1>7. Silent(h) /\ Silent(h)'
  BY <1>1, <1>3 DEF Silent
<1>8. Fits(h)'
  BY <1>3, <1>4, <1>6 DEF Fits, Stands, InHand, Makes, HeldPlaces, AskedPlaces
<1>9. QED
  BY <1>1, <1>4, <1>5, <1>7, <1>8, Onwards DEF Caught, HeldPlaces

(* One that goes on holds its job still. *)
LEMMA HeldStep ==
  ASSUME MetricsInv, NEW h \in Hands, NEW k \in JobKeys, thread[h].of = k,
         InHand(h), NEW at \in HeldPlaces, Place(h, at, "none"),
         UNCHANGED <<record, swept, outcomes, counter, unheard>>
  PROVE  MetricsInv'
<1>1. /\ h \in Threads /\ at \in Places /\ "none" \in Ways
      /\ thread[h].at \notin {"idle", "answered", "projecting", "paid", "telling"}
  BY DEF Threads, Places, Ways, InHand, HeldPlaces
<1>2. Moves(h) /\ thread'[h] = [at |-> at, of |-> k, as |-> "none"]
  BY <1>1, Placed
<1>3. thread'[h].at = at /\ thread'[h].of = k /\ thread'[h].as = "none"
  BY <1>2
<1>4. AllKept /\ KeyGrown(k)
  BY NothingCounted, KeptIsGrown DEF AllKept
<1>5. MetricsType'
  BY <1>2 DEF MetricsInv, MetricsType, Moves
<1>6. record[k].state \in {"running", "failed"}
  BY <1>1 DEF MetricsInv, Fits, Stands
<1>7. Silent(h) /\ Silent(h)'
  BY <1>1, <1>3 DEF Silent, HeldPlaces
<1>8. Fits(h)'
  BY <1>3, <1>6 DEF Fits, Stands, InHand, Makes, HeldPlaces, AskedPlaces
<1>9. QED
  BY <1>1, <1>4, <1>5, <1>7, <1>8, Onwards DEF AllKept, HeldPlaces

LEMMA WorkStep ==
  ASSUME MetricsInv, NEW h \in Hands, NEW k \in JobKeys, thread[h].of = k, Work(h)
  PROVE  MetricsInv'
<1>1. InHand(h) /\ "settling" \in HeldPlaces /\ "requeueing" \in HeldPlaces
  BY DEF Work, InHand, HeldPlaces
<1>2. QED
  BY <1>1, CaughtStep, HeldStep DEF Work

(* A task that rests, when its job is as it was *)
LEMMA RestStep ==
  ASSUME MetricsInv, NEW h \in Hands, NEW k \in JobKeys, thread[h].of = k,
         InHand(h), Rest(h),
         UNCHANGED <<record, swept, outcomes, counter, unheard>>
  PROVE  MetricsInv'
<1>1. h \in Threads /\ h \notin Asked
      /\ thread[h].at \notin {"idle", "answered", "projecting", "paid", "telling"}
  BY ThreadsApart DEF Threads, InHand, HeldPlaces
<1>2. Moves(h) /\ thread'[h] = Resting
  BY <1>1, Rested
<1>3. MetricsType' /\ AllKept /\ KeyGrown(k)
  BY <1>2, NothingCounted, KeptIsGrown DEF MetricsInv, MetricsType, Moves, AllKept
<1>4. About(h, k)
  BY <1>2, <1>3 DEF About, AllKept, KeyKept, Resting
<1>5. Silent(h) /\ Apart(h)'
  BY <1>1, <1>2 DEF Silent, Apart, Resting
<1>6. AnswersCounted'
  BY <1>1, <1>4, AnswersKept DEF Ended
<1>7. QED
  BY <1>1, <1>3, <1>4, <1>5, <1>6, SilentAside

LEMMA RequeueStep ==
  ASSUME MetricsInv, NEW h \in Hands, NEW k \in JobKeys, thread[h].of = k, Requeue(h)
  PROVE  MetricsInv'
<1>1. /\ h \in Threads /\ h \notin Asked /\ InHand(h)
      /\ thread[h].at = "requeueing"
  BY ThreadsApart DEF Threads, Requeue, InHand, HeldPlaces
<1>2. CASE UNCHANGED record
  BY <1>1, <1>2, RestStep DEF Requeue
<1>3. CASE /\ record[k].state = "running"
           /\ record' = [record EXCEPT ![k].state = "queued", ![k].by = Nobody]
  <2>1. Moves(h) /\ thread'[h] = Resting
    BY <1>1, Rested DEF Requeue
  <2>2. /\ record' \in [JobKeys -> RecordType] /\ record'[k].state = "queued"
        /\ \A j \in JobKeys : j # k => record'[j] = record[j]
    <3>1. record[k] \in RecordType
      BY DEF MetricsInv, MetricsType
    <3>2. [record[k] EXCEPT !.state = "queued", !.by = Nobody] \in RecordType
      BY <3>1 DEF RecordType
    <3>3. record' = [record EXCEPT ![k] = [record[k] EXCEPT !.state = "queued", !.by = Nobody]]
      BY <1>3 DEF MetricsInv, MetricsType
    <3>4. QED
      BY <3>1, <3>2, <3>3, Written DEF RecordType
  <2>3. MetricsType'
    BY <2>1, <2>2 DEF Requeue, MetricsInv, MetricsType, Moves
  <2>4. About(h, k)
    BY <2>1, <2>2 DEF Requeue, About, KeyKept, Resting
  <2>5. /\ KeyFine(k) /\ counter["failures"][k] \in Nat
        /\ counter' = counter /\ unheard' = unheard
        /\ counter'["failures"][k] >= counter["failures"][k]
    BY KeysFine DEF Requeue, MetricsInv, MetricsType, Counters
  <2>6. Apart(h)'
    BY <2>1 DEF Apart, Resting
  <2>7. Fits(h)' /\ \A u \in Threads : ~(u # h /\ Alike(h, u)' /\ thread'[h].of = thread'[u].of)
    BY <1>1, <2>6, ApartFits
  <2>8. ASSUME NEW u \in Threads, u # h, thread[u].of = k
        PROVE  Fits(u)'
    <3>1. thread'[u] = thread[u] /\ Stands(u)
      BY <2>1, <2>8 DEF Moves, MetricsInv, Fits
    <3>2. ~InHand(u)
      BY <1>1, <2>8 DEF MetricsInv, Alone, Alike
    <3>3. thread[u].at \notin {"paid", "telling"}
      BY <1>3, <2>8, <3>1 DEF Stands
    <3>4. Stands(u)'
      BY <2>2, <2>8, <3>1, <3>2, <3>3 DEF Stands, InHand
    <3>5. QED
      BY <1>1, <2>3, <2>4, <2>5, <2>8, <3>4, FitsBeside
  <2>9. KeyFine(k)'
    <3>1. Making(k)' <=> Making(k)
      BY <1>1, <2>1 DEF Making, Moves, Threads
    <3>2. CreatedOnceOf(k)'
      BY <1>3, <2>2, <2>5, <3>1 DEF KeyFine, CreatedOnceOf
    <3>3. EndToldOf(k)'
      BY <1>3, <2>2, <2>5 DEF KeyFine, EndToldOf
    <3>4. QED
      BY <1>3, <2>2, <2>5, <3>2, <3>3 DEF KeyFine, NotYetOf
  <2>10. AnswersCounted'
    BY <1>1, <1>3, <2>4, AnswersKept DEF Requeue, Ended
  <2>11. QED
    BY <1>1, <2>3, <2>4, <2>7, <2>8, <2>9, <2>10, StepKeeps
<1>4. QED
  BY <1>2, <1>3 DEF Requeue

LEMMA SettleReadsStep ==
  ASSUME MetricsInv, NEW h \in Hands, NEW k \in JobKeys, thread[h].of = k, SettleReads(h)
  PROVE  MetricsInv'
<1>1. InHand(h) /\ "paying" \in HeldPlaces
  BY DEF SettleReads, InHand, HeldPlaces
<1>2. QED
  BY <1>1, CaughtStep, HeldStep, RestStep DEF SettleReads

LEMMA PaidStep ==
  ASSUME MetricsInv, NEW h \in Hands, NEW k \in JobKeys, thread[h].of = k,
         thread[h].at = "paying", Ongoing(k), Settles(k), Place(h, "paid", "ender"),
         UNCHANGED <<swept, outcomes, counter, unheard>>
  PROVE  MetricsInv'
<1>1. h \in Threads /\ "paid" \in Places /\ "ender" \in Ways /\ InHand(h) /\ h \notin Asked
  BY ThreadsApart DEF Threads, Places, Ways, InHand, HeldPlaces
<1>2. Moves(h) /\ thread'[h] = [at |-> "paid", of |-> k, as |-> "ender"]
  BY <1>1, Placed
<1>3. thread'[h].at = "paid" /\ thread'[h].of = k /\ thread'[h].as = "ender"
  BY <1>2
<1>4. /\ record' \in [JobKeys -> RecordType] /\ record'[k].state = "settled"
      /\ \A j \in JobKeys : j # k => record'[j] = record[j]
  <2>1. record[k] \in RecordType
    BY DEF MetricsInv, MetricsType
  <2>2. [record[k] EXCEPT !.state = "settled", !.by = Nobody] \in RecordType
    BY <2>1 DEF RecordType
  <2>3. record' = [record EXCEPT ![k] = [record[k] EXCEPT !.state = "settled", !.by = Nobody]]
    BY DEF Settles, MetricsInv, MetricsType
  <2>4. QED
    BY <2>1, <2>2, <2>3, Written DEF RecordType
<1>5. MetricsType'
  BY <1>2, <1>4 DEF MetricsInv, MetricsType, Moves
<1>6. About(h, k)
  BY <1>2, <1>3, <1>4 DEF About, KeyKept
<1>7. /\ KeyFine(k) /\ counter["failures"][k] \in Nat
      /\ counter' = counter /\ unheard' = unheard
      /\ counter'["failures"][k] >= counter["failures"][k]
  BY KeysFine DEF MetricsInv, MetricsType, Counters
<1>8. record[k].state # "settled" /\ record[k].state # "none" /\ record[k].state # "failed"
  BY DEF Ongoing
<1>9. <<"settled", k>> \notin unheard /\ counter["settled"][k] = 0
  BY <1>7, <1>8 DEF KeyFine, NotYetOf, EndToldOf
<1>10. Fits(h)'
  BY <1>3, <1>4, <1>7, <1>9 DEF Fits, Stands, InHand, Makes, HeldPlaces, AskedPlaces
<1>11. ASSUME NEW u \in Threads, u # h, thread[u].of = k
       PROVE  Fits(u)' /\ ~Alike(h, u)'
  <2>1. thread'[u] = thread[u] /\ Stands(u)
    BY <1>2, <1>11 DEF Moves, MetricsInv, Fits
  <2>2. ~InHand(u)
    BY <1>1, <1>11 DEF MetricsInv, Alone, Alike
  <2>3. thread[u].at \notin {"paid", "telling"}
    BY <1>8, <1>11, <2>1 DEF Stands
  <2>4. Stands(u)'
    BY <1>4, <1>11, <2>1, <2>2, <2>3 DEF Stands, InHand
  <2>5. Fits(u)'
    BY <1>1, <1>5, <1>6, <1>7, <1>11, <2>4, FitsBeside
  <2>6. ~Alike(h, u)'
    BY <1>3, <2>1, <2>2, <2>3 DEF Alike, InHand, Makes, HeldPlaces
  <2>7. QED
    BY <2>5, <2>6
<1>12. KeyFine(k)'
  <2>1. Making(k)' <=> Making(k)
    BY <1>1, <1>2 DEF Making, Moves, Threads
  <2>2. Telling(k, "paid")'
    BY <1>1, <1>3 DEF Telling
  <2>3. CreatedOnceOf(k)'
    BY <1>4, <1>7, <1>8, <2>1 DEF KeyFine, CreatedOnceOf
  <2>4. EndToldOf(k)'
    BY <1>4, <1>7, <1>9, <2>2 DEF KeyFine, EndToldOf
  <2>5. QED
    BY <1>4, <1>7, <1>9, <2>3, <2>4 DEF KeyFine, NotYetOf
<1>13. AnswersCounted'
  BY <1>1, <1>4, <1>6, AnswersKept DEF Ended
<1>14. \A u \in Threads : ~(u # h /\ Alike(h, u)' /\ thread'[h].of = thread'[u].of)
  BY <1>2, <1>3, <1>11 DEF Moves
<1>15. QED
  BY <1>1, <1>5, <1>6, <1>10, <1>11, <1>12, <1>13, <1>14, StepKeeps

LEMMA SettleEndsStep ==
  ASSUME MetricsInv, NEW h \in Hands, NEW k \in JobKeys, thread[h].of = k, SettleEnds(h)
  PROVE  MetricsInv'
<1>1. InHand(h) /\ thread[h].at = "paying" /\ h \in Threads
  BY DEF SettleEnds, InHand, HeldPlaces, Threads
<1>2. record[k].state # "settled"
  BY <1>1 DEF MetricsInv, Fits, Stands
<1>3. QED
  BY <1>1, <1>2, CaughtStep, PaidStep DEF SettleEnds

LEMMA ToldPaidStep ==
  ASSUME MetricsInv, NEW h \in Hands, NEW k \in JobKeys, thread[h].of = k,
         thread[h].at = "paid", Count("settled", k, 1), Rest(h),
         UNCHANGED <<record, swept, outcomes, unheard>>
  PROVE  MetricsInv'
<1>1. h \in Threads /\ h \notin Asked /\ "settled" \in Counters
  BY ThreadsApart DEF Threads, Counters
<1>2. Moves(h) /\ thread'[h] = Resting
  BY <1>1, Rested
<1>3. /\ counter' \in [Counters -> [JobKeys -> Nat]]
      /\ counter'["settled"][k] = counter["settled"][k] + 1
      /\ \A m \in Counters, j \in JobKeys :
             m # "settled" \/ j # k => counter'[m][j] = counter[m][j]
  BY <1>1, CounterMoves
<1>4. MetricsType'
  BY <1>2, <1>3 DEF MetricsInv, MetricsType, Moves
<1>5. About(h, k)
  BY <1>2, <1>3 DEF About, KeyKept, Resting
<1>6. /\ record[k].state = "settled" /\ <<"settled", k>> \notin unheard
      /\ thread[h].as = "ender"
  BY <1>1 DEF MetricsInv, Fits, Stands
<1>7. KeyFine(k) /\ Telling(k, "paid")
  BY <1>1, <1>6, KeysFine DEF MetricsInv, Telling
<1>8. counter["settled"][k] = 0
  BY <1>7 DEF KeyFine, EndToldOf
<1>9. /\ counter'["settled"][k] = 1
      /\ \A name \in {"created", "accepted", "failures"} :
             counter'[name][k] = counter[name][k]
      /\ counter["failures"][k] \in Nat
  BY <1>3, <1>8 DEF Counters, MetricsInv, MetricsType
<1>10. Apart(h)'
  BY <1>2 DEF Apart, Resting
<1>11. Fits(h)' /\ \A u \in Threads : ~(u # h /\ Alike(h, u)' /\ thread'[h].of = thread'[u].of)
  BY <1>1, <1>10, ApartFits
<1>12. ASSUME NEW u \in Threads, u # h, thread[u].of = k PROVE Fits(u)'
  <2>1. Stands(u)'
    BY <1>1, <1>5, <1>12, StandsStill
  <2>2. counter'["failures"][k] >= counter["failures"][k]
    BY <1>9
  <2>3. QED
    BY <1>1, <1>4, <1>5, <1>9, <1>12, <2>1, <2>2, FitsBeside
<1>13. KeyFine(k)'
  <2>1. Making(k)' <=> Making(k)
    BY <1>1, <1>2 DEF Making, Moves, Threads
  <2>2. ~Telling(k, "paid")'
    <3>1. \A u \in Threads : u # h /\ thread[u].of = k => thread[u].at # "paid"
      BY <1>1 DEF MetricsInv, Alone, Alike
    <3>2. QED
      BY <1>2, <3>1 DEF Telling, Moves, Resting
  <2>3. CreatedOnceOf(k)'
    BY <1>7, <1>9, <2>1 DEF KeyFine, CreatedOnceOf
  <2>4. EndToldOf(k)'
    BY <1>6, <1>9, <2>2 DEF EndToldOf
  <2>5. QED
    BY <1>7, <2>3, <2>4 DEF KeyFine, NotYetOf
<1>14. AnswersCounted'
  BY <1>1, <1>5, AnswersKept DEF Ended
<1>15. QED
  BY <1>1, <1>4, <1>5, <1>11, <1>12, <1>13, <1>14, StepKeeps

LEMMA UntoldPaidStep ==
  ASSUME MetricsInv, NEW h \in Hands, NEW k \in JobKeys, thread[h].of = k,
         thread[h].at = "paid", Caught(h, 1), Unheard("settled", k),
         UNCHANGED <<record, swept, outcomes>>
  PROVE  MetricsInv'
<1>1. /\ h \in Threads /\ h \notin Asked /\ "settled" \in Counters /\ "failures" \in Counters
      /\ "failing" \in Places /\ "quiet" \in Ways
  BY ThreadsApart DEF Threads, Counters, Places, SharedPlaces, Ways
<1>2. Moves(h) /\ thread'[h] = [at |-> "failing", of |-> k, as |-> "quiet"]
  BY <1>1, Placed DEF Caught
<1>3. thread'[h].at = "failing" /\ thread'[h].of = k /\ thread'[h].as = "quiet"
  BY <1>2
<1>4. /\ counter' \in [Counters -> [JobKeys -> Nat]]
      /\ counter["failures"][k] \in Nat
      /\ counter'["failures"][k] = counter["failures"][k] + 1
      /\ \A m \in Counters, j \in JobKeys :
             m # "failures" \/ j # k => counter'[m][j] = counter[m][j]
  BY <1>1, CounterMoves DEF Caught
<1>5. /\ unheard' \subseteq Counters \X JobKeys
      /\ <<"settled", k>> \in unheard'
      /\ \A m \in Counters, j \in JobKeys :
             m # "settled" \/ j # k => (<<m, j>> \in unheard' <=> <<m, j>> \in unheard)
  BY <1>1, Silenced
<1>6. MetricsType'
  BY <1>2, <1>4, <1>5 DEF MetricsInv, MetricsType, Moves
<1>7. About(h, k)
  BY <1>2, <1>3, <1>4, <1>5 DEF About, KeyKept
<1>8. /\ record[k].state = "settled" /\ thread[h].as = "ender"
  BY <1>1 DEF MetricsInv, Fits, Stands
<1>9. KeyFine(k) /\ Telling(k, "paid")
  BY <1>1, <1>8, KeysFine DEF MetricsInv, Telling
<1>10. counter'["failures"][k] > 0 /\ counter'["failures"][k] >= counter["failures"][k]
  BY <1>4
<1>11. /\ \A name \in {"created", "accepted", "settled"} :
              counter'[name][k] = counter[name][k]
       /\ <<"created", k>> \in unheard' <=> <<"created", k>> \in unheard
  BY <1>4, <1>5 DEF Counters
<1>12. Fits(h)'
  BY <1>3, <1>8, <1>10 DEF Fits, Stands, InHand, Makes, HeldPlaces, AskedPlaces
<1>13. \A u \in Threads : ~(u # h /\ Alike(h, u)' /\ thread'[h].of = thread'[u].of)
  BY <1>1, <1>3, <1>7, StillAlone DEF InHand, Makes, HeldPlaces
<1>14. ASSUME NEW u \in Threads, u # h, thread[u].of = k PROVE Fits(u)'
  <2>1. Stands(u)'
    BY <1>1, <1>7, <1>14, StandsStill
  <2>2. thread[u].at # "paid"
    BY <1>1, <1>14 DEF MetricsInv, Alone, Alike
  <2>3. QED
    BY <1>1, <1>6, <1>7, <1>10, <1>11, <1>14, <2>1, <2>2, FitsBeside
<1>15. KeyFine(k)'
  <2>1. Making(k)' <=> Making(k)
    BY <1>1, <1>2 DEF Making, Moves, Threads
  <2>2. CreatedOnceOf(k)'
    BY <1>9, <1>11, <2>1 DEF KeyFine, CreatedOnceOf
  <2>3. EndToldOf(k)'
    BY <1>5, <1>8, <1>9, <1>11 DEF KeyFine, EndToldOf
  <2>4. NotYetOf(k)'
    BY <1>8, <1>9, <1>11 DEF KeyFine, NotYetOf
  <2>5. QED
    BY <2>2, <2>3, <2>4 DEF KeyFine
<1>16. AnswersCounted'
  BY <1>1, <1>7, AnswersKept DEF Ended
<1>17. QED
  BY <1>1, <1>6, <1>7, <1>12, <1>13, <1>14, <1>15, <1>16, StepKeeps

LEMMA SettleTellsStep ==
  ASSUME MetricsInv, NEW h \in Hands, NEW k \in JobKeys, thread[h].of = k, SettleTells(h)
  PROVE  MetricsInv'
<1>1. thread[h].at = "paid" /\ thread[h].as = "ender"
  <2>1. thread[h].at = "paid" /\ Fits(h)
    BY DEF SettleTells, MetricsInv, Threads
  <2>2. QED
    BY <2>1 DEF Fits
<1>2. QED
  BY <1>1, ToldPaidStep, UntoldPaidStep DEF SettleTells

-----------------------------------------------------------------------------
(* A reaper *)
LEMMA ScanStep == ASSUME MetricsInv, NEW s \in Sweepers, Scan(s) PROVE MetricsInv'
<1>1. UNCHANGED <<record, thread, outcomes, counter, unheard>>
  BY DEF Scan
<1>2. MetricsType'
  BY DEF Scan, MetricsInv, MetricsType
<1>3. SweptMade'
  BY DEF Scan, MetricsInv, MetricsType, SweptMade, Ongoing
<1>4. \A t \in Threads : Fits(t)'
  BY <1>1 DEF MetricsInv, Fits, Stands, InHand, Makes
<1>5. (Alone /\ NotYet)'
  BY <1>1 DEF MetricsInv, Alone, NotYet, Alike, InHand, Makes
<1>6. (AnswersCounted /\ CreatedOnce /\ EndsTold)'
  BY <1>1 DEF MetricsInv, AnswersCounted, CreatedOnce, EndsTold, Making, Telling, Ended
<1>7. QED
  BY <1>2, <1>3, <1>4, <1>5, <1>6 DEF MetricsInv

LEMMA SweepStep ==
  ASSUME MetricsInv, NEW s \in Sweepers, NEW k \in JobKeys, Sweep(s, k)
  PROVE  MetricsInv'
<1>1. /\ s \in Threads /\ s \notin Asked /\ thread[s].at = "idle" /\ thread[s].of = Nobody
      /\ thread[s].of \notin JobKeys
  <2>1. s \in Threads /\ s \notin Asked /\ thread[s].at = "idle" /\ Fits(s)
    BY ThreadsApart DEF Sweep, MetricsInv, Threads
  <2>2. QED
    BY <2>1, ThreadsApart DEF Fits
<1>2. /\ swept' \in [Sweepers -> SUBSET JobKeys]
      /\ \A q \in Sweepers : swept'[q] \subseteq swept[q]
  BY DEF Sweep, MetricsInv, MetricsType
<1>3. record[k].state # "none"
  BY DEF Sweep, MetricsInv, SweptMade
<1>4. AllKept /\ KeyGrown(k)
  BY NothingCounted, KeptIsGrown DEF AllKept, Sweep
<1>5. CASE thread' = [thread EXCEPT ![s] = [at |-> "failing", of |-> k, as |-> "none"]]
  <2>1. "failing" \in Places
    BY DEF Places, SharedPlaces
  <2>2. Moves(s) /\ thread'[s] = [at |-> "failing", of |-> k, as |-> "none"]
    BY <1>1, <1>5, <2>1, Began
  <2>3. thread'[s].at = "failing" /\ thread'[s].of = k /\ thread'[s].as = "none"
    BY <2>2
  <2>4. MetricsType'
    BY <1>2, <2>2 DEF Sweep, MetricsInv, MetricsType, Moves
  <2>5. About(s, k)
    BY <1>1, <1>2, <1>4, <2>2, <2>3 DEF Sweep, About, AllKept
  <2>6. Silent(s) /\ Silent(s)'
    BY <1>1, <2>3 DEF Silent
  <2>7. record'[k].state # "none"
    BY <1>3 DEF Sweep
  <2>8. Fits(s)'
    BY <2>3, <2>7 DEF Fits, Stands, InHand, Makes, HeldPlaces, AskedPlaces
  <2>9. \A u \in Threads : ~(u # s /\ Alike(s, u)' /\ thread'[s].of = thread'[u].of)
    BY <2>3 DEF Alike, InHand, Makes, HeldPlaces
  <2>10. AnswersCounted'
    BY <1>1, <2>5, AnswersKept DEF Sweep, Ended
  <2>11. QED
    BY <1>1, <1>4, <2>4, <2>5, <2>6, <2>8, <2>9, <2>10, SilentStep
<1>6. CASE UNCHANGED thread
  <2>1. Moves(s) /\ thread'[s] = thread[s]
    BY <1>6 DEF Moves, MetricsInv, MetricsType
  <2>2. MetricsType'
    BY <1>2, <1>6 DEF Sweep, MetricsInv, MetricsType
  <2>3. About(s, k)
    BY <1>1, <1>2, <1>4, <2>1 DEF Sweep, About, AllKept
  <2>4. Silent(s) /\ Apart(s)'
    BY <1>1, <1>6 DEF Silent, Apart
  <2>5. AnswersCounted'
    BY <1>1, <2>3, AnswersKept DEF Sweep, Ended
  <2>6. QED
    BY <1>1, <1>4, <2>2, <2>3, <2>4, <2>5, SilentAside
<1>7. QED
  BY <1>5, <1>6 DEF Sweep

-----------------------------------------------------------------------------
(* A process dies with all that its threads have not told. *)
Dead(m) == {t \in Threads : MachineOf[t] = m}

LEMMA Survivors ==
  ASSUME MetricsInv, NEW m \in Machines, Crash(m)
  PROVE  /\ thread' \in [Threads -> PlaceType]
         /\ \A t \in Threads :
                \/ thread'[t] = thread[t] /\ (t \in Dead(m) => thread[t].at \in {"idle", "answered"})
                \/ thread'[t] = Resting /\ t \notin Asked
                \/ /\ t \in Asked /\ thread[t].at \notin {"idle", "answered"}
                   /\ thread'[t] = [thread[t] EXCEPT !.at = "lost"]
<1>1. thread \in [Threads -> PlaceType]
  BY DEF MetricsInv, MetricsType
<1>2. Resting \in PlaceType
  BY DEF Resting, PlaceType, Places, SharedPlaces, Ways
<1>3. \A t \in Threads : [thread[t] EXCEPT !.at = "lost"] \in PlaceType
  BY <1>1 DEF PlaceType, Places, AskedPlaces
<1>4. QED
  BY <1>1, <1>2, <1>3 DEF Crash, Dead

LEMMA Fallen ==
  ASSUME MetricsInv, NEW m \in Machines, Crash(m), NEW t \in Threads
  PROVE  /\ thread'[t] = thread[t] \/ thread'[t].at \in {"idle", "lost"}
         /\ thread'[t] = thread[t] \/ t \in Dead(m)
<1>1. \/ thread'[t] = thread[t]
      \/ thread'[t] = Resting
      \/ thread'[t] = [thread[t] EXCEPT !.at = "lost"]
  BY Survivors
<1>2. thread[t] \in PlaceType
  BY DEF MetricsInv, MetricsType
<1>3. [thread[t] EXCEPT !.at = "lost"].at = "lost" /\ Resting.at = "idle"
  BY <1>2 DEF PlaceType, Resting
<1>4. thread'[t] = thread[t] \/ t \in Dead(m)
  BY DEF Crash, Dead
<1>5. QED
  BY <1>1, <1>3, <1>4

LEMMA OwesWhat ==
  ASSUME MetricsInv, NEW t \in Threads, NEW name, NEW k, <<name, k>> \in Owes(t)
  PROVE  /\ k = thread[t].of /\ k \in JobKeys
         /\ thread[t].at \notin {"idle", "answered"}
         /\ \/ name = "created" /\ thread[t].at = "projecting"
            \/ name = "settled" /\ thread[t].at = "paid"
            \/ name = "failures" /\ thread[t].at = "telling" /\ thread[t].as = "ender"
<1>1. Fits(t)
  BY DEF MetricsInv
<1>2. QED
  BY <1>1 DEF Owes, Fits

LEMMA CrashFits ==
  ASSUME MetricsInv, NEW m \in Machines, Crash(m), NEW t \in Threads
  PROVE  Fits(t)'
<1>1. \/ thread'[t] = thread[t] /\ (t \in Dead(m) => thread[t].at \in {"idle", "answered"})
      \/ thread'[t] = Resting /\ t \notin Asked
      \/ /\ t \in Asked /\ thread[t].at \notin {"idle", "answered"}
         /\ thread'[t] = [thread[t] EXCEPT !.at = "lost"]
  BY Survivors
<1>2. Fits(t) /\ thread[t] \in PlaceType
  BY DEF MetricsInv, MetricsType
<1>3. UNCHANGED <<record, counter>>
      /\ unheard' = unheard \cup UNION {Owes(u) : u \in Dead(m)}
  BY DEF Crash, Dead
<1>4. CASE thread'[t] = thread[t] /\ (t \in Dead(m) => thread[t].at \in {"idle", "answered"})
  <2>1. ASSUME NEW u \in Dead(m), NEW name, <<name, thread[t].of>> \in Owes(u),
               \/ name = "created" /\ thread[t].at = "projecting"
               \/ name = "settled" /\ thread[t].at = "paid"
        PROVE  FALSE
    <3>1. u \in Threads
      BY DEF Dead
    <3>2. thread[u].of = thread[t].of /\ thread[u].at = thread[t].at
      BY <2>1, <3>1, OwesWhat
    <3>3. Alike(u, t)
      BY <2>1, <3>2 DEF Alike, Makes
    <3>4. u = t
      BY <3>1, <3>2, <3>3 DEF MetricsInv, Alone
    <3>5. QED
      BY <1>4, <2>1, <3>4
  <2>2. /\ thread[t].at = "paid" => <<"settled", thread[t].of>> \notin unheard'
        /\ thread[t].at = "projecting" => <<"created", thread[t].of>> \notin unheard'
    BY <1>2, <1>3, <2>1 DEF Fits
  <2>3. Stands(t)' /\ (Makes(t)' <=> Makes(t))
    BY <1>2, <1>3, <1>4 DEF Fits, Stands, InHand, Makes
  <2>4. QED
    BY <1>2, <1>3, <1>4, <2>2, <2>3 DEF Fits
<1>5. CASE thread'[t] = Resting
  <2>1. Apart(t)'
    BY <1>5 DEF Apart, Resting
  <2>2. QED
    BY <2>1, ApartFits
<1>6. CASE t \in Asked /\ thread[t].at # "idle" /\ thread'[t] = [thread[t] EXCEPT !.at = "lost"]
  <2>1. thread'[t].at = "lost" /\ thread'[t].of \in JobKeys
    BY <1>2, <1>6 DEF PlaceType, Fits
  <2>2. QED
    BY <1>6, <2>1 DEF Fits, Stands, InHand, Makes, AskedPlaces, HeldPlaces
<1>7. QED
  BY <1>1, <1>4, <1>5, <1>6

LEMMA CrashKeys ==
  ASSUME MetricsInv, NEW m \in Machines, Crash(m), NEW k \in JobKeys
  PROVE  KeyFine(k)'
<1>1. UNCHANGED <<record, counter>>
      /\ unheard' = unheard \cup UNION {Owes(u) : u \in Dead(m)}
  BY DEF Crash, Dead
<1>2. KeyFine(k)
  BY KeysFine DEF MetricsInv
<1>3. \A t \in Threads :
         /\ thread'[t] = thread[t] \/ thread'[t].at \in {"idle", "lost"}
         /\ thread'[t] = thread[t] \/ t \in Dead(m)
  BY Fallen
<1>4. \A t \in Dead(m) : t \in Threads
  BY DEF Dead
<1>5. \A t \in Threads : Fits(t)
  BY DEF MetricsInv
<1>6. /\ Making(k)' => Making(k)
      /\ Making(k) => Making(k)' \/ <<"created", k>> \in unheard'
  <2>1. Making(k)' => Making(k)
    BY <1>3 DEF Making, Threads
  <2>2. ASSUME NEW r \in Asked, thread[r].at = "projecting", thread[r].of = k
        PROVE  Making(k)' \/ <<"created", k>> \in unheard'
    <3>1. CASE thread'[r] = thread[r]
      BY <2>2, <3>1 DEF Making
    <3>2. CASE r \in Dead(m)
      BY <1>1, <2>2, <3>2 DEF Owes
    <3>3. QED
      BY <1>3, <3>1, <3>2 DEF Threads
  <2>3. QED
    BY <2>1, <2>2 DEF Making
<1>7. <<"created", k>> \in unheard' => Making(k) \/ <<"created", k>> \in unheard
  <2>1. ASSUME NEW u \in Dead(m), <<"created", k>> \in Owes(u) PROVE Making(k)
    <3>1. thread[u].at = "projecting" /\ thread[u].of = k
      BY <1>4, <2>1, OwesWhat
    <3>2. u \in Asked
      BY <1>4, <1>5, <3>1 DEF Fits, AskedPlaces
    <3>3. QED
      BY <3>1, <3>2 DEF Making
  <2>2. QED
    BY <1>1, <2>1
<1>8. /\ Telling(k, "paid")' => Telling(k, "paid")
      /\ Telling(k, "paid") => Telling(k, "paid")' \/ <<"settled", k>> \in unheard'
  <2>1. Telling(k, "paid")' => Telling(k, "paid")
    BY <1>3 DEF Telling
  <2>2. ASSUME NEW t \in Threads, thread[t].at = "paid", thread[t].of = k, thread[t].as = "ender"
        PROVE  Telling(k, "paid")' \/ <<"settled", k>> \in unheard'
    <3>1. CASE thread'[t] = thread[t]
      BY <2>2, <3>1 DEF Telling
    <3>2. CASE t \in Dead(m)
      BY <1>1, <2>2, <3>2 DEF Owes
    <3>3. QED
      BY <1>3, <3>1, <3>2
  <2>3. QED
    BY <2>1, <2>2 DEF Telling
<1>9. <<"settled", k>> \in unheard' => Telling(k, "paid") \/ <<"settled", k>> \in unheard
  <2>1. ASSUME NEW u \in Dead(m), <<"settled", k>> \in Owes(u) PROVE Telling(k, "paid")
    <3>1. thread[u].at = "paid" /\ thread[u].of = k /\ u \in Threads
      BY <1>4, <2>1, OwesWhat
    <3>2. thread[u].as = "ender"
      BY <1>5, <3>1 DEF Fits
    <3>3. QED
      BY <3>1, <3>2 DEF Telling
  <2>2. QED
    BY <1>1, <2>1
<1>10. Telling(k, "telling") => Telling(k, "telling")' \/ <<"failures", k>> \in unheard'
  <2>1. ASSUME NEW t \in Threads, thread[t].at = "telling", thread[t].of = k, thread[t].as = "ender"
        PROVE  Telling(k, "telling")' \/ <<"failures", k>> \in unheard'
    <3>1. CASE thread'[t] = thread[t]
      BY <2>1, <3>1 DEF Telling
    <3>2. CASE t \in Dead(m)
      BY <1>1, <2>1, <3>2 DEF Owes
    <3>3. QED
      BY <1>3, <3>1, <3>2
  <2>2. QED
    BY <2>1 DEF Telling
<1>11. (Making(k) => record[k].state # "none") /\ (Telling(k, "paid") => record[k].state = "settled")
  BY <1>5 DEF Making, Telling, Fits, Stands, Makes, Threads
<1>12. unheard \subseteq unheard'
  BY <1>1
<1>13. CreatedOnceOf(k)'
  BY <1>1, <1>2, <1>6, <1>7, <1>12 DEF KeyFine, CreatedOnceOf
<1>14. EndToldOf(k)'
  BY <1>1, <1>2, <1>8, <1>9, <1>10, <1>12 DEF KeyFine, EndToldOf
<1>15. NotYetOf(k)'
  BY <1>1, <1>2, <1>7, <1>9, <1>11 DEF KeyFine, NotYetOf
<1>16. QED
  BY <1>13, <1>14, <1>15 DEF KeyFine

LEMMA CrashStep == ASSUME MetricsInv, NEW m \in Machines, Crash(m) PROVE MetricsInv'
<1>1. UNCHANGED <<record, outcomes, counter>> /\ thread' \in [Threads -> PlaceType]
  BY Survivors DEF Crash
<1>2. unheard' \subseteq Counters \X JobKeys
  <2>1. \A t \in Threads : Owes(t) \subseteq Counters \X JobKeys
    <3>1. SUFFICES ASSUME NEW t \in Threads PROVE Owes(t) \subseteq Counters \X JobKeys
      OBVIOUS
    <3>2. Fits(t)
      BY DEF MetricsInv
    <3>3. QED
      BY <3>2 DEF Owes, Fits, Counters
  <2>2. QED
    BY <2>1 DEF Crash, MetricsInv, MetricsType
<1>3. MetricsType'
  BY <1>1, <1>2 DEF Crash, MetricsInv, MetricsType
<1>4. SweptMade'
  BY <1>1 DEF Crash, MetricsInv, SweptMade
<1>5. Alone'
  <2>1. \A t \in Threads : thread'[t] = thread[t] \/ thread'[t].at \in {"idle", "lost"}
    BY Fallen
  <2>2. ASSUME NEW t \in Threads, NEW u \in Threads, Alike(t, u)', thread'[t].of = thread'[u].of
        PROVE  t = u
    <3>1. thread'[t] = thread[t] /\ thread'[u] = thread[u]
      BY <2>1, <2>2 DEF Alike, InHand, Makes, HeldPlaces
    <3>2. Alike(t, u)
      BY <2>2, <3>1 DEF Alike, InHand, Makes
    <3>3. QED
      BY <2>2, <3>1, <3>2 DEF MetricsInv, Alone
  <2>3. QED
    BY <2>2 DEF Alone
<1>6. AnswersCounted'
  <2>1. SUFFICES ASSUME NEW r \in Asked
                 PROVE  /\ thread'[r].at # "answered" => outcomes'[r] = 0
                        /\ thread'[r].at = "answered" =>
                               outcomes'[r] = 1 \/ (outcomes'[r] = 0 /\ Ended(thread[r].of)')
    BY DEF AnswersCounted
  <2>2. r \in Threads /\ thread[r] \in PlaceType
    BY DEF Threads, MetricsInv, MetricsType
  <2>3. \/ thread'[r] = thread[r]
        \/ thread'[r].at = "lost" /\ thread[r].at # "answered"
    BY <2>2, Survivors DEF PlaceType
  <2>4. QED
    BY <1>1, <2>3 DEF MetricsInv, AnswersCounted, Ended
<1>7. (NotYet /\ CreatedOnce /\ EndsTold)'
  BY CrashKeys, KeysFine
<1>8. QED
  BY <1>3, <1>4, <1>5, <1>6, <1>7, CrashFits DEF MetricsInv

-----------------------------------------------------------------------------
LEMMA MetricsStart == ASSUME MetricsInit PROVE MetricsInv
<1>1. MetricsType
  BY DEF MetricsInit, MetricsType, Unmade, Resting, RecordType, PlaceType, Places,
         SharedPlaces, Ways
<1>2. SweptMade
  BY DEF MetricsInit, SweptMade
<1>3. \A t \in Threads : thread[t].at = "idle" /\ thread[t].of = Nobody
  BY DEF MetricsInit, Resting
<1>4. \A t \in Threads : Fits(t)
  BY <1>3 DEF Fits, Stands, InHand, Makes, AskedPlaces, HeldPlaces
<1>5. Alone
  BY <1>3 DEF Alone, Alike, InHand, Makes, HeldPlaces
<1>6. AnswersCounted
  BY <1>3 DEF MetricsInit, AnswersCounted, Threads
<1>7. NotYet /\ CreatedOnce /\ EndsTold
  BY DEF MetricsInit, Unmade, NotYet, CreatedOnce, EndsTold, Counters
<1>8. QED
  BY <1>1, <1>2, <1>4, <1>5, <1>6, <1>7 DEF MetricsInv

LEMMA HandStep ==
  ASSUME MetricsInv, NEW h \in Hands,
         Work(h) \/ Requeue(h) \/ SettleReads(h) \/ SettleEnds(h) \/ SettleTells(h)
  PROVE  MetricsInv'
<1>1. h \in Threads /\ thread[h].at # "idle"
  BY DEF Threads, Work, Requeue, SettleReads, SettleEnds, SettleTells
<1>2. thread[h].of \in JobKeys
  BY <1>1 DEF MetricsInv, Fits
<1>3. QED
  BY <1>2, WorkStep, RequeueStep, SettleReadsStep, SettleEndsStep, SettleTellsStep

LEMMA FailureStep ==
  ASSUME MetricsInv, NEW t \in Threads, FailReads(t) \/ FailEnds(t) \/ FailTells(t)
  PROVE  MetricsInv'
<1>1. thread[t].at # "idle"
  BY DEF FailReads, FailEnds, FailTells
<1>2. thread[t].of \in JobKeys
  BY <1>1 DEF MetricsInv, Fits
<1>3. QED
  BY <1>2, FailReadsStep, FailEndsStep, FailTellsStep

LEMMA MetricsStep == ASSUME MetricsInv, [MetricsNext]_metricsVars PROVE MetricsInv'
<1>1. CASE MetricsNext
  BY <1>1, AskStep, TurnAwayStep, PrepareStep, ProjectStep, ReplyStep, FailureStep, ClaimStep,
     HandStep, ScanStep, SweepStep, CrashStep DEF MetricsNext
<1>2. CASE UNCHANGED metricsVars
  <2>1. UNCHANGED <<record, thread, swept, outcomes, counter, unheard>>
    BY <1>2 DEF metricsVars
  <2>2. MetricsType' /\ SweptMade'
    BY <2>1 DEF MetricsInv, MetricsType, SweptMade
  <2>3. \A t \in Threads : Fits(t)'
    BY <2>1 DEF MetricsInv, Fits, Stands, InHand, Makes
  <2>4. (Alone /\ NotYet)'
    BY <2>1 DEF MetricsInv, Alone, NotYet, Alike, InHand, Makes
  <2>5. (AnswersCounted /\ CreatedOnce /\ EndsTold)'
    BY <2>1 DEF MetricsInv, AnswersCounted, CreatedOnce, EndsTold, Making, Telling, Ended
  <2>6. QED
    BY <2>2, <2>3, <2>4, <2>5 DEF MetricsInv
<1>3. QED
  BY <1>1, <1>2

(* What is counted of requests and jobs is what was recorded of them, but for what
   those who recorded it could not tell: one outcome of each request that was
   answered, one creation and at most one acceptance of each job, one settlement of
   each job that is settled, and some failure of each that has failed. *)
THEOREM CountersTell == MetricsSpec => []CountersAgree
<1>1. MetricsInit => MetricsInv
  BY MetricsStart
<1>2. MetricsInv /\ [MetricsNext]_metricsVars => MetricsInv'
  BY MetricsStep
<1>3. MetricsInv => CountersAgree
  BY DEF MetricsInv, CountersAgree
<1>4. QED
  BY <1>1, <1>2, <1>3, PTL DEF MetricsSpec

-----------------------------------------------------------------------------
(* The dashboard of ControlRoom. *)

Measures == {"depth", "age", "retries", "backlog"}

SupplyPairs == ({"cooling", "clear"} \X Suppliers) \cup ({"leased", "free"} \X Slots)

FoundType ==
    [depth : Nat, age : Nat, retries : Nat, backlog : Nat, queued : Nat,
     rendering : SUBSET Slots, cooling : SUBSET Suppliers, failing : SUBSET Suppliers, leased : SUBSET Suppliers,
     bands : {"absent", "rangeless", "ranged"}]

Replies == {"none", "data", "disabled", "unauthenticated", "forbidden", "failed"}

LoadType ==
    [at : {"idle", "sent", "reading", "answered", "shown"},
     by : {"nobody", "stranger", "founder"},
     now : Nat, till : Nat, unread : SUBSET Parts, found : FoundType, reply : Replies,
     seen : SUBSET (Measures \X Nat), supplied : SUBSET SupplyPairs]

Verdicts == {"healthy", "warning", "bad"}

Banners == Replies \cup Verdicts \cup {"loading"}

SupplierType == [until : Nat, failing : BOOLEAN, filled : Nat]

RoomType ==
    /\ clock \in 0..MaxClock
    /\ work \in [Tasks -> [state : {"none", "queued", "running", "retry"}, since : Nat]]
    /\ renders \in [Slots -> Nat]
    /\ supply \in [Suppliers -> [until : Nat, failing : BOOLEAN, filled : Nat]]
    /\ bands \in {"absent", "rangeless", "ranged"}
    /\ viewer \in {"nobody", "stranger", "founder"}
    /\ load \in [Loads -> LoadType]
    /\ page \in [banner : Banners, hidden : BOOLEAN, of : Loads \cup {Unshown}]

(* What a load that is put together has read was so since it began, and what it
   would read was so, too. *)
SoFar(l, f, unread) ==
    /\ "queue" \notin unread =>
           /\ <<"depth", f.depth>> \in load[l].seen
           /\ \E retries \in 0..f.retries :
                  /\ <<"retries", retries>> \in load[l].seen
                  /\ retries < f.retries => clock > load[l].now /\ f.retries <= f.depth
           /\ \E age \in 0..MaxClock :
                  /\ <<"age", age>> \in load[l].seen
                  /\ f.age <= age /\ age <= f.age + (clock - load[l].now)
    /\ "backlog" \notin unread => <<"backlog", f.backlog>> \in load[l].seen
    /\ "renders" \notin unread =>
           \A s \in Slots :
               <<IF s \in f.rendering THEN "leased" ELSE "free", s>> \in load[l].supplied
    /\ "suppliers" \notin unread =>
           \A s \in Suppliers :
               <<IF s \in f.cooling THEN "cooling" ELSE "clear", s>> \in load[l].supplied

ReadSoFar(l) == SoFar(l, load[l].found, load[l].unread)

Watching(l) ==
    /\ load[l].by = "founder" /\ load[l].now <= clock
    /\ Facts \subseteq load[l].seen
    /\ SupplyFacts \subseteq load[l].supplied
    /\ \A s \in Suppliers : Cooling(s, load[l].now) => <<"cooling", s>> \in load[l].supplied
    /\ \A s \in Slots : Leased(s, load[l].now) => <<"leased", s>> \in load[l].supplied
    /\ ReadSoFar(l)

LoadStands(l) ==
    /\ load[l].at \in {"idle", "sent"} => load[l].unread = Parts
    /\ load[l].at = "reading" => Watching(l)
    /\ load[l].reply = "data" => load[l].at \in {"answered", "shown"} /\ load[l].by = "founder"
    /\ load[l].at = "answered" /\ load[l].reply = "data" => Founded(l)
    /\ load[l].found.queued <= load[l].found.backlog

PageStands ==
    /\ ~page.hidden =>
           /\ page.of \in Loads
           /\ load[page.of].at = "shown" /\ load[page.of].reply = "data"
           /\ load[page.of].by = "founder"
    /\ page.banner \in {"healthy", "warning", "bad"} =>
           ~page.hidden /\ page.banner = Verdict(load[page.of].found)

(* The jobs in line were queued in the past. *)
QueuedBefore == \A t \in Tasks : work[t].since <= clock

RoomInv == RoomType /\ QueuedBefore /\ (\A l \in Loads : LoadStands(l)) /\ PageStands

-----------------------------------------------------------------------------
LEMMA AgeMoves ==
    ASSUME work \in [Tasks -> [state : {"none", "queued", "running", "retry"}, since : Nat]],
           NEW now \in Nat, NEW later \in Nat, now <= later
    PROVE  /\ AgeBy(now) \in Nat /\ AgeBy(later) \in Nat
           /\ AgeBy(now) <= AgeBy(later)
           /\ AgeBy(later) <= AgeBy(now) + (later - now)
           /\ AgeBy(later) <= later
<1> DEFINE Since == {work[t].since : t \in InLine}
<1> DEFINE first == Min(Since)
<1>1. CASE InLine = {}
  BY <1>1 DEF AgeBy
<1>2. CASE InLine # {}
  <2>1. Since \subseteq Nat /\ Since # {}
    BY <1>2 DEF InLine
  <2>2. \E n \in Since : \A m \in Since : n <= m
    BY <2>1, LeastOf
  <2>3. first \in Since
    BY <2>2 DEF Min
  <2>4. first \in Nat
    BY <2>1, <2>3
  <2>5. /\ AgeBy(now) = IF first < now THEN now - first ELSE 0
        /\ AgeBy(later) = IF first < later THEN later - first ELSE 0
    BY <1>2 DEF AgeBy
  <2> HIDE DEF first
  <2>6. QED
    BY <2>4, <2>5
<1>3. QED
  BY <1>1, <1>2

LEMMA FactsTyped ==
    ASSUME clock \in 0..MaxClock, renders \in [Slots -> Nat],
           work \in [Tasks -> [state : {"none", "queued", "running", "retry"}, since : Nat]]
    PROVE  /\ Facts \in SUBSET (Measures \X Nat)
           /\ SupplyFacts \in SUBSET SupplyPairs
           /\ Cardinality(InLine) \in Nat /\ Cardinality(Retrying) \in Nat /\ Counted \in Nat
<1>1. IsFiniteSet(InLine) /\ IsFiniteSet(Retrying) /\ IsFiniteSet(Active)
  BY FS_Subset, RoomAssumption DEF InLine, Retrying, Active
<1>2. /\ Cardinality(InLine) \in Nat /\ Cardinality(Retrying) \in Nat
      /\ Cardinality(Active) \in Nat
  BY <1>1, FS_CardinalityType
<1>3. Counted \in Nat
  BY <1>2, RoomAssumption DEF Counted, Lesser
<1>4. clock \in Nat
  BY RoomAssumption
<1>5. AgeBy(clock) \in Nat
  BY <1>4, AgeMoves
<1>6. Facts \in SUBSET (Measures \X Nat)
  BY <1>2, <1>3, <1>4, <1>5 DEF Facts, Measures
<1>7. SupplyFacts \in SUBSET SupplyPairs
  BY DEF SupplyFacts, SupplyPairs
<1>8. QED
  BY <1>2, <1>3, <1>6, <1>7

(* A verdict with the issues it was drawn from: one is bad, one is a warning. *)
Drawn(health, bad, warning) ==
    /\ health.verdict = IF bad THEN "bad" ELSE IF warning THEN "warning" ELSE "healthy"
    /\ health.first = "none" <=> health.verdict = "healthy"

LEMMA CheckDraws ==
    ASSUME NEW health, NEW issue, issue # "none", NEW level, NEW bad \in BOOLEAN,
           NEW warning \in BOOLEAN, Drawn(health, bad, warning)
    PROVE  Drawn(Check(health, issue, level), bad \/ level = "bad",
                 warning \/ level = "warning")
<1>1. \A v : /\ Raise(health, issue, v).verdict = v
             /\ Raise(health, issue, v).first # "none"
  BY DEF Raise
<1>2. CASE level = "bad"
  BY <1>1, <1>2 DEF Check, Drawn
<1>3. CASE level = "warning" /\ health.verdict # "bad"
  BY <1>1, <1>3 DEF Check, Drawn
<1>4. CASE level # "bad" /\ ~(level = "warning" /\ health.verdict # "bad")
  BY <1>4 DEF Check, Drawn
<1>5. QED
  BY <1>2, <1>3, <1>4

Ranged == {"depth", "age", "retries"}

IsBad(f) == Overloaded(f) \/ \E m \in Ranged : Status(m, f) = "bad"

Drifts(f) == \E m \in Ranged : Status(m, f) = "warning"

Stalled(f) == Full(f) /\ f.backlog > 0

Warns(f) == f.bands = "absent" \/ f.cooling # {} \/ Stalled(f) \/ Drifts(f)

LEMMA HealthDraws ==
    ASSUME NEW f
    PROVE  Drawn(Health(f), IsBad(f), Warns(f))
<1> DEFINE start == [verdict |-> "healthy", first |-> "none"]
<1> DEFINE known == Check(start, "thresholds", IF f.bands = "absent" THEN "warning" ELSE "healthy")
<1> DEFINE backlog == Check(known, "overloaded", IF Overloaded(f) THEN "bad" ELSE "healthy")
<1> DEFINE depth == Check(backlog, "depth", Status("depth", f))
<1> DEFINE age == Check(depth, "age", Status("age", f))
<1> DEFINE retries == Check(age, "retries", Status("retries", f))
<1> DEFINE cooled == IF f.cooling = {} THEN retries
                     ELSE Raise(retries, "cooling",
                                IF retries.verdict = "healthy" THEN "warning" ELSE retries.verdict)
<1>1. Drawn(start, FALSE, FALSE)
  BY DEF Drawn
<1>2. Drawn(known, FALSE, f.bands = "absent")
  <2>1. Drawn(known, FALSE \/ (IF f.bands = "absent" THEN "warning" ELSE "healthy") = "bad",
              FALSE \/ (IF f.bands = "absent" THEN "warning" ELSE "healthy") = "warning")
    BY <1>1, CheckDraws
  <2> HIDE DEF known
  <2>2. QED
    BY <2>1 DEF Drawn
<1> DEFINE b0 == Overloaded(f)
<1> DEFINE w0 == f.bands = "absent"
<1>3. Drawn(backlog, b0, w0)
  <2> HIDE DEF known
  <2>1. (f.bands = "absent") \in BOOLEAN
    OBVIOUS
  <2>2. Drawn(backlog, FALSE \/ (IF Overloaded(f) THEN "bad" ELSE "healthy") = "bad",
              f.bands = "absent" \/ (IF Overloaded(f) THEN "bad" ELSE "healthy") = "warning")
    BY <1>2, <2>1, CheckDraws
  <2> HIDE DEF backlog
  <2>3. QED
    BY <2>2 DEF Drawn
<1> DEFINE b1 == Overloaded(f) \/ Status("depth", f) = "bad"
<1> DEFINE w1 == f.bands = "absent" \/ Status("depth", f) = "warning"
<1> DEFINE b2 == b1 \/ Status("age", f) = "bad"
<1> DEFINE w2 == w1 \/ Status("age", f) = "warning"
<1> HIDE DEF known
<1>4. Drawn(depth, b1, w1)
  <2> HIDE DEF backlog
  <2>1. b0 \in BOOLEAN /\ w0 \in BOOLEAN
    BY DEF Overloaded
  <2>2. b1 <=> b0 \/ Status("depth", f) = "bad"
    OBVIOUS
  <2>3. w1 <=> w0 \/ Status("depth", f) = "warning"
    OBVIOUS
  <2> HIDE DEF b0, w0, b1, w1
  <2>4. Drawn(depth, b0 \/ Status("depth", f) = "bad", w0 \/ Status("depth", f) = "warning")
    BY <1>3, <2>1, CheckDraws
  <2> HIDE DEF depth
  <2>5. QED
    BY <2>2, <2>3, <2>4 DEF Drawn
<1> HIDE DEF backlog
<1>5. Drawn(age, b2, w2)
  <2>1. b1 \in BOOLEAN /\ w1 \in BOOLEAN
    OBVIOUS
  <2> HIDE DEF depth, b1, w1
  <2>2. QED
    BY <1>4, <2>1, CheckDraws
<1> HIDE DEF depth
<1>6. Drawn(retries, b2 \/ Status("retries", f) = "bad", w2 \/ Status("retries", f) = "warning")
  <2>1. b2 \in BOOLEAN /\ w2 \in BOOLEAN
    OBVIOUS
  <2> HIDE DEF age, b2, w2
  <2>2. QED
    BY <1>5, <2>1, CheckDraws
<1> HIDE DEF age
<1>7. Drawn(retries, IsBad(f), f.bands = "absent" \/ Drifts(f))
  <2>1. b2 \/ Status("retries", f) = "bad" <=> IsBad(f)
    BY DEF IsBad, Ranged
  <2>2. w2 \/ Status("retries", f) = "warning" <=> f.bands = "absent" \/ Drifts(f)
    BY DEF Drifts, Ranged
  <2> HIDE DEF retries, b2, w2
  <2>3. QED
    BY <1>6, <2>1, <2>2 DEF Drawn
<1> HIDE DEF retries
<1>8. Drawn(cooled, IsBad(f), f.bands = "absent" \/ Drifts(f) \/ f.cooling # {})
  BY <1>7 DEF Drawn, Raise
<1>9. Health(f) = IF cooled.verdict = "healthy" /\ Stalled(f)
                  THEN Raise(cooled, "renders", "warning") ELSE cooled
  BY DEF Health, known, backlog, depth, age, retries, Stalled
<1> HIDE DEF cooled
<1>10. QED
  BY <1>8, <1>9 DEF Drawn, Raise, Warns

(* Whatever was found, the parts of the page say the same of it. *)
LEMMA PartsConsistent ==
    ASSUME NEW f, f \in FoundType, f.queued <= f.backlog
    PROVE  Consistent(f)
<1>1. Drawn(Health(f), IsBad(f), Warns(f))
  BY HealthDraws
<1>2. \A m \in Ranged : Status(m, f) \in {"unknown", "bad", "warning", "healthy"}
  BY DEF Status, Ranged
<1>3. /\ DOMAIN Cards(f) = Ranged \cup {"backlog", "renders", "cooling"}
      /\ \A m \in Ranged : Cards(f)[m] = Status(m, f)
      /\ Cards(f)["backlog"] = IF Overloaded(f) THEN "bad" ELSE "healthy"
      /\ Cards(f)["renders"] = IF Stalled(f) THEN "warning" ELSE "healthy"
      /\ Cards(f)["cooling"] = IF f.cooling # {} THEN "warning" ELSE "healthy"
  BY DEF Cards, Ranged, Stalled
<1>4. IsBad(f) <=> \E c \in DOMAIN Cards(f) : Cards(f)[c] = "bad"
  BY <1>3 DEF IsBad
<1>5. IsBad(f) \/ Warns(f) <=>
          \/ f.bands = "absent"
          \/ \E c \in DOMAIN Cards(f) : Cards(f)[c] \notin {"healthy", "unknown"}
  <2>1. ASSUME IsBad(f) \/ Warns(f), f.bands # "absent"
        PROVE  \E c \in DOMAIN Cards(f) : Cards(f)[c] \notin {"healthy", "unknown"}
    <3>1. CASE IsBad(f)
      BY <1>4, <3>1
    <3>2. CASE f.cooling # {}
      BY <1>3, <3>2
    <3>3. CASE Stalled(f)
      BY <1>3, <3>3
    <3>4. CASE Drifts(f)
      BY <1>3, <3>4 DEF Drifts
    <3>5. QED
      BY <2>1, <3>1, <3>2, <3>3, <3>4 DEF Warns
  <2>2. ASSUME NEW c \in DOMAIN Cards(f), Cards(f)[c] \notin {"healthy", "unknown"}
        PROVE  IsBad(f) \/ Warns(f)
    <3>1. CASE c \in Ranged
      <4>1. Status(c, f) \in {"bad", "warning"}
        BY <1>2, <1>3, <2>2, <3>1
      <4>2. QED
        BY <3>1, <4>1 DEF IsBad, Warns, Drifts
    <3>2. CASE c = "backlog"
      BY <1>3, <2>2, <3>2 DEF IsBad
    <3>3. CASE c = "renders"
      BY <1>3, <2>2, <3>3 DEF Warns
    <3>4. CASE c = "cooling"
      BY <1>3, <2>2, <3>4 DEF Warns
    <3>5. QED
      BY <1>3, <2>2, <3>1, <3>2, <3>3, <3>4
  <2>3. QED
    BY <2>1, <2>2 DEF Warns
<1>6. Verdict(f) = IF IsBad(f) THEN "bad" ELSE IF Warns(f) THEN "warning" ELSE "healthy"
  BY <1>1 DEF Drawn, Verdict
<1>7. Health(f).first = "none" <=> Verdict(f) = "healthy"
  BY <1>1 DEF Drawn, Verdict
<1>8. f.bands = "absent" \/ f.cooling # {} \/ Stalled(f) => Verdict(f) # "healthy"
  BY <1>6 DEF Warns
<1>9. Headline(f) = "healthy" <=> Verdict(f) = "healthy"
  BY <1>6, <1>8 DEF Headline
<1>10. Drain(f) = "waits for renders" \/ f.cooling # {} => Verdict(f) # "healthy"
  BY <1>8 DEF Drain, Stalled
<1>11. SupplyHeadline(f) = "none" <=> Strained(f) = {}
  BY DEF SupplyHeadline, Strained
<1>12. FlowCards(f).backlog = "bad" <=> Cards(f).backlog = "bad"
  BY <1>3 DEF FlowCards
<1>13. FlowCards(f).backlog = "healthy" => FlowCards(f).queued = "healthy"
  <2>1. f.queued \in Nat /\ f.backlog \in Nat
    BY DEF FoundType
  <2>2. ~(f.backlog > 0) => ~(f.queued > 0)
    BY <2>1
  <2>3. QED
    BY <2>2 DEF FlowCards
<1>14. Verdict(f) = "bad" <=> \E c \in DOMAIN Cards(f) : Cards(f)[c] = "bad"
  BY <1>4, <1>6
<1>15. Verdict(f) = "healthy" <=>
           /\ f.bands # "absent"
           /\ \A c \in DOMAIN Cards(f) : Cards(f)[c] \in {"healthy", "unknown"}
  BY <1>5, <1>6
<1>16. QED
  BY <1>14, <1>15, <1>7, <1>9, <1>10, <1>11, <1>12, <1>13 DEF Consistent

-----------------------------------------------------------------------------
LEMMA RoomStart == ASSUME RoomInit PROVE RoomInv
<1>1. Blank \in FoundType
  BY DEF Blank, FoundType
<1>2. Unloaded \in LoadType
  BY <1>1 DEF Unloaded, LoadType, Replies
<1>3. RoomType
  <2>1. load \in [Loads -> LoadType]
    BY <1>2 DEF RoomInit
  <2>2. renders \in [Slots -> Nat]
    BY RoomAssumption DEF RoomInit
  <2>3. work \in [Tasks -> [state : {"none", "queued", "running", "retry"}, since : Nat]]
    BY DEF RoomInit
  <2>4. page \in [banner : Banners, hidden : BOOLEAN, of : Loads \cup {Unshown}]
    BY DEF RoomInit, Banners
  <2>5. supply \in [Suppliers -> SupplierType]
    BY DEF RoomInit, SupplierType
  <2>6. clock \in 0..MaxClock
    BY RoomAssumption DEF RoomInit
  <2>7. QED
    BY <2>1, <2>2, <2>3, <2>4, <2>5, <2>6 DEF RoomInit, RoomType, SupplierType
<1>4. ASSUME NEW l \in Loads PROVE LoadStands(l)
  <2>1. load[l] = Unloaded
    BY DEF RoomInit
  <2>2. /\ load[l].at = "idle" /\ load[l].reply = "none"
        /\ load[l].unread = Parts
        /\ load[l].found.queued = 0 /\ load[l].found.backlog = 0
    BY <2>1 DEF Unloaded, Blank
  <2>3. QED
    BY <2>2 DEF LoadStands
<1>5. PageStands /\ QueuedBefore
  BY DEF RoomInit, PageStands, QueuedBefore
<1>6. QED
  BY <1>3, <1>4, <1>5 DEF RoomInv

(* The queue, the renders or the providers change, or the clock does: what loads
   have read stays founded. *)
LEMMA WatchedStands ==
    ASSUME RoomInv, RoomType', QueuedBefore', Watched, clock' \in Nat, clock <= clock',
           UNCHANGED page,
           \A s \in Suppliers :
               \/ supply'[s].until = supply[s].until
               \/ supply'[s].until = 0
               \/ supply'[s].until > clock',
           \A s \in Slots :
               renders'[s] = renders[s] \/ renders'[s] = 0 \/ renders'[s] > clock'
    PROVE  RoomInv'
<1>1. RoomType /\ PageStands /\ clock \in Nat
  BY RoomAssumption DEF RoomInv, RoomType
<1>2. \A l \in Loads : load[l] \in LoadType
  BY <1>1 DEF RoomType
<1>3. ASSUME NEW l \in Loads
      PROVE  /\ load'[l].at = load[l].at /\ load'[l].reply = load[l].reply
             /\ load'[l].by = load[l].by /\ load'[l].found = load[l].found
             /\ load'[l].now = load[l].now /\ load'[l].till = load[l].till
             /\ load'[l].unread = load[l].unread
             /\ load[l].at # "reading" =>
                    load'[l].seen = load[l].seen /\ load'[l].supplied = load[l].supplied
             /\ load[l].at = "reading" =>
                    /\ load'[l].seen = load[l].seen \cup Facts'
                    /\ load'[l].supplied = load[l].supplied \cup SupplyFacts'
  <2>1. CASE load[l].at = "reading"
    <3>1. load'[l] = [load[l] EXCEPT !.seen = @ \cup Facts', !.supplied = @ \cup SupplyFacts']
      BY <2>1 DEF Watched, Reading
    <3>2. QED
      BY <1>2, <2>1, <3>1 DEF LoadType
  <2>2. CASE load[l].at # "reading"
    <3>1. load'[l] = load[l]
      BY <2>2 DEF Watched, Reading
    <3>2. QED
      BY <2>2, <3>1
  <2>3. QED
    BY <2>1, <2>2
<1>4. ASSUME NEW l \in Loads PROVE LoadStands(l)'
  <2>1. LoadStands(l) /\ load[l] \in LoadType
    BY <1>2 DEF RoomInv
  <2>2. ASSUME load[l].at = "reading" PROVE Watching(l)'
    <3>1. Watching(l)
      BY <2>1, <2>2 DEF LoadStands
    <3>2. load[l].now \in Nat /\ load[l].found \in FoundType
      BY <2>1 DEF LoadType
    <3>3. load'[l].by = "founder" /\ load'[l].now <= clock'
      BY <1>1, <1>3, <3>1, <3>2 DEF Watching
    <3>4. Facts' \subseteq load'[l].seen /\ SupplyFacts' \subseteq load'[l].supplied
      BY <1>3, <2>2
    <3>5. load[l].seen \subseteq load'[l].seen /\ load[l].supplied \subseteq load'[l].supplied
      BY <1>3, <2>2
    <3>6. ASSUME NEW s \in Suppliers, supply'[s].until > load'[l].now
          PROVE  <<"cooling", s>> \in load'[l].supplied
      <4>1. CASE supply'[s].until = supply[s].until
        BY <1>3, <3>1, <3>5, <3>6, <4>1 DEF Watching, Cooling
      <4>2. CASE supply'[s].until = 0
        BY <1>3, <3>2, <3>6, <4>2
      <4>3. CASE supply'[s].until > clock'
        <5>1. <<"cooling", s>> \in SupplyFacts'
          BY <4>3 DEF SupplyFacts, Cooling
        <5>2. QED
          BY <3>4, <5>1
      <4>4. QED
        BY <4>1, <4>2, <4>3
    <3>7. ASSUME NEW s \in Slots, renders'[s] > load'[l].now
          PROVE  <<"leased", s>> \in load'[l].supplied
      <4>1. CASE renders'[s] = renders[s]
        BY <1>3, <3>1, <3>5, <3>7, <4>1 DEF Watching, Leased
      <4>2. CASE renders'[s] = 0
        BY <1>3, <3>2, <3>7, <4>2
      <4>3. CASE renders'[s] > clock'
        <5>1. <<"leased", s>> \in SupplyFacts'
          BY <4>3 DEF SupplyFacts, Leased
        <5>2. QED
          BY <3>4, <5>1
      <4>4. QED
        BY <4>1, <4>2, <4>3
    <3>8. ReadSoFar(l)'
      <4>1. ASSUME "queue" \notin load[l].unread
            PROVE  \E age \in 0..MaxClock :
                       /\ <<"age", age>> \in load'[l].seen
                       /\ load'[l].found.age <= age
                       /\ age <= load'[l].found.age + (clock' - load'[l].now)
        <5>1. PICK age \in 0..MaxClock :
                  /\ <<"age", age>> \in load[l].seen
                  /\ load[l].found.age <= age
                  /\ age <= load[l].found.age + (clock - load[l].now)
          BY <3>1, <4>1 DEF Watching, ReadSoFar, SoFar
        <5>2. load[l].found.age \in Nat /\ age \in Int
          BY <3>2 DEF FoundType
        <5>3. age <= load[l].found.age + (clock' - load[l].now)
          BY <1>1, <3>2, <5>1, <5>2
        <5>4. QED
          BY <1>3, <3>5, <5>1, <5>3
      <4>2. ASSUME "queue" \notin load[l].unread
            PROVE  \E retries \in 0..load'[l].found.retries :
                       /\ <<"retries", retries>> \in load'[l].seen
                       /\ retries < load'[l].found.retries =>
                              /\ clock' > load'[l].now
                              /\ load'[l].found.retries <= load'[l].found.depth
        <5>1. PICK retries \in 0..load[l].found.retries :
                  /\ <<"retries", retries>> \in load[l].seen
                  /\ retries < load[l].found.retries =>
                         clock > load[l].now /\ load[l].found.retries <= load[l].found.depth
          BY <3>1, <4>2 DEF Watching, ReadSoFar, SoFar
        <5>2. clock > load[l].now => clock' > load[l].now
          BY <1>1, <3>2
        <5>3. QED
          BY <1>3, <3>5, <5>1, <5>2
      <4>3. QED
        BY <1>3, <3>1, <3>5, <4>1, <4>2 DEF Watching, ReadSoFar, SoFar
    <3>9. QED
      BY <3>3, <3>4, <3>6, <3>8, <3>7 DEF Watching, Cooling, Leased
  <2>3. ASSUME load[l].at = "answered", load[l].reply = "data" PROVE Founded(l)'
    <3>1. Founded(l)
      BY <2>1, <2>3 DEF LoadStands
    <3>2. QED
      BY <1>3, <2>3, <3>1 DEF Founded
  <2>4. QED
    BY <1>3, <2>1, <2>2, <2>3 DEF LoadStands
<1>5. PageStands'
  BY <1>1, <1>3 DEF PageStands
<1>6. QED
  BY <1>4, <1>5 DEF RoomInv

LEMMA FactsHold ==
    /\ clock \in 0..MaxClock /\ renders \in [Slots -> Nat]
    /\ work \in [Tasks -> [state : {"none", "queued", "running", "retry"}, since : Nat]]
    =>
    /\ Facts \in SUBSET (Measures \X Nat)
    /\ SupplyFacts \in SUBSET SupplyPairs
BY FactsTyped

LEMMA FactsHoldNext ==
    ASSUME clock' \in 0..MaxClock, renders' \in [Slots -> Nat],
           work' \in [Tasks -> [state : {"none", "queued", "running", "retry"}, since : Nat]]
    PROVE  /\ Facts' \in SUBSET (Measures \X Nat)
           /\ SupplyFacts' \in SUBSET SupplyPairs
<1>1. (/\ clock \in 0..MaxClock /\ renders \in [Slots -> Nat]
    /\ work \in [Tasks -> [state : {"none", "queued", "running", "retry"}, since : Nat]]
    =>
    /\ Facts \in SUBSET (Measures \X Nat)
    /\ SupplyFacts \in SUBSET SupplyPairs)'
  BY FactsHold, PTL
<1> QED BY <1>1

LEMMA LoadsTyped ==
    ASSUME Watched, load \in [Loads -> LoadType],
           Facts' \in SUBSET (Measures \X Nat),
           SupplyFacts' \in SUBSET SupplyPairs
    PROVE  load' \in [Loads -> LoadType]
<1>1. ASSUME NEW l \in Loads
      PROVE  [load[l] EXCEPT !.seen = @ \cup Facts', !.supplied = @ \cup SupplyFacts'] \in LoadType
  <2>1. load[l] \in LoadType
    OBVIOUS
  <2>2. /\ load[l].seen \cup Facts' \in SUBSET (Measures \X Nat)
        /\ load[l].supplied \cup SupplyFacts' \in SUBSET SupplyPairs
    BY <2>1 DEF LoadType
  <2>3. QED
    BY <2>1, <2>2 DEF LoadType
<1>2. QED
  BY <1>1 DEF Watched

LEMMA ChangedStands ==
    ASSUME RoomInv,
           \/ \E t \in Tasks : QueueMoves(t)
           \/ \E s \in Slots : RendersMove(s)
           \/ \E s \in Suppliers : SupplyMoves(s)
    PROVE  RoomInv'
<1>1. RoomType /\ clock \in Nat
  BY RoomAssumption DEF RoomInv, RoomType
<1>2. Changed
  BY DEF QueueMoves, RendersMove, SupplyMoves
<1>3. Watched /\ clock' = clock /\ UNCHANGED <<bands, viewer, page>>
  BY <1>2 DEF Changed
<1>4. work' \in [Tasks -> [state : {"none", "queued", "running", "retry"}, since : Nat]]
  <2>1. CASE work' = work
    BY <1>1, <2>1 DEF RoomType
  <2>2. CASE \E t \in Tasks : QueueMoves(t)
    <3>1. PICK t \in Tasks : QueueMoves(t)
      BY <2>2
    <3>2. \/ work' = [work EXCEPT ![t] = [state |-> "queued", since |-> clock]]
          \/ work' = [work EXCEPT ![t] = [state |-> "retry", since |-> clock]]
          \/ work' = [work EXCEPT ![t].state = "running"]
          \/ work' = [work EXCEPT ![t].state = "none"]
      BY <3>1 DEF QueueMoves
    <3>3. QED
      BY <1>1, <3>2 DEF RoomType
  <2>3. QED
    BY <2>1, <2>2 DEF RendersMove, SupplyMoves
<1>5. clock + GrantTime \in Nat /\ clock + GrantTime > clock
  BY <1>1, RoomAssumption
<1>6. /\ renders' \in [Slots -> Nat]
      /\ \A s \in Slots : renders'[s] = renders[s] \/ renders'[s] = 0 \/ renders'[s] > clock'
  <2>1. CASE renders' = renders
    BY <1>1, <2>1 DEF RoomType
  <2>2. CASE \E s \in Slots : RendersMove(s)
    <3>1. PICK s \in Slots, until \in {0, clock + GrantTime} :
              renders' = [renders EXCEPT ![s] = until]
      BY <2>2 DEF RendersMove
    <3>2. QED
      BY <1>1, <1>3, <1>5, <3>1 DEF RoomType
  <2>3. QED
    BY <2>1, <2>2 DEF QueueMoves, SupplyMoves
<1>7. clock + CoolTime \in Nat /\ clock + CoolTime > clock
  BY <1>1, RoomAssumption
<1>8. supply' \in [Suppliers -> [until : Nat, failing : BOOLEAN, filled : Nat]]
  <2>1. CASE supply' = supply
    BY <1>1, <2>1 DEF RoomType
  <2>2. CASE \E s \in Suppliers : SupplyMoves(s)
    <3>1. PICK s \in Suppliers : SupplyMoves(s)
      BY <2>2
    <3>2. 0 \in Nat
      OBVIOUS
    <3>3. \/ supply' = [supply EXCEPT ![s].failing = TRUE]
          \/ supply' = [supply EXCEPT ![s].failing = TRUE, ![s].until = clock + CoolTime]
          \/ supply' = [supply EXCEPT ![s].failing = FALSE, ![s].until = 0]
          \/ \E until \in {0, clock + GrantTime} : supply' = [supply EXCEPT ![s].filled = until]
      BY <3>1 DEF SupplyMoves
    <3>4. supply[s] \in [until : Nat, failing : BOOLEAN, filled : Nat]
      BY <1>1 DEF RoomType
    <3>5. /\ [supply[s] EXCEPT !.failing = TRUE] \in SupplierType
          /\ [supply[s] EXCEPT !.failing = TRUE, !.until = clock + CoolTime] \in SupplierType
          /\ [supply[s] EXCEPT !.failing = FALSE, !.until = 0] \in SupplierType
          /\ \A until \in {0, clock + GrantTime} :
                 [supply[s] EXCEPT !.filled = until] \in SupplierType
      BY <1>7, <1>5, <3>2, <3>4 DEF SupplierType
    <3>6. \/ supply' = [supply EXCEPT ![s] = [supply[s] EXCEPT !.failing = TRUE]]
          \/ supply' = [supply EXCEPT ![s] = [supply[s] EXCEPT !.failing = TRUE,
                                                               !.until = clock + CoolTime]]
          \/ supply' = [supply EXCEPT ![s] = [supply[s] EXCEPT !.failing = FALSE, !.until = 0]]
          \/ \E until \in {0, clock + GrantTime} :
                 supply' = [supply EXCEPT ![s] = [supply[s] EXCEPT !.filled = until]]
      BY <1>1, <3>3 DEF RoomType
    <3>7. \E one \in SupplierType : supply' = [supply EXCEPT ![s] = one]
      BY <3>5, <3>6
    <3>8. QED
      BY <1>1, <3>7 DEF RoomType, SupplierType
  <2>3. QED
    BY <2>1, <2>2 DEF QueueMoves, RendersMove
<1>9. \A s \in Suppliers :
          \/ supply'[s].until = supply[s].until
          \/ supply'[s].until = 0
          \/ supply'[s].until > clock'
  <2>1. CASE supply' = supply
    BY <2>1
  <2>2. CASE \E s \in Suppliers : SupplyMoves(s)
    <3>1. PICK s \in Suppliers : SupplyMoves(s)
      BY <2>2
    <3>2. \A u \in Suppliers : u # s => supply'[u] = supply[u]
      BY <1>1, <3>1 DEF SupplyMoves, RoomType
    <3>3. \/ supply'[s].until = supply[s].until
          \/ supply'[s].until = 0
          \/ supply'[s].until = clock + CoolTime
      BY <1>1, <3>1 DEF SupplyMoves, RoomType
    <3>4. QED
      BY <1>3, <1>7, <3>2, <3>3
  <2>3. QED
    BY <2>1, <2>2 DEF QueueMoves, RendersMove
<1>10. RoomType'
  <2>1. load' \in [Loads -> LoadType]
    <3>1. /\ Facts' \in SUBSET (Measures \X Nat)
          /\ SupplyFacts' \in SUBSET SupplyPairs
      <4>1. clock' \in 0..MaxClock
        BY <1>1, <1>3 DEF RoomType
      <4>2. QED
        BY <1>4, <1>6, <4>1, FactsHoldNext
    <3>2. QED
      BY <1>1, <1>3, <3>1, LoadsTyped DEF RoomType
  <2>2. QED
    BY <1>1, <1>3, <1>4, <1>6, <1>8, <2>1 DEF RoomType
<1>11. QueuedBefore'
  <2>1. QueuedBefore
    BY DEF RoomInv
  <2>2. CASE work' = work
    BY <1>3, <2>1, <2>2 DEF QueuedBefore
  <2>3. CASE \E t \in Tasks : QueueMoves(t)
    <3>1. PICK t \in Tasks : QueueMoves(t)
      BY <2>3
    <3>2. /\ \A u \in Tasks : u # t => work'[u] = work[u]
          /\ work'[t].since = clock \/ work'[t].since = work[t].since
      BY <1>1, <3>1 DEF QueueMoves, RoomType
    <3>3. QED
      BY <1>1, <1>3, <2>1, <3>2 DEF QueuedBefore
  <2>4. QED
    BY <2>2, <2>3 DEF RendersMove, SupplyMoves
<1>12. QED
  BY <1>1, <1>3, <1>6, <1>9, <1>10, <1>11, WatchedStands

LEMMA ClockStands == ASSUME RoomInv, ClockTicks PROVE RoomInv'
<1>1. RoomType /\ clock \in Nat
  BY RoomAssumption DEF RoomInv, RoomType
<1>2. /\ clock' \in 0..MaxClock /\ clock' \in Nat /\ clock <= clock'
      /\ Watched /\ UNCHANGED <<work, renders, supply, bands, viewer, page>>
  BY <1>1, RoomAssumption DEF ClockTicks, RoomType
<1>3. load' \in [Loads -> LoadType]
  <2>1. /\ Facts' \in SUBSET (Measures \X Nat)
        /\ SupplyFacts' \in SUBSET SupplyPairs
    BY <1>1, <1>2, FactsHoldNext DEF RoomType
  <2>2. QED
    BY <1>1, <1>2, <2>1, LoadsTyped DEF RoomType
<1>4. RoomType'
  BY <1>1, <1>2, <1>3 DEF RoomType
<1>5. QueuedBefore'
  <2>1. \A t \in Tasks : work[t].since \in Nat /\ work[t].since <= clock
    BY <1>1 DEF RoomInv, QueuedBefore, RoomType
  <2>2. QED
    BY <1>1, <1>2, <2>1 DEF QueuedBefore
<1>6. QED
  BY <1>1, <1>2, <1>4, <1>5, WatchedStands

-----------------------------------------------------------------------------
(* Freeing what has lapsed changes nothing of what is so. *)
LEMMA SameSupply ==
    ASSUME clock \in Nat, UNCHANGED clock, renders \in [Slots -> Nat],
           \A s \in Suppliers : supply'[s].until = supply[s].until,
           \A s \in Slots : renders'[s] = renders[s] \/ (renders'[s] = 0 /\ renders[s] <= clock)
    PROVE  SupplyFacts' = SupplyFacts
<1>1. \A s \in Suppliers : Cooling(s, clock)' <=> Cooling(s, clock)
  BY DEF Cooling
<1>2. ASSUME NEW s \in Slots PROVE Leased(s, clock)' <=> Leased(s, clock)
  <2>1. renders[s] \in Nat
    OBVIOUS
  <2>2. QED
    BY <2>1 DEF Leased
<1>3. QED
  BY <1>1, <1>2 DEF SupplyFacts

(* A step of one load, which was not shown, leaves what is so of the others. *)
LEMMA OneLoad ==
    ASSUME RoomInv, NEW l \in Loads, load[l].at # "shown",
           \A m \in Loads : m # l => load'[m] = load[m],
           UNCHANGED <<clock, work>>, RoomType', LoadStands(l)',
           \A s \in Suppliers : supply'[s].until = supply[s].until,
           \A s \in Slots : renders'[s] = renders[s] \/ (renders'[s] = 0 /\ renders[s] <= clock),
           page'.hidden = page.hidden, page'.of = page.of,
           page'.banner # page.banner => page'.banner \notin {"healthy", "warning", "bad"}
    PROVE  RoomInv'
<1>1. RoomType /\ clock \in Nat /\ QueuedBefore'
  BY RoomAssumption DEF RoomInv, RoomType, QueuedBefore
<1>2. Facts' = Facts /\ SupplyFacts' = SupplyFacts
  BY <1>1, SameSupply DEF Facts, InLine, Retrying, AgeBy, Counted, Active, RoomType
<1>3. ASSUME NEW m \in Loads, m # l PROVE LoadStands(m)'
  <2>1. LoadStands(m) /\ load'[m] = load[m]
    BY <1>3 DEF RoomInv
  <2>2. Watching(m) => Watching(m)'
    <3>1. ASSUME Watching(m) PROVE Watching(m)'
      <4>1. load[m].now \in Nat
        BY <1>1 DEF RoomType, LoadType
      <4>2. \A s \in Slots : renders'[s] > load[m].now => renders[s] > load[m].now
        BY <4>1
      <4>3. QED
        BY <1>2, <2>1, <3>1, <4>2 DEF Watching, ReadSoFar, SoFar, Cooling, Leased
    <3>2. QED
      BY <3>1
  <2>3. Founded(m) => Founded(m)'
    BY <2>1 DEF Founded
  <2>4. QED
    BY <2>1, <2>2, <2>3 DEF LoadStands
<1>4. PageStands'
  <2>1. PageStands
    BY DEF RoomInv
  <2>2. ~page.hidden => load'[page.of] = load[page.of]
    BY <2>1 DEF PageStands
  <2>3. QED
    BY <2>1, <2>2 DEF PageStands
<1>5. QED
  BY <1>3, <1>4, <1>1 DEF RoomInv

LEMMA ArriveStands == ASSUME RoomInv, NEW l \in Loads, Arrive(l) PROVE RoomInv'
<1>1. RoomType /\ load[l] \in LoadType /\ clock \in Nat /\ LoadStands(l)
  BY RoomAssumption DEF RoomInv, RoomType
<1>2. /\ load[l].at = "sent" /\ load[l].reply # "data"
      /\ load[l].found.queued <= load[l].found.backlog
      /\ UNCHANGED <<clock, work, renders, supply, bands, viewer, page>>
  BY <1>1 DEF Arrive, LoadStands, sharedVars
<1>3. CASE \E reply \in {"disabled", "unauthenticated", "forbidden"} :
               load' = [load EXCEPT ![l].at = "answered", ![l].reply = reply]
  <2>1. PICK reply \in {"disabled", "unauthenticated", "forbidden"} :
            load' = [load EXCEPT ![l].at = "answered", ![l].reply = reply]
    BY <1>3
  <2>2. load' \in [Loads -> LoadType]
    BY <1>1, <2>1 DEF RoomType, LoadType, Replies
  <2>3. RoomType'
    BY <1>1, <1>2, <2>2 DEF RoomType
  <2>4. /\ \A m \in Loads : m # l => load'[m] = load[m]
        /\ load'[l].at = "answered" /\ load'[l].reply = reply
        /\ load'[l].found = load[l].found
    BY <1>1, <2>1 DEF RoomType, LoadType
  <2>5. LoadStands(l)'
    BY <1>2, <2>4 DEF LoadStands
  <2>6. QED
    BY <1>2, <2>3, <2>4, <2>5, OneLoad
<1>4. CASE /\ load[l].by = "founder"
           /\ load' = [load EXCEPT ![l].at = "reading", ![l].now = clock,
                                   ![l].seen = Facts, ![l].supplied = SupplyFacts,
                                   ![l].found.bands = bands]
  <2>1. /\ Facts \in SUBSET (Measures \X Nat)
        /\ SupplyFacts \in SUBSET SupplyPairs
    BY <1>1, FactsTyped DEF RoomType
  <2> DEFINE found == [load[l].found EXCEPT !.bands = bands]
  <2>2. found \in FoundType
    BY <1>1 DEF RoomType, LoadType, FoundType
  <2>3. found.queued = load[l].found.queued /\ found.backlog = load[l].found.backlog
    BY <1>1 DEF LoadType, FoundType
  <2>4. load'[l] = [load[l] EXCEPT !.at = "reading", !.now = clock, !.seen = Facts,
                                   !.supplied = SupplyFacts, !.found = found]
    BY <1>1, <1>4 DEF RoomType, LoadType
  <2> HIDE DEF found
  <2>5. load'[l] \in LoadType
    BY <1>1, <2>1, <2>2, <2>4 DEF LoadType
  <2>6. \A m \in Loads : m # l => load'[m] = load[m]
    BY <1>1, <1>4 DEF RoomType
  <2>7. load' \in [Loads -> LoadType]
    BY <1>1, <1>4, <2>5, <2>6 DEF RoomType
  <2>8. RoomType'
    BY <1>1, <1>2, <2>7 DEF RoomType
  <2>9. Facts' = Facts /\ SupplyFacts' = SupplyFacts
    BY <1>2 DEF Facts, SupplyFacts, InLine, Retrying, AgeBy, Counted, Active, Cooling, Leased
  <2>10. /\ load'[l].at = "reading" /\ load'[l].reply = load[l].reply
         /\ load'[l].by = load[l].by /\ load'[l].found = found
         /\ load'[l].now = clock /\ load'[l].unread = load[l].unread
         /\ load'[l].seen = Facts /\ load'[l].supplied = SupplyFacts
    BY <1>1, <2>4 DEF LoadType
  <2>11. Watching(l)'
    <3>1. \A s \in Suppliers : supply[s].until > clock => <<"cooling", s>> \in SupplyFacts
      BY DEF SupplyFacts, Cooling
    <3>2. load[l].unread = Parts
      BY <1>1, <1>2 DEF LoadStands
    <3>3. ReadSoFar(l)'
      BY <2>10, <3>2 DEF ReadSoFar, SoFar, Parts
    <3>4. load'[l].by = "founder" /\ load'[l].now <= clock'
      BY <1>1, <1>2, <1>4, <2>10
    <3>5. \A s \in Suppliers : Cooling(s, load[l].now)' => <<"cooling", s>> \in load'[l].supplied
      BY <1>2, <2>10, <3>1 DEF Cooling
    <3>6. \A s \in Slots : Leased(s, load[l].now)' => <<"leased", s>> \in load'[l].supplied
      BY <1>2, <2>10 DEF SupplyFacts, Leased
    <3>7. QED
      BY <2>9, <2>10, <3>3, <3>4, <3>5, <3>6 DEF Watching
  <2>12. LoadStands(l)'
    BY <1>2, <2>3, <2>10, <2>11 DEF LoadStands
  <2>13. QED
    BY <1>2, <2>6, <2>8, <2>12, OneLoad
<1>5. QED
  BY <1>3, <1>4 DEF Arrive

(* A read is founded when what it finds is so now, or by the clock of the load. *)
LEMMA ReadStands ==
    ASSUME RoomInv, NEW l \in Loads, NEW part \in Parts, NEW found \in FoundType,
           Read(l, part, found), found.queued <= found.backlog,
           renders' \in [Slots -> Nat], supply' \in [Suppliers -> SupplierType],
           \A s \in Suppliers : supply'[s].until = supply[s].until,
           \A s \in Slots :
               renders'[s] = renders[s] \/ (renders'[s] = 0 /\ renders[s] <= load[l].now),
           SoFar(l, found, load[l].unread \ {part})
    PROVE  RoomInv'
<1>1. RoomType /\ load[l] \in LoadType /\ LoadStands(l)
  BY DEF RoomInv, RoomType
<1>2. /\ load[l].at = "reading"
      /\ UNCHANGED <<clock, work, bands, viewer, page>>
      /\ load' = [load EXCEPT ![l].unread = @ \ {part}, ![l].found = found]
  BY DEF Read
<1>3. load' \in [Loads -> LoadType]
  BY <1>1, <1>2 DEF RoomType, LoadType
<1>4. RoomType'
  BY <1>1, <1>2, <1>3 DEF RoomType, SupplierType
<1>5. \A m \in Loads : m # l => load'[m] = load[m]
  BY <1>1, <1>2 DEF RoomType
<1>6. /\ load'[l].at = "reading" /\ load'[l].reply = load[l].reply
      /\ load'[l].by = load[l].by /\ load'[l].found = found
      /\ load'[l].now = load[l].now /\ load'[l].unread = load[l].unread \ {part}
      /\ load'[l].seen = load[l].seen /\ load'[l].supplied = load[l].supplied
  BY <1>1, <1>2 DEF RoomType, LoadType
<1>7. Watching(l) /\ load[l].reply # "data"
  BY <1>1, <1>2 DEF LoadStands
<1>8. /\ load[l].now \in Nat /\ load[l].now <= clock /\ clock \in Nat
       /\ \A s \in Slots : renders[s] \in Nat
  BY <1>1, <1>7, RoomAssumption DEF RoomType, LoadType, Watching
<1>9. \A s \in Slots : renders'[s] = renders[s] \/ (renders'[s] = 0 /\ renders[s] <= clock)
  BY <1>8
<1>10. Facts' = Facts /\ SupplyFacts' = SupplyFacts
  <2>1. Facts' = Facts
    BY <1>2 DEF Facts, InLine, Retrying, AgeBy, Counted, Active
  <2>2. SupplyFacts' = SupplyFacts
    BY <1>1, <1>2, <1>8, <1>9, SameSupply DEF RoomType
  <2>3. QED
    BY <2>1, <2>2
<1>11. Watching(l)'
  <2>1. ReadSoFar(l)'
    BY <1>2, <1>6 DEF ReadSoFar, SoFar
  <2>2. \A s \in Suppliers : Cooling(s, load[l].now)' => <<"cooling", s>> \in load'[l].supplied
    BY <1>2, <1>6, <1>7 DEF Watching, Cooling
  <2>3. ASSUME NEW s \in Slots, renders'[s] > load[l].now
        PROVE  <<"leased", s>> \in load'[l].supplied
    <3>1. renders[s] > load[l].now
      BY <1>8, <2>3
    <3>2. QED
      BY <1>6, <1>7, <3>1 DEF Watching, Leased
  <2>4. QED
    BY <1>2, <1>6, <1>10, <1>7, <2>1, <2>2, <2>3 DEF Watching, Leased
<1>12. LoadStands(l)'
  BY <1>6, <1>7, <1>11 DEF LoadStands
<1>13. QED
  BY <1>2, <1>4, <1>5, <1>12, <1>9, OneLoad

LEMMA ReadsStand ==
    ASSUME RoomInv, NEW l \in Loads,
           ReadQueue(l) \/ ReadBacklog(l) \/ ReadRenders(l) \/ ReadSuppliers(l)
    PROVE  RoomInv'
<1> DEFINE f == load[l].found
<1>1. RoomType /\ load[l] \in LoadType /\ f \in FoundType /\ LoadStands(l)
  BY DEF RoomInv, RoomType, LoadType
<1>2. load[l].at = "reading"
  BY DEF ReadQueue, ReadBacklog, ReadRenders, ReadSuppliers, Read
<1>3. Watching(l) /\ f.queued <= f.backlog
  BY <1>1, <1>2 DEF LoadStands
<1>4. SoFar(l, f, load[l].unread)
  BY <1>3 DEF Watching, ReadSoFar
<1>5. /\ Cardinality(InLine) \in Nat /\ Cardinality(Retrying) \in Nat /\ Counted \in Nat
      /\ renders \in [Slots -> Nat] /\ clock \in Nat /\ clock \in 0..MaxClock
  BY <1>1, FactsTyped, RoomAssumption DEF RoomType
<1>6. load[l].now \in Nat /\ load[l].now <= clock
  BY <1>1, <1>3 DEF LoadType, Watching
<1> HIDE DEF f
<1>7. renders \in [Slots -> Nat] /\ supply \in [Suppliers -> SupplierType]
  BY <1>1 DEF RoomType, SupplierType
<1>8. CASE ReadQueue(l)
  <2> DEFINE late == {t \in InLine : t \in Retrying \/ work[t].since > load[l].now}
  <2> DEFINE found == [f EXCEPT !.depth = Cardinality(InLine), !.age = AgeBy(load[l].now),
                                !.retries = Cardinality(late)]
  <2>1. /\ AgeBy(load[l].now) \in Nat /\ AgeBy(clock) \in Nat
        /\ AgeBy(load[l].now) <= AgeBy(clock)
        /\ AgeBy(clock) <= AgeBy(load[l].now) + (clock - load[l].now)
        /\ AgeBy(clock) <= clock
    BY <1>1, <1>5, <1>6, AgeMoves DEF RoomType
  <2>2. AgeBy(clock) \in 0..MaxClock
    BY <1>5, <2>1, RoomAssumption
  <2>3. IsFiniteSet(InLine) /\ Retrying \subseteq late /\ late \subseteq InLine
    BY FS_Subset, RoomAssumption DEF InLine, Retrying
  <2>4. /\ Cardinality(late) \in Nat /\ Cardinality(late) <= Cardinality(InLine)
        /\ Cardinality(Retrying) <= Cardinality(late)
    <3>1. IsFiniteSet(late)
      BY <2>3, FS_Subset
    <3>2. QED
      BY <2>3, <3>1, FS_Subset, FS_CardinalityType
  <2>5. Cardinality(Retrying) < Cardinality(late) => clock > load[l].now
    <3>1. CASE late = Retrying
      <4>1. Cardinality(Retrying) = Cardinality(late)
        BY <3>1
      <4>2. Cardinality(Retrying) \in Nat
        BY <1>5
      <4>3. ~(Cardinality(Retrying) < Cardinality(late))
        <5> DEFINE n == Cardinality(late)
        <5>1. n = Cardinality(Retrying)
          BY <4>1
        <5>2. n \in Nat
          BY <4>2, <5>1
        <5> HIDE DEF n
        <5>3. ~(n < n)
          BY <5>2
        <5>4. QED
          BY <5>1, <5>3 DEF n
      <4>4. QED
        BY <4>3
    <3>2. CASE \E t \in late : t \notin Retrying
      <4>1. PICK t \in Tasks : work[t].since > load[l].now
        BY <3>2 DEF InLine
      <4>2. work[t].since <= clock /\ work[t].since \in Nat
        BY <1>1 DEF RoomInv, QueuedBefore, RoomType
      <4>3. QED
        BY <1>5, <1>6, <4>1, <4>2
    <3>3. QED
      BY <2>3, <3>1, <3>2
  <2>6. found \in FoundType
    BY <1>1, <1>5, <2>1, <2>4 DEF FoundType
  <2>7. /\ found.depth = Cardinality(InLine) /\ found.age = AgeBy(load[l].now)
        /\ found.retries = Cardinality(late) /\ found.queued = f.queued
        /\ found.backlog = f.backlog /\ found.rendering = f.rendering
        /\ found.cooling = f.cooling
    BY <1>1 DEF FoundType
  <2>8. /\ <<"depth", Cardinality(InLine)>> \in load[l].seen
        /\ <<"retries", Cardinality(Retrying)>> \in load[l].seen
        /\ <<"age", AgeBy(clock)>> \in load[l].seen
    BY <1>3 DEF Watching, Facts
  <2>9. Read(l, "queue", found) /\ UNCHANGED <<renders, supply>>
    BY <1>8 DEF ReadQueue, f
  <2> HIDE DEF found, late
  <2>10. Cardinality(Retrying) \in 0..Cardinality(late)
    BY <1>5, <2>4
  <2>11. SoFar(l, found, load[l].unread \ {"queue"})
    BY <1>4, <2>1, <2>2, <2>4, <2>5, <2>7, <2>8, <2>10 DEF SoFar
  <2>12. QED
    BY <1>3, <1>7, <2>6, <2>7, <2>9, <2>11, ReadStands DEF Parts
<1>9. CASE ReadBacklog(l)
  <2>1. PICK jobs \in SUBSET Active :
            /\ Cardinality(jobs) = Counted
            /\ UNCHANGED <<renders, supply>>
            /\ Read(l, "backlog",
                    [f EXCEPT !.backlog = Cardinality(jobs),
                              !.queued = Cardinality({t \in jobs : work[t].state = "queued"})])
    BY <1>9 DEF ReadBacklog, f
  <2> DEFINE queued == {t \in jobs : work[t].state = "queued"}
  <2> DEFINE found == [f EXCEPT !.backlog = Cardinality(jobs), !.queued = Cardinality(queued)]
  <2>2. IsFiniteSet(jobs) /\ queued \subseteq jobs
    BY FS_Subset, RoomAssumption DEF Active
  <2>3. Cardinality(queued) \in Nat /\ Cardinality(queued) <= Cardinality(jobs)
    BY <2>2, FS_Subset, FS_CardinalityType
  <2>4. found \in FoundType
    BY <1>1, <1>5, <2>1, <2>3 DEF FoundType
  <2>5. /\ found.backlog = Counted /\ found.queued = Cardinality(queued)
        /\ found.depth = f.depth /\ found.age = f.age /\ found.retries = f.retries
        /\ found.rendering = f.rendering /\ found.cooling = f.cooling
    BY <1>1, <2>1 DEF FoundType
  <2>6. <<"backlog", Counted>> \in load[l].seen
    BY <1>3 DEF Watching, Facts
  <2>7. Read(l, "backlog", found)
    BY <2>1
  <2> HIDE DEF found, queued
  <2>8. SoFar(l, found, load[l].unread \ {"backlog"})
    BY <1>4, <2>5, <2>6 DEF SoFar
  <2>9. QED
    BY <1>7, <2>1, <2>3, <2>4, <2>5, <2>7, <2>8, ReadStands DEF Parts
<1>10. CASE ReadRenders(l)
  <2> DEFINE found == [f EXCEPT !.rendering = {s \in Slots : Leased(s, load[l].now)}]
  <2>1. found \in FoundType
    BY <1>1 DEF FoundType
  <2>2. /\ found.backlog = f.backlog /\ found.queued = f.queued
        /\ found.depth = f.depth /\ found.age = f.age /\ found.retries = f.retries
        /\ found.cooling = f.cooling
        /\ found.rendering = {s \in Slots : Leased(s, load[l].now)}
    BY <1>1 DEF FoundType
  <2>3. ASSUME NEW s \in Slots
        PROVE  <<IF s \in found.rendering THEN "leased" ELSE "free", s>> \in load[l].supplied
    <3>1. CASE Leased(s, load[l].now)
      BY <1>3, <2>2, <3>1 DEF Watching
    <3>2. CASE ~Leased(s, load[l].now)
      <4>1. ~(renders[s] > clock)
        BY <1>5, <1>6, <3>2 DEF Leased
      <4>2. <<"free", s>> \in SupplyFacts
        BY <4>1 DEF SupplyFacts, Leased
      <4>3. QED
        BY <1>3, <2>2, <3>2, <4>2 DEF Watching
    <3>3. QED
      BY <3>1, <3>2
  <2>4. /\ Read(l, "renders", found) /\ UNCHANGED supply
        /\ renders' = [s \in Slots |-> IF Leased(s, load[l].now) THEN renders[s] ELSE 0]
    BY <1>10 DEF ReadRenders, f
  <2> HIDE DEF found
  <2>5. SoFar(l, found, load[l].unread \ {"renders"})
    BY <1>4, <2>2, <2>3 DEF SoFar
  <2>6. /\ renders' \in [Slots -> Nat]
        /\ \A s \in Slots :
               renders'[s] = renders[s] \/ (renders'[s] = 0 /\ renders[s] <= load[l].now)
    BY <1>5, <1>6, <2>4 DEF Leased
  <2>7. QED
    BY <1>3, <1>7, <2>1, <2>2, <2>4, <2>5, <2>6, ReadStands DEF Parts
<1>11. CASE ReadSuppliers(l)
  <2> DEFINE found == [f EXCEPT !.cooling = {s \in Suppliers : Cooling(s, load[l].now)},
                                !.failing = {s \in Suppliers : supply[s].failing},
                                !.leased = {s \in Suppliers : supply[s].filled > load[l].now}]
  <2>1. found \in FoundType
    BY <1>1 DEF FoundType
  <2>2. /\ found.backlog = f.backlog /\ found.queued = f.queued
        /\ found.depth = f.depth /\ found.age = f.age /\ found.retries = f.retries
        /\ found.rendering = f.rendering
        /\ found.cooling = {s \in Suppliers : Cooling(s, load[l].now)}
    BY <1>1 DEF FoundType
  <2>3. ASSUME NEW s \in Suppliers
        PROVE  <<IF s \in found.cooling THEN "cooling" ELSE "clear", s>> \in load[l].supplied
    <3>1. CASE Cooling(s, load[l].now)
      BY <1>3, <2>2, <3>1 DEF Watching
    <3>2. CASE ~Cooling(s, load[l].now)
      <4>1. supply[s].until \in Nat
        BY <1>1 DEF RoomType, SupplierType
      <4>2. ~(supply[s].until > clock)
        BY <1>5, <1>6, <3>2, <4>1 DEF Cooling
      <4>3. <<"clear", s>> \in SupplyFacts
        BY <4>2 DEF SupplyFacts, Cooling
      <4>4. QED
        BY <1>3, <2>2, <3>2, <4>3 DEF Watching
    <3>3. QED
      BY <3>1, <3>2
  <2>4. /\ Read(l, "suppliers", found) /\ UNCHANGED renders
        /\ supply' = [s \in Suppliers |->
                         [supply[s] EXCEPT !.filled =
                              IF supply[s].filled > load[l].now THEN supply[s].filled ELSE 0]]
    BY <1>11 DEF ReadSuppliers, f
  <2> HIDE DEF found
  <2>5. SoFar(l, found, load[l].unread \ {"suppliers"})
    BY <1>4, <2>2, <2>3 DEF SoFar
  <2>6. \A s \in Suppliers : supply[s] \in SupplierType
    BY <1>1 DEF RoomType, SupplierType
  <2>7. /\ supply' \in [Suppliers -> SupplierType]
        /\ \A s \in Suppliers : supply'[s].until = supply[s].until
    BY <2>4, <2>6 DEF SupplierType
  <2>8. QED
    BY <1>3, <1>7, <2>1, <2>2, <2>4, <2>5, <2>7, ReadStands DEF Parts
<1>12. QED
  BY <1>8, <1>9, <1>10, <1>11

LEMMA ConcludeStands == ASSUME RoomInv, NEW l \in Loads, Conclude(l) PROVE RoomInv'
<1>1. RoomType /\ load[l] \in LoadType /\ LoadStands(l) /\ clock \in Nat
  BY RoomAssumption DEF RoomInv, RoomType
<1>2. UNCHANGED <<clock, work, renders, supply, bands, viewer, page>>
  BY DEF Conclude, sharedVars
<1>3. CASE /\ load[l].at = "reading" /\ load[l].unread = {}
           /\ load' = [load EXCEPT ![l].at = "answered", ![l].reply = "data", ![l].till = clock]
  <2>1. load' \in [Loads -> LoadType]
    BY <1>1, <1>3 DEF RoomType, LoadType, Replies
  <2>2. RoomType'
    BY <1>1, <1>2, <2>1 DEF RoomType
  <2>3. /\ \A m \in Loads : m # l => load'[m] = load[m]
        /\ load'[l].at = "answered" /\ load'[l].reply = "data" /\ load'[l].till = clock
        /\ load'[l].by = load[l].by /\ load'[l].found = load[l].found
        /\ load'[l].now = load[l].now
        /\ load'[l].seen = load[l].seen /\ load'[l].supplied = load[l].supplied
    BY <1>1, <1>3 DEF RoomType, LoadType
  <2>4. Watching(l)
    BY <1>1, <1>3 DEF LoadStands
  <2>5. Founded(l)'
    <3>1. clock \in Int /\ load[l].now \in Int
      BY <1>1 DEF LoadType
    <3>2. clock > load[l].now => clock - load[l].now > 0
      BY <3>1
    <3>3. SoFar(l, load[l].found, {})
      BY <1>3, <2>4 DEF Watching, ReadSoFar
    <3>4. QED
      BY <2>3, <3>2, <3>3 DEF Founded, SoFar
  <2>6. LoadStands(l)'
    BY <1>1, <2>3, <2>4, <2>5 DEF LoadStands, Watching
  <2>7. QED
    BY <1>2, <1>3, <2>2, <2>3, <2>6, OneLoad
<1>4. CASE /\ load[l].at \in {"sent", "reading"}
           /\ load' = [load EXCEPT ![l] = [Unloaded EXCEPT !.at = "answered", !.by = load[l].by,
                                                          !.reply = "failed"]]
  <2>1. [Unloaded EXCEPT !.at = "answered", !.by = load[l].by, !.reply = "failed"] \in LoadType
    BY <1>1 DEF Unloaded, Blank, LoadType, FoundType, Replies
  <2>2. load' \in [Loads -> LoadType] /\ (\A m \in Loads : m # l => load'[m] = load[m])
    BY <1>1, <1>4, <2>1 DEF RoomType
  <2>3. RoomType'
    BY <1>1, <1>2, <2>2 DEF RoomType
  <2>4. load'[l] = [Unloaded EXCEPT !.at = "answered", !.by = load[l].by, !.reply = "failed"]
    BY <1>1, <1>4 DEF RoomType
  <2>5. /\ load'[l].at = "answered" /\ load'[l].reply = "failed"
        /\ load'[l].found.queued = 0 /\ load'[l].found.backlog = 0
    BY <2>4 DEF Unloaded, Blank
  <2>6. LoadStands(l)'
    BY <2>5 DEF LoadStands
  <2>7. QED
    BY <1>2, <1>4, <2>2, <2>3, <2>6, OneLoad
<1>5. QED
  BY <1>3, <1>4 DEF Conclude

LEMMA BeginStands ==
    ASSUME RoomInv, NEW l \in Loads, Refresh(l) \/ ChangeUser(l)
    PROVE  RoomInv'
<1>1. RoomType /\ load[l] \in LoadType /\ LoadStands(l) /\ PageStands
  BY DEF RoomInv, RoomType
<1>2. PICK user \in {"nobody", "stranger", "founder"} :
          Begin(l, user) /\ (viewer' = viewer \/ viewer' = user)
  BY <1>1 DEF Refresh, ChangeUser, RoomType
<1>3. /\ load[l].at = "idle"
      /\ UNCHANGED <<clock, work, renders, supply, bands>>
      /\ page' = [page EXCEPT !.banner = "loading"]
  BY <1>2 DEF Begin, sharedVars
<1> DEFINE sent == IF user = "nobody" THEN "answered" ELSE "sent"
<1> DEFINE reply == IF user = "nobody" THEN "unauthenticated" ELSE "none"
<1>4. load' = [load EXCEPT ![l].by = user, ![l].at = sent, ![l].reply = reply]
  BY <1>2 DEF Begin
<1>5. load' \in [Loads -> LoadType]
  BY <1>1, <1>4 DEF RoomType, LoadType, Replies
<1>6. /\ page'.hidden = page.hidden /\ page'.of = page.of
      /\ page'.banner # page.banner => page'.banner \notin {"healthy", "warning", "bad"}
      /\ page' \in [banner : Banners, hidden : BOOLEAN, of : Loads \cup {Unshown}]
  BY <1>1, <1>3 DEF RoomType, Banners
<1>7. RoomType'
  <2>1. viewer' \in {"nobody", "stranger", "founder"}
    BY <1>1, <1>2 DEF RoomType
  <2>2. QED
    BY <1>1, <1>3, <1>5, <1>6, <2>1 DEF RoomType
<1>8. /\ \A m \in Loads : m # l => load'[m] = load[m]
      /\ load'[l].at = sent /\ load'[l].reply = reply /\ load'[l].found = load[l].found
      /\ load'[l].unread = load[l].unread
  BY <1>1, <1>4 DEF RoomType, LoadType
<1>9. LoadStands(l)'
  BY <1>1, <1>3, <1>8 DEF LoadStands
<1>10. QED
  BY <1>3, <1>6, <1>7, <1>8, <1>9, OneLoad

LEMMA ShowStands == ASSUME RoomInv, NEW l \in Loads, Show(l) PROVE RoomInv'
<1>1. RoomType /\ load[l] \in LoadType /\ LoadStands(l) /\ PageStands
  BY DEF RoomInv, RoomType
<1>2. /\ load[l].at = "answered"
      /\ UNCHANGED <<clock, work, renders, supply, bands, viewer>>
      /\ load' = [load EXCEPT ![l].at = "shown", ![l].seen = {}, ![l].supplied = {}]
  BY DEF Show, sharedVars
<1>3. load' \in [Loads -> LoadType]
  BY <1>1, <1>2 DEF RoomType, LoadType
<1>4. /\ \A m \in Loads : m # l => load'[m] = load[m]
      /\ load'[l].at = "shown" /\ load'[l].reply = load[l].reply
      /\ load'[l].by = load[l].by /\ load'[l].found = load[l].found
  BY <1>1, <1>2 DEF RoomType, LoadType
<1>5. LoadStands(l)'
  BY <1>1, <1>4 DEF LoadStands
<1>6. Facts' = Facts /\ SupplyFacts' = SupplyFacts
  BY <1>2 DEF Facts, SupplyFacts, InLine, Retrying, AgeBy, Counted, Active, Cooling, Leased
<1>7. QueuedBefore'
  BY <1>2 DEF RoomInv, QueuedBefore
<1>8. ASSUME NEW m \in Loads, m # l PROVE LoadStands(m)'
  <2>1. LoadStands(m) /\ load'[m] = load[m]
    BY <1>4, <1>8 DEF RoomInv
  <2>2. Watching(m) => Watching(m)'
    BY <1>2, <1>6, <2>1 DEF Watching, ReadSoFar, SoFar, Cooling, Leased
  <2>3. Founded(m) => Founded(m)'
    BY <2>1 DEF Founded
  <2>4. QED
    BY <2>1, <2>2, <2>3 DEF LoadStands
<1>9. CASE load[l].reply = "data"
  <2>1. page' = [banner |-> Verdict(load[l].found), hidden |-> FALSE, of |-> l]
    BY <1>9 DEF Show, Rendered
  <2>2. page'.banner = Verdict(load'[l].found) /\ page'.hidden = FALSE /\ page'.of = l
    BY <1>4, <2>1
  <2>3. PageStands'
    BY <1>1, <1>4, <1>9, <2>2 DEF PageStands, LoadStands, Verdict
  <2>4. Verdict(load[l].found) \in Banners
    <3>1. Verdict(load[l].found) \in Verdicts
      BY HealthDraws DEF Drawn, Verdict, Verdicts
    <3>2. QED
      BY <3>1 DEF Banners
  <2>5. RoomType'
    BY <1>1, <1>2, <1>3, <2>1, <2>4 DEF RoomType
  <2>6. QED
    BY <1>5, <1>8, <1>7, <2>3, <2>5 DEF RoomInv
<1>10. CASE load[l].reply # "data"
  <2>1. page' = [page EXCEPT !.banner = load[l].reply,
                             !.hidden = @ \/ load[l].reply # "failed"]
    BY <1>10 DEF Show
  <2>2. load[l].reply \in Replies /\ load[l].reply \notin Verdicts
    BY <1>1 DEF LoadType, Replies, Verdicts
  <2>3. /\ page'.banner = load[l].reply /\ page'.of = page.of
        /\ page'.hidden = (page.hidden \/ load[l].reply # "failed")
        /\ page' \in [banner : Banners, hidden : BOOLEAN, of : Loads \cup {Unshown}]
    BY <1>1, <2>1, <2>2 DEF RoomType, Banners
  <2>4. ~page'.hidden => ~page.hidden
    BY <2>3
  <2>5. ~page.hidden => load'[page.of] = load[page.of]
    BY <1>1, <1>2, <1>4 DEF PageStands
  <2>6. PageStands'
    BY <1>1, <2>2, <2>3, <2>4, <2>5 DEF PageStands, Verdicts
  <2>7. RoomType'
    BY <1>1, <1>2, <1>3, <2>3 DEF RoomType
  <2>8. QED
    BY <1>5, <1>8, <1>7, <2>6, <2>7 DEF RoomInv
<1>11. QED
  BY <1>9, <1>10

LEMMA RoomStep == ASSUME RoomInv, [RoomNext]_roomVars PROVE RoomInv'
<1>1. CASE RoomNext
  BY <1>1, ChangedStands, ClockStands, ArriveStands, ReadsStand, ConcludeStands, BeginStands,
     ShowStands DEF RoomNext
<1>2. CASE UNCHANGED roomVars
  <2>1. UNCHANGED <<clock, work, renders, supply, bands, viewer, load, page>>
    BY <1>2 DEF roomVars
  <2>2. Facts' = Facts /\ SupplyFacts' = SupplyFacts
    BY <2>1 DEF Facts, SupplyFacts, InLine, Retrying, AgeBy, Counted, Active, Cooling, Leased
  <2>3. ASSUME NEW l \in Loads PROVE LoadStands(l)'
    <3>1. LoadStands(l)
      BY DEF RoomInv
    <3>2. Watching(l) => Watching(l)'
      BY <2>1, <2>2 DEF Watching, ReadSoFar, SoFar, Cooling, Leased
    <3>3. Founded(l) => Founded(l)'
      BY <2>1 DEF Founded
    <3>4. QED
      BY <2>1, <3>1, <3>2, <3>3 DEF LoadStands
  <2>4. RoomType' /\ PageStands' /\ QueuedBefore'
    BY <2>1 DEF RoomInv, RoomType, PageStands, QueuedBefore
  <2>5. QED
    BY <2>3, <2>4 DEF RoomInv
<1>3. QED
  BY <1>1, <1>2

(* Whatever moves while an answer is put together, every figure of it was so then,
   and the parts of the page that are drawn from it say the same; a banner with a
   verdict stands over the data of that verdict, asked for by a founder. *)
THEOREM DashboardFounded == RoomSpec => []DashboardTells
<1>1. RoomInit => RoomInv
  BY RoomStart
<1>2. RoomInv /\ [RoomNext]_roomVars => RoomInv'
  BY RoomStep
<1>3. RoomInv => DashboardTells
  <2>1. ASSUME RoomInv, NEW l \in Answered
        PROVE  /\ load[l].at = "answered" => Founded(l)
               /\ Consistent(load[l].found)
    <3>1. /\ l \in Loads /\ load[l].reply = "data" /\ LoadStands(l)
          /\ load[l].found \in FoundType
      BY <2>1 DEF Answered, RoomInv, RoomType, LoadType
    <3>2. QED
      BY <3>1, PartsConsistent DEF LoadStands
  <2>2. ASSUME RoomInv PROVE BannerIsOfData
    BY <2>2 DEF RoomInv, PageStands, BannerIsOfData, Answered
  <2>3. QED
    BY <2>1, <2>2 DEF DashboardTells
<1>4. QED
  BY <1>1, <1>2, <1>3, PTL DEF RoomSpec
=============================================================================
