---------------------- MODULE FinalizeAttemptsProofs ----------------------
(***************************************************************************)
(* Proofs about the finalize attempts, for any number of accounts,         *)
(* sessions, attempts, workers and requests.  The lemmas come first: what  *)
(* each document writer returns, then that every step keeps the types,     *)
(* the session locks and the holder of every job.                          *)
(***************************************************************************)
EXTENDS FinalizeProperties, SequenceTheorems, FiniteSetTheorems, TLAPS

-----------------------------------------------------------------------------
(* Operators *)

(* A countdown stays within its bound. *)
LEMMA DecType ==
    ASSUME NEW n \in Nat, NEW x \in 0..n \cup {None}
    PROVE  Dec(x) \in 0..n \cup {None}
BY DEF Dec

(* A countdown that is running stays a number. *)
LEMMA DecRunning ==
    ASSUME NEW n \in Nat, NEW x \in 0..n
    PROVE  Dec(x) \in 0..n
BY DEF Dec

(* A usage delta, of whatever sign, leaves a ledger of naturals. *)
LEMMA ApplyUsageDeltaType ==
    ASSUME NEW l \in Ledger, NEW x \in Int, NEW y \in Int
    PROVE  ApplyUsageDelta(l, x, y) \in Ledger
<1> DEFINE used == AtLeastZero(l.used + x)
           reserved == AtLeastZero(l.reserved + y)
<1>1. used \in Nat /\ reserved \in Nat
  BY DEF AtLeastZero, Ledger
<1>2. ApplyUsageDelta(l, x, y) = [l EXCEPT !.used = used, !.reserved = reserved]
  BY DEF ApplyUsageDelta
<1> HIDE DEF used, reserved
<1> QED  BY <1>1, <1>2 DEF Ledger

(* An attempt always has a current execution. *)
LEMMA CurrentExecutionType ==
    ASSUME NEW d \in Attempt
    PROVE  /\ d.executions \in Seq(Execution)
           /\ Len(d.executions) \in Nat \ {0}
           /\ Len(d.executions) \in 1..Len(d.executions)
           /\ CurrentExecution(d) \in Execution
           /\ WorkerOf(d) \in Runners \cup {None}
<1>1. d.executions \in Seq(Execution) /\ d.executions # <<>>
  BY DEF Attempt
<1>2. Len(d.executions) \in Nat \ {0}
  BY <1>1, EmptySeq, LenProperties
<1>3. Len(d.executions) \in 1..Len(d.executions)
  BY <1>2
<1>4. CurrentExecution(d) \in Execution
  BY <1>1, <1>3, ElementOfSeq DEF CurrentExecution
<1>5. WorkerOf(d) \in Runners \cup {None}
  BY <1>4 DEF WorkerOf, Attempt, Execution
<1> QED  BY <1>1, <1>2, <1>3, <1>4, <1>5

(* Rewriting the current execution changes that execution only. *)
LEMMA SetExecutionProperties ==
    ASSUME NEW d \in Attempt, NEW st \in ExecStates, NEW w \in Runners \cup {None}
    PROVE  LET e == SetExecution(d.executions, st, w) IN
           /\ e \in Seq(Execution) \ {<<>>}
           /\ Len(e) = Len(d.executions)
           /\ e[Len(e)] = [state |-> st, worker |-> w]
           /\ \A i \in 1..Len(e) - 1 : e[i] = d.executions[i]
<1> DEFINE n == Len(d.executions)
           x == [state |-> st, worker |-> w]
           e == SetExecution(d.executions, st, w)
<1>1. d.executions \in Seq(Execution) /\ n \in Nat \ {0} /\ n \in 1..n
  BY CurrentExecutionType
<1>2. x \in Execution
  BY DEF Execution
<1>3. /\ e \in Seq(Execution)
      /\ Len(e) = n
      /\ \A j \in 1..n : e[j] = IF j = n THEN x ELSE d.executions[j]
  BY <1>1, <1>2, ExceptSeq DEF SetExecution
<1>4. e # <<>>
  BY <1>1, <1>3, EmptySeq
<1>5. \A i \in 1..Len(e) - 1 : e[i] = d.executions[i]
  BY <1>1, <1>3
<1> QED  BY <1>1, <1>3, <1>4, <1>5

(* The times a document is written with are within their bounds. *)
LEMMA TimesInRange ==
    /\ LeaseTime \in 0..LeaseTime \cup {None}
    /\ BackoffTime \in 0..BackoffTime /\ 0 \in 0..BackoffTime
    /\ TtlTime \in 0..TtlTime
BY TimesAssumption

-----------------------------------------------------------------------------
(* Documents: each writer returns an attempt of the same session, in the state
   it is meant to write, and its lineage agrees with that state. *)

LEMMA NewAttemptProperties ==
    ASSUME NEW s \in Sessions, NEW est \in Estimates
    PROVE  /\ NewAttempt(s, est) \in Attempt
           /\ NewAttempt(s, est).state = "queued"
           /\ NewAttempt(s, est).session = s
           /\ LineageAgrees(NewAttempt(s, est))
<1> DEFINE e == [state |-> "created", worker |-> None]
<1>1. e \in Execution
  BY DEF Execution, ExecStates
<1>2. <<e>> \in Seq(Execution) \ {<<>>} /\ Len(<<e>>) = 1 /\ <<e>>[1] = e
  BY <1>1
<1>3. NewAttempt(s, est).executions = <<e>>
  BY DEF NewAttempt
<1>4. LineageAgrees(NewAttempt(s, est))
  BY <1>2, <1>3 DEF LineageAgrees, CurrentExecution, NewAttempt
<1>5. NewAttempt(s, est) \in Attempt
  <2> HIDE DEF e
  <2> QED
    BY <1>2, ChargesAssumption, TimesAssumption
    DEF e, NewAttempt, Attempt, ActiveStates, FinalStates, JobStates
<1> QED  BY <1>4, <1>5 DEF NewAttempt

LEMMA FailedAttemptProperties ==
    ASSUME NEW d \in Attempt, NEW st \in {"failed", "expired"},
           NEW ex \in {"failed_terminal", "abandoned"}
    PROVE  LET f == FailedAttempt(d, st, ex) IN
           /\ f \in Attempt
           /\ f.state = st
           /\ f.session = d.session
           /\ LineageAgrees(d) => LineageAgrees(f)
<1> DEFINE f == FailedAttempt(d, st, ex)
           e == SetExecution(d.executions, ex, WorkerOf(d))
<1>0. ex \in ExecStates /\ WorkerOf(d) \in Runners \cup {None}
  BY CurrentExecutionType DEF ExecStates
<1>1. /\ e \in Seq(Execution) \ {<<>>}
      /\ Len(e) = Len(d.executions)
      /\ e[Len(e)] = [state |-> ex, worker |-> WorkerOf(d)]
      /\ \A i \in 1..Len(e) - 1 : e[i] = d.executions[i]
  BY <1>0, SetExecutionProperties
<1>2. f = [d EXCEPT !.state = st, !.jobState = "failed_terminal", !.runner = None,
                    !.lease = None, !.executions = e]
  BY DEF FailedAttempt
<1> HIDE DEF f, e
<1>3. f \in Attempt
  BY <1>1, <1>2 DEF Attempt, FinalStates, JobStates
<1>4. f.state = st /\ f.session = d.session /\ f.executions = e
  BY <1>2 DEF Attempt
<1>5. LineageAgrees(d) => LineageAgrees(f)
  BY <1>1, <1>4 DEF LineageAgrees, CurrentExecution
<1> QED  BY <1>3, <1>4, <1>5 DEF f

LEMMA SettledAttemptProperties ==
    ASSUME NEW d \in Attempt, NEW v \in Video
    PROVE  LET f == SettledAttempt(d, v) IN
           /\ f \in Attempt
           /\ f.state = "done"
           /\ f.session = d.session
           /\ f.billed = v.charge
           /\ LineageAgrees(d) => LineageAgrees(f)
<1> DEFINE f == SettledAttempt(d, v)
           e == SetExecution(d.executions, "succeeded", WorkerOf(d))
<1>0. "succeeded" \in ExecStates /\ WorkerOf(d) \in Runners \cup {None}
  BY CurrentExecutionType DEF ExecStates
<1>1. /\ e \in Seq(Execution) \ {<<>>}
      /\ Len(e) = Len(d.executions)
      /\ e[Len(e)] = [state |-> "succeeded", worker |-> WorkerOf(d)]
      /\ \A i \in 1..Len(e) - 1 : e[i] = d.executions[i]
  BY <1>0, SetExecutionProperties
<1>2. f = [d EXCEPT !.state = "done", !.jobState = "settled", !.runner = None,
                    !.lease = None, !.short = v.short, !.billed = v.charge,
                    !.executions = e]
  BY DEF SettledAttempt
<1> HIDE DEF f, e
<1>3. f \in Attempt
  BY <1>1, <1>2 DEF Attempt, FinalStates, JobStates, Video
<1>4. /\ f.state = "done" /\ f.session = d.session
      /\ f.billed = v.charge /\ f.executions = e
  BY <1>2 DEF Attempt
<1>5. LineageAgrees(d) => LineageAgrees(f)
  BY <1>1, <1>4 DEF LineageAgrees, CurrentExecution
<1> QED  BY <1>3, <1>4, <1>5 DEF f

LEMMA RequeuedAttemptProperties ==
    ASSUME NEW d \in Attempt, NEW r \in Runners
    PROVE  LET f == RequeuedAttempt(d, r) IN
           /\ f \in Attempt
           /\ f.state = "queued"
           /\ f.session = d.session
           /\ LineageAgrees(d) => LineageAgrees(f)
<1> DEFINE f == RequeuedAttempt(d, r)
           e == SetExecution(d.executions, "failed_retryable", r)
           x == [state |-> "created", worker |-> d.runner]
           g == Append(e, x)
<1>1. /\ e \in Seq(Execution) \ {<<>>}
      /\ Len(e) = Len(d.executions)
      /\ e[Len(e)] = [state |-> "failed_retryable", worker |-> r]
      /\ \A i \in 1..Len(e) - 1 : e[i] = d.executions[i]
  BY SetExecutionProperties DEF ExecStates
<1>2. x \in Execution
  BY DEF Execution, ExecStates, Attempt
<1>3. f = [d EXCEPT !.state = "queued", !.jobState = "retry_scheduled",
                    !.runner = None, !.lease = None, !.backoff = BackoffTime,
                    !.executions = g]
  BY DEF RequeuedAttempt
<1> HIDE DEF e
<1>4. /\ g \in Seq(Execution) \ {<<>>}
      /\ Len(g) = Len(e) + 1
      /\ \A i \in 1..Len(e) : g[i] = e[i]
      /\ g[Len(e) + 1] = x
  <2> HIDE DEF x
  <2> QED  BY <1>1, <1>2, AppendProperties
<1> HIDE DEF f, g
<1>5. f \in Attempt
  BY <1>3, <1>4, TimesInRange DEF Attempt, ActiveStates, JobStates
<1>6. f.state = "queued" /\ f.session = d.session /\ f.executions = g
  BY <1>3 DEF Attempt
<1>7. ASSUME LineageAgrees(d), NEW i \in 1..Len(g) - 1
      PROVE  g[i].state = "failed_retryable"
  <2>1. Len(e) \in Nat \ {0} /\ i \in 1..Len(e)
    BY <1>1, <1>4, CurrentExecutionType
  <2>2. CASE i = Len(e)
    BY <2>1, <2>2, <1>1, <1>4
  <2>3. CASE i # Len(e)
    <3>1. i \in 1..Len(e) - 1
      BY <2>1, <2>3
    <3> QED  BY <3>1, <2>1, <1>1, <1>4, <1>7 DEF LineageAgrees
  <2> QED  BY <2>2, <2>3
<1>8. LineageAgrees(d) => LineageAgrees(f)
  BY <1>4, <1>6, <1>7 DEF LineageAgrees, CurrentExecution
<1> QED  BY <1>5, <1>6, <1>8 DEF f

LEMMA ClaimedAttemptProperties ==
    ASSUME NEW d \in Attempt, NEW r \in Runners
    PROVE  LET f == ClaimedAttempt(d, r) IN
           /\ f \in Attempt
           /\ f.state = "running"
           /\ f.runner = r
           /\ f.session = d.session
           /\ LineageAgrees(d) => LineageAgrees(f)
<1> DEFINE f == ClaimedAttempt(d, r)
           e == SetExecution(d.executions, "claimed", r)
<1>1. /\ e \in Seq(Execution) \ {<<>>}
      /\ Len(e) = Len(d.executions)
      /\ e[Len(e)] = [state |-> "claimed", worker |-> r]
      /\ \A i \in 1..Len(e) - 1 : e[i] = d.executions[i]
  BY SetExecutionProperties DEF ExecStates
<1>2. f = [d EXCEPT !.state = "running", !.jobState = "claimed", !.runner = r,
                    !.lease = LeaseTime, !.backoff = 0, !.executions = e]
  BY DEF ClaimedAttempt
<1> HIDE DEF f, e
<1>3. f \in Attempt
  BY <1>1, <1>2, TimesInRange DEF Attempt, ActiveStates, JobStates
<1>4. f.state = "running" /\ f.runner = r /\ f.session = d.session /\ f.executions = e
  BY <1>2 DEF Attempt
<1>5. LineageAgrees(d) => LineageAgrees(f)
  BY <1>1, <1>4 DEF LineageAgrees, CurrentExecution
<1> QED  BY <1>3, <1>4, <1>5 DEF f

LEMMA StartedAttemptProperties ==
    ASSUME NEW d \in Attempt, NEW r \in Runners
    PROVE  LET f == StartedAttempt(d, r) IN
           /\ f \in Attempt
           /\ f.state = d.state
           /\ f.runner = d.runner
           /\ f.session = d.session
           /\ LineageAgrees(d) /\ d.state = "running" /\ d.runner = r => LineageAgrees(f)
<1> DEFINE f == StartedAttempt(d, r)
           e == SetExecution(d.executions, "running", r)
<1>1. /\ e \in Seq(Execution) \ {<<>>}
      /\ Len(e) = Len(d.executions)
      /\ e[Len(e)] = [state |-> "running", worker |-> r]
      /\ \A i \in 1..Len(e) - 1 : e[i] = d.executions[i]
  BY SetExecutionProperties DEF ExecStates
<1>2. f = [d EXCEPT !.jobState = "started", !.executions = e]
  BY DEF StartedAttempt
<1> HIDE DEF f, e
<1>3. f \in Attempt
  BY <1>1, <1>2 DEF Attempt, JobStates
<1>4. f.state = d.state /\ f.runner = d.runner /\ f.session = d.session /\ f.executions = e
  BY <1>2 DEF Attempt
<1>5. LineageAgrees(d) /\ d.state = "running" /\ d.runner = r => LineageAgrees(f)
  BY <1>1, <1>4 DEF LineageAgrees, CurrentExecution
<1> QED  BY <1>3, <1>4, <1>5 DEF f

LEMMA RenewedAttemptProperties ==
    ASSUME NEW d \in Attempt, NEW r \in Runners
    PROVE  LET f == RenewedAttempt(d, r) IN
           /\ f \in Attempt
           /\ f.state = d.state
           /\ f.runner = d.runner
           /\ f.session = d.session
           /\ LineageAgrees(d) /\ d.state = "running" /\ d.runner = r => LineageAgrees(f)
<1> DEFINE f == RenewedAttempt(d, r)
           st == CurrentExecution(d).state
           e == SetExecution(d.executions, st, r)
<1>1. st \in ExecStates
  BY CurrentExecutionType DEF Execution
<1>2. /\ e \in Seq(Execution) \ {<<>>}
      /\ Len(e) = Len(d.executions)
      /\ e[Len(e)] = [state |-> st, worker |-> r]
      /\ \A i \in 1..Len(e) - 1 : e[i] = d.executions[i]
  <2> HIDE DEF st
  <2> QED  BY <1>1, SetExecutionProperties
<1>3. f = [d EXCEPT !.lease = LeaseTime, !.jobState = "started", !.executions = e]
  BY DEF RenewedAttempt
<1> HIDE DEF f, e
<1>4. f \in Attempt
  BY <1>2, <1>3, TimesInRange DEF Attempt, JobStates
<1>5. f.state = d.state /\ f.runner = d.runner /\ f.session = d.session /\ f.executions = e
  BY <1>3 DEF Attempt
<1>6. LineageAgrees(d) /\ d.state = "running" /\ d.runner = r => LineageAgrees(f)
  BY <1>2, <1>5 DEF LineageAgrees, CurrentExecution
<1> QED  BY <1>4, <1>5, <1>6 DEF f

LEMMA TickedAttemptProperties ==
    ASSUME NEW d \in Attempt
    PROVE  LET f == TickedAttempt(d) IN
           /\ f \in Attempt
           /\ f.state = d.state
           /\ f.runner = d.runner
           /\ f.session = d.session
           /\ LineageAgrees(d) => LineageAgrees(f)
           /\ d.state \in FinalStates => f = d
<1> DEFINE f == TickedAttempt(d)
           lease == Dec(d.lease)
           backoff == Dec(d.backoff)
           ttl == Dec(d.ttl)
<1>1. /\ lease \in 0..LeaseTime \cup {None}
      /\ backoff \in 0..BackoffTime
      /\ ttl \in 0..TtlTime
  BY DecType, DecRunning, TimesAssumption DEF Attempt
<1>2. d # None
  BY NoneAssumption
<1>3. f = IF d.state \in FinalStates THEN d
          ELSE [d EXCEPT !.lease = lease, !.backoff = backoff, !.ttl = ttl]
  BY <1>2 DEF TickedAttempt
<1> HIDE DEF f, lease, backoff, ttl
<1>4. f \in Attempt
  BY <1>1, <1>3 DEF Attempt
<1>5. /\ f.state = d.state /\ f.runner = d.runner /\ f.session = d.session
      /\ f.executions = d.executions
  BY <1>3 DEF Attempt
<1>6. LineageAgrees(d) => LineageAgrees(f)
  BY <1>5 DEF LineageAgrees, CurrentExecution
<1> QED  BY <1>3, <1>4, <1>5, <1>6 DEF f

-----------------------------------------------------------------------------
(* Types *)

(* An active attempt is a document. *)
LEMMA ActiveIsDocument ==
    ASSUME TypeOK, NEW a \in Attempts, docs[a] # None
    PROVE  docs[a] \in Attempt
BY DEF TypeOK

LEMMA EstimatesAreNat == \A est \in Estimates : est \in Nat
BY EstimatesAssumption

(* Ending an attempt, by whichever process, keeps the three documents it
   writes in their types. *)
LEMMA FailureTypes ==
    ASSUME TypeOK, NEW a \in Attempts, NEW st \in {"failed", "expired"},
           NEW ex \in {"failed_terminal", "abandoned"},
           FinalizeAttemptFailure(a, st, ex)
    PROVE  /\ docs' \in [Attempts -> Attempt \cup {None}]
           /\ locks' \in [Sessions -> Lock \cup {None}]
           /\ usage' \in [Users -> Ledger]
<1>1. CASE ~IsActive(a)
  BY <1>1 DEF FinalizeAttemptFailure, TypeOK
<1>2. CASE IsActive(a)
  <2>1. docs[a] \in Attempt
    BY <1>2, ActiveIsDocument DEF IsActive
  <2>2. FailedAttempt(docs[a], st, ex) \in Attempt
    BY <2>1, FailedAttemptProperties
  <2>3. /\ docs' = [docs EXCEPT ![a] = FailedAttempt(docs[a], st, ex)]
        /\ usage' = [usage EXCEPT ![UserOf[a]] =
                         ApplyUsageDelta(usage[UserOf[a]], 0, -docs[a].reserved)]
        /\ locks' = [locks EXCEPT ![docs[a].session] = None]
    BY <1>2 DEF FinalizeAttemptFailure
  <2>4. UserOf[a] \in Users /\ usage[UserOf[a]] \in Ledger
    BY UserOfAssumption DEF TypeOK
  <2>5. docs[a].reserved \in Nat
    BY <2>1, EstimatesAssumption DEF Attempt
  <2>6. ApplyUsageDelta(usage[UserOf[a]], 0, -docs[a].reserved) \in Ledger
    BY <2>4, <2>5, ApplyUsageDeltaType
  <2> QED  BY <2>2, <2>3, <2>6 DEF TypeOK
<1> QED  BY <1>1, <1>2

(* The reaper's copies stay copies while time passes. *)
LEMMA TickedCopyType ==
    ASSUME NEW k \in Copy
    PROVE  TickedCopy(k) \in Copy
<1>1. Dec(k.left) \in 0..LeaseTime \cup 0..TtlTime \cup {None}
  BY TimesAssumption DEF Copy, Dec
<1>2. TickedCopy(k) = [k EXCEPT !.left = Dec(k.left)]
  BY NoneAssumption DEF TickedCopy
<1> QED  BY <1>1, <1>2 DEF Copy

(* Every step keeps every variable in its type. *)
LEMMA TypesKept ==
    ASSUME TypeOK, CopiesHaveDocs, Next
    PROVE  TypeOK'
<1>1. ASSUME NEW c \in Clients, NEW a \in Attempts, NEW s \in Sessions,
             NEW est \in Estimates, PrepareChecks(c, a, s, est)
      PROVE  TypeOK'
  BY <1>1 DEF PrepareChecks, TypeOK, Waiting
<1>2. ASSUME NEW c \in Clients, CheckBackpressure(c)
      PROVE  TypeOK'
  <2>1. api[c] \in Waiting
    BY <1>2 DEF CheckBackpressure, TypeOK, IdleRequest
  <2>2. [api[c] EXCEPT !.pc = "admitted"] \in Waiting
    BY <2>1 DEF Waiting
  <2> QED  BY <1>2, <2>2 DEF CheckBackpressure, TypeOK
<1>3. ASSUME NEW c \in Clients, PrepareTx(c)
      PROVE  TypeOK'
  <2> DEFINE a == api[c].attempt
             s == api[c].session
             est == api[c].estimate
  <2>1. api[c] \in Waiting
    BY <1>3 DEF PrepareTx, TypeOK, IdleRequest
  <2>2. a \in Attempts /\ s \in Sessions /\ est \in Estimates
    BY <2>1 DEF Waiting
  <2>3. CASE MayEnqueue(a, s, est)
    <3>1. NewAttempt(s, est) \in Attempt
      BY <2>2, NewAttemptProperties
    <3>2. [attempt |-> a, state |-> "queued"] \in Lock
      BY <2>2 DEF Lock, ActiveStates
    <3>3. UserOf[s] \in Users
      BY <2>2, UserOfAssumption
    <3>4. ApplyUsageDelta(usage[UserOf[s]], 0, est) \in Ledger
      <4>1. usage[UserOf[s]] \in Ledger
        BY <3>3 DEF TypeOK
      <4>2. est \in Int
        BY <2>2, EstimatesAreNat
      <4> HIDE DEF s, est
      <4> QED  BY <4>1, <4>2, ApplyUsageDeltaType
    <3>5. [api[c] EXCEPT !.pc = "enqueued"] \in Waiting
      BY <2>1 DEF Waiting
    <3>6. /\ docs' = [docs EXCEPT ![a] = NewAttempt(s, est)]
          /\ locks' = [locks EXCEPT ![s] = [attempt |-> a, state |-> "queued"]]
          /\ usage' = [usage EXCEPT ![UserOf[s]] = ApplyUsageDelta(usage[UserOf[s]], 0, est)]
          /\ api' = [api EXCEPT ![c] = [api[c] EXCEPT !.pc = "enqueued"]]
          /\ UNCHANGED <<video, status, seen, task, held, summary, editing, reaping>>
      BY <1>3, <2>3 DEF PrepareTx
    <3> HIDE DEF a, s, est
    <3> QED  BY <2>2, <3>1, <3>2, <3>3, <3>4, <3>5, <3>6 DEF TypeOK
  <2>4. CASE ~MayEnqueue(a, s, est)
    BY <1>3, <2>4 DEF PrepareTx, TypeOK
  <2> QED  BY <2>3, <2>4
<1>4. ASSUME NEW c \in Clients, PersistPending(c)
      PROVE  TypeOK'
  BY <1>4 DEF PersistPending, TypeOK
<1>5. ASSUME NEW c \in Clients, PersistPendingFails(c)
      PROVE  TypeOK'
  <2>1. api[c].attempt \in Attempts
    BY <1>5 DEF PersistPendingFails, TypeOK, IdleRequest, Waiting
  <2> QED  BY <1>5, <2>1, FailureTypes DEF PersistPendingFails, TypeOK
<1>6. ASSUME NEW c \in Clients, RequestDies(c)
      PROVE  TypeOK'
  BY <1>6 DEF RequestDies, TypeOK
<1>7. ASSUME NEW r \in Runners, StartRunner(r)
      PROVE  TypeOK'
  BY <1>7 DEF StartRunner, TypeOK
<1>8. ASSUME NEW r \in Runners, StopRunner(r)
      PROVE  TypeOK'
  BY <1>8 DEF StopRunner, TypeOK, NoSnapshot, NoTasks, NothingHeld, TaskStates
<1>9. ASSUME NEW r \in Runners, PollQueue(r)
      PROVE  TypeOK'
  <2>1. \A a \in Attempts : docs[a] # None => docs[a].backoff \in 0..BackoffTime
    BY DEF TypeOK, Attempt
  <2> QED  BY <1>9, <2>1 DEF PollQueue, TypeOK
<1>10. ASSUME NEW r \in Runners, NEW a \in Attempts, PassOver(r, a)
       PROVE  TypeOK'
  BY <1>10 DEF PassOver, TypeOK
<1>11. ASSUME NEW r \in Runners, NEW a \in Attempts, Claim(r, a)
       PROVE  TypeOK'
  <2>1. docs[a] \in Attempt
    BY <1>11, ActiveIsDocument DEF Claim, CopiesHaveDocs
  <2>2. ClaimedAttempt(docs[a], r) \in Attempt
    BY <2>1, ClaimedAttemptProperties
  <2>3. [attempt |-> a, state |-> "running"] \in Lock
    BY DEF Lock, ActiveStates
  <2> QED  BY <1>11, <2>2, <2>3 DEF Claim, TypeOK, NoSnapshot, TaskStates
<1>12. ASSUME NEW r \in Runners, NEW a \in Attempts, MarkStarted(r, a)
       PROVE  TypeOK'
  <2>1. Holds(r, a) => StartedAttempt(docs[a], r) \in Attempt
    BY ActiveIsDocument, StartedAttemptProperties DEF Holds
  <2> QED  BY <1>12, <2>1 DEF MarkStarted, TypeOK, TaskStates
<1>13. ASSUME NEW r \in Runners, NEW a \in Attempts, Heartbeat(r, a)
       PROVE  TypeOK'
  <2>1. RenewedAttempt(docs[a], r) \in Attempt
    BY <1>13, ActiveIsDocument, RenewedAttemptProperties DEF Heartbeat, Holds
  <2> QED  BY <1>13, <2>1 DEF Heartbeat, TypeOK
<1>14. ASSUME NEW r \in Runners, NEW a \in Attempts, LoadSession(r, a)
       PROVE  TypeOK'
  <2>1. docs[a].session \in Sessions
    BY <1>14, ActiveIsDocument DEF LoadSession, CopiesHaveDocs, Attempt
  <2> QED  BY <1>14, <2>1 DEF LoadSession, TypeOK, TaskStates
<1>15. ASSUME NEW r \in Runners, NEW a \in Attempts, SaveSession(r, a)
       PROVE  TypeOK'
  BY <1>15, ZenonT(60) DEF SaveSession, TypeOK, TaskStates
<1>16. ASSUME NEW r \in Runners, NEW a \in Attempts, RenderBusy(r, a)
       PROVE  TypeOK'
  BY <1>16 DEF RenderBusy, TypeOK, TaskStates
<1>17. ASSUME NEW r \in Runners, NEW a \in Attempts, NEW charge \in Charges,
              RenderSucceeds(r, a, charge)
       PROVE  TypeOK'
  BY <1>17 DEF RenderSucceeds, TypeOK, TaskStates, Video
<1>18. ASSUME NEW r \in Runners, NEW a \in Attempts, TaskThrows(r, a)
       PROVE  TypeOK'
  BY <1>18 DEF TaskThrows, TypeOK, TaskStates
<1>19. ASSUME NEW r \in Runners, NEW a \in Attempts, Settle(r, a)
       PROVE  TypeOK'
  <2> DEFINE v == held[r][a]
  <2>1. CASE IsActive(a) /\ Billable(v, docs[a])
    <3>1. docs[a] \in Attempt /\ v \in Video
      BY <2>1, ActiveIsDocument DEF TypeOK, Billable, IsActive
    <3>2. SettledAttempt(docs[a], v) \in Attempt
      BY <3>1, SettledAttemptProperties
    <3>3. UserOf[a] \in Users /\ usage[UserOf[a]] \in Ledger
      BY UserOfAssumption DEF TypeOK
    <3>4. v.charge \in Nat /\ docs[a].reserved \in Nat
      <4>1. v.charge \in Charges /\ docs[a].reserved \in Estimates
        BY <3>1 DEF Video, Attempt
      <4> HIDE DEF v
      <4> QED  BY <4>1, ChargesAssumption, EstimatesAssumption
    <3>5. ApplyUsageDelta(usage[UserOf[a]], v.charge, -docs[a].reserved) \in Ledger
      <4> HIDE DEF v
      <4> QED  BY <3>3, <3>4, ApplyUsageDeltaType
    <3>6. /\ docs' = [docs EXCEPT ![a] = SettledAttempt(docs[a], v)]
          /\ usage' = [usage EXCEPT ![UserOf[a]] =
                  ApplyUsageDelta(usage[UserOf[a]], v.charge, -docs[a].reserved)]
          /\ locks' = [locks EXCEPT ![docs[a].session] = None]
          /\ task' = [task EXCEPT ![r][a] = "none"]
          /\ held' = [held EXCEPT ![r][a] = None]
          /\ UNCHANGED <<video, api, status, seen, summary, editing, reaping>>
      BY <1>19, <2>1 DEF Settle
    <3> HIDE DEF v
    <3> QED  BY <3>2, <3>3, <3>5, <3>6 DEF TypeOK, TaskStates
  <2>2. CASE ~(IsActive(a) /\ Billable(v, docs[a]))
    <3>1. /\ task' = [task EXCEPT ![r][a] = "failing"]
          /\ held' = [held EXCEPT ![r][a] = None]
          /\ UNCHANGED <<docs, usage, locks, video, api, status, seen, summary, editing, reaping>>
      BY <1>19, <2>2 DEF Settle
    <3> QED  BY <3>1 DEF TypeOK, TaskStates
  <2> QED  BY <2>1, <2>2
<1>20. ASSUME NEW r \in Runners, NEW a \in Attempts, QueueForRetry(r, a)
       PROVE  TypeOK'
  <2>1. CASE Holds(r, a)
    <3>1. RequeuedAttempt(docs[a], r) \in Attempt
      BY <2>1, ActiveIsDocument, RequeuedAttemptProperties DEF Holds
    <3>2. [attempt |-> a, state |-> "queued"] \in Lock
      BY DEF Lock, ActiveStates
    <3>3. /\ docs' = [docs EXCEPT ![a] = RequeuedAttempt(docs[a], r)]
          /\ locks' = [locks EXCEPT ![docs[a].session] = [attempt |-> a, state |-> "queued"]]
          /\ task' = [task EXCEPT ![r][a] = "none"]
          /\ UNCHANGED <<usage, video, api, status, seen, held, summary, editing, reaping>>
      BY <1>20, <2>1 DEF QueueForRetry
    <3> QED  BY <3>1, <3>2, <3>3 DEF TypeOK, TaskStates
  <2>2. CASE ~Holds(r, a)
    BY <1>20, <2>2 DEF QueueForRetry, TypeOK, TaskStates
  <2> QED  BY <2>1, <2>2
<1>21. ASSUME NEW r \in Runners, NEW a \in Attempts, FailTask(r, a)
       PROVE  TypeOK'
  <2>1. /\ docs' \in [Attempts -> Attempt \cup {None}]
        /\ locks' \in [Sessions -> Lock \cup {None}]
        /\ usage' \in [Users -> Ledger]
    BY <1>21, FailureTypes DEF FailTask
  <2> QED  BY <1>21, <2>1 DEF FailTask, TypeOK, TaskStates
<1>22. ASSUME NEW r \in Runners, NEW a \in Attempts, TaskDies(r, a)
       PROVE  TypeOK'
  BY <1>22 DEF TaskDies, TypeOK, TaskStates
<1>23. ASSUME NEW r \in Runners, ReapSnapshot(r)
       PROVE  TypeOK'
  <2>1. ASSUME NEW a \in Attempts, IsActive(a)
        PROVE  Copied(docs[a]) \in Copy
    <3>1. docs[a] \in Attempt
      BY <2>1, ActiveIsDocument DEF IsActive
    <3> QED  BY <2>1, <3>1 DEF Copied, Copy, Attempt, IsActive
  <2> QED  BY <1>23, <2>1 DEF ReapSnapshot, TypeOK
<1>24. ASSUME NEW r \in Runners, NEW a \in Attempts, ReapNothing(r, a)
       PROVE  TypeOK'
  BY <1>24 DEF ReapNothing, TypeOK
<1>25. ASSUME NEW r \in Runners, NEW a \in Attempts, ReapExpired(r, a)
       PROVE  TypeOK'
  <2>1. /\ docs' \in [Attempts -> Attempt \cup {None}]
        /\ locks' \in [Sessions -> Lock \cup {None}]
        /\ usage' \in [Users -> Ledger]
    BY <1>25, FailureTypes DEF ReapExpired
  <2> QED  BY <1>25, <2>1 DEF ReapExpired, TypeOK
<1>26. ASSUME NEW r \in Runners, ReaperThrows(r)
       PROVE  TypeOK'
  BY <1>26 DEF ReaperThrows, TypeOK, NoSnapshot
<1>27. CASE Tick
  <2>1. ASSUME NEW a \in Attempts
        PROVE  TickedAttempt(docs[a]) \in Attempt \cup {None}
    <3>1. docs[a] \in Attempt \cup {None}
      BY DEF TypeOK
    <3>2. CASE docs[a] = None
      BY <3>2 DEF TickedAttempt
    <3>3. CASE docs[a] \in Attempt
      BY <3>3, TickedAttemptProperties
    <3> QED  BY <3>1, <3>2, <3>3
  <2>2. \A r \in Runners, a \in Attempts : Dec(seen[r][a]) \in 0..BackoffTime \cup {None}
    BY DecType, TimesAssumption DEF TypeOK
  <2>3. ASSUME NEW r \in Runners, NEW a \in Attempts
        PROVE  TickedCopy(reaping[r][a]) \in Copy \cup {None}
    BY TickedCopyType DEF TypeOK, TickedCopy
  <2> QED  BY <1>27, <2>1, <2>2, <2>3 DEF Tick, TypeOK
<1>28. ASSUME NEW s \in Sessions, EditSession(s)
       PROVE  TypeOK'
  BY <1>28 DEF EditSession, TypeOK
<1>29. ASSUME NEW u \in Users, NEW included \in Plans, RenewPeriod(u, included)
       PROVE  TypeOK'
  <2>1. usage[u] \in Ledger /\ included \in Nat
    BY LimitsAssumption DEF TypeOK
  <2>2. PICK used \in {0, usage[u].used} :
           usage' = [usage EXCEPT ![u] = [usage[u] EXCEPT !.used = used,
                                                          !.included = included]]
    BY <1>29 DEF RenewPeriod
  <2>3. used \in Nat
    BY <2>1, <2>2 DEF Ledger
  <2>4. [usage[u] EXCEPT !.used = used, !.included = included] \in Ledger
    BY <2>1, <2>3 DEF Ledger
  <2> QED  BY <1>29, <2>2, <2>4 DEF RenewPeriod, TypeOK
<1>30. ASSUME NEW q \in Readers, NEW u \in Users, ReadUsage(q, u)
       PROVE  TypeOK'
  BY <1>30 DEF ReadUsage, TypeOK, Summary
<1>31. ASSUME NEW q \in Readers, WriteUsage(q)
       PROVE  TypeOK'
  <2>1. summary[q].user \in Users /\ summary[q].ledger \in Ledger
    BY <1>31 DEF WriteUsage, TypeOK, Summary
  <2> QED  BY <1>31, <2>1 DEF WriteUsage, TypeOK
<1>32. ASSUME NEW e \in Editors, NEW s \in Sessions, OpenSession(e, s)
       PROVE  TypeOK'
  <2>1. [session |-> s, video |-> video[s]] \in Opened
    BY DEF TypeOK, Opened
  <2> QED  BY <1>32, <2>1 DEF OpenSession, TypeOK
<1>33. ASSUME NEW e \in Editors, SaveOpened(e)
       PROVE  TypeOK'
  <2>1. editing[e].session \in Sessions /\ editing[e].video \in Video \cup {None}
    BY <1>33 DEF SaveOpened, TypeOK, Opened
  <2> QED  BY <1>33, <2>1 DEF SaveOpened, TypeOK
<1> QED
  BY <1>1, <1>2, <1>3, <1>4, <1>5, <1>6, <1>7, <1>8, <1>9, <1>10, <1>11, <1>12,
     <1>13, <1>14, <1>15, <1>16, <1>17, <1>18, <1>19, <1>20, <1>21, <1>22, <1>23,
     <1>24, <1>25, <1>26, <1>27, <1>28, <1>29, <1>30, <1>31, <1>32, <1>33
  DEF Next, ApiStep, RunnerStep, TaskStep, ReapStep

-----------------------------------------------------------------------------
(* Steps, by what they do to the attempt documents and the session locks.
   The invariants below distinguish these seven effects only. *)

NoTaskStarts ==
    \A r \in Runners, a \in Attempts : task'[r][a] # "none" => task[r][a] # "none"

Quiet == UNCHANGED <<docs, locks>> /\ NoTaskStarts

Admits(a, s, est) ==
    /\ MayEnqueue(a, s, est)
    /\ docs' = [docs EXCEPT ![a] = NewAttempt(s, est)]
    /\ locks' = [locks EXCEPT ![s] = [attempt |-> a, state |-> "queued"]]
    /\ NoTaskStarts

Claims(r, a) ==
    /\ docs[a] # None
    /\ docs[a].state = "queued"
    /\ docs' = [docs EXCEPT ![a] = ClaimedAttempt(docs[a], r)]
    /\ locks' = [locks EXCEPT ![docs[a].session] = [attempt |-> a, state |-> "running"]]
    /\ task' = [task EXCEPT ![r][a] = "claimed"]

Touches(r, a) ==
    /\ Holds(r, a)
    /\ task[r][a] # "none"
    /\ \E d \in {StartedAttempt(docs[a], r), RenewedAttempt(docs[a], r)} :
           docs' = [docs EXCEPT ![a] = d]
    /\ UNCHANGED locks
    /\ NoTaskStarts

Requeues(r, a) ==
    /\ Holds(r, a)
    /\ task[r][a] # "none"
    /\ docs' = [docs EXCEPT ![a] = RequeuedAttempt(docs[a], r)]
    /\ locks' = [locks EXCEPT ![docs[a].session] = [attempt |-> a, state |-> "queued"]]
    /\ NoTaskStarts
    /\ task'[r][a] = "none"

EndOf(a, d) ==
    \/ \E st \in {"failed", "expired"}, ex \in {"failed_terminal", "abandoned"} :
           d = FailedAttempt(docs[a], st, ex)
    \/ \E v \in Video : d = SettledAttempt(docs[a], v)

Ends(a) ==
    /\ IsActive(a)
    /\ \E d : EndOf(a, d) /\ docs' = [docs EXCEPT ![a] = d]
    /\ locks' = [locks EXCEPT ![docs[a].session] = None]
    /\ NoTaskStarts

Ticks ==
    /\ docs' = [a \in Attempts |-> TickedAttempt(docs[a])]
    /\ UNCHANGED locks
    /\ NoTaskStarts

StepEffect ==
    \/ Quiet
    \/ \E a \in Attempts, s \in Sessions, est \in Estimates : Admits(a, s, est)
    \/ \E r \in Runners, a \in Attempts : Claims(r, a)
    \/ \E r \in Runners, a \in Attempts : Touches(r, a)
    \/ \E r \in Runners, a \in Attempts : Requeues(r, a)
    \/ \E a \in Attempts : Ends(a)
    \/ Ticks

(* Ending an attempt leaves it ended or finds it ended. *)
LEMMA FailureEffect ==
    ASSUME NEW a \in Attempts, NEW st \in {"failed", "expired"},
           NEW ex \in {"failed_terminal", "abandoned"},
           FinalizeAttemptFailure(a, st, ex), NoTaskStarts
    PROVE  Quiet \/ Ends(a)
<1>1. CASE ~IsActive(a)
  BY <1>1 DEF FinalizeAttemptFailure, Quiet
<1>2. CASE IsActive(a)
  <2>1. EndOf(a, FailedAttempt(docs[a], st, ex))
    BY DEF EndOf
  <2>2. /\ docs' = [docs EXCEPT ![a] = FailedAttempt(docs[a], st, ex)]
        /\ locks' = [locks EXCEPT ![docs[a].session] = None]
    BY <1>2 DEF FinalizeAttemptFailure
  <2> QED  BY <1>2, <2>1, <2>2 DEF Ends
<1> QED  BY <1>1, <1>2

(* Every step has one of the seven effects. *)
LEMMA StepEffects ==
    ASSUME TypeOK, CopiesHaveDocs, Next
    PROVE  StepEffect
<1>1. ASSUME NEW c \in Clients, NEW a \in Attempts, NEW s \in Sessions,
             NEW est \in Estimates, PrepareChecks(c, a, s, est)
      PROVE  Quiet
  BY <1>1 DEF PrepareChecks, Quiet, NoTaskStarts
<1>2. ASSUME NEW c \in Clients,
             CheckBackpressure(c) \/ PersistPending(c) \/ RequestDies(c)
      PROVE  Quiet
  BY <1>2 DEF CheckBackpressure, PersistPending, RequestDies, Quiet, NoTaskStarts
<1>3. ASSUME NEW c \in Clients, PrepareTx(c)
      PROVE  StepEffect
  <2> DEFINE a == api[c].attempt
             s == api[c].session
             est == api[c].estimate
  <2>1. a \in Attempts /\ s \in Sessions /\ est \in Estimates
    BY <1>3 DEF PrepareTx, TypeOK, IdleRequest, Waiting
  <2>2. CASE MayEnqueue(a, s, est)
    <3>1. Admits(a, s, est)
      BY <1>3, <2>2 DEF PrepareTx, Admits, NoTaskStarts
    <3> HIDE DEF a, s, est
    <3> QED  BY <2>1, <3>1 DEF StepEffect
  <2>3. CASE ~MayEnqueue(a, s, est)
    BY <1>3, <2>3 DEF PrepareTx, StepEffect, Quiet, NoTaskStarts
  <2> QED  BY <2>2, <2>3
<1>4. ASSUME NEW c \in Clients, PersistPendingFails(c)
      PROVE  StepEffect
  <2>1. api[c].attempt \in Attempts
    BY <1>4 DEF PersistPendingFails, TypeOK, IdleRequest, Waiting
  <2>2. NoTaskStarts
    BY <1>4 DEF PersistPendingFails, NoTaskStarts
  <2> QED  BY <1>4, <2>1, <2>2, FailureEffect DEF PersistPendingFails, StepEffect
<1>5. ASSUME NEW r \in Runners,
             \/ StartRunner(r) \/ PollQueue(r) \/ ReapSnapshot(r) \/ ReaperThrows(r)
      PROVE  Quiet
  BY <1>5 DEF StartRunner, PollQueue, ReapSnapshot, ReaperThrows, Quiet, NoTaskStarts
<1>6. ASSUME NEW r \in Runners, StopRunner(r)
      PROVE  Quiet
  BY <1>6 DEF StopRunner, Quiet, NoTaskStarts, NoTasks, TypeOK
<1>7. ASSUME NEW r \in Runners, NEW a \in Attempts, PassOver(r, a) \/ ReapNothing(r, a)
      PROVE  Quiet
  BY <1>7 DEF PassOver, ReapNothing, Quiet, NoTaskStarts
<1>8. ASSUME NEW r \in Runners, NEW a \in Attempts, Claim(r, a)
      PROVE  Claims(r, a)
  BY <1>8 DEF Claim, Claims, CopiesHaveDocs
<1>9. ASSUME NEW r \in Runners, NEW a \in Attempts, MarkStarted(r, a)
      PROVE  Quiet \/ Touches(r, a)
  <2>1. NoTaskStarts
    BY <1>9 DEF MarkStarted, NoTaskStarts, TypeOK
  <2> QED  BY <1>9, <2>1 DEF MarkStarted, Quiet, Touches
<1>10. ASSUME NEW r \in Runners, NEW a \in Attempts, Heartbeat(r, a)
       PROVE  Touches(r, a)
  BY <1>10 DEF Heartbeat, Touches, NoTaskStarts
<1>11. ASSUME NEW r \in Runners, NEW a \in Attempts,
              \/ LoadSession(r, a) \/ SaveSession(r, a) \/ RenderBusy(r, a)
              \/ TaskThrows(r, a) \/ TaskDies(r, a)
       PROVE  Quiet
  <2>1. task[r][a] # "none" /\ \E st \in TaskStates : task' = [task EXCEPT ![r][a] = st]
    BY <1>11 DEF LoadSession, SaveSession, RenderBusy, TaskThrows, TaskDies, TaskStates
  <2>2. NoTaskStarts
    BY <2>1 DEF NoTaskStarts, TypeOK
  <2> QED  BY <1>11, <2>2 DEF LoadSession, SaveSession, RenderBusy, TaskThrows,
                              TaskDies, Quiet
<1>12. ASSUME NEW r \in Runners, NEW a \in Attempts, NEW charge \in Charges,
              RenderSucceeds(r, a, charge)
       PROVE  Quiet
  BY <1>12 DEF RenderSucceeds, Quiet, NoTaskStarts, TypeOK
<1>13. ASSUME NEW r \in Runners, NEW a \in Attempts, Settle(r, a)
       PROVE  Quiet \/ Ends(a)
  <2>1. NoTaskStarts
    <3>1. task[r][a] # "none" /\ \E st \in TaskStates : task' = [task EXCEPT ![r][a] = st]
      BY <1>13 DEF Settle, TaskStates
    <3> QED  BY <3>1 DEF NoTaskStarts, TypeOK
  <2>2. CASE IsActive(a) /\ Billable(held[r][a], docs[a])
    <3>1. held[r][a] \in Video
      BY <2>2 DEF Billable, TypeOK
    <3>2. EndOf(a, SettledAttempt(docs[a], held[r][a]))
      BY <3>1 DEF EndOf
    <3>3. /\ docs' = [docs EXCEPT ![a] = SettledAttempt(docs[a], held[r][a])]
          /\ locks' = [locks EXCEPT ![docs[a].session] = None]
      BY <1>13, <2>2 DEF Settle
    <3> QED  BY <2>1, <2>2, <3>2, <3>3 DEF Ends
  <2>3. CASE ~(IsActive(a) /\ Billable(held[r][a], docs[a]))
    BY <1>13, <2>1, <2>3 DEF Settle, Quiet
  <2> QED  BY <2>2, <2>3
<1>14. ASSUME NEW r \in Runners, NEW a \in Attempts, QueueForRetry(r, a)
       PROVE  Quiet \/ Requeues(r, a)
  <2>1. NoTaskStarts /\ task'[r][a] = "none"
    BY <1>14 DEF QueueForRetry, NoTaskStarts, TypeOK
  <2> QED  BY <1>14, <2>1 DEF QueueForRetry, Quiet, Requeues
<1>15. ASSUME NEW r \in Runners, NEW a \in Attempts, FailTask(r, a)
       PROVE  Quiet \/ Ends(a)
  <2>1. NoTaskStarts
    BY <1>15 DEF FailTask, NoTaskStarts, TypeOK
  <2> QED  BY <1>15, <2>1, FailureEffect DEF FailTask
<1>16. ASSUME NEW r \in Runners, NEW a \in Attempts, ReapExpired(r, a)
       PROVE  Quiet \/ Ends(a)
  <2>1. NoTaskStarts
    BY <1>16 DEF ReapExpired, NoTaskStarts
  <2> QED  BY <1>16, <2>1, FailureEffect DEF ReapExpired
<1>17. CASE Tick
  BY <1>17 DEF Tick, Ticks, StepEffect, NoTaskStarts
<1>18. ASSUME NEW s \in Sessions, EditSession(s)
       PROVE  Quiet
  BY <1>18 DEF EditSession, Quiet, NoTaskStarts
<1>19. ASSUME NEW u \in Users,
              \/ \E included \in Plans : RenewPeriod(u, included)
              \/ \E q \in Readers : ReadUsage(q, u)
       PROVE  Quiet
  BY <1>19 DEF RenewPeriod, ReadUsage, Quiet, NoTaskStarts
<1>20. ASSUME NEW q \in Readers, WriteUsage(q)
       PROVE  Quiet
  BY <1>20 DEF WriteUsage, Quiet, NoTaskStarts
<1>21. ASSUME NEW e \in Editors,
              (\E s \in Sessions : OpenSession(e, s)) \/ SaveOpened(e)
       PROVE  Quiet
  BY <1>21 DEF OpenSession, SaveOpened, Quiet, NoTaskStarts
<1> QED
  BY <1>1, <1>2, <1>3, <1>4, <1>5, <1>6, <1>7, <1>8, <1>9, <1>10, <1>11, <1>12,
     <1>13, <1>14, <1>15, <1>16, <1>17, <1>18, <1>19, <1>20, <1>21
  DEF Next, ApiStep, RunnerStep, TaskStep, ReapStep, StepEffect

(* What an ending writes is an ended attempt of the same session. *)
LEMMA EndOfProperties ==
    ASSUME TypeOK, NEW a \in Attempts, IsActive(a), NEW d, EndOf(a, d)
    PROVE  /\ d \in Attempt
           /\ d.state \in FinalStates
           /\ LineageAgrees(docs[a]) => LineageAgrees(d)
<1>1. docs[a] \in Attempt
  BY ActiveIsDocument DEF IsActive
<1>2. CASE \E st \in {"failed", "expired"}, ex \in {"failed_terminal", "abandoned"} :
             d = FailedAttempt(docs[a], st, ex)
  BY <1>1, <1>2, FailedAttemptProperties DEF FinalStates
<1>3. CASE \E v \in Video : d = SettledAttempt(docs[a], v)
  BY <1>1, <1>3, SettledAttemptProperties DEF FinalStates
<1> QED  BY <1>2, <1>3 DEF EndOf

(* What a start or a heartbeat writes is the same attempt, renewed. *)
LEMMA TouchProperties ==
    ASSUME TypeOK, NEW r \in Runners, NEW a \in Attempts, Touches(r, a)
    PROVE  /\ docs[a] \in Attempt
           /\ docs' = [docs EXCEPT ![a] = docs'[a]]
           /\ docs'[a] \in Attempt
           /\ docs'[a].state = docs[a].state
           /\ docs'[a].runner = docs[a].runner
           /\ docs'[a].session = docs[a].session
           /\ LineageAgrees(docs[a]) /\ docs[a].runner = r => LineageAgrees(docs'[a])
<1>1. docs[a] \in Attempt /\ docs[a].state = "running"
  BY ActiveIsDocument DEF Touches, Holds
<1>2. PICK d \in {StartedAttempt(docs[a], r), RenewedAttempt(docs[a], r)} :
             docs' = [docs EXCEPT ![a] = d]
  BY DEF Touches
<1>3. docs'[a] = d /\ docs' = [docs EXCEPT ![a] = docs'[a]]
  BY <1>2 DEF TypeOK
<1>4. /\ d \in Attempt
      /\ d.state = docs[a].state /\ d.runner = docs[a].runner
      /\ d.session = docs[a].session
      /\ LineageAgrees(docs[a]) /\ docs[a].runner = r => LineageAgrees(d)
  BY <1>1, <1>2, StartedAttemptProperties, RenewedAttemptProperties
<1> QED  BY <1>1, <1>3, <1>4

(* A document, once written, is never deleted. *)
LEMMA DocumentsStay ==
    ASSUME TypeOK, StepEffect, NEW b \in Attempts, docs[b] # None
    PROVE  docs'[b] # None
<1>1. CASE Quiet
  BY <1>1 DEF Quiet
<1>2. ASSUME NEW a \in Attempts, NEW s \in Sessions, NEW est \in Estimates,
             Admits(a, s, est)
      PROVE  docs'[b] # None
  BY <1>2, NewAttemptProperties, NoneAssumption DEF Admits, TypeOK
<1>3. ASSUME NEW r \in Runners, NEW a \in Attempts, Claims(r, a)
      PROVE  docs'[b] # None
  BY <1>3, ActiveIsDocument, ClaimedAttemptProperties, NoneAssumption DEF Claims, TypeOK
<1>4. ASSUME NEW r \in Runners, NEW a \in Attempts, Touches(r, a)
      PROVE  docs'[b] # None
  BY <1>4, TouchProperties, NoneAssumption DEF TypeOK
<1>5. ASSUME NEW r \in Runners, NEW a \in Attempts, Requeues(r, a)
      PROVE  docs'[b] # None
  BY <1>5, ActiveIsDocument, RequeuedAttemptProperties, NoneAssumption
  DEF Requeues, Holds, TypeOK
<1>6. ASSUME NEW a \in Attempts, Ends(a)
      PROVE  docs'[b] # None
  BY <1>6, EndOfProperties, NoneAssumption DEF Ends, TypeOK
<1>7. CASE Ticks
  BY <1>7, ActiveIsDocument, TickedAttemptProperties, NoneAssumption DEF Ticks
<1> QED  BY <1>1, <1>2, <1>3, <1>4, <1>5, <1>6, <1>7 DEF StepEffect

(* Copies are taken of documents that exist, by processes that are up. *)
LEMMA CopiesHaveDocsKept ==
    ASSUME TypeOK, CopiesHaveDocs, Next
    PROVE  CopiesHaveDocs'
<1> SUFFICES ASSUME NEW q \in Runners, NEW b \in Attempts
             PROVE  /\ seen'[q][b] # None => docs'[b] # None /\ status'[q] = "up"
                    /\ task'[q][b] # "none" => docs'[b] # None /\ status'[q] = "up"
  BY DEF CopiesHaveDocs
<1>1. docs[b] # None => docs'[b] # None
  BY StepEffects, DocumentsStay
<1>2. ASSUME NEW r \in Runners, StartRunner(r)
      PROVE  /\ UNCHANGED <<seen, task>>
             /\ status[q] = "up" => status'[q] = "up"
  BY <1>2 DEF StartRunner, TypeOK
<1>3. ASSUME NEW r \in Runners, StopRunner(r)
      PROVE  /\ seen'[q][b] # None => seen[q][b] # None /\ status'[q] = status[q]
             /\ task'[q][b] # "none" => task[q][b] # "none" /\ status'[q] = status[q]
  BY <1>3 DEF StopRunner, TypeOK, NoSnapshot, NoTasks
<1>4. ASSUME NEW r \in Runners, PollQueue(r)
      PROVE  /\ UNCHANGED <<task, status>>
             /\ seen'[q][b] # None => \/ seen[q][b] # None
                                      \/ docs[b] # None /\ status[q] = "up"
  BY <1>4 DEF PollQueue, TypeOK
<1>5. ASSUME NEW r \in Runners, NEW a \in Attempts, PassOver(r, a)
      PROVE  /\ UNCHANGED <<task, status>>
             /\ seen'[q][b] # None => seen[q][b] # None
  BY <1>5 DEF PassOver, TypeOK
<1>6. ASSUME NEW r \in Runners, NEW a \in Attempts, Claim(r, a)
      PROVE  /\ UNCHANGED status
             /\ seen'[q][b] # None => seen[q][b] # None
             /\ task'[q][b] # "none" => task[q][b] # "none" \/ seen[q][b] # None
  BY <1>6 DEF Claim, TypeOK, NoSnapshot
<1>7. ASSUME NEW r \in Runners, NEW a \in Attempts, TaskStep(r, a)
      PROVE  /\ UNCHANGED <<seen, status>>
             /\ task'[q][b] # "none" => task[q][b] # "none"
  <2>1. UNCHANGED <<seen, status>>
    BY <1>7 DEF TaskStep, MarkStarted, LoadSession, SaveSession, RenderBusy,
                RenderSucceeds, TaskThrows, Settle, QueueForRetry, FailTask, TaskDies
  <2>2. /\ task[r][a] # "none"
        /\ \E st \in TaskStates : task' = [task EXCEPT ![r][a] = st]
    BY <1>7 DEF TaskStep, MarkStarted, LoadSession, SaveSession, RenderBusy,
                RenderSucceeds, TaskThrows, Settle, QueueForRetry, FailTask, TaskDies,
                TaskStates
  <2> QED  BY <2>1, <2>2 DEF TypeOK
<1>8. CASE Tick
  <2>1. UNCHANGED <<task, status>>
    BY <1>8 DEF Tick
  <2>2. seen'[q][b] # None => seen[q][b] # None
    BY <1>8 DEF Tick, Dec
  <2> QED  BY <1>1, <2>1, <2>2 DEF CopiesHaveDocs
<1>9. ASSUME \/ \E c \in Clients : ApiStep(c)
             \/ \E r \in Runners : \/ ReapSnapshot(r) \/ ReaperThrows(r)
                                   \/ \E a \in Attempts : Heartbeat(r, a) \/ ReapStep(r, a)
             \/ \E s \in Sessions : EditSession(s)
             \/ \E u \in Users, included \in Plans : RenewPeriod(u, included)
             \/ \E e \in Editors : (\E t \in Sessions : OpenSession(e, t)) \/ SaveOpened(e)
             \/ \E z \in Readers : (\E u \in Users : ReadUsage(z, u)) \/ WriteUsage(z)
      PROVE  UNCHANGED <<seen, task, status>>
  BY <1>9 DEF ApiStep, PrepareChecks, CheckBackpressure, PrepareTx, PersistPending,
              PersistPendingFails, RequestDies, ReapSnapshot, ReaperThrows, Heartbeat,
              ReapStep, ReapNothing, ReapExpired, EditSession, RenewPeriod,
              OpenSession, SaveOpened, ReadUsage, WriteUsage
<1> QED
  BY <1>1, <1>2, <1>3, <1>4, <1>5, <1>6, <1>7, <1>8, <1>9
  DEF CopiesHaveDocs, Next, RunnerStep

-----------------------------------------------------------------------------
(* The session lock *)

(* A step that rewrites one attempt a and the lock of its session keeps every
   other attempt and every other lock as they match each other. *)
LEMMA LocksKept ==
    ASSUME TypeOK, CopiesHaveDocs, SessionLockExact, Next
    PROVE  SessionLockExact'
<1> USE DEF IsActive
<1> DEFINE Held(b) == locks'[docs'[b].session] = [attempt |-> b, state |-> docs'[b].state]
           Live(b) == docs'[b] # None /\ docs'[b].state \in ActiveStates
           Named(s) == locks'[s] # None => /\ Live(locks'[s].attempt)
                                           /\ docs'[locks'[s].attempt].session = s
<1>1. SUFFICES /\ \A b \in Attempts : Live(b) => Held(b)
               /\ \A s \in Sessions : Named(s)
  BY DEF SessionLockExact, ActiveAttemptHoldsLock, LockNamesActiveAttempt, ActiveAttempts
<1>2. /\ \A b \in Attempts : IsActive(b) =>
             locks[docs[b].session] = [attempt |-> b, state |-> docs[b].state]
      /\ \A s \in Sessions : locks[s] # None =>
             /\ IsActive(locks[s].attempt)
             /\ docs[locks[s].attempt].session = s
  BY DEF SessionLockExact, ActiveAttemptHoldsLock, LockNamesActiveAttempt, ActiveAttempts
<1>3. \A b \in Attempts : docs[b] # None => docs[b] \in Attempt /\ docs[b].session \in Sessions
  BY ActiveIsDocument DEF Attempt
<1>4. \A s \in Sessions : locks[s] # None => locks[s].attempt \in Attempts
  BY DEF TypeOK, Lock
<1>locked. ASSUME NEW b \in Attempts, IsActive(b)
       PROVE  locks[docs[b].session] # None
  <2>1. [attempt |-> b, state |-> docs[b].state] \in Lock
    BY <1>locked DEF Lock
  <2> QED  BY <1>2, <1>locked, <2>1, NoneAssumption
<1>one. ASSUME NEW b \in Attempts, NEW c \in Attempts, IsActive(b), IsActive(c),
              docs[b].session = docs[c].session
       PROVE  b = c
  <2>1. [attempt |-> b, state |-> docs[b].state] = [attempt |-> c, state |-> docs[c].state]
    BY <1>2, <1>one
  <2> QED  BY <2>1
<1>5. CASE Quiet
  BY <1>2, <1>5 DEF Quiet
<1>6. ASSUME NEW a \in Attempts, NEW s \in Sessions, NEW est \in Estimates,
             Admits(a, s, est)
      PROVE  (\A b \in Attempts : Live(b) => Held(b)) /\ (\A x \in Sessions : Named(x))
  <2> DEFINE new == NewAttempt(s, est)
  <2>1. /\ new \in Attempt /\ new.state = "queued" /\ new.session = s /\ new # None
        /\ [attempt |-> a, state |-> "queued"] # None
    BY NewAttemptProperties, NoneAssumption DEF Lock, ActiveStates
  <2>2. locks[s] = None
    BY <1>2, <1>6 DEF Admits, MayEnqueue, LockedByOther
  <2>3. \A b \in Attempts : IsActive(b) => b # a /\ docs[b].session # s
    BY <1>locked, <2>2, <1>6 DEF Admits, MayEnqueue
  <2>4. /\ docs'[a] = new /\ locks'[s] = [attempt |-> a, state |-> "queued"]
        /\ \A b \in Attempts \ {a} : docs'[b] = docs[b]
        /\ \A x \in Sessions \ {s} : locks'[x] = locks[x]
    BY <1>6 DEF Admits, TypeOK
  <2> HIDE DEF new
  <2>5. \A b \in Attempts : Live(b) => Held(b)
    BY <1>2, <1>3, <2>1, <2>3, <2>4
  <2>6. \A x \in Sessions : Named(x)
    BY <1>2, <1>4, <2>1, <2>3, <2>4 DEF ActiveStates
  <2> QED  BY <2>5, <2>6
<1>7. ASSUME NEW a \in Attempts, IsActive(a), NEW d \in Attempt, NEW l,
             docs' = [docs EXCEPT ![a] = d], d.session = docs[a].session,
             d.state \in ActiveStates, l = [attempt |-> a, state |-> d.state],
             locks' = [locks EXCEPT ![docs[a].session] = l]
      PROVE  (\A b \in Attempts : Live(b) => Held(b)) /\ (\A x \in Sessions : Named(x))
  <2>1. d # None /\ l # None /\ docs[a].session \in Sessions
    BY <1>3, <1>7, NoneAssumption DEF Lock
  <2>2. \A b \in Attempts \ {a} : IsActive(b) => docs[b].session # docs[a].session
    BY <1>7, <1>one
  <2>3. /\ docs'[a] = d /\ locks'[docs[a].session] = l
        /\ \A b \in Attempts \ {a} : docs'[b] = docs[b]
        /\ \A x \in Sessions \ {docs[a].session} : locks'[x] = locks[x]
    BY <1>7, <2>1 DEF TypeOK
  <2>4. \A b \in Attempts : Live(b) => Held(b)
    BY <1>2, <1>3, <1>7, <2>2, <2>3
  <2>5. \A x \in Sessions : Named(x)
    BY <1>2, <1>4, <1>7, <2>1, <2>2, <2>3
  <2> QED  BY <2>4, <2>5
<1>8. ASSUME NEW r \in Runners, NEW a \in Attempts, Claims(r, a)
      PROVE  (\A b \in Attempts : Live(b) => Held(b)) /\ (\A x \in Sessions : Named(x))
  <2>1. docs[a] \in Attempt /\ IsActive(a)
    BY <1>3, <1>8 DEF Claims, ActiveStates
  <2>2. /\ ClaimedAttempt(docs[a], r) \in Attempt
        /\ ClaimedAttempt(docs[a], r).state = "running"
        /\ ClaimedAttempt(docs[a], r).session = docs[a].session
    BY <2>1, ClaimedAttemptProperties
  <2> QED  BY <1>7, <1>8, <2>1, <2>2 DEF Claims, ActiveStates
<1>9. ASSUME NEW r \in Runners, NEW a \in Attempts, Requeues(r, a)
      PROVE  (\A b \in Attempts : Live(b) => Held(b)) /\ (\A x \in Sessions : Named(x))
  <2>1. docs[a] \in Attempt /\ IsActive(a)
    BY <1>3, <1>9 DEF Requeues, Holds, ActiveStates
  <2>2. /\ RequeuedAttempt(docs[a], r) \in Attempt
        /\ RequeuedAttempt(docs[a], r).state = "queued"
        /\ RequeuedAttempt(docs[a], r).session = docs[a].session
    BY <2>1, RequeuedAttemptProperties
  <2> QED  BY <1>7, <1>9, <2>1, <2>2 DEF Requeues, ActiveStates
<1>10. ASSUME NEW r \in Runners, NEW a \in Attempts, Touches(r, a)
       PROVE  (\A b \in Attempts : Live(b) => Held(b)) /\ (\A x \in Sessions : Named(x))
  <2>1. docs[a] \in Attempt /\ IsActive(a)
    BY <1>3, <1>10 DEF Touches, Holds, ActiveStates
  <2>2. /\ docs' = [docs EXCEPT ![a] = docs'[a]]
        /\ docs'[a] \in Attempt
        /\ docs'[a].state = docs[a].state
        /\ docs'[a].session = docs[a].session
    BY <1>10, TouchProperties
  <2>3. docs'[a] # None /\ locks' = locks
    BY <1>10, <2>2, NoneAssumption DEF Touches
  <2>4. \A b \in Attempts \ {a} : docs'[b] = docs[b]
    BY <2>2 DEF TypeOK
  <2> QED  BY <1>2, <1>4, <2>1, <2>2, <2>3, <2>4
<1>11. ASSUME NEW a \in Attempts, Ends(a)
       PROVE  (\A b \in Attempts : Live(b) => Held(b)) /\ (\A x \in Sessions : Named(x))
  <2>1. docs[a].session \in Sessions
    BY <1>3, <1>11 DEF Ends
  <2>2. PICK d : EndOf(a, d) /\ docs' = [docs EXCEPT ![a] = d]
    BY <1>11 DEF Ends
  <2>3. d.state \notin ActiveStates
    BY <1>11, <2>2, EndOfProperties DEF Ends, ActiveStates, FinalStates
  <2>4. /\ docs'[a] = d /\ locks'[docs[a].session] = None
        /\ \A b \in Attempts \ {a} : docs'[b] = docs[b]
        /\ \A x \in Sessions \ {docs[a].session} : locks'[x] = locks[x]
    BY <1>11, <2>1, <2>2 DEF Ends, TypeOK
  <2>5. \A b \in Attempts \ {a} : IsActive(b) => docs[b].session # docs[a].session
    BY <1>11, <1>one DEF Ends
  <2>6. \A b \in Attempts : Live(b) => Held(b)
    BY <1>2, <1>3, <2>3, <2>4, <2>5
  <2>7. \A x \in Sessions : Named(x)
    BY <1>2, <1>4, <2>4
  <2> QED  BY <2>6, <2>7
<1>12. CASE Ticks
  <2>1. /\ locks' = locks
        /\ \A b \in Attempts : docs[b] = None => docs'[b] = None
        /\ \A b \in Attempts : docs[b] # None =>
               /\ docs'[b] # None
               /\ docs'[b].state = docs[b].state
               /\ docs'[b].session = docs[b].session
    <3>1. \A b \in Attempts : docs'[b] = TickedAttempt(docs[b])
      BY <1>12 DEF Ticks
    <3>2. TickedAttempt(None) = None
      BY DEF TickedAttempt
    <3> QED  BY <1>3, <1>12, <3>1, <3>2, TickedAttemptProperties, NoneAssumption DEF Ticks
  <2> QED  BY <1>2, <1>4, <2>1
<1> HIDE DEF Held, Live, Named
<1> QED
  BY <1>5, <1>6, <1>8, <1>9, <1>10, <1>11, <1>12, StepEffects DEF StepEffect

-----------------------------------------------------------------------------
(* The holder of a job *)

(* A claim finds the attempt queued, so no other worker has a task for it; a
   requeue ends the only task there is. *)
LEMMA HoldersKept ==
    ASSUME TypeOK, CopiesHaveDocs, TaskHoldsAttempt, Next
    PROVE  TaskHoldsAttempt'
<1> USE DEF IsActive
<1> DEFINE Held(q, b) == /\ docs'[b].state = "running"
                         /\ docs'[b].runner = q
           Live(b) == docs'[b] # None /\ docs'[b].state \in ActiveStates
<1> SUFFICES ASSUME NEW q \in Runners, NEW b \in Attempts, task'[q][b] # "none", Live(b)
             PROVE  Held(q, b)
  BY DEF TaskHoldsAttempt
<1>1. task[q][b] # "none" /\ IsActive(b) => docs[b].state = "running" /\ docs[b].runner = q
  BY DEF TaskHoldsAttempt
<1>2. task[q][b] # "none" => docs[b] # None
  BY DEF CopiesHaveDocs
<1>3. CASE Quiet
  BY <1>1, <1>3 DEF Quiet, NoTaskStarts
<1>4. ASSUME NEW a \in Attempts, NEW s \in Sessions, NEW est \in Estimates,
             Admits(a, s, est)
      PROVE  Held(q, b)
  <2>1. task[q][b] # "none" /\ b # a
    BY <1>2, <1>4 DEF Admits, MayEnqueue, NoTaskStarts
  <2>2. docs'[b] = docs[b]
    BY <1>4, <2>1 DEF Admits, TypeOK
  <2> QED  BY <1>1, <2>1, <2>2
<1>5. ASSUME NEW r \in Runners, NEW a \in Attempts, Claims(r, a)
      PROVE  Held(q, b)
  <2>1. docs[a] \in Attempt
    BY <1>5, ActiveIsDocument DEF Claims
  <2>2. CASE b = a
    <3>1. task[q][b] = "none"
      BY <1>1, <1>2, <1>5, <2>2 DEF Claims, ActiveStates
    <3>2. q = r
      BY <1>5, <2>2, <3>1 DEF Claims, TypeOK
    <3>3. docs'[b] = ClaimedAttempt(docs[a], r)
      BY <1>5, <2>2 DEF Claims, TypeOK
    <3> QED  BY <2>1, <3>2, <3>3, ClaimedAttemptProperties
  <2>3. CASE b # a
    <3>1. docs'[b] = docs[b] /\ task'[q][b] = task[q][b]
      BY <1>5, <2>3 DEF Claims, TypeOK
    <3> QED  BY <1>1, <3>1
  <2> QED  BY <2>2, <2>3
<1>6. ASSUME NEW r \in Runners, NEW a \in Attempts, Touches(r, a)
      PROVE  Held(q, b)
  <2>1. /\ docs[a] \in Attempt
        /\ docs' = [docs EXCEPT ![a] = docs'[a]]
        /\ docs'[a].state = docs[a].state
        /\ docs'[a].runner = docs[a].runner
    BY <1>6, TouchProperties
  <2>2. task[q][b] # "none"
    BY <1>6 DEF Touches, NoTaskStarts
  <2>3. docs'[b].state = docs[b].state /\ docs'[b].runner = docs[b].runner
    BY <2>1 DEF TypeOK
  <2> QED  BY <1>1, <1>2, <2>2, <2>3
<1>7. ASSUME NEW r \in Runners, NEW a \in Attempts, Requeues(r, a)
      PROVE  Held(q, b)
  <2>1. task[q][b] # "none" /\ task[r][a] # "none" /\ task'[r][a] = "none"
    BY <1>7 DEF Requeues, NoTaskStarts
  <2>2. b # a
    <3>1. docs[a].runner = r
      BY <1>7, <2>1 DEF Requeues, Holds, TaskHoldsAttempt, ActiveStates
    <3>2. b = a => q = r
      BY <1>1, <1>7, <2>1, <3>1 DEF Requeues, Holds, ActiveStates
    <3> QED  BY <2>1, <3>2
  <2>3. docs'[b] = docs[b]
    BY <1>7, <2>2 DEF Requeues, TypeOK
  <2> QED  BY <1>1, <2>1, <2>3
<1>8. ASSUME NEW a \in Attempts, Ends(a)
      PROVE  Held(q, b)
  <2>1. PICK d : EndOf(a, d) /\ docs' = [docs EXCEPT ![a] = d]
    BY <1>8 DEF Ends
  <2>2. d.state \notin ActiveStates
    BY <1>8, <2>1, EndOfProperties DEF Ends, ActiveStates, FinalStates
  <2>3. b # a /\ docs'[b] = docs[b]
    BY <2>1, <2>2 DEF TypeOK
  <2> QED  BY <1>1, <1>8, <2>3 DEF Ends, NoTaskStarts
<1>9. CASE Ticks
  <2>1. task[q][b] # "none" /\ docs[b] \in Attempt
    BY <1>2, <1>9, ActiveIsDocument DEF Ticks, NoTaskStarts
  <2>2. docs'[b] = TickedAttempt(docs[b])
    BY <1>9 DEF Ticks
  <2> QED  BY <1>1, <1>2, <2>1, <2>2, TickedAttemptProperties
<1> HIDE DEF Held
<1> QED  BY <1>3, <1>4, <1>5, <1>6, <1>7, <1>8, <1>9, StepEffects DEF StepEffect

(* The lineage of an attempt is written together with its state.  A start or a
   heartbeat may name the worker because that worker holds the attempt. *)
LEMMA LineageKept ==
    ASSUME TypeOK, CopiesHaveDocs, TaskHoldsAttempt, LineageMatchesState, Next
    PROVE  LineageMatchesState'
<1> SUFFICES ASSUME NEW b \in Attempts, docs'[b] # None
             PROVE  LineageAgrees(docs'[b])
  BY DEF LineageMatchesState, LineageAgrees, CurrentExecution
<1>1. docs[b] # None => docs[b] \in Attempt /\ LineageAgrees(docs[b])
  BY ActiveIsDocument DEF LineageMatchesState
<1>2. CASE Quiet
  BY <1>1, <1>2 DEF Quiet
<1>3. ASSUME NEW a \in Attempts, NEW s \in Sessions, NEW est \in Estimates,
             Admits(a, s, est)
      PROVE  LineageAgrees(docs'[b])
  <2>1. docs'[b] = IF b = a THEN NewAttempt(s, est) ELSE docs[b]
    BY <1>3 DEF Admits, TypeOK
  <2> QED  BY <1>1, <2>1, NewAttemptProperties
<1>4. ASSUME NEW r \in Runners, NEW a \in Attempts, Claims(r, a)
      PROVE  LineageAgrees(docs'[b])
  <2>1. docs'[b] = IF b = a THEN ClaimedAttempt(docs[a], r) ELSE docs[b]
    BY <1>4 DEF Claims, TypeOK
  <2> QED  BY <1>1, <1>4, <2>1, ClaimedAttemptProperties DEF Claims
<1>5. ASSUME NEW r \in Runners, NEW a \in Attempts, Touches(r, a)
      PROVE  LineageAgrees(docs'[b])
  <2>1. docs[a].runner = r
    BY <1>5 DEF Touches, Holds, TaskHoldsAttempt, IsActive, ActiveStates
  <2>2. docs[a] # None
    BY <1>5 DEF Touches, Holds
  <2>3. docs' = [docs EXCEPT ![a] = docs'[a]]
    BY <1>5, TouchProperties
  <2>4. LineageAgrees(docs[a]) => LineageAgrees(docs'[a])
    BY <1>5, <2>1, TouchProperties
  <2>5. b # a => docs'[b] = docs[b]
    BY <2>3 DEF TypeOK
  <2> QED  BY <1>1, <2>2, <2>4, <2>5
<1>6. ASSUME NEW r \in Runners, NEW a \in Attempts, Requeues(r, a)
      PROVE  LineageAgrees(docs'[b])
  <2>1. docs'[b] = IF b = a THEN RequeuedAttempt(docs[a], r) ELSE docs[b]
    BY <1>6 DEF Requeues, TypeOK
  <2> QED  BY <1>1, <1>6, <2>1, RequeuedAttemptProperties DEF Requeues, Holds
<1>7. ASSUME NEW a \in Attempts, Ends(a)
      PROVE  LineageAgrees(docs'[b])
  <2>1. PICK d : EndOf(a, d) /\ docs' = [docs EXCEPT ![a] = d]
    BY <1>7 DEF Ends
  <2>2. docs'[b] = IF b = a THEN d ELSE docs[b]
    BY <2>1 DEF TypeOK
  <2> QED  BY <1>1, <1>7, <2>1, <2>2, EndOfProperties DEF Ends, IsActive
<1>8. CASE Ticks
  <2>1. docs'[b] = TickedAttempt(docs[b])
    BY <1>8 DEF Ticks
  <2>2. docs[b] # None
    BY <2>1 DEF TickedAttempt
  <2> QED  BY <1>1, <2>1, <2>2, TickedAttemptProperties
<1> QED  BY <1>2, <1>3, <1>4, <1>5, <1>6, <1>7, <1>8, StepEffects DEF StepEffect

(* No step writes a document that has ended. *)
LEMMA TerminalKept ==
    ASSUME TypeOK, CopiesHaveDocs, Next,
           NEW b \in Attempts, docs[b] # None, docs[b].state \in FinalStates
    PROVE  docs'[b] = docs[b]
<1> USE DEF ActiveStates, FinalStates
<1>1. CASE Quiet
  BY <1>1 DEF Quiet
<1>2. ASSUME NEW a \in Attempts, NEW s \in Sessions, NEW est \in Estimates,
             Admits(a, s, est)
      PROVE  docs'[b] = docs[b]
  BY <1>2 DEF Admits, MayEnqueue, TypeOK
<1>3. ASSUME NEW r \in Runners, NEW a \in Attempts, Claims(r, a)
      PROVE  docs'[b] = docs[b]
  BY <1>3 DEF Claims, TypeOK
<1>4. ASSUME NEW r \in Runners, NEW a \in Attempts, Touches(r, a)
      PROVE  docs'[b] = docs[b]
  BY <1>4 DEF Touches, Holds, TypeOK
<1>5. ASSUME NEW r \in Runners, NEW a \in Attempts, Requeues(r, a)
      PROVE  docs'[b] = docs[b]
  BY <1>5 DEF Requeues, Holds, TypeOK
<1>6. ASSUME NEW a \in Attempts, Ends(a)
      PROVE  docs'[b] = docs[b]
  BY <1>6 DEF Ends, IsActive, TypeOK
<1>7. CASE Ticks
  BY <1>7, ActiveIsDocument, TickedAttemptProperties DEF Ticks
<1> QED  BY <1>1, <1>2, <1>3, <1>4, <1>5, <1>6, <1>7, StepEffects DEF StepEffect

-----------------------------------------------------------------------------
(* The inductive invariant and what follows from it. *)

(* The types make the documents readable; CopiesHaveDocs makes what a worker
   writes later land on a document; the other three then hold each other up. *)
IInv ==
    /\ TypeOK
    /\ CopiesHaveDocs
    /\ SessionLockExact
    /\ TaskHoldsAttempt
    /\ LineageMatchesState

(* Nothing has been admitted and no process has started. *)
LEMMA InitIInv == Init => IInv
<1> SUFFICES ASSUME Init PROVE IInv
  OBVIOUS
<1> USE DEF Init
<1>1. TypeOK
  BY LimitsAssumption DEF TypeOK, Ledger, NoSnapshot, NoTasks, NothingHeld, TaskStates
<1>2. CopiesHaveDocs /\ TaskHoldsAttempt
  BY DEF CopiesHaveDocs, TaskHoldsAttempt, NoSnapshot, NoTasks
<1>3. SessionLockExact /\ LineageMatchesState
  BY DEF SessionLockExact, ActiveAttemptHoldsLock, LockNamesActiveAttempt,
         ActiveAttempts, IsActive, LineageMatchesState
<1> QED  BY <1>1, <1>2, <1>3 DEF IInv

(* Every step keeps the invariant. *)
LEMMA NextIInv == IInv /\ [Next]_vars => IInv'
<1> SUFFICES ASSUME IInv, [Next]_vars PROVE IInv'
  OBVIOUS
<1>1. CASE Next
  BY <1>1, TypesKept, CopiesHaveDocsKept, LocksKept, HoldersKept, LineageKept DEF IInv
<1>2. CASE UNCHANGED vars
  BY <1>2 DEF vars, IInv, TypeOK, CopiesHaveDocs, SessionLockExact,
              ActiveAttemptHoldsLock, LockNamesActiveAttempt, ActiveAttempts, IsActive,
              TaskHoldsAttempt, LineageMatchesState, LineageAgrees, CurrentExecution
<1> QED  BY <1>1, <1>2

(* The invariant holds in every reachable state. *)
THEOREM Invariance == Spec => []IInv
BY InitIInv, NextIInv, PTL DEF Spec

(* Documents, locks, ledgers and what the processes hold keep their types. *)
THEOREM TypeCorrect == Spec => []TypeOK
<1>1. IInv => TypeOK
  BY DEF IInv
<1> QED  BY <1>1, Invariance, PTL

(* The lock of a session names exactly its active attempt, in its state: no
   lock is lost, none outlives its job, no session has two active jobs. *)
THEOREM SessionLocks == Spec => []SessionLockExact
<1>1. IInv => SessionLockExact
  BY DEF IInv
<1> QED  BY <1>1, Invariance, PTL

(* The worker with a task for a live job is the runner the job records: no
   live job is executed by two workers. *)
THEOREM OneHolder == Spec => []TaskHoldsAttempt
<1>1. IInv => TaskHoldsAttempt
  BY DEF IInv
<1> QED  BY <1>1, Invariance, PTL

(* The executions of every attempt agree with its state. *)
THEOREM Lineage == Spec => []LineageMatchesState
<1>1. IInv => LineageMatchesState
  BY DEF IInv
<1> QED  BY <1>1, Invariance, PTL

(* An attempt that has ended is never written again. *)
THEOREM TerminalStays == Spec => TerminalIsFinal
<1> DEFINE Stays == \A a \in Attempts :
                       docs[a] # None /\ docs[a].state \in FinalStates => docs'[a] = docs[a]
<1>1. IInv /\ [Next]_vars => [Stays]_vars
  BY TerminalKept DEF IInv, vars
<1> QED  BY <1>1, Invariance, PTL DEF Spec, TerminalIsFinal

-----------------------------------------------------------------------------
(* The backlog *)

CountedStates == {"queued", "claimed", "started", "retry_scheduled"}

(* Every active attempt is counted: no writer leaves an active document in a
   jobState that the backlog query does not ask for. *)
ActiveIsCounted == \A a \in ActiveAttempts : docs[a].jobState \in CountedStates

LEMMA ActiveIsCountedKept ==
    ASSUME TypeOK, CopiesHaveDocs, ActiveIsCounted, Next
    PROVE  ActiveIsCounted'
<1> SUFFICES ASSUME NEW b \in Attempts, IsActive(b)'
             PROVE  docs'[b].jobState \in CountedStates
  BY DEF ActiveIsCounted, ActiveAttempts
<1> USE DEF CountedStates
<1>1. IsActive(b) => docs[b].jobState \in CountedStates /\ docs[b] \in Attempt
  BY ActiveIsDocument DEF ActiveIsCounted, ActiveAttempts, IsActive
<1>2. CASE Quiet
  BY <1>1, <1>2 DEF Quiet, IsActive
<1>3. ASSUME NEW a \in Attempts, NEW s \in Sessions, NEW est \in Estimates,
             Admits(a, s, est)
      PROVE  docs'[b].jobState \in CountedStates
  <2>1. docs'[b] = IF b = a THEN NewAttempt(s, est) ELSE docs[b]
    BY <1>3 DEF Admits, TypeOK
  <2> QED  BY <1>1, <2>1 DEF NewAttempt, IsActive
<1>4. ASSUME NEW r \in Runners, NEW a \in Attempts, Claims(r, a)
      PROVE  docs'[b].jobState \in CountedStates
  <2>1. docs'[b] = IF b = a THEN ClaimedAttempt(docs[a], r) ELSE docs[b]
    BY <1>4 DEF Claims, TypeOK
  <2>2. ClaimedAttempt(docs[a], r).jobState = "claimed"
    BY <1>4, ActiveIsDocument DEF Claims, ClaimedAttempt, Attempt
  <2> QED  BY <1>1, <2>1, <2>2 DEF IsActive
<1>5. ASSUME NEW r \in Runners, NEW a \in Attempts, Touches(r, a)
      PROVE  docs'[b].jobState \in CountedStates
  <2>1. PICK d \in {StartedAttempt(docs[a], r), RenewedAttempt(docs[a], r)} :
           docs' = [docs EXCEPT ![a] = d]
    BY <1>5 DEF Touches
  <2>2. docs'[b] = IF b = a THEN d ELSE docs[b]
    BY <2>1 DEF TypeOK
  <2>3. docs[a] \in Attempt
    BY <1>5, TouchProperties
  <2>4. d.jobState = "started"
    BY <2>3 DEF StartedAttempt, RenewedAttempt, Attempt
  <2> QED  BY <1>1, <2>2, <2>4 DEF IsActive
<1>6. ASSUME NEW r \in Runners, NEW a \in Attempts, Requeues(r, a)
      PROVE  docs'[b].jobState \in CountedStates
  <2>1. docs'[b] = IF b = a THEN RequeuedAttempt(docs[a], r) ELSE docs[b]
    BY <1>6 DEF Requeues, TypeOK
  <2>2. RequeuedAttempt(docs[a], r).jobState = "retry_scheduled"
    BY <1>6, ActiveIsDocument DEF Requeues, Holds, RequeuedAttempt, Attempt
  <2> QED  BY <1>1, <2>1, <2>2 DEF IsActive
<1>7. ASSUME NEW a \in Attempts, Ends(a)
      PROVE  docs'[b].jobState \in CountedStates
  <2>1. PICK d : EndOf(a, d) /\ docs' = [docs EXCEPT ![a] = d]
    BY <1>7 DEF Ends
  <2>2. docs'[b] = IF b = a THEN d ELSE docs[b]
    BY <2>1 DEF TypeOK
  <2>3. d.state \notin ActiveStates
    BY <1>7, <2>1, EndOfProperties DEF Ends, ActiveStates, FinalStates
  <2> QED  BY <1>1, <2>2, <2>3 DEF IsActive
<1>8. CASE Ticks
  <2>1. docs'[b] = TickedAttempt(docs[b])
    BY <1>8 DEF Ticks
  <2>2. docs[b] \in Attempt
    BY <2>1, ActiveIsDocument DEF TickedAttempt, IsActive
  <2>3. IsActive(b) /\ docs'[b].jobState = docs[b].jobState
    <3>1. docs'[b].state = docs[b].state
      BY <2>1, <2>2, TickedAttemptProperties
    <3>2. docs'[b].jobState = docs[b].jobState
      BY <2>1, <2>2 DEF TickedAttempt, Attempt
    <3> QED  BY <2>2, <3>1, <3>2, NoneAssumption DEF IsActive
  <2> QED  BY <1>1, <2>3
<1> QED  BY <1>2, <1>3, <1>4, <1>5, <1>6, <1>7, <1>8, StepEffects DEF StepEffect

(* No process but the API changes what a request has read. *)
LEMMA RequestsKept ==
    ASSUME \/ \E r \in Runners : RunnerStep(r)
           \/ Tick
           \/ \E s \in Sessions : EditSession(s)
           \/ \E u \in Users, included \in Plans : RenewPeriod(u, included)
           \/ \E e \in Editors : (\E s \in Sessions : OpenSession(e, s)) \/ SaveOpened(e)
           \/ \E q \in Readers : (\E u \in Users : ReadUsage(q, u)) \/ WriteUsage(q)
    PROVE  api' = api
<1>1. ASSUME NEW r \in Runners, RunnerStep(r) PROVE api' = api
  BY <1>1 DEF RunnerStep, TaskStep, ReapStep, StartRunner, StopRunner, PollQueue, ReapSnapshot,
              ReaperThrows, PassOver, Claim, Heartbeat, MarkStarted, LoadSession, SaveSession,
              RenderBusy, RenderSucceeds, TaskThrows, Settle, QueueForRetry, FailTask, TaskDies,
              ReapNothing, ReapExpired
<1> QED  BY <1>1 DEF Tick, EditSession, RenewPeriod, OpenSession, SaveOpened, ReadUsage, WriteUsage

(* Only the admission transaction creates a document. *)
LEMMA OnlyAdmissionCreates ==
    ASSUME TypeOK, CopiesHaveDocs, Next, \A c \in Clients : ~PrepareTx(c),
           NEW b \in Attempts, docs[b] = None
    PROVE  docs'[b] = None
<1>1. ASSUME NEW a \in Attempts, NEW st, NEW ex, FinalizeAttemptFailure(a, st, ex)
      PROVE  docs'[b] = None
  BY <1>1 DEF FinalizeAttemptFailure, IsActive, TypeOK
<1>2. ASSUME NEW c \in Clients, ApiStep(c) PROVE docs'[b] = None
  <2>1. CASE PersistPendingFails(c)
    <3>1. api[c].attempt \in Attempts
      BY <2>1 DEF PersistPendingFails, TypeOK, IdleRequest, Waiting
    <3> QED  BY <1>1, <2>1, <3>1 DEF PersistPendingFails
  <2> QED  BY <1>2, <2>1 DEF ApiStep, PrepareChecks, CheckBackpressure, PersistPending, RequestDies
<1>3. ASSUME NEW r \in Runners, RunnerStep(r) PROVE docs'[b] = None
  <2>1. ASSUME NEW a \in Attempts, FailTask(r, a) \/ ReapExpired(r, a) PROVE docs'[b] = None
    BY <1>1, <2>1 DEF FailTask, ReapExpired
  <2>2. ASSUME NEW a \in Attempts, Claim(r, a) PROVE docs'[b] = None
    BY <2>2 DEF Claim, CopiesHaveDocs, TypeOK
  <2>3. ASSUME NEW a \in Attempts,
               Heartbeat(r, a) \/ MarkStarted(r, a) \/ Settle(r, a) \/ QueueForRetry(r, a)
        PROVE  docs'[b] = None
    BY <2>3 DEF Heartbeat, MarkStarted, Settle, QueueForRetry, Holds, IsActive, TypeOK
  <2> QED
    BY <1>3, <2>1, <2>2, <2>3
    DEF RunnerStep, TaskStep, ReapStep, StartRunner, StopRunner, PollQueue, ReapSnapshot,
        ReaperThrows, PassOver, LoadSession, SaveSession, RenderBusy, RenderSucceeds,
        TaskThrows, TaskDies, ReapNothing
<1>4. CASE Tick
  BY <1>4 DEF Tick, TickedAttempt
<1> QED
  BY <1>2, <1>3, <1>4 DEF Next, EditSession, RenewPeriod, OpenSession, SaveOpened, ReadUsage, WriteUsage

(* Nothing becomes active but what an admission creates. *)
LEMMA ActiveKept ==
    ASSUME TypeOK, CopiesHaveDocs, Next, \A c \in Clients : ~PrepareTx(c)
    PROVE  ActiveAttempts' \subseteq ActiveAttempts
<1> SUFFICES ASSUME NEW b \in Attempts, IsActive(b)', ~IsActive(b) PROVE FALSE
  BY DEF ActiveAttempts
<1>1. docs'[b] # docs[b]
  BY DEF IsActive
<1>2. CASE docs[b] = None
  BY <1>2, OnlyAdmissionCreates DEF IsActive
<1>3. CASE docs[b] # None
  <2>1. docs[b].state \in FinalStates
    BY <1>3, ActiveIsDocument DEF Attempt, IsActive
  <2> QED  BY <1>1, <1>3, <2>1, TerminalKept
<1> QED  BY <1>2, <1>3

(* The backlog is the number of active attempts; of what is over the limit,
   each belongs to a request that had passed the check. *)
BacklogInv ==
    /\ IInv
    /\ ActiveIsCounted
    /\ IsFiniteSet(ActiveAttempts)
    /\ BacklogBounded

LEMMA BacklogIsActive ==
    ASSUME ActiveIsCounted
    PROVE  Backlog = Cardinality(ActiveAttempts)
<1>1. ActiveAttempts = {a \in ActiveAttempts :
          docs[a].jobState \in {"queued", "claimed", "started", "retry_scheduled"}}
  BY DEF ActiveIsCounted, CountedStates
<1> QED  BY <1>1 DEF Backlog

LEMMA InitBacklogInv == Init => BacklogInv
<1> SUFFICES ASSUME Init PROVE BacklogInv
  OBVIOUS
<1>1. IInv
  BY InitIInv
<1>2. ActiveAttempts = {} /\ Admitted = {} /\ ActiveIsCounted
  BY DEF Init, ActiveAttempts, IsActive, Admitted, IdleRequest, ActiveIsCounted
<1>3. Cardinality({}) = 0 /\ IsFiniteSet({}) /\ Cardinality(Clients) \in Nat
  BY FS_EmptySet, FS_CardinalityType, ClientsAssumption
<1>4. BacklogBounded
  BY <1>2, <1>3, BacklogIsActive, LimitsAssumption DEF BacklogBounded
<1> QED  BY <1>1, <1>2, <1>3, <1>4 DEF BacklogInv

LEMMA NextBacklogInv == BacklogInv /\ [Next]_vars => BacklogInv'
<1> SUFFICES ASSUME BacklogInv, [Next]_vars PROVE BacklogInv'
  OBVIOUS
<1> DEFINE N == Cardinality(Clients)
<1>0. /\ IInv /\ IInv' /\ TypeOK /\ CopiesHaveDocs
      /\ ActiveIsCounted /\ IsFiniteSet(ActiveAttempts) /\ BacklogBounded
  BY NextIInv DEF BacklogInv, IInv
<1>1. /\ N \in Nat /\ BacklogLimit \in Nat \ {0}
      /\ IsFiniteSet(Admitted) /\ Cardinality(Admitted) \in Nat
      /\ IsFiniteSet(Admitted') /\ Cardinality(Admitted') \in 0..N
      /\ Cardinality(ActiveAttempts) \in Nat
  <2>1. Admitted \subseteq Clients /\ Admitted' \subseteq Clients
    BY DEF Admitted
  <2> QED  BY <1>0, <2>1, FS_Subset, FS_CardinalityType, ClientsAssumption, LimitsAssumption
<1>2. Backlog = Cardinality(ActiveAttempts)
  BY <1>0, BacklogIsActive
<1>3. CASE UNCHANGED vars
  BY <1>0, <1>3 DEF vars, BacklogInv, ActiveIsCounted, ActiveAttempts, IsActive,
                    BacklogBounded, Backlog, Admitted
<1>4. CASE Next
  <2>0. ActiveIsCounted'
    BY <1>0, <1>4, ActiveIsCountedKept
  <2>1. Backlog' = Cardinality(ActiveAttempts')
    <3>1. ActiveAttempts' = {a \in ActiveAttempts' : docs'[a].jobState \in CountedStates}
      BY <2>0 DEF ActiveIsCounted
    <3> QED  BY <3>1 DEF Backlog, CountedStates
  <2>2. ASSUME NEW c \in Clients, PrepareTx(c)
        PROVE  IsFiniteSet(ActiveAttempts') /\ BacklogBounded'
    <3> DEFINE a == api[c].attempt
    <3>1. api[c] \in Waiting /\ a \in Attempts /\ c \in Admitted
      BY <1>0, <2>2 DEF PrepareTx, TypeOK, IdleRequest, Waiting, Admitted
    <3>2. Admitted' = Admitted \ {c}
      BY <1>0, <2>2, <3>1 DEF PrepareTx, TypeOK, Admitted, IdleRequest, Waiting
    <3>3. Cardinality(Admitted') = Cardinality(Admitted) - 1
      BY <1>1, <3>1, <3>2, FS_RemoveElement
    <3>4. ActiveAttempts' \subseteq ActiveAttempts \cup {a}
      <4>1. \A b \in Attempts \ {a} : docs'[b] = docs[b]
        BY <1>0, <2>2 DEF PrepareTx, TypeOK
      <4> HIDE DEF a
      <4> QED  BY <4>1 DEF ActiveAttempts, IsActive
    <3>5. /\ IsFiniteSet(ActiveAttempts \cup {a})
          /\ Cardinality(ActiveAttempts \cup {a}) <= Cardinality(ActiveAttempts) + 1
          /\ Cardinality(ActiveAttempts \cup {a}) \in Nat
      <4>1. /\ IsFiniteSet(ActiveAttempts \cup {a})
            /\ Cardinality(ActiveAttempts \cup {a}) =
                  IF a \in ActiveAttempts THEN Cardinality(ActiveAttempts)
                  ELSE Cardinality(ActiveAttempts) + 1
        BY <1>0, FS_AddElement
      <4> QED  BY <1>1, <4>1
    <3>6. /\ IsFiniteSet(ActiveAttempts')
          /\ Cardinality(ActiveAttempts') <= Cardinality(ActiveAttempts \cup {a})
          /\ Cardinality(ActiveAttempts') \in Nat
      BY <3>4, <3>5, FS_Subset, FS_CardinalityType
    <3> HIDE DEF N, a
    <3> QED  BY <1>0, <1>1, <1>2, <2>1, <3>3, <3>5, <3>6 DEF BacklogBounded, N
  <2>3. ASSUME \A c \in Clients : ~PrepareTx(c)
        PROVE  IsFiniteSet(ActiveAttempts') /\ BacklogBounded'
    <3>1. ActiveAttempts' \subseteq ActiveAttempts
      BY <1>0, <1>4, <2>3, ActiveKept
    <3>2. /\ IsFiniteSet(ActiveAttempts')
          /\ Cardinality(ActiveAttempts') <= Cardinality(ActiveAttempts)
          /\ Cardinality(ActiveAttempts') \in Nat
      BY <1>0, <3>1, FS_Subset, FS_CardinalityType
    <3>3. CASE Admitted' \subseteq Admitted
      <4>1. Cardinality(Admitted') <= Cardinality(Admitted)
        BY <1>1, <3>3, FS_Subset
      <4> HIDE DEF N
      <4> QED  BY <1>0, <1>1, <1>2, <2>1, <3>2, <4>1 DEF BacklogBounded, N
    <3>4. ASSUME NEW c \in Clients, CheckBackpressure(c)
          PROVE  BacklogBounded'
      <4>1. CASE Backlog >= BacklogLimit
        <5>1. Admitted' \subseteq Admitted
          BY <1>0, <3>4, <4>1 DEF CheckBackpressure, TypeOK, Admitted, IdleRequest
        <5> QED  BY <3>3, <5>1
      <4>2. CASE ~(Backlog >= BacklogLimit)
        <5> HIDE DEF N
        <5> QED  BY <1>1, <1>2, <2>1, <3>2, <4>2 DEF BacklogBounded, N
      <4> QED  BY <4>1, <4>2
    <3>5. ASSUME \A c \in Clients : ~CheckBackpressure(c)
          PROVE  Admitted' \subseteq Admitted
      <4>1. ASSUME NEW c \in Clients, ApiStep(c) PROVE Admitted' \subseteq Admitted
        <5>1. ASSUME NEW r, r.pc # "admitted", api' = [api EXCEPT ![c] = r]
              PROVE  Admitted' \subseteq Admitted
          BY <1>0, <5>1 DEF TypeOK, Admitted
        <5>2. ASSUME NEW x, NEW s, NEW est, PrepareChecks(c, x, s, est)
              PROVE  Admitted' \subseteq Admitted
          BY <5>1, <5>2 DEF PrepareChecks
        <5>3. CASE PersistPending(c) \/ PersistPendingFails(c) \/ RequestDies(c)
          BY <5>1, <5>3 DEF PersistPending, PersistPendingFails, RequestDies, IdleRequest
        <5> QED  BY <2>3, <3>5, <4>1, <5>2, <5>3 DEF ApiStep
      <4>2. CASE api' = api
        BY <4>2 DEF Admitted
      <4> QED  BY <1>4, <4>1, <4>2, RequestsKept DEF Next
    <3> QED  BY <3>2, <3>3, <3>4, <3>5
  <2> QED  BY <1>0, <2>0, <2>2, <2>3 DEF BacklogInv
<1> QED  BY <1>3, <1>4

(* The backlog stays below its limit, but for the requests that passed the
   check together. *)
THEOREM Backpressure == Spec => []BacklogBounded
<1>1. BacklogInv => BacklogBounded
  BY DEF BacklogInv
<1> QED  BY <1>1, InitBacklogInv, NextBacklogInv, PTL DEF Spec
=============================================================================
