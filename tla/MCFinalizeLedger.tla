-------------------------- MODULE MCFinalizeLedger --------------------------
(***************************************************************************)
(* Small instances, for TLC, of the books kept of finalize attempts: the   *)
(* usage ledger, without a usage summary and with one, the counters of     *)
(* requests and jobs, and the dashboard that is drawn from the queue.  A   *)
(* behaviour is one of one part, chosen at the start, the others at rest.  *)
(***************************************************************************)
EXTENDS MCFinalizeAttempts, FinalizeMetrics, ControlRoom

VARIABLE part

MCMachineOf == [t \in Threads |-> IF t \in Asked THEN "api" ELSE "worker"]

MCRanges ==
    [depth |-> [green |-> 0, yellow |-> 1], age |-> [green |-> 0, yellow |-> 0],
     retries |-> [green |-> 0, yellow |-> 1]]

(* The dashboard is opened with one job running, the other still to come. *)
AtWork ==
    /\ \A s \in Slots : renders[s] = GrantTime
    /\ \E t, u \in Tasks : work[t].state = "none" /\ work[u].state = "running"

BooksInit ==
    /\ part \in {"ledger", "summary", "counters", "dashboard"}
    /\ Init
    /\ MetricsInit
    /\ RoomInit
    /\ part = "dashboard" => AtWork
    /\ part # "dashboard" =>
           /\ bands = "absent"
           /\ \A s \in Slots : renders[s] = 0
           /\ \A t \in Tasks : work[t].state = "none"

(* Every load was shown, and all changes of the bound have happened. *)
RoomDone ==
    /\ clock = MaxClock /\ changes = MaxChanges
    /\ \A l \in Loads : load[l].at = "shown"
    /\ UNCHANGED roomVars

(* What changes while answers are put together matters to each of them alone: one
   of them at most is under way then. *)
OneIsChanged ==
    <<clock, changes>>' # <<clock, changes>> =>
        Cardinality({l \in Loads : load[l].at \notin {"idle", "shown"}}) <= 1

BooksNext ==
    /\ \/ part = "ledger" /\ Next /\ UNCHANGED <<summary, metricsVars, roomVars>>
       \/ part = "summary" /\ Next /\ MeetsSummary /\ UNCHANGED <<metricsVars, roomVars>>
       \/ part = "counters" /\ MetricsNext /\ UNCHANGED <<vars, roomVars>>
       \/ /\ part = "dashboard"
          /\ (RoomNext /\ OneIsChanged) \/ RoomDone
          /\ UNCHANGED <<vars, metricsVars>>
    /\ UNCHANGED part

BooksSpec == BooksInit /\ [][BooksNext]_<<part, vars, metricsVars, roomVars>>

(* The parts share the keys, which are interchangeable, and so are sessions. *)
BooksSymmetry == Symmetric \cup Permutations(Sessions)
=============================================================================
