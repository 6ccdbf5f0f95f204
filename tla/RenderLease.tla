---------------------------- MODULE RenderLease ----------------------------
(***************************************************************************)
(* The two limits on concurrent renders: the lease slots that all worker   *)
(* processes share in Firestore (finalize-control.service.js) and the      *)
(* counter inside one process (render.semaphore.js).                       *)
(*                                                                         *)
(* Only the choice of a slot is a transaction.  Expired slots are reaped,  *)
(* heartbeats renew and holders release by a read and a later write, each  *)
(* a step of its own here.  Expiry times are countdowns: the time left.    *)
(***************************************************************************)
EXTENDS Integers, FiniteSets

CONSTANTS
    Owners,      \* executions of finalize attempts, each rendering once
    Procs,       \* worker processes; a process that crashes is started again
    Limit,       \* getSharedRenderLimit()
    LocalLimit,  \* MAX_CONCURRENT_RENDERS
    LeaseTime,   \* getSharedRenderLeaseMs()
    Slack,       \* bound of the model: how long acquiring a slot may take
    None         \* null

ASSUME LimitsAreNat == Limit \in Nat /\ LocalLimit \in Nat
ASSUME TimesAreNat == LeaseTime \in Nat \ {0} /\ Slack \in Nat
ASSUME NoneIsNoOwner == None \notin Owners \cup Procs \cup Int

VARIABLES
    slot,           \* finalizeControlRenderSlots: who leases each slot, for how long
    pc,             \* where withSharedFinalizeRenderLease stands for each owner
    proc,           \* the process an owner runs in
    due,            \* an acquisition's leaseExpiresAt, fixed when it begins
    wipe,           \* expired slots an acquisition has read and will reset
    got,            \* the slot an owner was granted
    beat,           \* a heartbeat between its read and its write
    activeRenders,  \* the counter of each process
    lapsed          \* history: the slots a lease has ever run out on

vars == <<slot, pc, proc, due, wipe, got, beat, activeRenders, lapsed>>

Slots == 1..Limit
Free == [owner |-> None, left |-> 0]
Holding == {"granted", "rendering", "releasing", "freeing"}
Lease == [owner : Owners \cup {None}, left : -Slack..LeaseTime]
Beat == [slot : Slots, left : -Slack..LeaseTime]

-----------------------------------------------------------------------------

(* leaseExpiresAtMs > now, for a lease as it stands *)
Expired(s) == slot[s].owner # None /\ slot[s].left <= 0

(* isRenderLeaseActive with the time an acquisition took when it began,
   which was LeaseTime - due[o] ago *)
ActiveFor(o, s) == slot[s].owner # None /\ slot[s].left > due[o] - LeaseTime

(* Mutant: a slot counts as free when it is not the owner's. *)
CandidatesAnyOther(o) == {s \in Slots : slot[s].owner # o}

(* The owner's own slot if it has an active one, else the inactive ones; the
   first of them is taken. *)
Candidates(o) ==
    LET own == {s \in Slots : slot[s].owner = o /\ ActiveFor(o, s)}
    IN  IF own # {} THEN own ELSE {s \in Slots : ~ActiveFor(o, s)}

IsFirst(s, S) == s \in S /\ \A t \in S : s <= t

OwnedBy(o) == {s \in Slots : slot[s].owner = o}

RecordLapses == lapsed' = lapsed \cup {s \in Slots : Expired(s)'}

-----------------------------------------------------------------------------
(* acquireSharedRenderLease *)

(* The time is taken and the slots are read: reapExpiredSharedRenderLeases
   will reset those whose lease has run out. *)
ReadSlots(o, p) ==
    /\ pc[o] = "idle"
    /\ pc' = [pc EXCEPT ![o] = "reaping"]
    /\ proc' = [proc EXCEPT ![o] = p]
    /\ due' = [due EXCEPT ![o] = LeaseTime]
    /\ wipe' = [wipe EXCEPT ![o] = {s \in Slots : Expired(s)}]
    /\ UNCHANGED <<slot, got, beat, activeRenders, lapsed>>

(* updateExpiredRenderSlot writes without reading the slot again. *)
WipeSlot(o, s) ==
    /\ pc[o] = "reaping"
    /\ s \in wipe[o]
    /\ slot' = [slot EXCEPT ![s] = Free]
    /\ wipe' = [wipe EXCEPT ![o] = @ \ {s}]
    /\ UNCHANGED <<pc, proc, due, got, beat, activeRenders, lapsed>>

Acquire(o) ==
    /\ pc[o] = "reaping"
    /\ wipe[o] = {}
    /\ \E s \in Slots :
           /\ IsFirst(s, Candidates(o))
           /\ slot' = [slot EXCEPT ![s] = [owner |-> o, left |-> due[o]]]
           /\ got' = [got EXCEPT ![o] = s]
    /\ pc' = [pc EXCEPT ![o] = "granted"]
    /\ due' = [due EXCEPT ![o] = LeaseTime]
    /\ RecordLapses
    /\ UNCHANGED <<proc, wipe, beat, activeRenders>>

(* No slot is free: SERVER_BUSY, and the job is queued again. *)
FindNoSlot(o) ==
    /\ pc[o] = "reaping"
    /\ wipe[o] = {}
    /\ Candidates(o) = {}
    /\ pc' = [pc EXCEPT ![o] = "ended"]
    /\ due' = [due EXCEPT ![o] = LeaseTime]
    /\ UNCHANGED <<slot, proc, wipe, got, beat, activeRenders, lapsed>>

(* A read or write throws; also a capacity snapshot for the control room,
   which reaps and then acquires nothing. *)
AcquireThrows(o) ==
    /\ pc[o] = "reaping"
    /\ pc' = [pc EXCEPT ![o] = "ended"]
    /\ due' = [due EXCEPT ![o] = LeaseTime]
    /\ wipe' = [wipe EXCEPT ![o] = {}]
    /\ UNCHANGED <<slot, proc, got, beat, activeRenders, lapsed>>

-----------------------------------------------------------------------------
(* withRenderSlot: the counter of the process *)

(* Mutant: off by one, the limit is let in once more. *)
EnterPastLimit(o) ==
    /\ pc[o] = "granted"
    /\ IF activeRenders[proc[o]] > LocalLimit
       THEN /\ pc' = [pc EXCEPT ![o] = "releasing"]
            /\ UNCHANGED activeRenders
       ELSE /\ pc' = [pc EXCEPT ![o] = "rendering"]
            /\ activeRenders' = [activeRenders EXCEPT ![proc[o]] = @ + 1]
    /\ UNCHANGED <<slot, proc, due, wipe, got, beat, lapsed>>

EnterRender(o) ==
    /\ pc[o] = "granted"
    /\ IF activeRenders[proc[o]] >= LocalLimit
       THEN /\ pc' = [pc EXCEPT ![o] = "releasing"]
            /\ UNCHANGED activeRenders
       ELSE /\ pc' = [pc EXCEPT ![o] = "rendering"]
            /\ activeRenders' = [activeRenders EXCEPT ![proc[o]] = @ + 1]
    /\ UNCHANGED <<slot, proc, due, wipe, got, beat, lapsed>>

(* Mutant: the counter is not given back when the render throws. *)
LeaveWithoutDecrement(o) ==
    /\ pc[o] = "rendering"
    /\ pc' = [pc EXCEPT ![o] = "releasing"]
    /\ UNCHANGED <<slot, proc, due, wipe, got, beat, activeRenders, lapsed>>

(* The render returns or throws; the heartbeat timer is cleared. *)
LeaveRender(o) ==
    /\ pc[o] = "rendering"
    /\ pc' = [pc EXCEPT ![o] = "releasing"]
    /\ activeRenders' = [activeRenders EXCEPT ![proc[o]] = @ - 1]
    /\ UNCHANGED <<slot, proc, due, wipe, got, beat, lapsed>>

-----------------------------------------------------------------------------
(* releaseSharedRenderLease *)

ReleaseRead(o) ==
    /\ pc[o] = "releasing"
    /\ IF OwnedBy(o) = {}
       THEN /\ pc' = [pc EXCEPT ![o] = "ended"]
            /\ UNCHANGED got
       ELSE /\ pc' = [pc EXCEPT ![o] = "freeing"]
            /\ \E s \in Slots : IsFirst(s, OwnedBy(o)) /\ got' = [got EXCEPT ![o] = s]
    /\ UNCHANGED <<slot, proc, due, wipe, beat, activeRenders, lapsed>>

(* Whoever leases the slot by now. *)
ReleaseWrite(o) ==
    /\ pc[o] = "freeing"
    /\ slot' = [slot EXCEPT ![got[o]] = Free]
    /\ pc' = [pc EXCEPT ![o] = "ended"]
    /\ UNCHANGED <<proc, due, wipe, got, beat, activeRenders, lapsed>>

(* The error is swallowed and the slot stays leased. *)
ReleaseThrows(o) ==
    /\ pc[o] \in {"releasing", "freeing"}
    /\ pc' = [pc EXCEPT ![o] = "ended"]
    /\ UNCHANGED <<slot, proc, due, wipe, got, beat, activeRenders, lapsed>>

-----------------------------------------------------------------------------
(* heartbeatSharedRenderLease, at most one of an owner at a time *)

(* Mutant: the timer is never cleared. *)
HeartbeatReadForEver(o) ==
    /\ pc[o] # "idle"
    /\ beat[o] = None
    /\ \E s \in Slots :
           /\ IsFirst(s, OwnedBy(o))
           /\ beat' = [beat EXCEPT ![o] = [slot |-> s, left |-> LeaseTime]]
    /\ UNCHANGED <<slot, pc, proc, due, wipe, got, activeRenders, lapsed>>

HeartbeatRead(o) ==
    /\ pc[o] \in {"granted", "rendering"}
    /\ beat[o] = None
    /\ \E s \in Slots :
           /\ IsFirst(s, OwnedBy(o))
           /\ beat' = [beat EXCEPT ![o] = [slot |-> s, left |-> LeaseTime]]
    /\ UNCHANGED <<slot, pc, proc, due, wipe, got, activeRenders, lapsed>>

(* The new expiry is merged into the slot whoever leases it by now; on a slot
   nobody leases it has no effect. *)
HeartbeatWrite(o) ==
    /\ beat[o] # None
    /\ slot' = [slot EXCEPT ![beat[o].slot] =
                   IF @.owner = None THEN @ ELSE [@ EXCEPT !.left = beat[o].left]]
    /\ beat' = [beat EXCEPT ![o] = None]
    /\ RecordLapses
    /\ UNCHANGED <<pc, proc, due, wipe, got, activeRenders>>

HeartbeatFails(o) ==
    /\ beat[o] # None
    /\ beat' = [beat EXCEPT ![o] = None]
    /\ UNCHANGED <<slot, pc, proc, due, wipe, got, activeRenders, lapsed>>

-----------------------------------------------------------------------------

(* The process and everything in its memory is gone; its slots stay. *)
Crash(p) ==
    /\ \E o \in Owners : proc[o] = p /\ pc[o] # "ended"
    /\ pc' = [o \in Owners |-> IF proc[o] = p THEN "ended" ELSE pc[o]]
    /\ due' = [o \in Owners |-> IF proc[o] = p THEN LeaseTime ELSE due[o]]
    /\ wipe' = [o \in Owners |-> IF proc[o] = p THEN {} ELSE wipe[o]]
    /\ beat' = [o \in Owners |-> IF proc[o] = p THEN None ELSE beat[o]]
    /\ activeRenders' = [activeRenders EXCEPT ![p] = 0]
    /\ UNCHANGED <<slot, proc, got, lapsed>>

Later(left) == IF left = -Slack THEN left ELSE left - 1

(* Bound of the model: an acquisition takes no longer than Slack. *)
Tick ==
    /\ \A o \in Owners : pc[o] = "reaping" => due[o] > LeaseTime - Slack
    /\ slot' = [s \in Slots |-> IF slot[s].owner = None THEN slot[s]
                                ELSE [slot[s] EXCEPT !.left = Later(@)]]
    /\ due' = [o \in Owners |-> IF pc[o] = "reaping" THEN due[o] - 1 ELSE due[o]]
    /\ beat' = [o \in Owners |-> IF beat[o] = None THEN None
                                 ELSE [beat[o] EXCEPT !.left = Later(@)]]
    /\ RecordLapses
    /\ UNCHANGED <<pc, proc, wipe, got, activeRenders>>

Init ==
    /\ slot = [s \in Slots |-> Free]
    /\ pc = [o \in Owners |-> "idle"]
    /\ proc = [o \in Owners |-> None]
    /\ due = [o \in Owners |-> LeaseTime]
    /\ wipe = [o \in Owners |-> {}]
    /\ got = [o \in Owners |-> None]
    /\ beat = [o \in Owners |-> None]
    /\ activeRenders = [p \in Procs |-> 0]
    /\ lapsed = {}

AcquireStep(o) ==
    \/ \E s \in Slots : WipeSlot(o, s)
    \/ Acquire(o)
    \/ FindNoSlot(o)
    \/ AcquireThrows(o)

OwnerStep(o) ==
    \/ \E p \in Procs : ReadSlots(o, p)
    \/ AcquireStep(o)
    \/ EnterRender(o)
    \/ LeaveRender(o)
    \/ ReleaseRead(o)
    \/ ReleaseWrite(o)
    \/ ReleaseThrows(o)
    \/ HeartbeatRead(o)
    \/ HeartbeatWrite(o)
    \/ HeartbeatFails(o)

Next ==
    \/ \E o \in Owners : OwnerStep(o)
    \/ \E p \in Procs : Crash(p)
    \/ Tick

Spec == Init /\ [][Next]_vars

(* Time passes, and the calls of an acquisition return or throw. *)
Fairness == WF_vars(Tick) /\ \A o \in Owners : WF_vars(AcquireStep(o))

FairSpec == Spec /\ Fairness

-----------------------------------------------------------------------------
(* Properties *)

Rendering == {o \in Owners : pc[o] = "rendering"}

(* Every variable keeps its type. *)
TypeOK ==
    /\ slot \in [Slots -> Lease]
    /\ pc \in [Owners -> Holding \cup {"idle", "reaping", "ended"}]
    /\ proc \in [Owners -> Procs \cup {None}]
    /\ due \in [Owners -> LeaseTime - Slack..LeaseTime]
    /\ wipe \in [Owners -> SUBSET Slots]
    /\ got \in [Owners -> Slots \cup {None}]
    /\ beat \in [Owners -> Beat \cup {None}]
    /\ activeRenders \in [Procs -> 0..LocalLimit]
    /\ lapsed \subseteq Slots

(* A slot nobody has ever let run out still names the owner it was granted to,
   from the grant to the release: late heartbeats, late releases and stale
   reaping by others do not take it away. *)
SlotKeptUntilLapse ==
    \A o \in Owners :
        pc[o] \in Holding /\ got[o] \notin lapsed => slot[got[o]].owner = o

(* Until a lease has run out for the first time, all processes together render
   no more than the shared limit. *)
LimitUntilLapse == lapsed = {} => Cardinality(Rendering) <= Limit

(* The counter of a process is the number of its renders, on every path out of
   a render and after a crash, and stays within the local limit. *)
CounterExact ==
    \A p \in Procs :
        /\ activeRenders[p] = Cardinality({o \in Rendering : proc[o] = p})
        /\ activeRenders[p] <= LocalLimit

(* No capacity is lost: the slot of an owner that has ended, crashed or failed
   to release it, does not stay leased for ever. *)
Abandoned(s) == slot[s].owner # None /\ pc[slot[s].owner] = "ended" /\ ~Expired(s)

SlotComesBack == \A s \in Slots : Abandoned(s) ~> ~Abandoned(s)

(* Every owner that is alive renews its lease before it runs out. *)
Punctual ==
    \A s \in Slots : slot[s].owner # None /\ pc[slot[s].owner] \in Holding => ~Expired(s)

PunctualSpec == Init /\ [][Next /\ Punctual']_vars

(* "two worker identities cannot exceed the configured shared render limit" *)
SharedLimit == Cardinality(Rendering) <= Limit
=============================================================================
