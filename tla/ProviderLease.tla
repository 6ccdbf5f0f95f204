--------------------------- MODULE ProviderLease ---------------------------
(***************************************************************************)
(* How executions of finalize jobs, in several processes, are admitted to  *)
(* the providers they share: OpenAI, the search for clips and the speech   *)
(* synthesis.  A call takes a lease on one of the provider's slots in      *)
(* Firestore, then a place in its process, and gives both back.  No        *)
(* heartbeat renews such a lease: a call longer than it goes on without.   *)
(*                                                                         *)
(* Reaping, releasing and clearing a cooldown are reads and later writes;  *)
(* a slot is chosen and a failure is counted in a transaction, with the    *)
(* clock read before it.  Instants are the time left, negative when over.  *)
(***************************************************************************)
EXTENDS Integers, FiniteSets

CONSTANTS
    Callers,       \* executions of finalize attempts: the owners of leases
    Workers,       \* processes
    Providers,     \* PROVIDER_KEYS
    SlotLimit,     \* [Providers -> Nat]: slots that all processes share
    LocalLimit,    \* [Providers -> Nat]: calls at a time in one process
    Tts,           \* the kind that synthesizes speech: its calls wait for a place
    Gap,           \* [Providers -> Nat]: minGapMs between admissions, 0 for none
    CallLease,     \* getSharedProviderLeaseMs()
    QuotaCooldown, \* cooldown of a provider whose quota is used up
    Delay,         \* bound of the model: from reading the clock to the commit
    Nobody         \* null

ASSUME LimitsPositive == \A k \in Providers : SlotLimit[k] \in Nat \ {0} /\ LocalLimit[k] \in Nat \ {0}
ASSUME TimesPositive ==
    /\ CallLease \in Nat \ {0} /\ QuotaCooldown \in Nat \ {0} /\ Delay \in Nat
    /\ Gap \in [Providers -> Nat]
ASSUME NobodyCalls == Nobody \notin Callers

VARIABLES
    lease,    \* finalizeControlProviderSlots; history: whether it was left behind
    state,    \* finalizeControlProviderStates: cooldownUntil, nextAllowedAt
    call,     \* where the call of each execution stands
    busy,     \* places taken in each process
    blocked,  \* quotaBlockedUntil of each process
    quiet     \* history: time since the last admission to each provider

leaseVars == <<lease, state, call, busy, blocked, quiet>>

Over == -Delay
NoLease == [owner |-> Nobody, left |-> Over, forgotten |-> FALSE]
IdleCall == [at |-> "idle", kind |-> Nobody, home |-> Nobody, age |-> 0, reset |-> {}, slot |-> 0]
Calm == [cooldown |-> Over, next |-> Over]

SlotsOf(k) == 1..SlotLimit[k]
Later(t) == IF t > Over THEN t - 1 ELSE t

(* isProviderLeaseActive, by a clock read age ago *)
ActiveAt(l, age) == l.owner # Nobody /\ l.left + age > 0

Step(c, at) == call' = [call EXCEPT ![c].at = at]
Ended(c) == call' = [call EXCEPT ![c] = [IdleCall EXCEPT !.home = call[c].home]]

LeaseInit ==
    /\ lease = [k \in Providers |-> [i \in SlotsOf(k) |-> NoLease]]
    /\ state = [k \in Providers |-> Calm]
    /\ call = [c \in Callers |-> IdleCall]
    /\ busy = [w \in Workers |-> [k \in Providers |-> 0]]
    /\ blocked = [w \in Workers |-> Over]
    /\ quiet = Gap

-----------------------------------------------------------------------------
(* tryAcquireSharedProviderLease *)

(* The clock and the slots are read.  An execution stays in its process. *)
Ask(c, w, k) ==
    /\ call[c].at = "idle"
    /\ call[c].home \in {Nobody, w}
    /\ k = Tts => blocked[w] <= 0 /\ state[k].cooldown <= 0
    /\ call' = [call EXCEPT ![c] =
           [@ EXCEPT !.at = "asking", !.kind = k, !.home = w,
                     !.reset = {i \in SlotsOf(k) : lease[k][i].owner # Nobody /\ ~ActiveAt(lease[k][i], 0)}]]
    /\ UNCHANGED <<lease, state, busy, blocked, quiet>>

(* updateExpiredProviderSlot writes without reading the slot again. *)
ResetExpired(c, i) ==
    /\ call[c].at = "asking"
    /\ i \in call[c].reset
    /\ lease' = [lease EXCEPT ![call[c].kind][i] = NoLease]
    /\ call' = [call EXCEPT ![c].reset = @ \ {i}]
    /\ UNCHANGED <<state, busy, blocked, quiet>>

(* Mutant: a call is let in before the gap is over. *)
AdmitsEarly(c) ==
    LET now == state[call[c].kind]
    IN  now.cooldown + call[c].age <= 0 /\ now.next <= 1

(* Neither cooling down nor throttled, by the clock read before *)
Admits(c) ==
    LET now == state[call[c].kind]
    IN  now.cooldown + call[c].age <= 0 /\ now.next + call[c].age <= 0

(* The slots to take the first of: the owner's own active one, else the free ones *)
Open(c) ==
    LET k == call[c].kind
        own == {i \in SlotsOf(k) : lease[k][i].owner = c /\ ActiveAt(lease[k][i], call[c].age)}
    IN  IF own # {} THEN own
        ELSE {i \in SlotsOf(k) : ~ActiveAt(lease[k][i], call[c].age)}

Acquired(c) ==
    /\ call[c].at = "asking"
    /\ call[c].reset = {}
    /\ Admits(c)
    /\ \E i \in Open(c) :
           /\ \A j \in Open(c) : i <= j
           /\ lease' = [lease EXCEPT ![call[c].kind][i] =
                            [owner |-> c, left |-> CallLease - call[c].age, forgotten |-> FALSE]]
    /\ state' = [state EXCEPT ![call[c].kind].next =
                     IF Gap[call[c].kind] > 0 THEN Gap[call[c].kind] - call[c].age ELSE Over]
    /\ call' = [call EXCEPT ![c].at = "admitted", ![c].age = 0]
    /\ quiet' = [quiet EXCEPT ![call[c].kind] = 0]
    /\ UNCHANGED <<busy, blocked>>

(* Cooldown, throttled, busy, or a read or write throws: the call fails. *)
NotAcquired(c) ==
    /\ call[c].at = "asking"
    /\ Ended(c)
    /\ UNCHANGED <<lease, state, busy, blocked, quiet>>

-----------------------------------------------------------------------------
(* withOpenAiAdmission, withStorySearchAdmission, withTtsSlot *)

HasPlace(c) == busy[call[c].home][call[c].kind] < LocalLimit[call[c].kind]

Enter(c) ==
    /\ call[c].at = "admitted"
    /\ HasPlace(c)
    /\ busy' = [busy EXCEPT ![call[c].home][call[c].kind] = @ + 1]
    /\ Step(c, "calling")
    /\ UNCHANGED <<lease, state, blocked, quiet>>

(* Mutant: the refusal forgets the lease. *)
RefuseAtOnce(c) ==
    /\ call[c].at = "admitted"
    /\ ~HasPlace(c)
    /\ call[c].kind # Tts
    /\ Ended(c)
    /\ UNCHANGED <<lease, state, busy, blocked, quiet>>

(* The process is at its own limit: the lease is given back. *)
Refuse(c) ==
    /\ call[c].at = "admitted"
    /\ ~HasPlace(c)
    /\ call[c].kind # Tts
    /\ Step(c, "releasing")
    /\ UNCHANGED <<lease, state, busy, blocked, quiet>>

Leaves(c) ==
    /\ busy' = [busy EXCEPT ![call[c].home][call[c].kind] = @ - 1]
    /\ call' = [call EXCEPT ![c].at = "releasing", ![c].age = 0]

(* An answer or an error of no consequence for the provider's state *)
Returns(c) ==
    /\ call[c].at \in {"calling", "succeeded", "spent"}
    /\ Leaves(c)
    /\ UNCHANGED <<lease, state, blocked, quiet>>

(* fetchWithRetry: speech arrives, to be recorded by markFinalizeTtsSuccess *)
Succeeds(c) ==
    /\ call[c].at = "calling"
    /\ call[c].kind = Tts
    /\ Step(c, "succeeded")
    /\ UNCHANGED <<lease, state, busy, blocked, quiet>>

MarkSuccess(c) ==
    /\ call[c].at = "succeeded"
    /\ state' = [state EXCEPT ![call[c].kind].cooldown = Over]
    /\ Leaves(c)
    /\ UNCHANGED <<lease, blocked, quiet>>

(* insufficient_quota: this process stops asking at once. *)
QuotaUsedUp(c) ==
    /\ call[c].at = "calling"
    /\ call[c].kind = Tts
    /\ blocked' = [blocked EXCEPT ![call[c].home] = QuotaCooldown]
    /\ Step(c, "spent")
    /\ UNCHANGED <<lease, state, busy, quiet>>

(* markFinalizeTtsQuotaCooldown: a transaction, with the clock read before *)
MarkQuota(c) ==
    /\ call[c].at = "spent"
    /\ state' = [state EXCEPT ![call[c].kind].cooldown = QuotaCooldown - call[c].age]
    /\ Leaves(c)
    /\ UNCHANGED <<lease, blocked, quiet>>

-----------------------------------------------------------------------------
(* releaseSharedProviderLease *)

OwnSlots(c) == {i \in SlotsOf(call[c].kind) : lease[call[c].kind][i].owner = c}

(* The query: the first slot leased to this owner, if it still has one *)
FindOwn(c) ==
    /\ call[c].at = "releasing"
    /\ IF OwnSlots(c) = {}
       THEN Ended(c)
       ELSE \E i \in OwnSlots(c) :
                /\ \A j \in OwnSlots(c) : i <= j
                /\ call' = [call EXCEPT ![c].at = "freeing", ![c].slot = i]
    /\ UNCHANGED <<lease, state, busy, blocked, quiet>>

FreeOwn(c) ==
    /\ call[c].at = "freeing"
    /\ lease' = [lease EXCEPT ![call[c].kind][call[c].slot] = NoLease]
    /\ Ended(c)
    /\ UNCHANGED <<state, busy, blocked, quiet>>

(* What these executions hold nobody gives back. *)
Forgotten(callers) ==
    [k \in Providers |-> [i \in SlotsOf(k) |->
        IF lease[k][i].owner \in callers THEN [lease[k][i] EXCEPT !.forgotten = TRUE]
        ELSE lease[k][i]]]

(* .catch(() => false) *)
ReleaseFails(c) ==
    /\ call[c].at \in {"releasing", "freeing"}
    /\ lease' = Forgotten({c})
    /\ Ended(c)
    /\ UNCHANGED <<state, busy, blocked, quiet>>

(* A process dies; its executions are not resumed. *)
WorkerDies(w) ==
    /\ lease' = Forgotten({c \in Callers : call[c].home = w})
    /\ call' = [c \in Callers |-> IF call[c].home = w THEN [IdleCall EXCEPT !.at = "dead"] ELSE call[c]]
    /\ busy' = [busy EXCEPT ![w] = [k \in Providers |-> 0]]
    /\ blocked' = [blocked EXCEPT ![w] = Over]
    /\ UNCHANGED <<state, quiet>>

LeaseTick ==
    /\ \A c \in Callers : call[c].age < Delay \/ call[c].at \notin {"asking", "spent"}
    /\ lease' = [k \in Providers |-> [i \in SlotsOf(k) |-> [lease[k][i] EXCEPT !.left = Later(@)]]]
    /\ state' = [k \in Providers |-> [cooldown |-> Later(state[k].cooldown), next |-> Later(state[k].next)]]
    /\ blocked' = [w \in Workers |-> Later(blocked[w])]
    /\ call' = [c \in Callers |->
           IF call[c].at \in {"asking", "spent"} THEN [call[c] EXCEPT !.age = @ + 1] ELSE call[c]]
    /\ quiet' = [k \in Providers |-> IF quiet[k] < Gap[k] THEN quiet[k] + 1 ELSE Gap[k]]
    /\ UNCHANGED busy

CallerStep(c) ==
    \/ \E w \in Workers, k \in Providers : Ask(c, w, k)
    \/ \E i \in call[c].reset : ResetExpired(c, i)
    \/ Acquired(c) \/ NotAcquired(c)
    \/ Enter(c) \/ Refuse(c) \/ Returns(c)
    \/ Succeeds(c) \/ MarkSuccess(c) \/ QuotaUsedUp(c) \/ MarkQuota(c)
    \/ FindOwn(c) \/ FreeOwn(c) \/ ReleaseFails(c)

LeaseNext ==
    \/ \E c \in Callers : CallerStep(c)
    \/ \E w \in Workers : WorkerDies(w)
    \/ LeaseTick

LeaseSpec == LeaseInit /\ [][LeaseNext]_leaseVars

-----------------------------------------------------------------------------
(* Properties *)

(* Each way out of a call gives its lease back: a lease that has not run out is
   held by an execution that is at its call, unless its release failed or its
   process died. *)
LeaseOnlyInUse ==
    \A k \in Providers : \A i \in SlotsOf(k) :
        LET l == lease[k][i]
        IN  l.left > 0 /\ l.owner # Nobody /\ ~l.forgotten =>
                /\ call[l.owner].kind = k
                /\ call[l.owner].at \notin {"idle", "asking", "dead"}

(* No execution has two slots of a provider, not even when it left one behind:
   a release looks for one slot only. *)
OneSlotPerOwner ==
    \A k \in Providers, c \in Callers :
        \A i, j \in SlotsOf(k) : lease[k][i].owner = c /\ lease[k][j].owner = c => i = j

(* Both: no slot of a provider is taken from it by a call that has ended, was
   refused or asked twice, whatever reads and writes of others came between. *)
LeasesExact == LeaseOnlyInUse /\ OneSlotPerOwner

(* Two calls, of any two processes, are admitted the gap apart, less the time an
   admission may take from reading the clock to its commit. *)
SpacedByGap ==
    [][\A c \in Callers :
           call[c].at = "asking" /\ call'[c].at = "admitted"
               => quiet[call[c].kind] >= Gap[call[c].kind] - Delay]_leaseVars
=============================================================================
